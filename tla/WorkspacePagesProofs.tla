------------------------- MODULE WorkspacePagesProofs -------------------------
(***************************************************************************)
(* The invariants of the way into the application, of the pages of an      *)
(* organization, of the frame around a project and of its lists (accounts, *)
(* contracts, alert rules and the builder of a rule), the proofs that they *)
(* hold when a page is opened and that every step of it keeps them, and    *)
(* the theorems about the specification of all these pages.                *)
(***************************************************************************)
EXTENDS MCWorkspacePages, TLAPS, FiniteSetTheorems

-----------------------------------------------------------------------------
(* The way into the application *)

SignInFields ==
    /\ page.at = "signin"
    /\ DOMAIN page = {"at", "route", "auth", "next", "busy", "oauth", "preview", "entering", "accepted", "calls"}
    /\ DOMAIN db = {"account", "mine", "session", "invite", "member", "asking", "claiming", "crossed", "unclaimed",
                    "removed", "refused"}
AuthCalls == \A r \in wire : DOMAIN r = {"op", "for", "out", "status"}

\* Who was told of being a member was one at that time.
Welcomed ==
    \/ page.route = "organization" \/ page.accepted
    \/ \E r \in wire : r.op = "accept" /\ r.status \in {"ok", "conflict"}
WelcomedIsMember == Welcomed => db.member \/ db.removed

SignInInv == SignInFields /\ AuthCalls /\ WelcomedIsMember /\ NothingUnclaimed

\* The invariant holds when the page is mounted.
LEMMA SignInStart == SignInInit => SignInInv
<1> SUFFICES ASSUME SignInInit PROVE SignInInv
  OBVIOUS
<1>1. PICK route \in {"signin", "signup", "invite", "app"} : page = SignInMounted(route) /\ wire = Loads(route)
  BY DEF SignInInit, Routes
<1>2. PICK account, mine, session, asking \in BOOLEAN :
        db = [account |-> account, mine |-> mine, session |-> session, invite |-> "none", member |-> FALSE,
              asking |-> asking, claiming |-> FALSE, crossed |-> FALSE, unclaimed |-> FALSE, removed |-> FALSE,
              refused |-> FALSE]
  BY DEF SignInInit
<1>3. SignInFields
  BY <1>1, <1>2 DEF SignInFields, SignInMounted
<1>4. AuthCalls /\ \A r \in wire : r.op # "accept"
  BY <1>1 DEF Loads, AuthCall, AuthCalls
<1>5. WelcomedIsMember
  BY <1>1, <1>4 DEF SignInMounted, WelcomedIsMember, Welcomed
<1>6. NothingUnclaimed
  BY <1>2 DEF NothingUnclaimed
<1> QED BY <1>3, <1>4, <1>5, <1>6 DEF SignInInv

\* Who is welcomed is a member, and no invitation is left behind unclaimed.
LEMMA SignInHolds == SignInInv => EntersAsMember /\ NothingUnclaimed
BY DEF SignInInv, WelcomedIsMember, Welcomed, EntersAsMember

\* Every step of the way in keeps the invariant: what is shown, asked and
\* claimed belongs to the session there is.
LEMMA SignInStep ==
  ASSUME SignInInv, SignInNext
  PROVE  SignInInv'
<1>1. ASSUME Submit PROVE SignInInv'
  BY <1>1 DEF Submit, Call, AuthCall, None, SignInInv, SignInFields, AuthCalls, WelcomedIsMember,
    Welcomed, NothingUnclaimed
<1>2. ASSUME StartOAuth PROVE SignInInv'
  BY <1>2 DEF StartOAuth, Call, AuthCall, None, SignInInv, SignInFields, AuthCalls,
    WelcomedIsMember, Welcomed, NothingUnclaimed
<1>3. ASSUME Logout PROVE SignInInv'
  BY <1>3 DEF Logout, Call, AuthCall, None, SignInInv, SignInFields, AuthCalls, WelcomedIsMember,
    Welcomed, NothingUnclaimed
<1>4. ASSUME OpenInvitation PROVE SignInInv'
  BY <1>4 DEF OpenInvitation, SignInMounted, Loads, None, AuthCall, SignInInv, SignInFields,
    AuthCalls, WelcomedIsMember, Welcomed, NothingUnclaimed
<1>5. ASSUME Enter PROVE SignInInv'
  BY <1>5 DEF Enter, Call, AuthCall, None, SignInInv, SignInFields, AuthCalls, WelcomedIsMember,
    Welcomed, NothingUnclaimed
<1>6. ASSUME GoIn PROVE SignInInv'
  BY <1>6 DEF GoIn, Show, SignInInv, SignInFields, AuthCalls, WelcomedIsMember, Welcomed,
    NothingUnclaimed
<1>7. ASSUME NEW route \in {"signin", "signup"}, LeaveForForm(route) PROVE SignInInv'
  BY <1>7 DEF LeaveForForm, None, Show, SignInInv, SignInFields, AuthCalls, WelcomedIsMember,
    Welcomed, NothingUnclaimed
<1>8. ASSUME InviteAccount PROVE SignInInv'
  BY <1>8 DEF InviteAccount, SignInInv, SignInFields, AuthCalls, WelcomedIsMember, Welcomed,
    NothingUnclaimed
<1>9. ASSUME InviteAsks PROVE SignInInv'
  BY <1>9 DEF InviteAsks, SignInInv, SignInFields, AuthCalls, WelcomedIsMember, Welcomed,
    NothingUnclaimed
<1>10. ASSUME InviteWrites PROVE SignInInv'
  BY <1>10 DEF InviteWrites, SignInInv, SignInFields, AuthCalls, WelcomedIsMember, Welcomed,
    NothingUnclaimed
<1>11. ASSUME RevokeInvite PROVE SignInInv'
  BY <1>11 DEF RevokeInvite, SignInInv, SignInFields, AuthCalls, WelcomedIsMember, Welcomed,
    NothingUnclaimed
<1>12. ASSUME RemoveAccount PROVE SignInInv'
  BY <1>12 DEF RemoveAccount, SignInInv, SignInFields, AuthCalls, WelcomedIsMember, Welcomed,
    NothingUnclaimed
<1>13. ASSUME NEW r \in wire, ServeLogin(r) PROVE SignInInv'
  BY <1>13 DEF ServeLogin, Answer, SignInInv, SignInFields, AuthCalls, WelcomedIsMember,
    Welcomed, NothingUnclaimed
<1>14. ASSUME NEW r \in wire, ServeSignUp(r) PROVE SignInInv'
  <2>1. SignInFields'
    BY <1>14 DEF ServeSignUp, Answer, SignInFields, AuthCalls, SignInInv
  <2>2. AuthCalls'
    <3>1. wire' = wire \/ \E status : Answer(r, status)
      BY <1>14 DEF ServeSignUp
    <3>2. CASE wire' = wire
      BY <3>2 DEF SignInInv, AuthCalls
    <3>3. CASE \E status : Answer(r, status)
      BY <3>3 DEF SignInInv, AuthCalls, Answer
    <3> QED BY <3>1, <3>2, <3>3
  <2>3. WelcomedIsMember'
    <3>1. /\ page' = page /\ db'.member = db.member /\ db'.removed = db.removed
          /\ wire' = wire \/ Answer(r, "ok")
      BY <1>14 DEF ServeSignUp, SignInInv, SignInFields
    <3>2. r.op # "accept"
      BY <1>14 DEF ServeSignUp
    <3>3. \A q \in wire' : q.op = "accept" => q \in wire
      BY <3>1, <3>2 DEF Answer, SignInInv, AuthCalls
    <3> QED BY <3>1, <3>3 DEF SignInInv, WelcomedIsMember, Welcomed
  <2>4. NothingUnclaimed'
    BY <1>14 DEF ServeSignUp, Answer, SignInFields, AuthCalls, SignInInv, NothingUnclaimed
  <2> QED BY <2>1, <2>2, <2>3, <2>4 DEF SignInInv
<1>15. ASSUME NEW r \in wire, ServeAccept(r) PROVE SignInInv'
  BY <1>15 DEF ServeAccept, Accepts409, Answer, SignInInv, SignInFields, AuthCalls,
    WelcomedIsMember, Welcomed, NothingUnclaimed
<1>16. ASSUME NEW r \in wire, NEW b \in BOOLEAN, Claim(r, b) PROVE SignInInv'
  BY <1>16 DEF Claim, Answer, SignInInv, SignInFields, AuthCalls, WelcomedIsMember, Welcomed,
    NothingUnclaimed
<1>17. ASSUME NEW r \in wire, NEW b \in BOOLEAN, MeArrives(r, b) PROVE SignInInv'
  BY <1>17 DEF MeArrives, None, Then, Guarded, SignInInv, SignInFields, AuthCalls,
    WelcomedIsMember, Welcomed, NothingUnclaimed
<1>18. ASSUME NEW r \in wire, NEW b \in BOOLEAN, LoggedOut(r, b) PROVE SignInInv'
  BY <1>18 DEF LoggedOut, Then, Guarded, SignInInv, SignInFields, AuthCalls, WelcomedIsMember,
    Welcomed, NothingUnclaimed
<1>19. ASSUME NEW r \in wire, NEW b \in BOOLEAN, SignedUp(r, b) PROVE SignInInv'
  BY <1>19 DEF SignedUp, Then, AuthCall, None, SignInInv, SignInFields, AuthCalls,
    WelcomedIsMember, Welcomed, NothingUnclaimed
<1>20. ASSUME NEW r \in wire, NEW b \in BOOLEAN, LoginArrives(r, b) PROVE SignInInv'
  <2>1. SignInFields'
    BY <1>20 DEF LoginArrives, Then, AuthCall, LoginFails, None, SignInFields, AuthCalls,
      SignInInv
  <2>2. AuthCalls'
    BY <1>20 DEF LoginArrives, Then, AuthCall, LoginFails, None, SignInFields, AuthCalls,
      SignInInv
  <2>3. WelcomedIsMember'
    <3>1. CASE b
      BY <1>20, <3>1 DEF LoginArrives, Then, AuthCall, LoginFails, None, SignInFields, AuthCalls,
        SignInInv, WelcomedIsMember, Welcomed
    <3>2. CASE ~b
      BY <1>20, <3>2 DEF LoginArrives, Then, AuthCall, LoginFails, None, SignInFields, AuthCalls,
        SignInInv, WelcomedIsMember, Welcomed
    <3> QED BY <3>1, <3>2
  <2>4. NothingUnclaimed'
    BY <1>20 DEF LoginArrives, Then, AuthCall, LoginFails, None, SignInFields, AuthCalls,
      SignInInv, NothingUnclaimed
  <2> QED BY <2>1, <2>2, <2>3, <2>4 DEF SignInInv
<1>21. ASSUME NEW r \in wire, NEW b \in BOOLEAN, LoginLoads(r, b) PROVE SignInInv'
  BY <1>21 DEF LoginLoads, None, Then, LoginFails, SignInInv, SignInFields, AuthCalls,
    WelcomedIsMember, Welcomed, NothingUnclaimed
<1>22. ASSUME NEW r \in wire, NEW b \in BOOLEAN, OAuthReturns(r, b) PROVE SignInInv'
  BY <1>22 DEF OAuthReturns, SignInMounted, Loads, Then, None, AuthCall, SignInInv, SignInFields,
    AuthCalls, WelcomedIsMember, Welcomed, NothingUnclaimed
<1>23. ASSUME NEW r \in wire, NEW b \in BOOLEAN, PreviewArrives(r, b) PROVE SignInInv'
  BY <1>23 DEF PreviewArrives, Then, SignInInv, SignInFields, AuthCalls, WelcomedIsMember,
    Welcomed, NothingUnclaimed
<1>24. ASSUME NEW r \in wire, NEW b \in BOOLEAN, Accepted(r, b) PROVE SignInInv'
  BY <1>24 DEF Accepted, Then, SignInInv, SignInFields, AuthCalls, WelcomedIsMember, Welcomed,
    NothingUnclaimed
<1> QED
  BY <1>1, <1>2, <1>3, <1>4, <1>5, <1>6, <1>7, <1>8, <1>9, <1>10, <1>11, <1>12, <1>13, <1>14,
    <1>15, <1>16, <1>17, <1>18, <1>19, <1>20, <1>21, <1>22, <1>23, <1>24 DEF SignInNext

-----------------------------------------------------------------------------
(* The pages around an organization's projects *)

OrgProjectsFields ==
    /\ page.at \in {"orgprojects", "orglist", "orgcreate"}
    /\ DOMAIN page = {"at", "rows", "loading", "stale", "modal", "busy", "menu", "search", "found", "switcher",
                      "memory", "opened", "crossed", "left", "calls"}
    /\ DOMAIN db = {"projects"}
OrgCalls == \A r \in wire : DOMAIN r = {"op", "n", "out", "rows", "made"}

ChoiceIsRemembered == page.opened # {} => page.memory = page.opened \/ page.crossed

\* The button stays busy as long as an organization is being created.
OneCreation ==
    /\ \A r \in wire : r.op = "organization" => page.at = "orgcreate" /\ page.busy
    /\ \A r, q \in wire : r.op = "organization" /\ q.op = "organization" => r = q

\* The list is read before anything can be created, and once.
ListIsFirst ==
    \A r \in wire :
      /\ r.op = "list" => page.at = "orgprojects" /\ page.loading /\ (r.out = "ok" => r.rows = db.projects)
      /\ r.op = "list" => \A q \in wire : q.op = "list" => q = r
      /\ r.op = "project" => page.at = "orgprojects" /\ ~page.loading
CreatesOne ==
    \A r \in wire : r.op = "project" => /\ r.out # "ok" => r.made = {}
                                        /\ \A p, q \in r.made : p = q

\* A project of the organization is on display or in an answer under way.
Arriving(p) == \E r \in wire : r.op = "project" /\ r.out = "ok" /\ p \in r.made
ProjectsFollow == page.at = "orgprojects" =>
    page.loading \/ page.stale \/ page.left \/ \A p : p \in db.projects <=> p \in page.rows \/ Arriving(p)

OrgProjectsInv ==
    /\ OrgProjectsFields /\ OrgCalls /\ ChoiceIsRemembered /\ OneCreation
    /\ ListIsFirst /\ CreatesOne /\ ProjectsFollow

\* What the server makes of a call: one project more, or no change of its data.
OrgAnswer(r, s) ==
    /\ wire' = (wire \ {r}) \cup {s} /\ page' = page /\ s.op = r.op /\ s.out = "ok" /\ r.out = "sent"
    /\ DOMAIN s = DOMAIN r
    /\ DOMAIN db' = DOMAIN db
    /\ \/ r.op # "project" /\ db' = db /\ s.made = r.made /\ (r.op = "list" => s.rows = db.projects)
       \/ r.op = "project" /\ \E p : db'.projects = db.projects \cup {p} /\ s.made = {p}

\* What the server does with a call of these pages is one of its answers.
LEMMA OrgCallServed ==
  ASSUME OrgProjectsInv, NEW r \in wire, ServeOrgCall(r)
  PROVE  \E s : OrgAnswer(r, s)
<1> USE DEF OrgProjectsInv, OrgCalls, OrgProjectsFields
<1>1. CASE r.op \in {"list", "search"}
  <2> DEFINE s == [r EXCEPT !.out = "ok", !.rows = db.projects]
  <2>1. s.op = r.op /\ s.out = "ok" /\ s.made = r.made /\ s.rows = db.projects /\ DOMAIN s = DOMAIN r
    OBVIOUS
  <2>2. page' = page /\ wire' = (wire \ {r}) \cup {s} /\ db' = db /\ r.out = "sent"
    BY <1>1 DEF ServeOrgCall
  <2>3. OrgAnswer(r, s)
    BY <1>1, <2>1, <2>2 DEF OrgAnswer
  <2> QED BY <2>3
<1>2. CASE r.op = "organization"
  <2> DEFINE s == [r EXCEPT !.out = "ok"]
  <2>1. s.op = r.op /\ s.out = "ok" /\ s.made = r.made /\ DOMAIN s = DOMAIN r
    OBVIOUS
  <2>2. page' = page /\ wire' = (wire \ {r}) \cup {s} /\ db' = db /\ r.out = "sent"
    BY <1>2 DEF ServeOrgCall
  <2>3. OrgAnswer(r, s)
    BY <1>2, <2>1, <2>2 DEF OrgAnswer
  <2> QED BY <2>3
<1>3. CASE r.op = "project"
  <2>1. PICK p \in Projects \ db.projects :
          /\ db' = [db EXCEPT !.projects = @ \cup {p}]
          /\ wire' = (wire \ {r}) \cup {[r EXCEPT !.out = "ok", !.made = {p}]}
    BY <1>3 DEF ServeOrgCall
  <2> DEFINE s == [r EXCEPT !.out = "ok", !.made = {p}]
  <2>2. s.op = r.op /\ s.out = "ok" /\ s.made = {p} /\ DOMAIN s = DOMAIN r
    OBVIOUS
  <2>3. page' = page /\ r.out = "sent"
    BY DEF ServeOrgCall
  <2>4. db'.projects = db.projects \cup {p} /\ DOMAIN db' = DOMAIN db
    BY <2>1
  <2>5. OrgAnswer(r, s)
    BY <1>3, <2>1, <2>2, <2>3, <2>4 DEF OrgAnswer
  <2> QED BY <2>5
<1> QED BY <1>1, <1>2, <1>3 DEF ServeOrgCall

\* The invariant holds when one of the pages is mounted.
LEMMA OrgProjectsStart == OrgProjectsInit => OrgProjectsInv
<1> SUFFICES ASSUME OrgProjectsInit PROVE OrgProjectsInv
  OBVIOUS
<1>1. PICK at \in {"orgprojects", "orglist", "orgcreate"}, new \in BOOLEAN :
        page = OrgMounted(at, new) /\ \A r \in wire : \E op \in {"list", "mine"} : r = OrgCall(op)
  BY DEF OrgProjectsInit
<1>2. DOMAIN db = {"projects"}
  BY DEF OrgProjectsInit
<1>3. OrgProjectsFields
  BY <1>1, <1>2 DEF OrgProjectsFields, OrgMounted
<1>4. page.opened = {} /\ page.loading
  BY <1>1 DEF OrgMounted
<1>5. OrgCalls /\ \A r \in wire : r.op \in {"list", "mine"} /\ r.out # "ok"
  BY <1>1 DEF OrgCall, OrgCalls
<1>6. \A r, q \in wire : r.op = "list" /\ q.op = "list" => r = q
  BY DEF OrgProjectsInit, OrgCall
<1>7. \A r \in wire : r.op = "list" => page.at = "orgprojects"
  BY DEF OrgProjectsInit, OrgMounted, OrgCall
<1>8. ListIsFirst
  BY <1>4, <1>5, <1>6, <1>7 DEF ListIsFirst
<1>9. OneCreation /\ CreatesOne
  BY <1>5 DEF OneCreation, CreatesOne
<1> QED
  BY <1>3, <1>4, <1>5, <1>8, <1>9 DEF OrgProjectsInv, ChoiceIsRemembered, ProjectsFollow

\* The invariant says what the runs ask of these pages.
LEMMA OrgProjectsHold == OrgProjectsInv => OpensWhatItRemembers /\ ProjectsAgree /\ OneOrganization
<1> SUFFICES ASSUME OrgProjectsInv PROVE OpensWhatItRemembers /\ ProjectsAgree /\ OneOrganization
  OBVIOUS
<1>1. OpensWhatItRemembers
  BY DEF OrgProjectsInv, ChoiceIsRemembered, OpensWhatItRemembers
<1>2. ProjectsAgree
  <2> SUFFICES ASSUME page.at = "orgprojects", ~(page.loading \/ page.stale \/ page.left), ~InFlight(OrgWrites)
               PROVE page.rows = db.projects
    BY DEF ProjectsAgree
  <2>1. \A p : ~Arriving(p)
    BY DEF Arriving, InFlight, OrgWrites
  <2> QED BY <2>1 DEF OrgProjectsInv, ProjectsFollow
<1>3. OneOrganization
  <2> DEFINE O == {r \in wire : r.op = "organization"}
  <2> SUFFICES ASSUME page.at = "orgcreate" PROVE Cardinality(O) <= (IF page.busy THEN 1 ELSE 0)
    BY DEF OneOrganization
  <2>1. CASE O = {}
    BY <2>1, FS_EmptySet
  <2>2. CASE O # {}
    <3>1. PICK r \in O : TRUE
      BY <2>2
    <3>2. O = {r} /\ page.busy
      BY <3>1 DEF OrgProjectsInv, OneCreation
    <3>3. Cardinality({r}) = 1
      BY FS_Singleton
    <3> QED BY <3>2, <3>3
  <2> QED BY <2>1, <2>2
<1> QED BY <1>1, <1>2, <1>3

\* Every step keeps the invariant, however the list, the searches and the
\* creations are answered.
LEMMA OrgProjectsStep ==
  ASSUME OrgProjectsInv, OrgProjectsNext
  PROVE  OrgProjectsInv'
<1>1. ASSUME NEW p \in page.rows, OpenProjectMenu(p) PROVE OrgProjectsInv'
  BY <1>1 DEF OpenProjectMenu, Listed, Show, OnProjects, OrgProjectsInv, OrgProjectsFields,
    OrgCalls, ChoiceIsRemembered, OneCreation, ListIsFirst, CreatesOne, ProjectsFollow, Arriving
<1>2. ASSUME NEW p \in page.rows, OpenProject(p) PROVE OrgProjectsInv'
  BY <1>2 DEF OpenProject, Listed, Show, Opens, OnProjects, OrgProjectsInv, OrgProjectsFields,
    OrgCalls, ChoiceIsRemembered, OneCreation, ListIsFirst, CreatesOne, ProjectsFollow, Arriving
<1>3. ASSUME CloseProjectMenu PROVE OrgProjectsInv'
  BY <1>3 DEF CloseProjectMenu, OnProjects, Show, OrgProjectsInv, OrgProjectsFields, OrgCalls,
    ChoiceIsRemembered, OneCreation, ListIsFirst, CreatesOne, ProjectsFollow, Arriving
<1>4. ASSUME OpenSearch PROVE OrgProjectsInv'
  BY <1>4 DEF OpenSearch, OnProjects, Call, OrgCall, OrgProjectsInv, OrgProjectsFields, OrgCalls,
    ChoiceIsRemembered, OneCreation, ListIsFirst, CreatesOne, ProjectsFollow, Arriving
<1>5. ASSUME CloseSearch(page) PROVE OrgProjectsInv'
  BY <1>5 DEF CloseSearch, OnProjects, Forget, OrgProjectsInv, OrgProjectsFields, OrgCalls,
    ChoiceIsRemembered, OneCreation, ListIsFirst, CreatesOne, ProjectsFollow, Arriving
<1>6. ASSUME FollowSearch PROVE OrgProjectsInv'
  <2>1. PICK n : /\ page' = [n EXCEPT !.search = "closed"] /\ wire' \subseteq wire /\ db' = db
                 /\ n = GoesElsewhere(page) \/ \E q : n = Opens(page, q)
    BY <1>6 DEF FollowSearch, CloseSearch, Forget
  <2>2. /\ page'.at = page.at /\ page'.loading = page.loading /\ page'.stale = page.stale /\ page'.rows = page.rows
        /\ page'.left = page.left /\ page'.busy = page.busy /\ DOMAIN page' = DOMAIN page
        /\ page'.opened = {} \/ page'.memory = page'.opened
    <3>1. CASE n = GoesElsewhere(page)
      BY <2>1, <3>1 DEF GoesElsewhere, OrgProjectsInv, OrgProjectsFields
    <3>2. CASE \E q : n = Opens(page, q)
      BY <2>1, <3>2 DEF Opens, OrgProjectsInv, OrgProjectsFields
    <3> QED BY <2>1, <3>1, <3>2
  <2>3. \A q \in wire : q.op # "search" => q \in wire'
    BY <1>6 DEF FollowSearch, CloseSearch, Forget
  <2>4. OrgProjectsFields'
    BY <2>1, <2>2 DEF OrgProjectsInv, OrgProjectsFields
  <2>5. OrgCalls'
    BY <2>1 DEF OrgProjectsInv, OrgCalls
  <2>6. ChoiceIsRemembered'
    BY <2>2 DEF ChoiceIsRemembered
  <2>7. OneCreation'
    BY <2>1, <2>2 DEF OrgProjectsInv, OneCreation
  <2>8. ListIsFirst'
    BY <2>1, <2>2 DEF OrgProjectsInv, ListIsFirst
  <2>9. CreatesOne'
    BY <2>1 DEF OrgProjectsInv, CreatesOne
  <2>10. ProjectsFollow'
    <3>1. \A p : Arriving(p)' <=> Arriving(p)
      BY <2>1, <2>3 DEF Arriving
    <3> QED BY <2>1, <2>2, <3>1 DEF OrgProjectsInv, ProjectsFollow
  <2> QED BY <2>4, <2>5, <2>6, <2>7, <2>8, <2>9, <2>10 DEF OrgProjectsInv
<1>7. ASSUME OpenSwitcher PROVE OrgProjectsInv'
  BY <1>7 DEF OpenSwitcher, OnProjects, Call, OrgCall, OrgProjectsInv, OrgProjectsFields,
    OrgCalls, ChoiceIsRemembered, OneCreation, ListIsFirst, CreatesOne, ProjectsFollow, Arriving
<1>8. ASSUME CloseSwitcher(page) PROVE OrgProjectsInv'
  BY <1>8 DEF CloseSwitcher, OnProjects, Forget, OrgProjectsInv, OrgProjectsFields, OrgCalls,
    ChoiceIsRemembered, OneCreation, ListIsFirst, CreatesOne, ProjectsFollow, Arriving
<1>9. ASSUME GoElsewhere PROVE OrgProjectsInv'
  <2>1. OrgProjectsFields'
    BY <1>9 DEF GoElsewhere, OnProjects, Show, GoesElsewhere, CloseSwitcher, Forget,
      OrgProjectsFields, OrgCalls, OrgProjectsInv
  <2>2. OrgCalls'
    BY <1>9 DEF GoElsewhere, OnProjects, Show, GoesElsewhere, CloseSwitcher, Forget,
      OrgProjectsFields, OrgCalls, OrgProjectsInv
  <2>3. ChoiceIsRemembered'
    BY <1>9 DEF GoElsewhere, OnProjects, Show, GoesElsewhere, CloseSwitcher, Forget,
      OrgProjectsFields, OrgCalls, OrgProjectsInv, ChoiceIsRemembered
  <2>4. OneCreation'
    BY <1>9 DEF GoElsewhere, OnProjects, Show, GoesElsewhere, CloseSwitcher, Forget,
      OrgProjectsFields, OrgCalls, OrgProjectsInv, OneCreation
  <2>5. ListIsFirst'
    <3>1. page'.at = page.at /\ page'.loading = page.loading /\ wire' \subseteq wire /\ db' = db
      BY <1>9 DEF GoElsewhere, Show, GoesElsewhere, CloseSwitcher, Forget, OrgProjectsInv, OrgProjectsFields
    <3> QED BY <3>1 DEF OrgProjectsInv, ListIsFirst
  <2>6. CreatesOne'
    BY <1>9 DEF GoElsewhere, OnProjects, Show, GoesElsewhere, CloseSwitcher, Forget,
      OrgProjectsFields, OrgCalls, OrgProjectsInv, CreatesOne
  <2>7. ProjectsFollow'
    <3>1. /\ page'.at = page.at /\ page'.loading = page.loading /\ page'.rows = page.rows /\ page'.stale = page.stale
          /\ page.at = "orgprojects" /\ page.left => page'.left
      BY <1>9 DEF GoElsewhere, OnProjects, Show, GoesElsewhere, CloseSwitcher, OrgProjectsInv, OrgProjectsFields
    <3>2. db' = db /\ wire' \subseteq wire /\ \A q \in wire : q.op = "project" => q \in wire'
      BY <1>9 DEF GoElsewhere, Show, CloseSwitcher, Forget
    <3>3. \A p : Arriving(p)' <=> Arriving(p)
      BY <3>2 DEF Arriving
    <3> QED BY <3>1, <3>2, <3>3 DEF OrgProjectsInv, ProjectsFollow
  <2> QED BY <2>1, <2>2, <2>3, <2>4, <2>5, <2>6, <2>7 DEF OrgProjectsInv
<1>10. ASSUME OpenCreate PROVE OrgProjectsInv'
  BY <1>10 DEF OpenCreate, Listed, Show, OnProjects, OrgProjectsInv, OrgProjectsFields, OrgCalls,
    ChoiceIsRemembered, OneCreation, ListIsFirst, CreatesOne, ProjectsFollow, Arriving
<1>11. ASSUME CloseCreate PROVE OrgProjectsInv'
  BY <1>11 DEF CloseCreate, OnProjects, Show, OrgProjectsInv, OrgProjectsFields, OrgCalls,
    ChoiceIsRemembered, OneCreation, ListIsFirst, CreatesOne, ProjectsFollow, Arriving
<1>12. ASSUME Create PROVE OrgProjectsInv'
  <2>1. OrgProjectsFields'
    BY <1>12 DEF Create, OnProjects, Call, OrgCall, OrgProjectsFields, OrgCalls, OrgProjectsInv
  <2>2. OrgCalls'
    BY <1>12 DEF Create, OnProjects, Call, OrgCall, OrgProjectsFields, OrgCalls, OrgProjectsInv
  <2>3. ChoiceIsRemembered'
    BY <1>12 DEF Create, OnProjects, Call, OrgCall, OrgProjectsFields, OrgCalls, OrgProjectsInv,
      ChoiceIsRemembered
  <2>4. OneCreation'
    BY <1>12 DEF Create, OnProjects, Call, OrgCall, OrgProjectsFields, OrgCalls, OrgProjectsInv,
      OneCreation
  <2>5. ListIsFirst'
    BY <1>12 DEF Create, OnProjects, Call, OrgCall, OrgProjectsFields, OrgCalls, OrgProjectsInv,
      ListIsFirst
  <2>6. CreatesOne'
    BY <1>12 DEF Create, OnProjects, Call, OrgCall, OrgProjectsFields, OrgCalls, OrgProjectsInv,
      CreatesOne
  <2>7. ProjectsFollow'
    BY <1>12 DEF Create, OnProjects, Call, OrgCall, OrgProjectsFields, OrgCalls, OrgProjectsInv,
      ProjectsFollow, Arriving
  <2> QED BY <2>1, <2>2, <2>3, <2>4, <2>5, <2>6, <2>7 DEF OrgProjectsInv
<1>13. ASSUME LeaveProjects PROVE OrgProjectsInv'
  BY <1>13 DEF LeaveProjects, OnProjects, OrgProjectsInv, OrgProjectsFields, OrgCalls,
    ChoiceIsRemembered, OneCreation, ListIsFirst, CreatesOne, ProjectsFollow, Arriving
<1>14. ASSUME NEW r \in wire, ServeOrgCall(r) PROVE OrgProjectsInv'
  <2>1. OrgProjectsFields'
    BY <1>14 DEF ServeOrgCall, OrgProjectsFields, OrgCalls, OrgProjectsInv
  <2>2. OrgCalls'
    <3>1. PICK s : OrgAnswer(r, s)
      BY <1>14, OrgCallServed
    <3> USE DEF OrgAnswer
    <3> QED BY <3>1 DEF OrgProjectsInv, OrgCalls
  <2>3. ChoiceIsRemembered'
    BY <1>14 DEF ServeOrgCall, OrgProjectsFields, OrgCalls, OrgProjectsInv, ChoiceIsRemembered
  <2>4. OneCreation'
    <3>1. PICK s : OrgAnswer(r, s)
      BY <1>14, OrgCallServed
    <3> USE DEF OrgAnswer
    <3> QED BY <3>1 DEF OrgProjectsInv, OneCreation
  <2>5. ListIsFirst'
    <3>1. PICK s : OrgAnswer(r, s)
      BY <1>14, OrgCallServed
    <3> USE DEF OrgAnswer
    <3>2. CASE r.op # "project"
      BY <3>1, <3>2 DEF OrgProjectsInv, ListIsFirst
    <3>3. CASE r.op = "project"
      <4>1. \A q \in wire' : q.op = "list" => q \in wire
        BY <3>1, <3>3
      <4>2. ~page.loading
        BY <3>3 DEF OrgProjectsInv, ListIsFirst
      <4> QED BY <3>1, <3>3, <4>1, <4>2 DEF OrgProjectsInv, ListIsFirst
    <3> QED BY <3>2, <3>3
  <2>6. CreatesOne'
    <3>1. PICK s : OrgAnswer(r, s)
      BY <1>14, OrgCallServed
    <3> USE DEF OrgAnswer
    <3> QED BY <3>1 DEF OrgProjectsInv, CreatesOne
  <2>7. ProjectsFollow'
    <3>1. PICK s : OrgAnswer(r, s)
      BY <1>14, OrgCallServed
    <3> USE DEF OrgAnswer
    <3> SUFFICES ASSUME page.at = "orgprojects", ~(page.loading \/ page.stale \/ page.left), NEW p
                 PROVE  p \in db'.projects <=> p \in page.rows \/ Arriving(p)'
      BY <3>1 DEF ProjectsFollow
    <3>2. p \in db.projects <=> p \in page.rows \/ Arriving(p)
      BY DEF OrgProjectsInv, ProjectsFollow
    <3>3. Arriving(p)' <=> Arriving(p) \/ (r.op = "project" /\ p \in s.made)
      BY <3>1 DEF Arriving
    <3> QED BY <3>1, <3>2, <3>3
  <2> QED BY <2>1, <2>2, <2>3, <2>4, <2>5, <2>6, <2>7 DEF OrgProjectsInv
<1>15. ASSUME NEW r \in wire, ServeMine(r) PROVE OrgProjectsInv'
  BY <1>15 DEF ServeMine, OrgProjectsInv, OrgProjectsFields, OrgCalls, ChoiceIsRemembered,
    OneCreation, ListIsFirst, CreatesOne, ProjectsFollow, Arriving
<1>16. ASSUME NEW r \in wire, NEW heard \in BOOLEAN, ProjectListArrives(r, heard) PROVE OrgProjectsInv'
  <2>1. OrgProjectsFields'
    BY <1>16 DEF ProjectListArrives, Then, Remembers, OrgProjectsFields, OrgCalls, OrgProjectsInv
  <2>2. OrgCalls'
    BY <1>16 DEF ProjectListArrives, Then, Remembers, OrgProjectsFields, OrgCalls, OrgProjectsInv
  <2>3. ChoiceIsRemembered'
    BY <1>16 DEF ProjectListArrives, Then, Remembers, OrgProjectsFields, OrgCalls,
      OrgProjectsInv, ChoiceIsRemembered
  <2>4. OneCreation'
    <3>1. page'.at = page.at /\ page'.busy = page.busy /\ wire' \subseteq wire
      BY <1>16 DEF ProjectListArrives, Then, Remembers, OrgProjectsInv, OrgProjectsFields
    <3> QED BY <3>1 DEF OrgProjectsInv, OneCreation
  <2>5. ListIsFirst'
    <3>1. /\ r.op = "list" /\ wire' = wire \ {r} /\ db' = db
          /\ ~page'.loading /\ page'.at = page.at
          /\ heard => page'.rows = r.rows
          /\ ~heard => page'.stale
      BY <1>16 DEF ProjectListArrives, Then, Remembers, OrgProjectsInv, OrgProjectsFields
    <3> QED BY <3>1 DEF OrgProjectsInv, ListIsFirst
  <2>6. CreatesOne'
    BY <1>16 DEF ProjectListArrives, Then, Remembers, OrgProjectsFields, OrgCalls,
      OrgProjectsInv, CreatesOne
  <2>7. ProjectsFollow'
    <3>1. /\ r.op = "list" /\ wire' = wire \ {r} /\ db' = db
          /\ ~page'.loading /\ page'.at = page.at
          /\ heard => page'.rows = r.rows
          /\ ~heard => page'.stale
      BY <1>16 DEF ProjectListArrives, Then, Remembers, OrgProjectsInv, OrgProjectsFields
    <3>2. heard => page'.rows = db'.projects
      BY <1>16, <3>1 DEF ProjectListArrives, OrgProjectsInv, ListIsFirst
    <3>3. \A p : ~Arriving(p)'
      BY <3>1 DEF Arriving, OrgProjectsInv, ListIsFirst
    <3> QED BY <3>1, <3>2, <3>3 DEF ProjectsFollow
  <2> QED BY <2>1, <2>2, <2>3, <2>4, <2>5, <2>6, <2>7 DEF OrgProjectsInv
<1>17. ASSUME NEW r \in wire, NEW heard \in BOOLEAN, SearchArrives(r, heard) PROVE OrgProjectsInv'
  BY <1>17 DEF SearchArrives, Then, OrgProjectsInv, OrgProjectsFields, OrgCalls,
    ChoiceIsRemembered, OneCreation, ListIsFirst, CreatesOne, ProjectsFollow, Arriving
<1>18. ASSUME NEW r \in wire, NEW heard \in BOOLEAN, OrganizationsArrive(r, heard) PROVE OrgProjectsInv'
  <2>1. OrgProjectsFields'
    BY <1>18 DEF OrganizationsArrive, Then, OrgProjectsFields, OrgCalls, OrgProjectsInv
  <2>2. OrgCalls'
    BY <1>18 DEF OrganizationsArrive, Then, OrgProjectsFields, OrgCalls, OrgProjectsInv
  <2>3. ChoiceIsRemembered'
    BY <1>18 DEF OrganizationsArrive, Then, OrgProjectsFields, OrgCalls, OrgProjectsInv,
      ChoiceIsRemembered
  <2>4. OneCreation'
    BY <1>18 DEF OrganizationsArrive, Then, OrgProjectsFields, OrgCalls, OrgProjectsInv,
      OneCreation
  <2>5. ListIsFirst'
    <3>1. /\ r.op = "mine" /\ wire' = wire \ {r} /\ db' = db
          /\ page'.at = page.at /\ page'.loading = (page.loading /\ page.at # "orglist")
      BY <1>18 DEF OrganizationsArrive, Then, OrgProjectsInv, OrgProjectsFields
    <3> QED BY <3>1 DEF OrgProjectsInv, ListIsFirst
  <2>6. CreatesOne'
    BY <1>18 DEF OrganizationsArrive, Then, OrgProjectsFields, OrgCalls, OrgProjectsInv,
      CreatesOne
  <2>7. ProjectsFollow'
    BY <1>18 DEF OrganizationsArrive, Then, OrgProjectsFields, OrgCalls, OrgProjectsInv,
      ProjectsFollow, Arriving
  <2> QED BY <2>1, <2>2, <2>3, <2>4, <2>5, <2>6, <2>7 DEF OrgProjectsInv
<1>19. ASSUME NEW r \in wire, NEW heard \in BOOLEAN, ProjectCreated(r, heard) PROVE OrgProjectsInv'
  <2>1. OrgProjectsFields'
    BY <1>19 DEF ProjectCreated, Then, Opens, OrgProjectsFields, OrgCalls, OrgProjectsInv
  <2>2. OrgCalls'
    BY <1>19 DEF ProjectCreated, Then, Opens, OrgProjectsFields, OrgCalls, OrgProjectsInv
  <2>3. ChoiceIsRemembered'
    <3>1. CASE heard
      <4>1. page'.memory = page'.opened
        BY <1>19, <3>1 DEF ProjectCreated, Then, Opens, OrgProjectsInv, OrgProjectsFields
      <4> QED BY <4>1 DEF ChoiceIsRemembered
    <3>2. CASE ~heard
      BY <1>19, <3>2 DEF ProjectCreated, Then, OrgProjectsInv, OrgProjectsFields, ChoiceIsRemembered
    <3> QED BY <3>1, <3>2
  <2>4. OneCreation'
    <3>1. r.op = "project" /\ wire' = wire \ {r}
      BY <1>19 DEF ProjectCreated, Then
    <3>2. page.at = "orgprojects"
      BY <3>1 DEF OrgProjectsInv, ListIsFirst
    <3> QED BY <3>1, <3>2 DEF OrgProjectsInv, OneCreation
  <2>5. ListIsFirst'
    <3>1. page'.at = page.at /\ page'.loading = page.loading /\ wire' \subseteq wire /\ db' = db
      BY <1>19 DEF ProjectCreated, Then, Opens, OrgProjectsInv, OrgProjectsFields
    <3> QED BY <3>1 DEF OrgProjectsInv, ListIsFirst
  <2>6. CreatesOne'
    BY <1>19 DEF ProjectCreated, Then, Opens, OrgProjectsFields, OrgCalls, OrgProjectsInv,
      CreatesOne
  <2>7. ProjectsFollow'
    <3>1. r.op = "project" /\ wire' = wire \ {r} /\ db' = db /\ page'.left = page.left /\ page'.loading = page.loading
      BY <1>19 DEF ProjectCreated, Then, Opens, OrgProjectsInv, OrgProjectsFields
    <3>2. \A p : Arriving(p) <=> Arriving(p)' \/ (r.out = "ok" /\ p \in r.made)
      BY <3>1 DEF Arriving
    <3>3. CASE heard
      <4>1. PICK p \in r.made : page'.rows = page.rows \cup {p} /\ page'.stale = page.stale /\ page'.at = page.at
        BY <1>19, <3>3 DEF ProjectCreated, Then, Opens, OrgProjectsInv, OrgProjectsFields
      <4>2. r.out = "ok" /\ r.made = {p}
        BY <1>19, <3>1, <3>3 DEF ProjectCreated, OrgProjectsInv, CreatesOne
      <4> QED BY <3>1, <3>2, <4>1, <4>2 DEF OrgProjectsInv, ProjectsFollow
    <3>4. CASE ~heard
      <4>1. page'.rows = page.rows /\ page'.stale = (page.stale \/ r.out = "ok") /\ page'.at = page.at
        BY <1>19, <3>4 DEF ProjectCreated, Then, OrgProjectsInv, OrgProjectsFields
      <4> QED BY <3>1, <3>2, <4>1 DEF OrgProjectsInv, ProjectsFollow
    <3> QED BY <3>3, <3>4
  <2> QED BY <2>1, <2>2, <2>3, <2>4, <2>5, <2>6, <2>7 DEF OrgProjectsInv
<1>20. ASSUME NEW r \in wire, NEW heard \in BOOLEAN, OrganizationCreated(r, heard) PROVE OrgProjectsInv'
  BY <1>20 DEF OrganizationCreated, Then, OrgProjectsInv, OrgProjectsFields, OrgCalls,
    ChoiceIsRemembered, OneCreation, ListIsFirst, CreatesOne, ProjectsFollow, Arriving
<1> QED
  BY <1>1, <1>2, <1>3, <1>4, <1>5, <1>6, <1>7, <1>8, <1>9, <1>10, <1>11, <1>12, <1>13, <1>14,
    <1>15, <1>16, <1>17, <1>18, <1>19, <1>20 DEF OrgProjectsNext

-----------------------------------------------------------------------------
(* The settings of an organization *)

SettingsFields ==
    /\ page.at = "orgsettings"
    /\ DOMAIN page = {"at", "shell", "header", "cached", "saved", "tokens", "stale", "unsure", "secret", "confirm",
                      "busy", "calls"}
    /\ DOMAIN db = {"there", "name", "owner", "tokens"}
SettingCalls == \A r \in wire : DOMAIN r = {"op", "n", "out", "name", "token", "rows", "secret", "old"}

\* The organization is read once, before anything can be renamed.
NameIsFirst ==
    /\ \A r \in wire : r.op = "org" => page.shell = "loading" /\ ~r.old /\ (r.out = "ok" => r.name = db.name)
    /\ \A r, q \in wire : r.op = "org" /\ q.op = "org" => r = q
    /\ page.saved \/ page.confirm \/ (\E r \in wire : r.op \in {"rename", "delete"}) => page.shell # "loading"

\* The renaming that was decided last, if it has not been answered, has the name.
LastRenaming == \A r \in wire : r.op = "rename" /\ r.out = "ok" /\ ~r.old => r.name = db.name
HeaderFollows ==
    \/ page.shell # "shown" \/ page.unsure
    \/ \E r \in wire : r.op = "rename" /\ r.out = "ok"
    \/ page.header = db.name /\ (page.saved => page.cached \in {None, db.name})

TokenRows == db.tokens \subseteq Token /\ page.tokens \subseteq Token /\ \A r \in wire : r.rows \subseteq Token

\* The rows that the answers under way will mark.
RevokedIds == {r.token : r \in {q \in wire : q.op = "revoke" /\ q.out = "ok"}}
Mark(t, I) == [t EXCEPT !.revoked = @ \/ t.id \in I]
MarkAll(T, I) == {Mark(t, I) : t \in T}
Held(id) == \E t \in db.tokens : t.id = id

\* What an answer says of the tokens is so, unless it is marked.
TokenAnswers ==
    /\ \A r \in wire : r.op = "tokens" /\ r.out = "ok" /\ ~r.old => r.rows = db.tokens
    /\ \A id \in RevokedIds : Held(id) /\ \A t \in db.tokens : t.id = id => t.revoked
TokensFollow ==
    \/ page.stale \/ \E r \in wire : r.op = "create" /\ r.out = "ok"
    \/ MarkAll(page.tokens, RevokedIds) = db.tokens
SecretsAreHeld == /\ \A id \in page.secret : Held(id)
                  /\ \A r \in wire : \A id \in r.secret : Held(id)

OrgSettingsInv ==
    /\ SettingsFields /\ SettingCalls /\ NameIsFirst /\ LastRenaming /\ HeaderFollows
    /\ TokenRows /\ TokenAnswers /\ TokensFollow /\ SecretsAreHeld

\* Marking twice, and marking what is marked.
LEMMA MarkOf ==
  ASSUME NEW t \in Token, NEW I
  PROVE  /\ Mark(t, I) \in Token /\ Mark(t, I).id = t.id
         /\ Mark(t, I).revoked <=> t.revoked \/ t.id \in I
         /\ (t.id \in I => t.revoked) => Mark(t, I) = t
BY DEF Token, Mark

\* Revoking these and then those is revoking both.
LEMMA MarkTwice ==
  ASSUME NEW T \in SUBSET Token, NEW I, NEW J
  PROVE  MarkAll(MarkAll(T, I), J) = MarkAll(T, I \cup J)
<1>1. \A t \in T : Mark(Mark(t, I), J) = Mark(t, I \cup J)
  BY DEF Token, Mark
<1>2. MarkAll(MarkAll(T, I), J) = {Mark(Mark(t, I), J) : t \in T}
  BY DEF MarkAll
<1> QED BY <1>1, <1>2 DEF MarkAll

\* Revoking what is revoked changes nothing.
LEMMA MarkMarked ==
  ASSUME NEW T \in SUBSET Token, NEW I, \A t \in T : t.id \in I => t.revoked
  PROVE  MarkAll(T, I) = T
<1>1. \A t \in T : Mark(t, I) = t
  BY MarkOf
<1> QED BY <1>1 DEF MarkAll

\* Revoking keeps the tokens, and what was revoked.
LEMMA MarkKeeps ==
  ASSUME NEW T \in SUBSET Token, NEW I
  PROVE  /\ MarkAll(T, I) \in SUBSET Token
         /\ \A id : (\E t \in T : t.id = id) <=> \E t \in MarkAll(T, I) : t.id = id
         /\ \A t \in MarkAll(T, I) : t.id \in I => t.revoked
         /\ \A id : (\A t \in T : t.id = id => t.revoked) => \A t \in MarkAll(T, I) : t.id = id => t.revoked
<1>1. \A t \in T : Mark(t, I) \in Token /\ Mark(t, I).id = t.id /\ (Mark(t, I).revoked <=> t.revoked \/ t.id \in I)
  BY MarkOf
<1> QED BY <1>1 DEF MarkAll

\* The handler's way of revoking one token is this one.
LEMMA MarkOne ==
  ASSUME NEW T, NEW id
  PROVE  MarkRevoked(T, id) = MarkAll(T, {id})
BY DEF MarkRevoked, MarkAll, Mark

\* What the server makes of a call r: an answer s, and a mark on the answers
\* under way to the calls ops, because ...
SettingAnswer(r, s, ops) ==
    /\ page' = page /\ r.out = "sent" /\ s \in wire'
    /\ s.op = r.op /\ s.out = "ok" /\ s.old = r.old /\ s.token = r.token /\ DOMAIN s = DOMAIN r
    /\ \A q \in wire' : q = s \/ \E o \in wire \ {r} :
         /\ q.op = o.op /\ q.out = o.out /\ q.name = o.name /\ q.token = o.token /\ q.rows = o.rows /\ q.secret = o.secret
         /\ DOMAIN q = DOMAIN o /\ (IF o.op \in ops /\ o.out = "ok" THEN q.old ELSE q = o)
    /\ \A o \in wire \ {r} : \E q \in wire' : q.op = o.op /\ q.out = o.out /\ q.token = o.token

\* ... the data have changed, or not.
SettingChange(r, s, ops) ==
    /\ DOMAIN db' = DOMAIN db
    /\ \/ /\ r.op \in {"org", "tokens"} /\ ops = {} /\ db' = db
          /\ s.name = db.name /\ s.rows = db.tokens /\ s.secret = r.secret
       \/ /\ r.op = "rename" /\ ops = {"org", "rename"} /\ db'.name = r.name /\ db'.tokens = db.tokens
          /\ s.name = r.name /\ s.rows = r.rows /\ s.secret = r.secret
       \/ /\ r.op = "create" /\ ops = {"tokens"} /\ db'.name = db.name /\ s.rows = r.rows
          /\ \E id \in Tokens : ~Held(id) /\ s.secret = {id} /\ db'.tokens = db.tokens \cup {[id |-> id, revoked |-> FALSE]}
       \/ /\ r.op = "revoke" /\ ops = {"tokens"} /\ db'.name = db.name /\ s.rows = r.rows /\ s.secret = r.secret
          /\ Held(r.token) /\ db'.tokens = MarkAll(db.tokens, {r.token})
       \/ /\ r.op = "delete" /\ ops = {} /\ db'.name = db.name /\ db'.tokens = db.tokens
          /\ s.rows = r.rows /\ s.secret = r.secret

\* What a call that changes something leaves on the wire: its answer, and the
\* answers that were given before, which are old now.
LEMMA SettingMarks ==
  ASSUME SettingCalls, NEW r \in wire, NEW s, NEW ops, wire' = SettingsOutdated(wire \ {r}, ops) \cup {s},
         page' = page, r.out = "sent", s.op = r.op, s.out = "ok", s.old = r.old, s.token = r.token, DOMAIN s = DOMAIN r
  PROVE  SettingAnswer(r, s, ops)
<1> DEFINE old(o) == IF o.op \in ops /\ o.out = "ok" THEN [o EXCEPT !.old = TRUE] ELSE o
<1>1. ASSUME NEW o \in wire
      PROVE  /\ old(o).op = o.op /\ old(o).out = o.out /\ old(o).name = o.name /\ old(o).token = o.token
             /\ old(o).rows = o.rows /\ old(o).secret = o.secret /\ DOMAIN old(o) = DOMAIN o
             /\ IF o.op \in ops /\ o.out = "ok" THEN old(o).old ELSE old(o) = o
  BY DEF SettingCalls
<1>2. wire' = {old(o) : o \in wire \ {r}} \cup {s}
  BY DEF SettingsOutdated
<1> HIDE DEF old
<1>3. s \in wire' /\ \A q \in wire' : q = s \/ \E o \in wire \ {r} : q = old(o)
  BY <1>2
<1>4. \A o \in wire \ {r} : old(o) \in wire'
  BY <1>2
<1>5. \A o \in wire \ {r} : \E q \in wire' : q.op = o.op /\ q.out = o.out /\ q.token = o.token
  BY <1>1, <1>4
<1>6. \A q \in wire' : q = s \/ \E o \in wire \ {r} :
         /\ q.op = o.op /\ q.out = o.out /\ q.name = o.name /\ q.token = o.token /\ q.rows = o.rows /\ q.secret = o.secret
         /\ DOMAIN q = DOMAIN o /\ (IF o.op \in ops /\ o.out = "ok" THEN q.old ELSE q = o)
  BY <1>1, <1>3
<1> QED BY <1>3, <1>5, <1>6 DEF SettingAnswer

\* What is no answer about the tokens leaves them as they are.
LEMMA TokensUntouched ==
  ASSUME TokenAnswers, TokensFollow, db' = db, page'.tokens = page.tokens, page.stale => page'.stale,
         \A q : q.op \in {"create", "revoke", "tokens"} /\ q.out = "ok" => (q \in wire' <=> q \in wire)
  PROVE  TokenAnswers' /\ TokensFollow'
<1>1. RevokedIds' = RevokedIds
  BY DEF RevokedIds
<1> QED BY <1>1 DEF TokenAnswers, TokensFollow, Held

\* What the server does with a call of the settings is an answer and its change.
LEMMA SettingsServed ==
  ASSUME OrgSettingsInv, NEW r \in wire, ServeSettings(r)
  PROVE  \E s, ops : SettingAnswer(r, s, ops) /\ SettingChange(r, s, ops)
<1> USE DEF OrgSettingsInv, SettingCalls, SettingsFields
<1>1. page' = page /\ r.out = "sent"
  BY DEF ServeSettings
<1>2. wire \ {r} = SettingsOutdated(wire \ {r}, {})
  BY DEF SettingsOutdated
<1>3. CASE r.op \in {"org", "tokens"}
  <2> DEFINE s == [r EXCEPT !.out = "ok", !.name = db.name, !.rows = db.tokens]
  <2>1. /\ s.op = r.op /\ s.out = "ok" /\ s.old = r.old /\ s.token = r.token /\ DOMAIN s = DOMAIN r
        /\ s.name = db.name /\ s.rows = db.tokens /\ s.secret = r.secret
    OBVIOUS
  <2>2. wire' = (wire \ {r}) \cup {s} /\ db' = db
    BY <1>3 DEF ServeSettings
  <2> HIDE DEF s
  <2>3. SettingAnswer(r, s, {})
    BY <1>1, <1>2, <2>1, <2>2, SettingMarks
  <2>4. SettingChange(r, s, {})
    BY <1>3, <2>1, <2>2 DEF SettingChange
  <2> QED BY <2>3, <2>4
<1>4. CASE r.op = "rename"
  <2> DEFINE s == [r EXCEPT !.out = "ok"]
  <2>1. /\ s.op = r.op /\ s.out = "ok" /\ s.old = r.old /\ s.token = r.token /\ DOMAIN s = DOMAIN r
        /\ s.name = r.name /\ s.rows = r.rows /\ s.secret = r.secret
    OBVIOUS
  <2>2. wire' = SettingsOutdated(wire \ {r}, {"org", "rename"}) \cup {s} /\ db' = [db EXCEPT !.name = r.name]
    BY <1>4 DEF ServeSettings
  <2> HIDE DEF s
  <2>3. SettingAnswer(r, s, {"org", "rename"})
    BY <1>1, <2>1, <2>2, SettingMarks
  <2>4. SettingChange(r, s, {"org", "rename"})
    BY <1>4, <2>1, <2>2 DEF SettingChange
  <2> QED BY <2>3, <2>4
<1>5. CASE r.op = "create"
  <2>1. PICK id \in Tokens \ {t.id : t \in db.tokens} :
          /\ db' = [db EXCEPT !.tokens = @ \cup {[id |-> id, revoked |-> FALSE]}]
          /\ wire' = SettingsOutdated(wire \ {r}, {"tokens"}) \cup {[r EXCEPT !.out = "ok", !.secret = {id}]}
    BY <1>5 DEF ServeSettings
  <2> DEFINE s == [r EXCEPT !.out = "ok", !.secret = {id}]
  <2>2. /\ s.op = r.op /\ s.out = "ok" /\ s.old = r.old /\ s.token = r.token /\ DOMAIN s = DOMAIN r
        /\ s.rows = r.rows /\ s.secret = {id}
    OBVIOUS
  <2>3. wire' = SettingsOutdated(wire \ {r}, {"tokens"}) \cup {s}
    BY <2>1
  <2>4. /\ DOMAIN db' = DOMAIN db /\ db'.name = db.name
        /\ ~Held(id) /\ db'.tokens = db.tokens \cup {[id |-> id, revoked |-> FALSE]}
    BY <2>1 DEF Held
  <2> HIDE DEF s
  <2>5. SettingAnswer(r, s, {"tokens"})
    BY <1>1, <2>2, <2>3, SettingMarks
  <2>6. SettingChange(r, s, {"tokens"})
    BY <1>5, <2>2, <2>4 DEF SettingChange
  <2> QED BY <2>5, <2>6
<1>6. CASE r.op = "revoke"
  <2> DEFINE s == [r EXCEPT !.out = "ok"]
  <2>1. /\ s.op = r.op /\ s.out = "ok" /\ s.old = r.old /\ s.token = r.token /\ DOMAIN s = DOMAIN r
        /\ s.rows = r.rows /\ s.secret = r.secret
    OBVIOUS
  <2>2. /\ wire' = SettingsOutdated(wire \ {r}, {"tokens"}) \cup {s}
        /\ \E t \in db.tokens : t.id = r.token
        /\ db' = [db EXCEPT !.tokens = MarkRevoked(@, r.token)]
    BY <1>6 DEF ServeSettings, MarkRevoked
  <2>3. /\ DOMAIN db' = DOMAIN db /\ db'.name = db.name
        /\ Held(r.token) /\ db'.tokens = MarkAll(db.tokens, {r.token})
    BY <2>2, MarkOne DEF Held
  <2> HIDE DEF s
  <2>4. SettingAnswer(r, s, {"tokens"})
    BY <1>1, <2>1, <2>2, SettingMarks
  <2>5. SettingChange(r, s, {"tokens"})
    BY <1>6, <2>1, <2>3 DEF SettingChange
  <2> QED BY <2>4, <2>5
<1>7. CASE r.op = "delete"
  <2> DEFINE s == [r EXCEPT !.out = "ok"]
  <2>1. /\ s.op = r.op /\ s.out = "ok" /\ s.old = r.old /\ s.token = r.token /\ DOMAIN s = DOMAIN r
        /\ s.rows = r.rows /\ s.secret = r.secret
    OBVIOUS
  <2>2. wire' = (wire \ {r}) \cup {s} /\ db' = [db EXCEPT !.there = FALSE]
    BY <1>7 DEF ServeSettings
  <2> HIDE DEF s
  <2>3. SettingAnswer(r, s, {})
    BY <1>1, <1>2, <2>1, <2>2, SettingMarks
  <2>4. SettingChange(r, s, {})
    BY <1>7, <2>1, <2>2 DEF SettingChange
  <2> QED BY <2>3, <2>4
<1> QED BY <1>3, <1>4, <1>5, <1>6, <1>7 DEF ServeSettings

\* The invariant holds when the settings are mounted.
LEMMA OrgSettingsStart == OrgSettingsInit => OrgSettingsInv
<1> SUFFICES ASSUME OrgSettingsInit PROVE OrgSettingsInv
  OBVIOUS
<1>1. PICK cached : page = SettingsMounted(cached)
  BY DEF OrgSettingsInit
<1>2. wire = {SettingCall("org")}
  BY DEF OrgSettingsInit
<1>3. PICK name, owner : db = [there |-> TRUE, name |-> name, owner |-> owner, tokens |-> {}]
  BY DEF OrgSettingsInit
<1>4. /\ page.shell = "loading" /\ ~page.saved /\ ~page.confirm /\ page.stale /\ page.tokens = {} /\ page.secret = {}
      /\ page.at = "orgsettings"
  BY <1>1 DEF SettingsMounted
<1>5. SettingsFields
  BY <1>1, <1>3 DEF SettingsFields, SettingsMounted
<1>6. \A r \in wire : /\ r.op = "org" /\ r.out = "sent" /\ ~r.old /\ r.rows = {} /\ r.secret = {}
                      /\ DOMAIN r = {"op", "n", "out", "name", "token", "rows", "secret", "old"}
  BY <1>2 DEF SettingCall
<1>7. db.tokens = {}
  BY <1>3
<1>8. SettingCalls /\ LastRenaming /\ HeaderFollows /\ TokensFollow
  BY <1>4, <1>6 DEF SettingCalls, LastRenaming, HeaderFollows, TokensFollow
<1>9. NameIsFirst
  BY <1>2, <1>4, <1>6 DEF NameIsFirst
<1>10. TokenRows /\ SecretsAreHeld
  BY <1>4, <1>6, <1>7 DEF TokenRows, SecretsAreHeld
<1>11. TokenAnswers
  BY <1>6 DEF TokenAnswers, RevokedIds
<1> QED BY <1>5, <1>8, <1>9, <1>10, <1>11 DEF OrgSettingsInv

\* The invariant says what the runs ask of the settings.
LEMMA OrgSettingsHold == OrgSettingsInv => HeaderAgrees /\ TokensAgree
<1> SUFFICES ASSUME OrgSettingsInv PROVE HeaderAgrees /\ TokensAgree
  OBVIOUS
<1>1. HeaderAgrees
  BY DEF OrgSettingsInv, HeaderFollows, HeaderAgrees, InFlight
<1>2. ASSUME ~page.stale, ~InFlight({"create", "revoke"}) PROVE page.tokens = db.tokens
  <2>1. RevokedIds = {}
    BY <1>2 DEF RevokedIds, InFlight
  <2>2. MarkAll(page.tokens, {}) = db.tokens
    BY <1>2, <2>1 DEF OrgSettingsInv, TokensFollow, InFlight
  <2> QED BY <2>2, MarkMarked DEF OrgSettingsInv, TokenRows
<1>3. page.secret \subseteq {t.id : t \in db.tokens}
  BY DEF OrgSettingsInv, SecretsAreHeld, Held
<1> QED BY <1>1, <1>2, <1>3 DEF TokensAgree

\* Every step keeps the invariant, however the renamings, the token calls and
\* the lists of tokens are answered.
LEMMA OrgSettingsStep ==
  ASSUME OrgSettingsInv, OrgSettingsNext
  PROVE  OrgSettingsInv'
<1>1. ASSUME NEW name \in Names, SaveOrganization(name) PROVE OrgSettingsInv'
  <2>1. SettingsFields'
    BY <1>1 DEF SaveOrganization, InSettings, Call, SettingCall, None, SettingsFields,
      SettingCalls, OrgSettingsInv
  <2>2. SettingCalls'
    BY <1>1 DEF SaveOrganization, InSettings, Call, SettingCall, None, SettingsFields,
      SettingCalls, OrgSettingsInv
  <2>3. NameIsFirst'
    BY <1>1 DEF SaveOrganization, InSettings, Call, SettingCall, None, SettingsFields,
      SettingCalls, OrgSettingsInv, NameIsFirst
  <2>4. LastRenaming'
    BY <1>1 DEF SaveOrganization, InSettings, Call, SettingCall, None, SettingsFields,
      SettingCalls, OrgSettingsInv, LastRenaming
  <2>5. HeaderFollows'
    BY <1>1 DEF SaveOrganization, InSettings, Call, SettingCall, None, SettingsFields,
      SettingCalls, OrgSettingsInv, HeaderFollows
  <2>6. TokenRows'
    BY <1>1 DEF SaveOrganization, InSettings, Call, SettingCall, None, SettingsFields,
      SettingCalls, OrgSettingsInv, TokenRows, Token
  <2>7. TokenAnswers'
    <3>1. /\ db' = db /\ page'.tokens = page.tokens /\ page'.stale = page.stale
          /\ wire' = wire \cup {[SettingCall("rename") EXCEPT !.n = page.calls, !.name = name]}
      BY <1>1 DEF SaveOrganization, Call, InSettings, OrgSettingsInv, SettingsFields
    <3>2. [SettingCall("rename") EXCEPT !.n = page.calls, !.name = name].out = "sent"
      BY DEF SettingCall
    <3> QED BY <3>1, <3>2, TokensUntouched DEF OrgSettingsInv
  <2>8. TokensFollow'
    <3>1. /\ db' = db /\ page'.tokens = page.tokens /\ page'.stale = page.stale
          /\ wire' = wire \cup {[SettingCall("rename") EXCEPT !.n = page.calls, !.name = name]}
      BY <1>1 DEF SaveOrganization, Call, InSettings, OrgSettingsInv, SettingsFields
    <3>2. [SettingCall("rename") EXCEPT !.n = page.calls, !.name = name].out = "sent"
      BY DEF SettingCall
    <3> QED BY <3>1, <3>2, TokensUntouched DEF OrgSettingsInv
  <2>9. SecretsAreHeld'
    BY <1>1 DEF SaveOrganization, InSettings, Call, SettingCall, None, SettingsFields,
      SettingCalls, OrgSettingsInv, SecretsAreHeld, Held
  <2> QED BY <2>1, <2>2, <2>3, <2>4, <2>5, <2>6, <2>7, <2>8, <2>9 DEF OrgSettingsInv
<1>2. ASSUME CreateToken PROVE OrgSettingsInv'
  <2>1. SettingsFields'
    BY <1>2 DEF CreateToken, InSettings, Call, SettingCall, None, SettingsFields, SettingCalls,
      OrgSettingsInv
  <2>2. SettingCalls'
    BY <1>2 DEF CreateToken, InSettings, Call, SettingCall, None, SettingsFields, SettingCalls,
      OrgSettingsInv
  <2>3. NameIsFirst'
    BY <1>2 DEF CreateToken, InSettings, Call, SettingCall, None, SettingsFields, SettingCalls,
      OrgSettingsInv, NameIsFirst
  <2>4. LastRenaming'
    BY <1>2 DEF CreateToken, InSettings, Call, SettingCall, None, SettingsFields, SettingCalls,
      OrgSettingsInv, LastRenaming
  <2>5. HeaderFollows'
    BY <1>2 DEF CreateToken, InSettings, Call, SettingCall, None, SettingsFields, SettingCalls,
      OrgSettingsInv, HeaderFollows
  <2>6. TokenRows'
    BY <1>2 DEF CreateToken, InSettings, Call, SettingCall, None, SettingsFields, SettingCalls,
      OrgSettingsInv, TokenRows, Token
  <2>7. TokenAnswers'
    BY <1>2 DEF CreateToken, InSettings, Call, SettingCall, None, SettingsFields, SettingCalls,
      OrgSettingsInv, TokenAnswers, RevokedIds, Held
  <2>8. TokensFollow'
    BY <1>2 DEF CreateToken, InSettings, Call, SettingCall, None, SettingsFields, SettingCalls,
      OrgSettingsInv, TokensFollow, MarkAll, RevokedIds, Mark
  <2>9. SecretsAreHeld'
    BY <1>2 DEF CreateToken, InSettings, Call, SettingCall, None, SettingsFields, SettingCalls,
      OrgSettingsInv, SecretsAreHeld, Held
  <2> QED BY <2>1, <2>2, <2>3, <2>4, <2>5, <2>6, <2>7, <2>8, <2>9 DEF OrgSettingsInv
<1>3. ASSUME NEW t \in page.tokens, RevokeToken(t) PROVE OrgSettingsInv'
  BY <1>3 DEF RevokeToken, InSettings, Call, SettingCall, None, OrgSettingsInv, SettingsFields,
    SettingCalls, NameIsFirst, LastRenaming, HeaderFollows, TokenRows, Token, TokenAnswers,
    RevokedIds, Held, TokensFollow, MarkAll, Mark, SecretsAreHeld
<1>4. ASSUME AskDelete PROVE OrgSettingsInv'
  BY <1>4 DEF AskDelete, InSettings, Show, OrgSettingsInv, SettingsFields, SettingCalls,
    NameIsFirst, LastRenaming, HeaderFollows, None, TokenRows, Token, TokenAnswers, RevokedIds,
    Held, TokensFollow, MarkAll, Mark, SecretsAreHeld
<1>5. ASSUME CancelDelete PROVE OrgSettingsInv'
  BY <1>5 DEF CancelDelete, Show, OrgSettingsInv, SettingsFields, SettingCalls, NameIsFirst,
    LastRenaming, HeaderFollows, None, TokenRows, Token, TokenAnswers, RevokedIds, Held,
    TokensFollow, MarkAll, Mark, SecretsAreHeld
<1>6. ASSUME DeleteOrganization PROVE OrgSettingsInv'
  <2>1. SettingsFields'
    BY <1>6 DEF DeleteOrganization, Call, SettingCall, None, SettingsFields, SettingCalls,
      OrgSettingsInv
  <2>2. SettingCalls'
    BY <1>6 DEF DeleteOrganization, Call, SettingCall, None, SettingsFields, SettingCalls,
      OrgSettingsInv
  <2>3. NameIsFirst'
    BY <1>6 DEF DeleteOrganization, Call, SettingCall, None, SettingsFields, SettingCalls,
      OrgSettingsInv, NameIsFirst
  <2>4. LastRenaming'
    BY <1>6 DEF DeleteOrganization, Call, SettingCall, None, SettingsFields, SettingCalls,
      OrgSettingsInv, LastRenaming
  <2>5. HeaderFollows'
    BY <1>6 DEF DeleteOrganization, Call, SettingCall, None, SettingsFields, SettingCalls,
      OrgSettingsInv, HeaderFollows
  <2>6. TokenRows'
    BY <1>6 DEF DeleteOrganization, Call, SettingCall, None, SettingsFields, SettingCalls,
      OrgSettingsInv, TokenRows, Token
  <2>7. TokenAnswers'
    BY <1>6 DEF DeleteOrganization, Call, SettingCall, None, SettingsFields, SettingCalls,
      OrgSettingsInv, TokenAnswers, RevokedIds, Held
  <2>8. TokensFollow'
    BY <1>6 DEF DeleteOrganization, Call, SettingCall, None, SettingsFields, SettingCalls,
      OrgSettingsInv, TokensFollow, MarkAll, RevokedIds, Mark
  <2>9. SecretsAreHeld'
    BY <1>6 DEF DeleteOrganization, Call, SettingCall, None, SettingsFields, SettingCalls,
      OrgSettingsInv, SecretsAreHeld, Held
  <2> QED BY <2>1, <2>2, <2>3, <2>4, <2>5, <2>6, <2>7, <2>8, <2>9 DEF OrgSettingsInv
<1>7. ASSUME NEW r \in wire, ServeSettings(r) PROVE OrgSettingsInv'
  <2>1. PICK s, ops : SettingAnswer(r, s, ops) /\ SettingChange(r, s, ops)
    BY <1>7, SettingsServed
  <2> USE DEF SettingAnswer
  <2>2. SettingsFields'
    BY <2>1 DEF SettingChange, OrgSettingsInv, SettingsFields
  <2>3. SettingCalls'
    BY <2>1 DEF OrgSettingsInv, SettingCalls
  <2>4. NameIsFirst'
    <3>1. \A q \in wire' : q.op = "org" => q = s \/ (ops = {} /\ q \in wire \ {r}) \/ r.op \in {"rename", "create", "revoke"}
      BY <2>1 DEF SettingChange
    <3> QED BY <2>1 DEF SettingChange, OrgSettingsInv, NameIsFirst
  <2>5. LastRenaming'
    BY <2>1 DEF SettingChange, OrgSettingsInv, LastRenaming
  <2>6. HeaderFollows'
    <3>1. CASE \E q \in wire : q.op = "rename" /\ q.out = "ok"
      BY <2>1, <3>1 DEF HeaderFollows
    <3>2. CASE r.op = "rename"
      BY <2>1, <3>2 DEF HeaderFollows
    <3>3. CASE r.op # "rename" /\ ~\E q \in wire : q.op = "rename" /\ q.out = "ok"
      BY <2>1, <3>3 DEF SettingChange, OrgSettingsInv, HeaderFollows
    <3> QED BY <3>1, <3>2, <3>3
  <2> DEFINE T == MarkAll(db.tokens, {r.token})
  <2>7. /\ T \subseteq Token
        /\ \A id : Held(id) <=> \E t \in T : t.id = id
        /\ \A t \in T : t.id = r.token => t.revoked
        /\ \A id : (\A t \in db.tokens : t.id = id => t.revoked) => \A t \in T : t.id = id => t.revoked
    <3>1. db.tokens \in SUBSET Token
      BY DEF OrgSettingsInv, TokenRows
    <3> QED BY <3>1, MarkKeeps DEF Held
  <2>8. r.op = "revoke" => db'.tokens = T
    BY <2>1 DEF SettingChange
  <2> HIDE DEF T
  <2>9. ASSUME r.op # "revoke" PROVE \A t \in db.tokens : t \in db'.tokens
    BY <2>1, <2>9 DEF SettingChange
  <2>10. TokenRows'
    <3>1. db'.tokens \subseteq Token
      <4>1. CASE r.op = "revoke"
        BY <2>7, <2>8, <4>1
      <4>2. CASE r.op # "revoke"
        <5>1. ASSUME NEW id \in Tokens PROVE [id |-> id, revoked |-> FALSE] \in Token
          BY DEF Token
        <5> QED BY <2>1, <4>2, <5>1 DEF SettingChange, OrgSettingsInv, TokenRows
      <4> QED BY <4>1, <4>2
    <3>2. \A q \in wire' : q.rows \subseteq Token
      BY <2>1 DEF SettingChange, OrgSettingsInv, TokenRows
    <3> QED BY <2>1, <3>1, <3>2 DEF OrgSettingsInv, TokenRows
  <2>11. RevokedIds' = IF r.op = "revoke" THEN RevokedIds \cup {r.token} ELSE RevokedIds
    BY <2>1 DEF RevokedIds
  <2>12. \A id : Held(id) => Held(id)'
    BY <2>7, <2>8, <2>9 DEF Held
  <2>13. TokenAnswers'
    <3>1. \A q \in wire' : q.op = "tokens" /\ q.out = "ok" /\ ~q.old => q.rows = db'.tokens
      BY <2>1 DEF SettingChange, OrgSettingsInv, TokenAnswers
    <3>2. \A id \in RevokedIds' : Held(id)'
      BY <2>1, <2>11, <2>12 DEF SettingChange, OrgSettingsInv, TokenAnswers
    <3>3. ASSUME NEW id \in RevokedIds', NEW t \in db'.tokens, t.id = id PROVE t.revoked
      <4>1. CASE r.op = "revoke"
        BY <2>11, <2>7, <2>8, <3>3, <4>1 DEF OrgSettingsInv, TokenAnswers
      <4>2. CASE r.op = "create"
        BY <2>1, <2>11, <3>3, <4>2 DEF SettingChange, OrgSettingsInv, TokenAnswers, Held
      <4>3. CASE r.op \notin {"create", "revoke"}
        BY <2>1, <2>11, <3>3, <4>3 DEF SettingChange, OrgSettingsInv, TokenAnswers
      <4> QED BY <4>1, <4>2, <4>3
    <3> QED BY <3>1, <3>2, <3>3 DEF TokenAnswers
  <2>14. TokensFollow'
    <3>1. CASE page.stale \/ \E q \in wire' : q.op = "create" /\ q.out = "ok"
      BY <2>1, <3>1 DEF TokensFollow
    <3>2. CASE ~page.stale /\ ~\E q \in wire' : q.op = "create" /\ q.out = "ok"
      <4>1. MarkAll(page.tokens, RevokedIds) = db.tokens /\ r.op # "create"
        BY <2>1, <3>2 DEF OrgSettingsInv, TokensFollow
      <4>2. CASE r.op = "revoke"
        <5>1. MarkAll(page.tokens, RevokedIds \cup {r.token}) = MarkAll(db.tokens, {r.token})
          BY <4>1, MarkTwice DEF OrgSettingsInv, TokenRows
        <5> QED BY <2>1, <2>11, <4>2, <5>1 DEF SettingChange, TokensFollow
      <4>3. CASE r.op # "revoke"
        BY <2>1, <2>11, <4>1, <4>3 DEF SettingChange, TokensFollow
      <4> QED BY <4>2, <4>3
    <3> QED BY <3>1, <3>2
  <2>15. SecretsAreHeld'
    <3>1. \A id \in s.secret : Held(id)'
      <4>1. CASE r.op = "create"
        <5>1. PICK id \in Tokens : s.secret = {id} /\ db'.tokens = db.tokens \cup {[id |-> id, revoked |-> FALSE]}
          BY <2>1, <4>1 DEF SettingChange
        <5>2. [id |-> id, revoked |-> FALSE].id = id
          OBVIOUS
        <5> QED BY <5>1, <5>2 DEF Held
      <4>2. CASE r.op # "create"
        <5>1. s.secret = r.secret
          BY <2>1, <4>2 DEF SettingChange
        <5> QED BY <2>12, <5>1 DEF OrgSettingsInv, SecretsAreHeld
      <4> QED BY <4>1, <4>2
    <3>2. \A q \in wire' : q = s \/ \E o \in wire : q.secret = o.secret
      BY <2>1
    <3> QED BY <2>1, <2>12, <3>1, <3>2 DEF OrgSettingsInv, SecretsAreHeld
  <2> QED BY <2>2, <2>3, <2>4, <2>5, <2>6, <2>10, <2>13, <2>14, <2>15 DEF OrgSettingsInv
<1>8. ASSUME NEW r \in wire, NEW heard \in BOOLEAN, OrganizationArrives(r, heard) PROVE OrgSettingsInv'
  <2>1. SettingsFields'
    BY <1>8 DEF OrganizationArrives, Then, SettingCall, None, SettingsFields, SettingCalls,
      OrgSettingsInv
  <2>2. SettingCalls'
    BY <1>8 DEF OrganizationArrives, Then, SettingCall, None, SettingsFields, SettingCalls,
      OrgSettingsInv
  <2>3. NameIsFirst'
    <3>1. /\ db' = db /\ page'.tokens = page.tokens /\ page'.stale = page.stale /\ page'.secret = page.secret
          /\ page'.saved = page.saved /\ r.op = "org" /\ (heard => r.out = "ok")
          /\ page'.shell = IF heard THEN "shown" ELSE "failed"
          /\ heard => page'.header = r.name /\ page'.unsure = r.old
          /\ wire' = (wire \ {r}) \cup (IF heard THEN {SettingCall("tokens")} ELSE {})
      BY <1>8 DEF OrganizationArrives, Then, OrgSettingsInv, SettingsFields
    <3>2. LET t == SettingCall("tokens") IN t.op = "tokens" /\ t.out = "sent" /\ t.rows = {} /\ t.secret = {}
      BY DEF SettingCall
    <3> QED BY <3>1, <3>2 DEF OrgSettingsInv, NameIsFirst
  <2>4. LastRenaming'
    BY <1>8 DEF OrganizationArrives, Then, SettingCall, None, SettingsFields, SettingCalls,
      OrgSettingsInv, LastRenaming
  <2>5. HeaderFollows'
    <3>1. /\ db' = db /\ page'.tokens = page.tokens /\ page'.stale = page.stale /\ page'.secret = page.secret
          /\ page'.saved = page.saved /\ r.op = "org" /\ (heard => r.out = "ok")
          /\ page'.shell = IF heard THEN "shown" ELSE "failed"
          /\ heard => page'.header = r.name /\ page'.unsure = r.old
          /\ wire' = (wire \ {r}) \cup (IF heard THEN {SettingCall("tokens")} ELSE {})
      BY <1>8 DEF OrganizationArrives, Then, OrgSettingsInv, SettingsFields
    <3>2. LET t == SettingCall("tokens") IN t.op = "tokens" /\ t.out = "sent" /\ t.rows = {} /\ t.secret = {}
      BY DEF SettingCall
    <3> QED BY <3>1 DEF OrgSettingsInv, NameIsFirst, HeaderFollows
  <2>6. TokenRows'
    <3>1. /\ db' = db /\ page'.tokens = page.tokens /\ page'.stale = page.stale /\ page'.secret = page.secret
          /\ page'.saved = page.saved /\ r.op = "org" /\ (heard => r.out = "ok")
          /\ page'.shell = IF heard THEN "shown" ELSE "failed"
          /\ heard => page'.header = r.name /\ page'.unsure = r.old
          /\ wire' = (wire \ {r}) \cup (IF heard THEN {SettingCall("tokens")} ELSE {})
      BY <1>8 DEF OrganizationArrives, Then, OrgSettingsInv, SettingsFields
    <3>2. LET t == SettingCall("tokens") IN t.op = "tokens" /\ t.out = "sent" /\ t.rows = {} /\ t.secret = {}
      BY DEF SettingCall
    <3> QED BY <3>1, <3>2 DEF OrgSettingsInv, TokenRows
  <2>7. TokenAnswers'
    BY <1>8 DEF OrganizationArrives, Then, SettingCall, None, SettingsFields, SettingCalls,
      OrgSettingsInv, TokenAnswers, RevokedIds, Held
  <2>8. TokensFollow'
    <3>1. /\ db' = db /\ page'.tokens = page.tokens /\ page'.stale = page.stale /\ page'.secret = page.secret
          /\ page'.saved = page.saved /\ r.op = "org" /\ (heard => r.out = "ok")
          /\ page'.shell = IF heard THEN "shown" ELSE "failed"
          /\ heard => page'.header = r.name /\ page'.unsure = r.old
          /\ wire' = (wire \ {r}) \cup (IF heard THEN {SettingCall("tokens")} ELSE {})
      BY <1>8 DEF OrganizationArrives, Then, OrgSettingsInv, SettingsFields
    <3>2. LET t == SettingCall("tokens") IN t.op = "tokens" /\ t.out = "sent" /\ t.rows = {} /\ t.secret = {}
      BY DEF SettingCall
    <3> QED BY <3>1, <3>2, TokensUntouched DEF OrgSettingsInv
  <2>9. SecretsAreHeld'
    <3>1. /\ db' = db /\ page'.tokens = page.tokens /\ page'.stale = page.stale /\ page'.secret = page.secret
          /\ page'.saved = page.saved /\ r.op = "org" /\ (heard => r.out = "ok")
          /\ page'.shell = IF heard THEN "shown" ELSE "failed"
          /\ heard => page'.header = r.name /\ page'.unsure = r.old
          /\ wire' = (wire \ {r}) \cup (IF heard THEN {SettingCall("tokens")} ELSE {})
      BY <1>8 DEF OrganizationArrives, Then, OrgSettingsInv, SettingsFields
    <3>2. LET t == SettingCall("tokens") IN t.op = "tokens" /\ t.out = "sent" /\ t.rows = {} /\ t.secret = {}
      BY DEF SettingCall
    <3> QED BY <3>1, <3>2 DEF OrgSettingsInv, SecretsAreHeld, Held
  <2> QED BY <2>1, <2>2, <2>3, <2>4, <2>5, <2>6, <2>7, <2>8, <2>9 DEF OrgSettingsInv
<1>9. ASSUME NEW r \in wire, NEW heard \in BOOLEAN, OrganizationSaved(r, heard) PROVE OrgSettingsInv'
  <2>1. SettingsFields'
    BY <1>9 DEF OrganizationSaved, Then, Announce, Frees, None, SettingsFields, SettingCalls,
      OrgSettingsInv
  <2>2. SettingCalls'
    BY <1>9 DEF OrganizationSaved, Then, Announce, Frees, None, SettingsFields, SettingCalls,
      OrgSettingsInv
  <2>3. NameIsFirst'
    BY <1>9 DEF OrganizationSaved, Then, Announce, Frees, None, SettingsFields, SettingCalls,
      OrgSettingsInv, NameIsFirst
  <2>4. LastRenaming'
    BY <1>9 DEF OrganizationSaved, Then, Announce, Frees, None, SettingsFields, SettingCalls,
      OrgSettingsInv, LastRenaming
  <2>5. HeaderFollows'
    BY <1>9 DEF OrganizationSaved, Then, Announce, Frees, None, OrgSettingsInv, SettingsFields,
      SettingCalls, NameIsFirst, LastRenaming, HeaderFollows, TokenRows, Token, TokenAnswers,
      RevokedIds, Held, TokensFollow, MarkAll, Mark, SecretsAreHeld
  <2>6. TokenRows'
    BY <1>9 DEF OrganizationSaved, Then, Announce, Frees, None, SettingsFields, SettingCalls,
      OrgSettingsInv, TokenRows, Token
  <2>7. TokenAnswers'
    BY <1>9 DEF OrganizationSaved, Then, Announce, Frees, None, SettingsFields, SettingCalls,
      OrgSettingsInv, TokenAnswers, RevokedIds, Held
  <2>8. TokensFollow'
    BY <1>9 DEF OrganizationSaved, Then, Announce, Frees, None, SettingsFields, SettingCalls,
      OrgSettingsInv, TokensFollow, MarkAll, RevokedIds, Mark
  <2>9. SecretsAreHeld'
    BY <1>9 DEF OrganizationSaved, Then, Announce, Frees, None, SettingsFields, SettingCalls,
      OrgSettingsInv, SecretsAreHeld, Held
  <2> QED BY <2>1, <2>2, <2>3, <2>4, <2>5, <2>6, <2>7, <2>8, <2>9 DEF OrgSettingsInv
<1>10. ASSUME NEW r \in wire, NEW heard \in BOOLEAN, TokensArrive(r, heard) PROVE OrgSettingsInv'
  <2>1. SettingsFields'
    BY <1>10 DEF TokensArrive, Then, Frees, SettingsFields, SettingCalls, OrgSettingsInv
  <2>2. SettingCalls'
    BY <1>10 DEF TokensArrive, Then, Frees, SettingsFields, SettingCalls, OrgSettingsInv
  <2>3. NameIsFirst'
    BY <1>10 DEF TokensArrive, Then, Frees, SettingsFields, SettingCalls, OrgSettingsInv,
      NameIsFirst
  <2>4. LastRenaming'
    BY <1>10 DEF TokensArrive, Then, Frees, SettingsFields, SettingCalls, OrgSettingsInv,
      LastRenaming
  <2>5. HeaderFollows'
    BY <1>10 DEF TokensArrive, Then, Frees, SettingsFields, SettingCalls, OrgSettingsInv,
      HeaderFollows, None
  <2>6. TokenRows'
    BY <1>10 DEF TokensArrive, Then, Frees, SettingsFields, SettingCalls, OrgSettingsInv,
      TokenRows, Token
  <2>7. TokenAnswers'
    BY <1>10 DEF TokensArrive, Then, Frees, SettingsFields, SettingCalls, OrgSettingsInv,
      TokenAnswers, RevokedIds, Held
  <2>8. TokensFollow'
    <3>1. CASE heard
      BY <1>10, <3>1 DEF TokensArrive, Then, Frees, OrgSettingsInv, SettingsFields, SettingCalls,
        NameIsFirst, LastRenaming, HeaderFollows, None, TokenRows, Token, TokenAnswers,
        RevokedIds, Held, TokensFollow, MarkAll, Mark, SecretsAreHeld
    <3>2. CASE ~heard
      BY <1>10, <3>2 DEF TokensArrive, Then, Frees, OrgSettingsInv, SettingsFields, SettingCalls,
        NameIsFirst, LastRenaming, HeaderFollows, None, TokenRows, Token, TokenAnswers,
        RevokedIds, Held, TokensFollow, MarkAll, Mark, SecretsAreHeld
    <3> QED BY <3>1, <3>2
  <2>9. SecretsAreHeld'
    BY <1>10 DEF TokensArrive, Then, Frees, SettingsFields, SettingCalls, OrgSettingsInv,
      SecretsAreHeld, Held
  <2> QED BY <2>1, <2>2, <2>3, <2>4, <2>5, <2>6, <2>7, <2>8, <2>9 DEF OrgSettingsInv
<1>11. ASSUME NEW r \in wire, NEW heard \in BOOLEAN, TokenCreated(r, heard) PROVE OrgSettingsInv'
  <2>1. SettingsFields'
    BY <1>11 DEF TokenCreated, Then, SettingCall, Frees, None, SettingsFields, SettingCalls,
      OrgSettingsInv
  <2>2. SettingCalls'
    BY <1>11 DEF TokenCreated, Then, SettingCall, Frees, None, SettingsFields, SettingCalls,
      OrgSettingsInv
  <2>3. NameIsFirst'
    <3>1. /\ db' = db /\ page'.tokens = page.tokens /\ page'.shell = page.shell /\ page'.saved = page.saved
          /\ page'.confirm = page.confirm /\ r.op = "create"
          /\ page'.secret = (IF heard THEN r.secret ELSE page.secret)
          /\ page'.stale = (page.stale \/ heard \/ r.out = "ok")
          /\ wire' = (wire \ {r}) \cup (IF heard THEN {[SettingCall("tokens") EXCEPT !.n = 1]} ELSE {})
      BY <1>11 DEF TokenCreated, Then, Frees, OrgSettingsInv, SettingsFields
    <3>2. LET t == [SettingCall("tokens") EXCEPT !.n = 1] IN t.op = "tokens" /\ t.out = "sent" /\ t.rows = {} /\ t.secret = {}
      BY DEF SettingCall
    <3> QED BY <3>1, <3>2 DEF OrgSettingsInv, NameIsFirst
  <2>4. LastRenaming'
    BY <1>11 DEF TokenCreated, Then, SettingCall, Frees, None, SettingsFields, SettingCalls,
      OrgSettingsInv, LastRenaming
  <2>5. HeaderFollows'
    BY <1>11 DEF TokenCreated, Then, SettingCall, Frees, None, SettingsFields, SettingCalls,
      OrgSettingsInv, HeaderFollows
  <2>6. TokenRows'
    <3>1. /\ db' = db /\ page'.tokens = page.tokens /\ page'.shell = page.shell /\ page'.saved = page.saved
          /\ page'.confirm = page.confirm /\ r.op = "create"
          /\ page'.secret = (IF heard THEN r.secret ELSE page.secret)
          /\ page'.stale = (page.stale \/ heard \/ r.out = "ok")
          /\ wire' = (wire \ {r}) \cup (IF heard THEN {[SettingCall("tokens") EXCEPT !.n = 1]} ELSE {})
      BY <1>11 DEF TokenCreated, Then, Frees, OrgSettingsInv, SettingsFields
    <3>2. LET t == [SettingCall("tokens") EXCEPT !.n = 1] IN t.op = "tokens" /\ t.out = "sent" /\ t.rows = {} /\ t.secret = {}
      BY DEF SettingCall
    <3> QED BY <3>1, <3>2 DEF OrgSettingsInv, TokenRows
  <2>7. TokenAnswers'
    BY <1>11 DEF TokenCreated, Then, SettingCall, Frees, None, SettingsFields, SettingCalls,
      OrgSettingsInv, TokenAnswers, RevokedIds, Held
  <2>8. TokensFollow'
    <3>1. /\ db' = db /\ page'.tokens = page.tokens /\ page'.shell = page.shell /\ page'.saved = page.saved
          /\ page'.confirm = page.confirm /\ r.op = "create"
          /\ page'.secret = (IF heard THEN r.secret ELSE page.secret)
          /\ page'.stale = (page.stale \/ heard \/ r.out = "ok")
          /\ wire' = (wire \ {r}) \cup (IF heard THEN {[SettingCall("tokens") EXCEPT !.n = 1]} ELSE {})
      BY <1>11 DEF TokenCreated, Then, Frees, OrgSettingsInv, SettingsFields
    <3>2. LET t == [SettingCall("tokens") EXCEPT !.n = 1] IN t.op = "tokens" /\ t.out = "sent" /\ t.rows = {} /\ t.secret = {}
      BY DEF SettingCall
    <3>3. CASE page'.stale
      BY <3>3 DEF TokensFollow
    <3>4. CASE ~page'.stale
      BY <3>1, <3>2, <3>4, TokensUntouched DEF OrgSettingsInv
    <3> QED BY <3>3, <3>4
  <2>9. SecretsAreHeld'
    <3>1. /\ db' = db /\ page'.tokens = page.tokens /\ page'.shell = page.shell /\ page'.saved = page.saved
          /\ page'.confirm = page.confirm /\ r.op = "create"
          /\ page'.secret = (IF heard THEN r.secret ELSE page.secret)
          /\ page'.stale = (page.stale \/ heard \/ r.out = "ok")
          /\ wire' = (wire \ {r}) \cup (IF heard THEN {[SettingCall("tokens") EXCEPT !.n = 1]} ELSE {})
      BY <1>11 DEF TokenCreated, Then, Frees, OrgSettingsInv, SettingsFields
    <3>2. LET t == [SettingCall("tokens") EXCEPT !.n = 1] IN t.op = "tokens" /\ t.out = "sent" /\ t.rows = {} /\ t.secret = {}
      BY DEF SettingCall
    <3> QED BY <3>1, <3>2 DEF OrgSettingsInv, SecretsAreHeld, Held
  <2> QED BY <2>1, <2>2, <2>3, <2>4, <2>5, <2>6, <2>7, <2>8, <2>9 DEF OrgSettingsInv
<1>12. ASSUME NEW r \in wire, NEW heard \in BOOLEAN, TokenRevoked(r, heard) PROVE OrgSettingsInv'
  <2>1. SettingsFields'
    BY <1>12 DEF TokenRevoked, Then, Frees, MarkRevoked, SettingsFields, SettingCalls,
      OrgSettingsInv
  <2>2. SettingCalls'
    BY <1>12 DEF TokenRevoked, Then, Frees, MarkRevoked, SettingsFields, SettingCalls,
      OrgSettingsInv
  <2>3. NameIsFirst'
    BY <1>12 DEF TokenRevoked, Then, Frees, MarkRevoked, SettingsFields, SettingCalls,
      OrgSettingsInv, NameIsFirst
  <2>4. LastRenaming'
    BY <1>12 DEF TokenRevoked, Then, Frees, MarkRevoked, SettingsFields, SettingCalls,
      OrgSettingsInv, LastRenaming
  <2>5. HeaderFollows'
    BY <1>12 DEF TokenRevoked, Then, Frees, MarkRevoked, SettingsFields, SettingCalls,
      OrgSettingsInv, HeaderFollows, None
  <2>6. TokenRows'
    BY <1>12 DEF TokenRevoked, Then, Frees, MarkRevoked, SettingsFields, SettingCalls,
      OrgSettingsInv, TokenRows, Token
  <2>7. TokenAnswers'
    BY <1>12 DEF TokenRevoked, Then, Frees, MarkRevoked, SettingsFields, SettingCalls,
      OrgSettingsInv, TokenAnswers, RevokedIds, Held
  <2>8. TokensFollow'
    <3>1. r.op = "revoke" /\ wire' = wire \ {r} /\ db' = db
      BY <1>12 DEF TokenRevoked, Then
    <3>2. CASE heard
      <4>1. r.out = "ok" /\ page'.tokens = MarkAll(page.tokens, {r.token}) /\ page'.stale = (page.stale \/ r.old)
        BY <1>12, <3>2, MarkOne DEF TokenRevoked, Then, Frees, OrgSettingsInv, SettingsFields
      <4>2. RevokedIds = {r.token} \cup RevokedIds'
        BY <3>1, <4>1 DEF RevokedIds
      <4>3. MarkAll(page'.tokens, RevokedIds') = MarkAll(page.tokens, RevokedIds)
        BY <4>1, <4>2, MarkTwice DEF OrgSettingsInv, TokenRows
      <4> QED BY <3>1, <4>1, <4>3 DEF OrgSettingsInv, TokensFollow
    <3>3. CASE ~heard
      <4>1. page'.tokens = page.tokens /\ page'.stale = (page.stale \/ r.out = "ok")
        BY <1>12, <3>3 DEF TokenRevoked, Then, Frees, OrgSettingsInv, SettingsFields
      <4>2. CASE page'.stale
        BY <4>2 DEF TokensFollow
      <4>3. CASE ~page'.stale
        BY <3>1, <4>1, <4>3, TokensUntouched DEF OrgSettingsInv
      <4> QED BY <4>2, <4>3
    <3> QED BY <3>2, <3>3
  <2>9. SecretsAreHeld'
    BY <1>12 DEF TokenRevoked, Then, Frees, MarkRevoked, SettingsFields, SettingCalls,
      OrgSettingsInv, SecretsAreHeld, Held
  <2> QED BY <2>1, <2>2, <2>3, <2>4, <2>5, <2>6, <2>7, <2>8, <2>9 DEF OrgSettingsInv
<1>13. ASSUME NEW r \in wire, NEW heard \in BOOLEAN, OrganizationDeleted(r, heard) PROVE OrgSettingsInv'
  <2>1. SettingsFields'
    BY <1>13 DEF OrganizationDeleted, Then, Frees, SettingsFields, SettingCalls, OrgSettingsInv
  <2>2. SettingCalls'
    BY <1>13 DEF OrganizationDeleted, Then, Frees, SettingsFields, SettingCalls, OrgSettingsInv
  <2>3. NameIsFirst'
    BY <1>13 DEF OrganizationDeleted, Then, Frees, SettingsFields, SettingCalls, OrgSettingsInv,
      NameIsFirst
  <2>4. LastRenaming'
    BY <1>13 DEF OrganizationDeleted, Then, Frees, SettingsFields, SettingCalls, OrgSettingsInv,
      LastRenaming
  <2>5. HeaderFollows'
    BY <1>13 DEF OrganizationDeleted, Then, Frees, SettingsFields, SettingCalls, OrgSettingsInv,
      HeaderFollows, None
  <2>6. TokenRows'
    BY <1>13 DEF OrganizationDeleted, Then, Frees, SettingsFields, SettingCalls, OrgSettingsInv,
      TokenRows, Token
  <2>7. TokenAnswers'
    BY <1>13 DEF OrganizationDeleted, Then, Frees, SettingsFields, SettingCalls, OrgSettingsInv,
      TokenAnswers, RevokedIds, Held
  <2>8. TokensFollow'
    BY <1>13 DEF OrganizationDeleted, Then, Frees, SettingsFields, SettingCalls, OrgSettingsInv,
      TokensFollow, MarkAll, RevokedIds, Mark
  <2>9. SecretsAreHeld'
    BY <1>13 DEF OrganizationDeleted, Then, Frees, SettingsFields, SettingCalls, OrgSettingsInv,
      SecretsAreHeld, Held
  <2> QED BY <2>1, <2>2, <2>3, <2>4, <2>5, <2>6, <2>7, <2>8, <2>9 DEF OrgSettingsInv
<1> QED
  BY <1>1, <1>2, <1>3, <1>4, <1>5, <1>6, <1>7, <1>8, <1>9, <1>10, <1>11, <1>12,
    <1>13 DEF OrgSettingsNext

-----------------------------------------------------------------------------
(* The members of an organization *)

MembersFields ==
    /\ page.at = "members"
    /\ DOMAIN page = {"at", "owns", "members", "invited", "stale", "detail", "confirm", "asked", "editing", "inviting",
                      "busy", "calls"}
    /\ DOMAIN db = {"members", "invited"}
MemberCalls ==
    \A r \in wire :
      /\ DOMAIN r = {"op", "who", "rest", "out", "change", "row", "members", "invited", "got", "old"}
      /\ r.op = "all" \/ r.got = {}

MemberFields == {"id", "role", "status", "owner"}
AreMembers(M) == \A m \in M : DOMAIN m = MemberFields
MemberRows ==
    /\ AreMembers(db.members) /\ AreMembers(page.members)
    /\ \A r \in wire : AreMembers(r.members) /\ AreMembers(r.row)
OneOwner == \A m, n \in db.members : m.id = n.id \/ (m.owner /\ n.owner) => m = n

\* What was read, or answered, is so as long as it is not marked.
MembersRead ==
    \A r \in wire : ~r.old =>
      /\ "members" \in r.got => r.members = db.members
      /\ "invited" \in r.got => r.invited = db.invited
AnswerHolds(r) ==
    /\ r.op \in {"edit", "status"} => r.row = MemberOf(db.members, r.who)
    /\ r.op = "invite" /\ r.row # {} => r.row = MemberOf(db.members, r.who)
    /\ r.op = "remove" => MemberOf(db.members, r.who) = {}
    /\ r.op = "owner" => \A m \in db.members : m.owner = (m.id = r.who)
    /\ r.op = "revoke" => r.who \notin db.invited
MemberAnswers == \A r \in wire : r.out = "ok" /\ ~r.old => AnswerHolds(r)

\* The page does not show the stored role of who became the owner here, and
\* nothing of the change before the answer came.
OwnerIsTold == ~\E r \in wire : r.op = "owner" /\ r.out = "ok"
Alike(p, m) ==
    /\ p.id = m.id /\ p.status = m.status
    /\ p.role = m.role \/ (m.owner /\ m.id # Founder)
    /\ OwnerIsTold => p.owner = m.owner
Settled(i) ==
    /\ \A p \in MemberOf(page.members, i) : \E m \in MemberOf(db.members, i) : Alike(p, m)
    /\ \A m \in MemberOf(db.members, i) : \E p \in MemberOf(page.members, i) : Alike(p, m)

\* An answer to these changes puts the row of i right, an edit only if there is one.
Rights(r, i) ==
    /\ r.out = "ok" /\ r.who = i
    /\ \/ r.op \in {"remove", "invite"}
       \/ r.op \in {"edit", "status"} /\ MemberOf(page.members, i) # {}
Unsettles(r) == r.out = "ok" /\ r.op \in MemberWrites /\ (r.old \/ (r.op = "invite" /\ r.row = {}))
RowFollows(i) == Settled(i) \/ \E r \in wire : Rights(r, i)
InvitedFollows(i) ==
    \/ i \in page.invited <=> i \in db.invited
    \/ \E r \in wire : r.op = "revoke" /\ r.out = "ok" /\ r.who = i
MembersFollow ==
    \/ page.stale \/ \E r \in wire : Unsettles(r)
    \/ \A i : RowFollows(i) /\ InvitedFollows(i)

MembersInv ==
    /\ MembersFields /\ MemberCalls /\ MemberRows /\ OneOwner /\ AskedForThisOne
    /\ MembersRead /\ MemberAnswers /\ MembersFollow

\* The invariant holds when the list is mounted.
LEMMA MembersStart == MembersInit => MembersInv
<1> SUFFICES ASSUME MembersInit PROVE MembersInv
  OBVIOUS
<1>1. PICK owns : page = MembersMounted(owns)
  BY DEF MembersInit
<1>2. wire = {MemberList(<<>>)}
  BY DEF MembersInit
<1>3. PICK known \in SUBSET Registered :
        db = [members |-> [id: {Founder}, role: {"owner"}, status: {"active"}, owner: {TRUE}]
                           \cup [id: known, role: {"member"}, status: {"active"}, owner: {FALSE}], invited |-> {}]
  BY DEF MembersInit
<1>4. MembersFields
  BY <1>1, <1>3 DEF MembersFields, MembersMounted
<1>5. page.stale /\ page.members = {} /\ page.confirm = None
  BY <1>1 DEF MembersMounted
<1>6. \A r \in wire : /\ r.op = "all" /\ r.out = "sent" /\ r.members = {} /\ r.row = {} /\ r.got = {}
                      /\ DOMAIN r = {"op", "who", "rest", "out", "change", "row", "members", "invited", "got", "old"}
  BY <1>2 DEF MemberList, MemberCall
<1>7. AreMembers(db.members)
  BY <1>3 DEF AreMembers, MemberFields
<1>8. MemberRows
  BY <1>5, <1>6, <1>7 DEF MemberRows, AreMembers
<1>9. OneOwner
  <2>1. ASSUME NEW m \in db.members
        PROVE  \/ m = [id |-> Founder, role |-> "owner", status |-> "active", owner |-> TRUE]
               \/ \E k \in known : m = [id |-> k, role |-> "member", status |-> "active", owner |-> FALSE]
    BY <1>3, <2>1
  <2>2. Founder \notin known
    BY RegisteredAssumption, FounderAssumption
  <2>3. \A m \in db.members : \/ /\ m.id = Founder
                                    /\ m = [id |-> Founder, role |-> "owner", status |-> "active", owner |-> TRUE]
                                 \/ /\ m.id \in known /\ ~m.owner
                                    /\ m = [id |-> m.id, role |-> "member", status |-> "active", owner |-> FALSE]
    BY <2>1
  <2> QED BY <2>2, <2>3 DEF OneOwner
<1>10. MemberCalls /\ MembersRead /\ MemberAnswers /\ MembersFollow /\ AskedForThisOne
  BY <1>5, <1>6 DEF MemberCalls, MembersRead, MemberAnswers, MembersFollow, AskedForThisOne
<1> QED BY <1>4, <1>8, <1>9, <1>10 DEF MembersInv

\* A row with the role that everybody knows of an owner.
Norm(m) == [m EXCEPT !.role = IF m.owner THEN "owner" ELSE @]

\* Rows that agree in all but the role of an owner are shown alike.
LEMMA NormOfAlike ==
  ASSUME NEW p, NEW m, DOMAIN p = MemberFields, DOMAIN m = MemberFields, Alike(p, m), OwnerIsTold
  PROVE  Norm(p) = Norm(m)
<1>1. /\ Norm(p) = [x \in MemberFields |-> IF x = "role" THEN (IF p.owner THEN "owner" ELSE p.role) ELSE p[x]]
      /\ Norm(m) = [x \in MemberFields |-> IF x = "role" THEN (IF m.owner THEN "owner" ELSE m.role) ELSE m[x]]
  BY DEF Norm
<1>2. p.id = m.id /\ p.status = m.status /\ p.owner = m.owner /\ (p.role = m.role \/ m.owner)
  BY DEF Alike
<1>3. ASSUME NEW x \in MemberFields
      PROVE  (IF x = "role" THEN (IF p.owner THEN "owner" ELSE p.role) ELSE p[x])
               = (IF x = "role" THEN (IF m.owner THEN "owner" ELSE m.role) ELSE m[x])
  BY <1>2 DEF MemberFields
<1> QED BY <1>1, <1>3

\* The invariant says what the runs ask of the list of members.
LEMMA MembersHold == MembersInv => MembersAgree /\ AskedForThisOne
<1> SUFFICES ASSUME MembersInv, ~page.stale, ~InFlight(MemberWrites)
             PROVE  /\ {Norm(m) : m \in page.members} = {Norm(m) : m \in db.members}
                    /\ page.invited = db.invited
  BY DEF MembersAgree, MembersInv, Norm
<1>1. OwnerIsTold /\ \A i : Settled(i) /\ (i \in page.invited <=> i \in db.invited)
  BY DEF OwnerIsTold, InFlight, MemberWrites, MembersInv, MembersFollow, Unsettles, RowFollows, InvitedFollows, Rights
<1>2. AreMembers(db.members) /\ AreMembers(page.members)
  BY DEF MembersInv, MemberRows
<1>3. \A p \in page.members : \E m \in db.members : Alike(p, m)
  BY <1>1 DEF Settled, MemberOf
<1>4. \A m \in db.members : \E p \in page.members : Alike(p, m)
  BY <1>1 DEF Settled, MemberOf
<1>5. \A p \in page.members : \E m \in db.members : Norm(p) = Norm(m)
  BY <1>1, <1>2, <1>3, NormOfAlike DEF AreMembers
<1>6. \A m \in db.members : \E p \in page.members : Norm(p) = Norm(m)
  BY <1>1, <1>2, <1>4, NormOfAlike DEF AreMembers
<1>7. {Norm(m) : m \in page.members} = {Norm(m) : m \in db.members}
  BY <1>5, <1>6
<1>8. page.invited = db.invited
  BY <1>1
<1> QED BY <1>7, <1>8

\* What a change of i, or of everybody, makes of a call o.
IsMarked(q, o, i) ==
    /\ q.op = o.op /\ q.who = o.who /\ q.out = o.out /\ q.row = o.row /\ q.got = o.got
    /\ q.members = o.members /\ q.invited = o.invited /\ DOMAIN q = DOMAIN o
    /\ q.old <=> o.old \/ o.got # {} \/ (o.out = "ok" /\ i \in {o.who, None})

\* The answers of a set of calls, those about one member marked as old.
LEMMA MemberMarks ==
  ASSUME MemberCalls, NEW W \in SUBSET wire, NEW i
  PROVE  /\ \A o \in W : \E q \in MembersOutdated(W, i) : IsMarked(q, o, i)
         /\ \A q \in MembersOutdated(W, i) : \E o \in W : IsMarked(q, o, i)
<1> DEFINE old(r) == IF r.got # {} \/ (r.out = "ok" /\ i \in {r.who, None}) THEN [r EXCEPT !.old = TRUE] ELSE r
<1>1. \A o \in W : IsMarked(old(o), o, i)
  BY DEF MemberCalls, IsMarked
<1>2. MembersOutdated(W, i) = {old(o) : o \in W}
  BY DEF MembersOutdated
<1> HIDE DEF old
<1> QED BY <1>1, <1>2

\* The server answers the change r with s, and marks what the change of i, or of
\* everybody, overtakes.
MemberServed(r, s, i) ==
    /\ r.op \in MemberWrites /\ r.out = "sent" /\ page' = page
    /\ wire' = MembersOutdated(wire \ {r}, i) \cup {s}
    /\ s.op = r.op /\ s.who = r.who /\ s.out = "ok" /\ s.got = r.got /\ s.members = r.members /\ DOMAIN s = DOMAIN r

\* Rows and invitations of nobody but i are changed, and owners stay owners.
OnlyOf(i) ==
    /\ \A j : j # i => MemberOf(db.members, j)' = MemberOf(db.members, j) /\ (j \in db'.invited <=> j \in db.invited)
    /\ AreMembers(db.members)' /\ OneOwner' /\ DOMAIN db' = DOMAIN db
    /\ \A w : w # i /\ (\A m \in db.members : m.owner = (m.id = w)) => \A m \in db'.members : m.owner = (m.id = w)

\* The change of one member or invitation, and what the answer says.
ChangesOne(s) ==
    /\ s.op \in {"edit", "status"} => s.row = MemberOf(db.members, s.who)' /\ MemberOf(db.members, s.who) # {}
    /\ s.op = "remove" => MemberOf(db.members, s.who)' = {}
    /\ s.op = "invite" => \/ s.row = MemberOf(db.members, s.who)' /\ s.row # {} /\ db'.invited = db.invited
                          \/ s.row = {} /\ MemberOf(db.members, s.who)' = MemberOf(db.members, s.who)
    /\ s.op = "revoke" => s.who \notin db'.invited /\ db'.members = db.members
    /\ s.op # "owner" /\ (s.op \in {"edit", "status", "remove"} => db'.invited = db.invited)
    /\ AreMembers(s.row)

\* An answer that is not marked still holds.
LEMMA AnswersLast ==
  ASSUME MembersInv, NEW i, OnlyOf(i), NEW o \in wire, NEW q, IsMarked(q, o, i), q.out = "ok", ~q.old
  PROVE  AnswerHolds(q)'
<1>1. ~o.old /\ o.who # i /\ o.out = "ok" /\ q.op = o.op /\ q.who = o.who /\ q.row = o.row
  BY DEF IsMarked
<1>2. AnswerHolds(o)
  BY <1>1 DEF MembersInv, MemberAnswers
<1>3. MemberOf(db.members, o.who)' = MemberOf(db.members, o.who) /\ (o.who \in db'.invited <=> o.who \in db.invited)
  BY <1>1 DEF OnlyOf
<1>4. (\A m \in db.members : m.owner = (m.id = o.who)) => \A m \in db'.members : m.owner = (m.id = o.who)
  BY <1>1 DEF OnlyOf
<1> QED BY <1>1, <1>2, <1>3, <1>4 DEF AnswerHolds

\* One member is changed, and the answer tells of it.
LEMMA OneChangeIsTold ==
  ASSUME MembersInv, NEW r \in wire, NEW s, MemberServed(r, s, r.who), OnlyOf(r.who), ChangesOne(s)
  PROVE  MembersInv'
<1> DEFINE i == r.who
           W == wire \ {r}
<1>1. /\ \A o \in W : \E q \in wire' : IsMarked(q, o, i)
      /\ \A q \in wire' : q = s \/ \E o \in W : IsMarked(q, o, i)
      /\ s \in wire'
  <2>1. W \in SUBSET wire /\ MemberCalls
    BY DEF MembersInv
  <2>2. wire' = MembersOutdated(W, i) \cup {s}
    BY DEF MemberServed
  <2> HIDE DEF W, i
  <2> QED BY <2>1, <2>2, MemberMarks
<1>2. /\ page' = page /\ s.op \in MemberWrites /\ s.op = r.op /\ s.who = i /\ s.out = "ok" /\ r.out = "sent"
      /\ s.got = {} /\ s.members = r.members /\ DOMAIN s = DOMAIN r
  BY DEF MemberServed, MembersInv, MemberCalls, MemberWrites
<1>3. /\ \A j : j # i => MemberOf(db.members, j)' = MemberOf(db.members, j) /\ (j \in db'.invited <=> j \in db.invited)
      /\ DOMAIN db' = DOMAIN db
      /\ \A w : w # i /\ (\A m \in db.members : m.owner = (m.id = w)) => \A m \in db'.members : m.owner = (m.id = w)
  BY DEF OnlyOf
<1> HIDE DEF W, i
<1>4. \A o \in W : o \in wire
  BY DEF W
<1>5. MembersFields'
  BY <1>2, <1>3 DEF MembersInv, MembersFields
<1>6. MemberCalls'
  BY <1>1, <1>2, <1>4 DEF MembersInv, MemberCalls, IsMarked
<1>7. MemberRows' /\ OneOwner'
  BY <1>1, <1>2, <1>4 DEF MembersInv, MemberRows, IsMarked, OnlyOf, ChangesOne
<1>8. AskedForThisOne'
  BY <1>2 DEF MembersInv, AskedForThisOne
<1>9. MembersRead'
  BY <1>1, <1>2, <1>4 DEF MembersInv, MembersRead, IsMarked
<1>10. MemberAnswers'
  <2>1. ASSUME NEW q \in wire', q.out = "ok", ~q.old, q # s PROVE AnswerHolds(q)'
    BY <1>1, <1>4, <2>1, AnswersLast DEF i
  <2>2. AnswerHolds(s)'
    BY DEF ChangesOne, AnswerHolds
  <2> QED BY <2>1, <2>2 DEF MemberAnswers
<1>11. MembersFollow'
  <2> SUFFICES ASSUME ~page.stale, ~\E q \in wire' : Unsettles(q), NEW j
               PROVE  RowFollows(j)' /\ InvitedFollows(j)'
    BY <1>2 DEF MembersFollow, Unsettles, RowFollows, InvitedFollows
  <2>1. \A o \in W : o.out = "ok" /\ o.op \in MemberWrites => o.who # i /\ ~Unsettles(o)
    BY <1>1 DEF Unsettles, IsMarked
  <2>2. \A k : RowFollows(k) /\ InvitedFollows(k)
    BY <1>2, <2>1 DEF MembersInv, MembersFollow, Unsettles, W
  <2>3. \A o \in wire : o.out = "ok" => o \in W
    BY <1>2 DEF W
  <2>4. OwnerIsTold' <=> OwnerIsTold
    BY <1>1, <1>2, <1>4, <2>3 DEF OwnerIsTold, IsMarked, ChangesOne
  <2>5. CASE j # i
    <3>1. Settled(j) => Settled(j)'
      BY <1>2, <1>3, <2>4, <2>5 DEF Settled, Alike
    <3>2. (\E o \in wire : Rights(o, j)) => (\E q \in wire : Rights(q, j))'
      BY <1>1, <1>2, <2>3 DEF Rights, IsMarked
    <3>3. (\E o \in wire : o.op = "revoke" /\ o.out = "ok" /\ o.who = j)
            => \E q \in wire' : q.op = "revoke" /\ q.out = "ok" /\ q.who = j
      BY <1>1, <2>3 DEF IsMarked
    <3>4. j \in db'.invited <=> j \in db.invited
      BY <1>3, <2>5
    <3> QED BY <1>2, <2>2, <3>1, <3>2, <3>3, <3>4 DEF RowFollows, InvitedFollows
  <2>6. CASE j = i
    <3>1. Settled(i) /\ (i \in page.invited <=> i \in db.invited)
      BY <2>1, <2>2, <2>3 DEF RowFollows, InvitedFollows, Rights, MemberWrites
    <3>2. CASE s.op \in {"edit", "status"}
      <4>1. MemberOf(page.members, i) # {} /\ db'.invited = db.invited
        BY <1>2, <3>1, <3>2 DEF ChangesOne, Settled
      <4> QED BY <1>1, <1>2, <2>6, <3>1, <3>2, <4>1 DEF RowFollows, InvitedFollows, Rights
    <3>3. CASE s.op = "remove"
      <4>1. db'.invited = db.invited
        BY <3>3 DEF ChangesOne
      <4> QED BY <1>1, <1>2, <2>6, <3>1, <3>3, <4>1 DEF RowFollows, InvitedFollows, Rights
    <3>4. CASE s.op = "invite"
      <4>1. s.row # {}
        BY <1>1, <1>2, <3>4 DEF Unsettles
      <4>2. db'.invited = db.invited
        BY <3>4, <4>1 DEF ChangesOne
      <4> QED BY <1>1, <1>2, <2>6, <3>1, <3>4, <4>2 DEF RowFollows, InvitedFollows, Rights
    <3>5. CASE s.op = "revoke"
      <4>1. db'.members = db.members
        BY <3>5 DEF ChangesOne
      <4>2. Settled(i)'
        BY <1>2, <2>4, <3>1, <4>1 DEF Settled, Alike
      <4> QED BY <1>1, <1>2, <2>6, <3>5, <4>2 DEF RowFollows, InvitedFollows
    <3> QED BY <1>2, <3>2, <3>3, <3>4, <3>5 DEF ChangesOne, MemberWrites
  <2> QED BY <2>5, <2>6
<1> QED BY <1>5, <1>6, <1>7, <1>8, <1>9, <1>10, <1>11 DEF MembersInv

\* The answer to a change of one member, ...
AnswersWith(r, i, row) == LET s == [r EXCEPT !.out = "ok", !.row = row]
                       IN wire' = MembersOutdated(wire \ {r}, i) \cup {s}

\* An answer about one member is one the server may give.
LEMMA ServedOne ==
  ASSUME MembersInv, NEW r \in wire, NEW i, NEW row, AnswersWith(r, i, row), r.op \in MemberWrites, r.out = "sent", page' = page
  PROVE  \E s : MemberServed(r, s, i) /\ s.row = row
<1> DEFINE s == [r EXCEPT !.out = "ok", !.row = row]
<1>1. /\ s.op = r.op /\ s.who = r.who /\ s.out = "ok" /\ s.got = r.got /\ s.members = r.members /\ s.row = row
      /\ DOMAIN s = DOMAIN r
  BY DEF MembersInv, MemberCalls
<1>2. wire' = MembersOutdated(wire \ {r}, i) \cup {s}
  BY DEF AnswersWith
<1> HIDE DEF s
<1> QED BY <1>1, <1>2 DEF MemberServed

\* A change of a member leaves who it is and who owns the organization.
LEMMA PatchedIs ==
  ASSUME NEW m, DOMAIN m = MemberFields, NEW change
  PROVE  LET n == Patched(m, change) IN n.id = m.id /\ n.owner = m.owner /\ DOMAIN n = MemberFields
BY DEF Patched, MemberFields

\* ... and to each of them.
LEMMA EditServed ==
  ASSUME MembersInv, NEW r \in wire, ServeMemberWrite(r), r.op \in {"edit", "status"}
  PROVE  MembersInv'
<1> DEFINE i == r.who
           who == MemberOf(db.members, i)
           row == {Patched(m, r.change) : m \in who}
<1>1. /\ r.op \in MemberWrites /\ r.out = "sent" /\ (\E m \in who : ~m.owner) /\ page' = page
      /\ db' = [members |-> (db.members \ who) \cup row, invited |-> db.invited]
      /\ AnswersWith(r, i, row)
  BY DEF ServeMemberWrite, MemberWrites, AnswersWith
<1>2. PICK s : MemberServed(r, s, i) /\ s.row = row
  <2> HIDE DEF row, who
  <2> QED BY <1>1, ServedOne
<1>3. s.op = r.op /\ s.who = i
  BY <1>2 DEF MemberServed
<1>4. db'.members = (db.members \ who) \cup row /\ db'.invited = db.invited /\ DOMAIN db' = DOMAIN db
  BY <1>1 DEF MembersInv, MembersFields
<1>5. \A m \in who : m \in db.members /\ m.id = i /\ DOMAIN m = MemberFields
  BY DEF MemberOf, MembersInv, MemberRows, AreMembers
<1>6. \A n \in row : n.id = i /\ DOMAIN n = MemberFields /\ \E m \in who : n.owner = m.owner /\ n = Patched(m, r.change)
  BY <1>5, PatchedIs
<1>7. who # {}
  BY <1>1
<1>8. \A m \in db.members : m \in who <=> m.id = i
  BY DEF MemberOf
<1>9. \A m, n \in row : m = n
  BY <1>5, <1>6 DEF MembersInv, OneOwner
<1>10. \A j : j # i => MemberOf(db.members, j)' = MemberOf(db.members, j)
  <2> HIDE DEF row, who, i
  <2> QED BY <1>4, <1>5, <1>6 DEF MemberOf
<1>11. row = MemberOf(db.members, i)'
  <2> HIDE DEF row
  <2> QED BY <1>4, <1>6 DEF MemberOf
<1>12. AreMembers(db.members)' /\ AreMembers(row)
  <2> HIDE DEF row, who, i
  <2> QED BY <1>4, <1>6 DEF AreMembers, MembersInv, MemberRows
<1>13. OneOwner'
  <2> HIDE DEF row, who, i
  <2>1. \A m, n \in db'.members : m.id = n.id => m = n
    BY <1>4, <1>6, <1>8, <1>9 DEF MembersInv, OneOwner
  <2>2. \A n \in db'.members : \E m \in db.members : m.owner = n.owner /\ m.id = n.id
    BY <1>4, <1>5, <1>6
  <2> QED BY <2>1, <2>2 DEF MembersInv, OneOwner
<1>14. \A w : (\A m \in db.members : m.owner = (m.id = w)) => \A m \in db'.members : m.owner = (m.id = w)
  <2> HIDE DEF row, who, i
  <2> QED BY <1>4, <1>5, <1>6
<1> HIDE DEF row, who, i
<1>15. OnlyOf(i)
  BY <1>4, <1>10, <1>12, <1>13, <1>14 DEF OnlyOf
<1>16. ChangesOne(s)
  BY <1>2, <1>4, <1>7, <1>11, <1>12, <1>3 DEF ChangesOne, who
<1> QED BY <1>2, <1>15, <1>16, OneChangeIsTold DEF i

\* A member is removed.
LEMMA RemoveServed ==
  ASSUME MembersInv, NEW r \in wire, ServeMemberWrite(r), r.op = "remove"
  PROVE  MembersInv'
<1> DEFINE i == r.who
           who == MemberOf(db.members, i)
<1>1. /\ r.op \in MemberWrites /\ r.out = "sent" /\ page' = page
      /\ db' = [members |-> db.members \ who, invited |-> db.invited]
      /\ AnswersWith(r, i, {})
  BY DEF ServeMemberWrite, MemberWrites, AnswersWith
<1>2. PICK s : MemberServed(r, s, i) /\ s.row = {}
  BY <1>1, ServedOne
<1>3. s.op = r.op /\ s.who = i
  BY <1>2 DEF MemberServed
<1>4. db'.members = db.members \ who /\ db'.invited = db.invited /\ DOMAIN db' = DOMAIN db
  BY <1>1 DEF MembersInv, MembersFields
<1>5. (\A j : j # i => MemberOf(db.members, j)' = MemberOf(db.members, j)) /\ MemberOf(db.members, i)' = {}
  BY <1>4 DEF MemberOf
<1>6. OnlyOf(i)
  <2> HIDE DEF i
  <2> QED BY <1>4, <1>5 DEF OnlyOf, MembersInv, MemberRows, AreMembers, OneOwner
<1>7. ChangesOne(s)
  BY <1>2, <1>4, <1>5, <1>3 DEF ChangesOne, AreMembers
<1> QED BY <1>2, <1>6, <1>7, OneChangeIsTold

\* Somebody is invited, or made a member at once.
LEMMA InviteServed ==
  ASSUME MembersInv, NEW r \in wire, ServeMemberWrite(r), r.op = "invite"
  PROVE  MembersInv'
<1> DEFINE i == r.who
           new == [id |-> i, role |-> "member", status |-> "active", owner |-> FALSE]
<1>1. r.op \in MemberWrites /\ r.out = "sent" /\ page' = page /\ MemberOf(db.members, i) = {}
  BY DEF ServeMemberWrite, MemberWrites, AnswersWith
<1>2. CASE /\ db' = [members |-> db.members \cup {new}, invited |-> db.invited]
           /\ AnswersWith(r, i, {new})
  <2>1. PICK s : MemberServed(r, s, i) /\ s.row = {new}
    <3> HIDE DEF new
    <3> QED BY <1>1, <1>2, ServedOne
  <2>2. s.op = r.op /\ s.who = i
    BY <2>1 DEF MemberServed
  <2>3. db'.members = db.members \cup {new} /\ db'.invited = db.invited /\ DOMAIN db' = DOMAIN db
    BY <1>2 DEF MembersInv, MembersFields
  <2>4. new.id = i /\ new.owner = FALSE /\ DOMAIN new = MemberFields
    BY DEF MemberFields
  <2> HIDE DEF new
  <2>5. (\A j : j # i => MemberOf(db.members, j)' = MemberOf(db.members, j)) /\ MemberOf(db.members, i)' = {new}
    BY <1>1, <2>3, <2>4 DEF MemberOf
  <2>6. \A m \in db.members : m.id # i
    BY <1>1 DEF MemberOf
  <2>7. OnlyOf(i)
    <3> HIDE DEF i
    <3> QED BY <2>3, <2>4, <2>5, <2>6 DEF OnlyOf, MembersInv, MemberRows, AreMembers, OneOwner
  <2>8. ChangesOne(s)
    BY <2>1, <2>3, <2>4, <2>5, <2>2 DEF ChangesOne, AreMembers
  <2> QED BY <2>1, <2>7, <2>8, OneChangeIsTold
<1>3. CASE /\ db' = [members |-> db.members, invited |-> db.invited \cup {i}]
           /\ AnswersWith(r, i, {})
  <2>1. PICK s : MemberServed(r, s, i) /\ s.row = {}
    BY <1>1, <1>3, ServedOne
  <2>2. s.op = r.op /\ s.who = i
    BY <2>1 DEF MemberServed
  <2>3. db'.members = db.members /\ db'.invited = db.invited \cup {i} /\ DOMAIN db' = DOMAIN db
    BY <1>3 DEF MembersInv, MembersFields
  <2>4. OnlyOf(i)
    BY <2>3 DEF OnlyOf, MembersInv, MemberRows, AreMembers, OneOwner, MemberOf
  <2>5. ChangesOne(s)
    BY <2>1, <2>3, <2>2 DEF ChangesOne, AreMembers, MemberOf
  <2> QED BY <2>1, <2>4, <2>5, OneChangeIsTold
<1> QED BY <1>2, <1>3 DEF ServeMemberWrite, AnswersWith

\* An invitation is taken back.
LEMMA RevokeServed ==
  ASSUME MembersInv, NEW r \in wire, ServeMemberWrite(r), r.op = "revoke"
  PROVE  MembersInv'
<1> DEFINE i == r.who
<1>1. /\ r.op \in MemberWrites /\ r.out = "sent" /\ page' = page
      /\ db' = [members |-> db.members, invited |-> db.invited \ {i}]
      /\ AnswersWith(r, i, {})
  BY DEF ServeMemberWrite, MemberWrites, AnswersWith
<1>2. PICK s : MemberServed(r, s, i) /\ s.row = {}
  BY <1>1, ServedOne
<1>3. s.op = r.op /\ s.who = i
  BY <1>2 DEF MemberServed
<1>4. db'.members = db.members /\ db'.invited = db.invited \ {i} /\ DOMAIN db' = DOMAIN db
  BY <1>1 DEF MembersInv, MembersFields
<1>5. OnlyOf(i)
  BY <1>4 DEF OnlyOf, MembersInv, MemberRows, AreMembers, OneOwner, MemberOf
<1>6. ChangesOne(s)
  BY <1>2, <1>4, <1>3 DEF ChangesOne, AreMembers
<1> QED BY <1>2, <1>5, <1>6, OneChangeIsTold

\* The change of the owner is one of everybody.
LEMMA OwnerServed ==
  ASSUME MembersInv, NEW r \in wire, ServeMemberWrite(r), r.op = "owner"
  PROVE  MembersInv'
<1> DEFINE i == r.who
           Given(m) == [m EXCEPT !.owner = m.id = i, !.role = IF m.id = i THEN "owner" ELSE @]
           W == wire \ {r}
<1>1. /\ r.op \in MemberWrites /\ r.out = "sent" /\ page' = page
      /\ \E m \in MemberOf(db.members, i) : ~m.owner
      /\ \E m \in MemberOf(db.members, Founder) : m.owner
      /\ db' = [members |-> {Given(m) : m \in db.members}, invited |-> db.invited]
      /\ AnswersWith(r, None, {})
  BY DEF ServeMemberWrite, MemberWrites, AnswersWith
<1>2. PICK s : MemberServed(r, s, None) /\ s.row = {}
  BY <1>1, ServedOne
<1>3. /\ s.op = "owner" /\ s.who = i /\ s.out = "ok" /\ s.got = {} /\ s.members = r.members /\ DOMAIN s = DOMAIN r
      /\ wire' = MembersOutdated(W, None) \cup {s}
  BY <1>2 DEF MemberServed, MembersInv, MemberCalls
<1>4. /\ \A o \in W : \E q \in wire' : IsMarked(q, o, None)
      /\ \A q \in wire' : q = s \/ \E o \in W : IsMarked(q, o, None)
      /\ s \in wire' /\ \A o \in W : o \in wire
  <2>1. W \in SUBSET wire /\ MemberCalls
    BY DEF MembersInv
  <2> HIDE DEF W
  <2> QED BY <1>3, <2>1, MemberMarks
<1>5. \A m \in db.members : m.owner => m.id = Founder
  BY <1>1 DEF MembersInv, OneOwner, MemberOf
<1>6. i # Founder
  BY <1>1, <1>5 DEF MembersInv, OneOwner, MemberOf
<1>7. ASSUME NEW m \in db.members
      PROVE  /\ Given(m).id = m.id /\ Given(m).status = m.status /\ Given(m).owner = (m.id = i)
             /\ Given(m).role = (IF m.id = i THEN "owner" ELSE m.role) /\ DOMAIN Given(m) = MemberFields
  BY DEF MembersInv, MemberRows, AreMembers, MemberFields
<1>8. db'.members = {Given(m) : m \in db.members} /\ db'.invited = db.invited /\ DOMAIN db' = DOMAIN db
  BY <1>1 DEF MembersInv, MembersFields
<1> HIDE DEF Given, W, i
<1>9. MembersFields' /\ MemberCalls' /\ AskedForThisOne'
  BY <1>1, <1>3, <1>4, <1>8 DEF MembersInv, MembersFields, MemberCalls, AskedForThisOne, IsMarked
<1>10. AreMembers(db.members)'
  BY <1>7, <1>8 DEF AreMembers
<1>11. MemberRows'
  <2>1. \A q \in wire' : AreMembers(q.members) /\ AreMembers(q.row)
    BY <1>2, <1>3, <1>4 DEF MembersInv, MemberRows, IsMarked, AreMembers
  <2> QED BY <1>1, <1>10, <2>1 DEF MembersInv, MemberRows
<1>12. OneOwner'
  <2>1. \A m, n \in db.members : m.id = n.id => Given(m) = Given(n)
    BY DEF MembersInv, OneOwner
  <2>2. ASSUME NEW m \in db.members, NEW n \in db.members, Given(m).id = Given(n).id \/ (Given(m).owner /\ Given(n).owner)
        PROVE  Given(m) = Given(n)
    <3>1. /\ Given(m).id = m.id /\ Given(m).owner = (m.id = i)
          /\ Given(n).id = n.id /\ Given(n).owner = (n.id = i)
      BY <1>7
    <3>2. m.id = n.id
      BY <2>2, <3>1
    <3> QED BY <2>1, <3>2
  <2> QED BY <1>8, <2>2 DEF OneOwner
<1>13. MembersRead'
  BY <1>3, <1>4 DEF MembersRead, IsMarked
<1>14. MemberAnswers'
  <2>1. \A q \in wire' : q.out = "ok" /\ ~q.old => q = s
    BY <1>4 DEF IsMarked
  <2>2. \A m \in db'.members : m.owner = (m.id = i)
    BY <1>7, <1>8
  <2> QED BY <1>3, <2>1, <2>2 DEF MemberAnswers, AnswerHolds
<1>15. MembersFollow'
  <2> SUFFICES ASSUME ~page.stale, ~\E q \in wire' : Unsettles(q), NEW j
               PROVE  RowFollows(j)' /\ InvitedFollows(j)'
    BY <1>1 DEF MembersFollow, Unsettles, RowFollows, InvitedFollows
  <2>1. \A o \in wire : ~(o.out = "ok" /\ o.op \in MemberWrites)
    BY <1>1, <1>4 DEF Unsettles, IsMarked, W
  <2>2. Settled(j) /\ (j \in page.invited <=> j \in db.invited)
    BY <2>1 DEF MembersInv, MembersFollow, Unsettles, RowFollows, InvitedFollows, Rights, MemberWrites
  <2>3. ~OwnerIsTold'
    BY <1>3, <1>4 DEF OwnerIsTold
  <2>4. ASSUME NEW p, NEW m \in db.members, Alike(p, m) PROVE Alike(p, Given(m))'
    BY <1>5, <1>6, <1>7, <2>3, <2>4 DEF Alike
  <2>5. Settled(j)'
    <3>1. \A p \in MemberOf(page.members, j) : \E m \in MemberOf(db.members, j)' : Alike(p, m)'
      BY <1>7, <1>8, <2>2, <2>4 DEF Settled, MemberOf
    <3>2. \A n \in MemberOf(db.members, j)' : \E p \in MemberOf(page.members, j) : Alike(p, n)'
      BY <1>7, <1>8, <2>2, <2>4 DEF Settled, MemberOf
    <3> QED BY <1>1, <3>1, <3>2 DEF Settled, MemberOf
  <2> QED BY <1>1, <1>8, <2>2, <2>5 DEF RowFollows, InvitedFollows
<1> QED BY <1>9, <1>11, <1>12, <1>13, <1>14, <1>15 DEF MembersInv

\* Somebody who accepts an invitation changes the list as an answered change does,
\* and the page is not told.
LEMMA AcceptsStep ==
  ASSUME MembersInv, NEW i \in db.invited, Accepts(i)
  PROVE  MembersInv'
<1> DEFINE new == [id |-> i, role |-> "member", status |-> "active", owner |-> FALSE]
<1>1. /\ MemberOf(db.members, i) = {} /\ page' = [page EXCEPT !.stale = TRUE]
      /\ db' = [members |-> db.members \cup {new}, invited |-> db.invited \ {i}]
      /\ wire' = MembersOutdated(wire, i)
  BY DEF Accepts
<1>2. /\ db'.members = db.members \cup {new} /\ db'.invited = db.invited \ {i} /\ DOMAIN db' = DOMAIN db
      /\ new.id = i /\ new.owner = FALSE /\ DOMAIN new = MemberFields
  BY <1>1 DEF MembersInv, MembersFields, MemberFields
<1> HIDE DEF new
<1>3. \A m \in db.members : m.id # i
  BY <1>1 DEF MemberOf
<1>4. \A j : j # i => MemberOf(db.members, j)' = MemberOf(db.members, j)
  BY <1>2 DEF MemberOf
<1>5. OnlyOf(i)
  BY <1>2, <1>3, <1>4 DEF OnlyOf, MembersInv, MemberRows, AreMembers, OneOwner
<1>6. \A q \in wire' : \E o \in wire : IsMarked(q, o, i)
  BY <1>1, MemberMarks DEF MembersInv
<1>7. /\ page'.at = page.at /\ DOMAIN page' = DOMAIN page /\ page'.members = page.members /\ page'.stale
      /\ page'.confirm = page.confirm /\ page'.detail = page.detail /\ page'.asked = page.asked
  BY <1>1 DEF MembersInv, MembersFields
<1>8. MembersFields' /\ MemberCalls' /\ AskedForThisOne' /\ MembersFollow'
  BY <1>2, <1>6, <1>7 DEF MembersInv, MembersFields, MemberCalls, AskedForThisOne, MembersFollow, IsMarked
<1>9. MemberRows' /\ OneOwner'
  BY <1>5, <1>6, <1>7 DEF MembersInv, MemberRows, OnlyOf, IsMarked
<1>10. MembersRead'
  BY <1>6 DEF MembersRead, IsMarked
<1>11. MemberAnswers'
  BY <1>5, <1>6, AnswersLast DEF MemberAnswers
<1> QED BY <1>8, <1>9, <1>10, <1>11 DEF MembersInv

\* An answer that the page has heard, or not, leaves no row behind.
LEMMA RowArrives ==
  ASSUME MembersInv, NEW r \in wire, db' = db, \A q \in wire : q = r \/ q \in wire',
         \A q \in wire' : (q \in wire /\ q # r) \/ q.out = "sent",
         page.stale => page'.stale, Unsettles(r) => page'.stale, r.op # "owner" \/ r.out # "ok",
         \A j : j # r.who => /\ MemberOf(page.members, j)' = MemberOf(page.members, j)
                             /\ j \in page'.invited <=> j \in page.invited,
         r.op = "revoke" /\ r.out = "ok" => r.who \notin page'.invited,
         r.op # "revoke" \/ r.out # "ok" => (r.who \in page'.invited <=> r.who \in page.invited),
         ~page'.stale => \/ MemberOf(page.members, r.who)' = MemberOf(db.members, r.who)
                         \/ MemberOf(page.members, r.who)' = MemberOf(page.members, r.who) /\ ~Rights(r, r.who)
  PROVE  MembersFollow'
<1> DEFINE i == r.who
<1> SUFFICES ASSUME ~page'.stale, ~\E q \in wire' : Unsettles(q), NEW j
             PROVE  RowFollows(j)' /\ InvitedFollows(j)'
  BY DEF MembersFollow, Unsettles, RowFollows, InvitedFollows
<1>1. RowFollows(j) /\ InvitedFollows(j)
  BY DEF MembersInv, MembersFollow
<1>2. OwnerIsTold' <=> OwnerIsTold
  BY DEF OwnerIsTold
<1>3. ASSUME MemberOf(page.members, j)' = MemberOf(page.members, j), ~Rights(r, j) PROVE RowFollows(j)'
  <2>1. Settled(j) => Settled(j)'
    BY <1>2, <1>3 DEF Settled, Alike
  <2>2. ASSUME NEW o \in wire, Rights(o, j) PROVE o \in wire' /\ Rights(o, j)'
    BY <1>3, <2>2 DEF Rights
  <2> QED BY <1>1, <2>1, <2>2 DEF RowFollows
<1>4. ASSUME j \in page'.invited <=> j \in page.invited, ~(r.op = "revoke" /\ r.out = "ok" /\ r.who = j)
      PROVE  InvitedFollows(j)'
  BY <1>1, <1>4 DEF InvitedFollows
<1>5. CASE j # i
  <2>1. MemberOf(page.members, j)' = MemberOf(page.members, j) /\ (j \in page'.invited <=> j \in page.invited)
    BY <1>5
  <2> QED BY <1>3, <1>4, <1>5, <2>1 DEF Rights
<1>6. CASE j = i
  <2>1. RowFollows(j)'
    <3>1. CASE MemberOf(page.members, i)' = MemberOf(db.members, i)
      <4>1. Settled(i)'
        BY <3>1 DEF Settled, Alike
      <4> QED BY <1>6, <4>1 DEF RowFollows
    <3>2. CASE MemberOf(page.members, i)' = MemberOf(page.members, i) /\ ~Rights(r, i)
      BY <1>3, <1>6, <3>2
    <3> QED BY <3>1, <3>2
  <2>2. InvitedFollows(j)'
    <3>1. CASE r.op = "revoke" /\ r.out = "ok"
      <4>1. ~r.old
        BY <3>1 DEF Unsettles, MemberWrites
      <4>2. i \notin db.invited
        BY <3>1, <4>1 DEF MembersInv, MemberAnswers, AnswerHolds
      <4> QED BY <1>6, <3>1, <4>2 DEF InvitedFollows
    <3>2. CASE ~(r.op = "revoke" /\ r.out = "ok")
      BY <1>4, <1>6, <3>2
    <3> QED BY <3>1, <3>2
  <2> QED BY <2>1, <2>2
<1> QED BY <1>5, <1>6

\* Calls that are made change nothing of what the page shows, nor of what is promised it.
LEMMA CallsAreNoNews ==
  ASSUME MembersFollow, db' = db, page'.members = page.members, page'.invited = page.invited, page'.stale = page.stale,
         \A q \in wire : q \in wire', \A q \in wire' : q \in wire \/ q.out = "sent"
  PROVE  MembersFollow'
<1>1. OwnerIsTold' <=> OwnerIsTold
  BY DEF OwnerIsTold
<1>2. \A i : Settled(i) => Settled(i)'
  BY <1>1 DEF Settled, MemberOf, Alike
<1>3. \A i : RowFollows(i) => RowFollows(i)'
  BY <1>2 DEF RowFollows, Rights, MemberOf
<1>4. \A i : InvitedFollows(i) => InvitedFollows(i)'
  BY DEF InvitedFollows
<1>5. (\E q \in wire : Unsettles(q)) => \E q \in wire' : Unsettles(q)
  BY DEF Unsettles
<1> QED BY <1>3, <1>4, <1>5 DEF MembersFollow

\* A list that is read, of which the rest is nobody's.
LEMMA ReadIsServed ==
  ASSUME MembersInv, NEW r \in wire, NEW part, ServeMembersRead(r, part)
  PROVE  \E s : /\ page' = page /\ db' = db /\ wire' = (wire \ {r}) \cup {s} /\ part \notin r.got
                /\ s.op = "all" /\ r.op = "all" /\ s.out = r.out /\ s.who = r.who /\ s.row = r.row /\ s.old = r.old
                /\ s.got = r.got \cup {part} /\ DOMAIN s = DOMAIN r
                /\ \/ part = "members" /\ s.members = db.members /\ s.invited = r.invited
                   \/ part = "invited" /\ s.invited = db.invited /\ s.members = r.members
<1>1. DOMAIN r = {"op", "who", "rest", "out", "change", "row", "members", "invited", "got", "old"}
  BY DEF MembersInv, MemberCalls
<1>2. CASE part = "members"
  <2> DEFINE s == [r EXCEPT !.got = @ \cup {part}, !.members = db.members]
  <2>1. /\ page' = page /\ db' = db /\ wire' = (wire \ {r}) \cup {s} /\ part \notin r.got /\ r.op = "all"
    BY <1>2 DEF ServeMembersRead
  <2>2. /\ s.op = r.op /\ s.out = r.out /\ s.who = r.who /\ s.row = r.row /\ s.old = r.old
        /\ s.got = r.got \cup {part} /\ DOMAIN s = DOMAIN r /\ s.members = db.members /\ s.invited = r.invited
    BY <1>1
  <2> HIDE DEF s
  <2> QED BY <1>2, <2>1, <2>2
<1>3. CASE part # "members"
  <2> DEFINE s == [r EXCEPT !.got = @ \cup {part}, !.invited = db.invited]
  <2>1. /\ page' = page /\ db' = db /\ wire' = (wire \ {r}) \cup {s} /\ part \notin r.got /\ r.op = "all" /\ part = "invited"
    BY <1>3 DEF ServeMembersRead
  <2>2. /\ s.op = r.op /\ s.out = r.out /\ s.who = r.who /\ s.row = r.row /\ s.old = r.old
        /\ s.got = r.got \cup {part} /\ DOMAIN s = DOMAIN r /\ s.invited = db.invited /\ s.members = r.members
    BY <1>1
  <2> HIDE DEF s
  <2> QED BY <2>1, <2>2
<1> QED BY <1>2, <1>3

\* One of the two halves of the list is read.
LEMMA MembersReadStep ==
  ASSUME MembersInv, NEW r \in wire, NEW part, ServeMembersRead(r, part)
  PROVE  MembersInv'
<1>1. PICK s : /\ page' = page /\ db' = db /\ wire' = (wire \ {r}) \cup {s} /\ part \notin r.got
               /\ s.op = "all" /\ r.op = "all" /\ s.out = r.out /\ s.who = r.who /\ s.row = r.row /\ s.old = r.old
               /\ s.got = r.got \cup {part} /\ DOMAIN s = DOMAIN r
               /\ \/ part = "members" /\ s.members = db.members /\ s.invited = r.invited
                  \/ part = "invited" /\ s.invited = db.invited /\ s.members = r.members
  BY ReadIsServed
<1>2. /\ \A q \in wire' : q = s \/ (q \in wire /\ q # r)
      /\ \A q \in wire : q = r \/ q \in wire'
      /\ s \in wire'
  BY <1>1
<1>3. MembersFields' /\ MemberCalls' /\ OneOwner' /\ AskedForThisOne'
  BY <1>1, <1>2 DEF MembersInv, MembersFields, MemberCalls, OneOwner, AskedForThisOne
<1>4. MemberRows'
  <2>1. \A q \in wire' : AreMembers(q.members) /\ AreMembers(q.row)
    BY <1>1, <1>2 DEF MembersInv, MemberRows
  <2> QED BY <1>1, <2>1 DEF MembersInv, MemberRows
<1>5. MembersRead'
  <2>1. ~s.old => ("members" \in s.got => s.members = db.members) /\ ("invited" \in s.got => s.invited = db.invited)
    BY <1>1 DEF MembersInv, MembersRead
  <2> QED BY <1>1, <1>2, <2>1 DEF MembersInv, MembersRead
<1>6. MemberAnswers'
  <2>1. \A q \in wire' : q.out = "ok" /\ ~q.old => AnswerHolds(q)
    BY <1>1, <1>2 DEF MembersInv, MemberAnswers, AnswerHolds
  <2> QED BY <1>1, <2>1 DEF MemberAnswers, AnswerHolds, MemberOf
<1>7. MembersFollow'
  <2>1. OwnerIsTold' <=> OwnerIsTold
    BY <1>1, <1>2 DEF OwnerIsTold
  <2>2. \A i : Settled(i) => Settled(i)'
    BY <1>1, <2>1 DEF Settled, MemberOf, Alike
  <2>3. \A i : (\E q \in wire : Rights(q, i)) => \E q \in wire' : Rights(q, i)'
    BY <1>1, <1>2 DEF Rights, MemberOf
  <2>4. \A i : InvitedFollows(i) => InvitedFollows(i)'
    BY <1>1, <1>2 DEF InvitedFollows
  <2>5. (\E q \in wire : Unsettles(q)) => \E q \in wire' : Unsettles(q)
    BY <1>1, <1>2 DEF Unsettles, MemberWrites
  <2> QED BY <1>1, <2>2, <2>3, <2>4, <2>5 DEF MembersInv, MembersFollow, RowFollows
<1> QED BY <1>3, <1>4, <1>5, <1>6, <1>7 DEF MembersInv

\* Every step keeps the invariant, however reads, changes and their answers
\* overtake each other.
LEMMA MembersStep ==
  ASSUME MembersInv, MembersNext
  PROVE  MembersInv'
<1>1. ASSUME NEW m \in page.members, OpenDetails(m) PROVE MembersInv'
  BY <1>1 DEF OpenDetails, OnMembers, Show, Selects, None, MembersInv, MembersFields,
    MemberCalls, MemberRows, AreMembers, MemberFields, OneOwner, AskedForThisOne, MembersRead,
    MemberAnswers, AnswerHolds, MemberOf, MembersFollow, Unsettles, RowFollows, InvitedFollows,
    MemberWrites, Settled, Rights, Alike, Founder, OwnerIsTold
<1>2. ASSUME NEW m \in page.members, OpenEdit(m) PROVE MembersInv'
  BY <1>2 DEF OpenEdit, OnMembers, Show, MembersInv, MembersFields, MemberCalls, MemberRows,
    AreMembers, MemberFields, OneOwner, AskedForThisOne, None, MembersRead, MemberAnswers,
    AnswerHolds, MemberOf, MembersFollow, Unsettles, RowFollows, InvitedFollows, MemberWrites,
    Settled, Rights, Alike, Founder, OwnerIsTold
<1>3. ASSUME NEW m \in page.members \cup page.detail, SetMemberStatus(m) PROVE MembersInv'
  <2>1. MembersFields'
    BY <1>3 DEF SetMemberStatus, OnMembers, InDetails, Call, Busy, MemberCall, None,
      MembersFields, MemberCalls, MembersInv
  <2>2. MemberCalls'
    BY <1>3 DEF SetMemberStatus, OnMembers, InDetails, Call, Busy, MemberCall, None,
      MembersFields, MemberCalls, MembersInv
  <2>3. MemberRows'
    BY <1>3 DEF SetMemberStatus, OnMembers, InDetails, Call, Busy, MemberCall, None,
      MembersFields, MemberCalls, MembersInv, MemberRows, AreMembers, MemberFields
  <2>4. OneOwner'
    BY <1>3 DEF SetMemberStatus, OnMembers, InDetails, Call, Busy, MemberCall, None,
      MembersFields, MemberCalls, MembersInv, OneOwner
  <2>5. AskedForThisOne'
    BY <1>3 DEF SetMemberStatus, OnMembers, InDetails, Call, Busy, MemberCall, None,
      MembersFields, MemberCalls, MembersInv, AskedForThisOne
  <2>6. MembersRead'
    BY <1>3 DEF SetMemberStatus, OnMembers, InDetails, Call, Busy, MemberCall, None,
      MembersFields, MemberCalls, MembersInv, MembersRead
  <2>7. MemberAnswers'
    BY <1>3 DEF SetMemberStatus, OnMembers, InDetails, Call, Busy, MemberCall, None,
      MembersFields, MemberCalls, MembersInv, MemberAnswers, AnswerHolds, MemberOf
  <2>8. MembersFollow'
    BY <1>3 DEF SetMemberStatus, OnMembers, InDetails, Call, Busy, MemberCall, None,
      MembersFields, MemberCalls, MembersInv, MembersFollow, Unsettles, RowFollows,
      InvitedFollows, MemberWrites, Settled, Rights, MemberOf, Alike, Founder, OwnerIsTold
  <2> QED BY <2>1, <2>2, <2>3, <2>4, <2>5, <2>6, <2>7, <2>8 DEF MembersInv
<1>4. ASSUME NEW m \in page.detail, RemoveMember(m) PROVE MembersInv'
  BY <1>4 DEF RemoveMember, Confirmed, Call, Busy, MemberCall, InDetails, Offers, None,
    MembersInv, MembersFields, MemberCalls, MemberRows, AreMembers, MemberFields, OneOwner,
    AskedForThisOne, MembersRead, MemberAnswers, AnswerHolds, MemberOf, MembersFollow, Unsettles,
    RowFollows, InvitedFollows, MemberWrites, Settled, Rights, Alike, Founder, OwnerIsTold
<1>5. ASSUME NEW m \in page.detail, TransferOwnership(m) PROVE MembersInv'
  BY <1>5 DEF TransferOwnership, Confirmed, Call, Busy, MemberCall, InDetails, Offers, None,
    MembersInv, MembersFields, MemberCalls, MemberRows, AreMembers, MemberFields, OneOwner,
    AskedForThisOne, MembersRead, MemberAnswers, AnswerHolds, MemberOf, MembersFollow, Unsettles,
    RowFollows, InvitedFollows, MemberWrites, Settled, Rights, Alike, Founder, OwnerIsTold
<1>6. ASSUME NEW action \in {"suspend", "remove", "owner"}, Ask(action) PROVE MembersInv'
  BY <1>6 DEF Ask, InDetails, Offers, Show, Presses, MembersInv, MembersFields, MemberCalls,
    MemberRows, AreMembers, MemberFields, OneOwner, AskedForThisOne, None, MembersRead,
    MemberAnswers, AnswerHolds, MemberOf, MembersFollow, Unsettles, RowFollows, InvitedFollows,
    MemberWrites, Settled, Rights, Alike, Founder, OwnerIsTold
<1>7. ASSUME CloseDetails PROVE MembersInv'
  BY <1>7 DEF CloseDetails, InDetails, Show, Selects, None, MembersInv, MembersFields,
    MemberCalls, MemberRows, AreMembers, MemberFields, OneOwner, AskedForThisOne, MembersRead,
    MemberAnswers, AnswerHolds, MemberOf, MembersFollow, Unsettles, RowFollows, InvitedFollows,
    MemberWrites, Settled, Rights, Alike, Founder, OwnerIsTold
<1>8. ASSUME CloseEdit PROVE MembersInv'
  BY <1>8 DEF CloseEdit, Show, MembersInv, MembersFields, MemberCalls, MemberRows, AreMembers,
    MemberFields, OneOwner, AskedForThisOne, None, MembersRead, MemberAnswers, AnswerHolds,
    MemberOf, MembersFollow, Unsettles, RowFollows, InvitedFollows, MemberWrites, Settled,
    Rights, Alike, Founder, OwnerIsTold
<1>9. ASSUME OpenInvite PROVE MembersInv'
  BY <1>9 DEF OpenInvite, OnMembers, Show, MembersInv, MembersFields, MemberCalls, MemberRows,
    AreMembers, MemberFields, OneOwner, AskedForThisOne, None, MembersRead, MemberAnswers,
    AnswerHolds, MemberOf, MembersFollow, Unsettles, RowFollows, InvitedFollows, MemberWrites,
    Settled, Rights, Alike, Founder, OwnerIsTold
<1>10. ASSUME CloseInvite PROVE MembersInv'
  BY <1>10 DEF CloseInvite, Show, MembersInv, MembersFields, MemberCalls, MemberRows, AreMembers,
    MemberFields, OneOwner, AskedForThisOne, None, MembersRead, MemberAnswers, AnswerHolds,
    MemberOf, MembersFollow, Unsettles, RowFollows, InvitedFollows, MemberWrites, Settled,
    Rights, Alike, Founder, OwnerIsTold
<1>11. ASSUME NEW role \in {"viewer", "member"}, NEW status \in {"active", "suspended"}, SaveEdit(role, status) PROVE MembersInv'
  <2>1. MembersFields'
    BY <1>11 DEF SaveEdit, None, Show, Call, Busy, MemberCall, MembersFields, MemberCalls,
      MembersInv
  <2>2. MemberCalls'
    BY <1>11 DEF SaveEdit, None, Show, Call, Busy, MemberCall, MembersFields, MemberCalls,
      MembersInv
  <2>3. MemberRows'
    <3>1. PICK m \in page.editing :
            LET change == [role |-> IF role = m.role THEN None ELSE role, status |-> IF status = m.status THEN None ELSE status]
            IN IF change = [role |-> None, status |-> None] THEN Show([page EXCEPT !.editing = {}])
               ELSE Call(Busy(page, <<"edit", m.id>>), [MemberCall("edit", m.id) EXCEPT !.change = change])
      BY <1>11 DEF SaveEdit
    <3> DEFINE change == [role |-> IF role = m.role THEN None ELSE role, status |-> IF status = m.status THEN None ELSE status]
               new == [MemberCall("edit", m.id) EXCEPT !.change = change]
    <3>2. new.op = "edit" /\ new.out = "sent" /\ new.row = {} /\ new.members = {}
      BY DEF MemberCall
    <3>3. \/ wire' = wire /\ page' = [page EXCEPT !.editing = {}] /\ db' = db
          \/ wire' = wire \cup {new} /\ page' = [Busy(page, <<"edit", m.id>>) EXCEPT !.calls = @ + 1] /\ db' = db
      BY <3>1 DEF Show, Call
    <3> HIDE DEF new
    <3>4. /\ db' = db /\ page'.at = page.at /\ page'.members = page.members /\ page'.invited = page.invited /\ page'.stale = page.stale
          /\ page'.detail = page.detail /\ page'.confirm = page.confirm /\ page'.asked = page.asked
      BY <3>3 DEF Busy, MembersInv, MembersFields
    <3>5. /\ \A q \in wire' : q \in wire \/ (q.op = "edit" /\ q.out = "sent" /\ q.row = {} /\ q.members = {})
          /\ \A q \in wire : q \in wire'
      BY <3>2, <3>3
    <3> QED BY <3>4, <3>5 DEF MembersInv, MemberRows, AreMembers
  <2>4. OneOwner'
    BY <1>11 DEF SaveEdit, None, Show, Call, Busy, MemberCall, MembersFields, MemberCalls,
      MembersInv, OneOwner
  <2>5. AskedForThisOne'
    <3>1. PICK m \in page.editing :
            LET change == [role |-> IF role = m.role THEN None ELSE role, status |-> IF status = m.status THEN None ELSE status]
            IN IF change = [role |-> None, status |-> None] THEN Show([page EXCEPT !.editing = {}])
               ELSE Call(Busy(page, <<"edit", m.id>>), [MemberCall("edit", m.id) EXCEPT !.change = change])
      BY <1>11 DEF SaveEdit
    <3> DEFINE change == [role |-> IF role = m.role THEN None ELSE role, status |-> IF status = m.status THEN None ELSE status]
               new == [MemberCall("edit", m.id) EXCEPT !.change = change]
    <3>2. new.op = "edit" /\ new.out = "sent" /\ new.row = {} /\ new.members = {}
      BY DEF MemberCall
    <3>3. \/ wire' = wire /\ page' = [page EXCEPT !.editing = {}] /\ db' = db
          \/ wire' = wire \cup {new} /\ page' = [Busy(page, <<"edit", m.id>>) EXCEPT !.calls = @ + 1] /\ db' = db
      BY <3>1 DEF Show, Call
    <3> HIDE DEF new
    <3>4. /\ db' = db /\ page'.at = page.at /\ page'.members = page.members /\ page'.invited = page.invited /\ page'.stale = page.stale
          /\ page'.detail = page.detail /\ page'.confirm = page.confirm /\ page'.asked = page.asked
      BY <3>3 DEF Busy, MembersInv, MembersFields
    <3>5. /\ \A q \in wire' : q \in wire \/ (q.op = "edit" /\ q.out = "sent" /\ q.row = {} /\ q.members = {})
          /\ \A q \in wire : q \in wire'
      BY <3>2, <3>3
    <3> QED BY <3>4 DEF MembersInv, AskedForThisOne
  <2>6. MembersRead'
    BY <1>11 DEF SaveEdit, None, Show, Call, Busy, MemberCall, MembersFields, MemberCalls,
      MembersInv, MembersRead
  <2>7. MemberAnswers'
    BY <1>11 DEF SaveEdit, None, Show, Call, Busy, MemberCall, MembersFields, MemberCalls,
      MembersInv, MemberAnswers, AnswerHolds, MemberOf
  <2>8. MembersFollow'
    <3>1. PICK m \in page.editing :
            LET change == [role |-> IF role = m.role THEN None ELSE role, status |-> IF status = m.status THEN None ELSE status]
            IN IF change = [role |-> None, status |-> None] THEN Show([page EXCEPT !.editing = {}])
               ELSE Call(Busy(page, <<"edit", m.id>>), [MemberCall("edit", m.id) EXCEPT !.change = change])
      BY <1>11 DEF SaveEdit
    <3> DEFINE change == [role |-> IF role = m.role THEN None ELSE role, status |-> IF status = m.status THEN None ELSE status]
               new == [MemberCall("edit", m.id) EXCEPT !.change = change]
    <3>2. new.op = "edit" /\ new.out = "sent" /\ new.row = {} /\ new.members = {}
      BY DEF MemberCall
    <3>3. \/ wire' = wire /\ page' = [page EXCEPT !.editing = {}] /\ db' = db
          \/ wire' = wire \cup {new} /\ page' = [Busy(page, <<"edit", m.id>>) EXCEPT !.calls = @ + 1] /\ db' = db
      BY <3>1 DEF Show, Call
    <3> HIDE DEF new
    <3>4. /\ db' = db /\ page'.at = page.at /\ page'.members = page.members /\ page'.invited = page.invited /\ page'.stale = page.stale
          /\ page'.detail = page.detail /\ page'.confirm = page.confirm /\ page'.asked = page.asked
      BY <3>3 DEF Busy, MembersInv, MembersFields
    <3>5. /\ \A q \in wire' : q \in wire \/ (q.op = "edit" /\ q.out = "sent" /\ q.row = {} /\ q.members = {})
          /\ \A q \in wire : q \in wire'
      BY <3>2, <3>3
    <3>6. OwnerIsTold' <=> OwnerIsTold
      BY <3>5 DEF OwnerIsTold
    <3> QED BY <3>4, <3>5, <3>6, CallsAreNoNews DEF MembersInv
  <2> QED BY <2>1, <2>2, <2>3, <2>4, <2>5, <2>6, <2>7, <2>8 DEF MembersInv
<1>12. ASSUME NEW to \in Addressed, SendInvites(to) PROVE MembersInv'
  <2>1. MembersFields'
    BY <1>12 DEF SendInvites, Call, Busy, MemberCall, None, MembersFields, MemberCalls, MembersInv
  <2>2. MemberCalls'
    BY <1>12 DEF SendInvites, Call, Busy, MemberCall, None, MembersFields, MemberCalls, MembersInv
  <2>3. MemberRows'
    BY <1>12 DEF SendInvites, Call, Busy, MemberCall, None, MembersFields, MemberCalls,
      MembersInv, MemberRows, AreMembers, MemberFields
  <2>4. OneOwner'
    BY <1>12 DEF SendInvites, Call, Busy, MemberCall, None, MembersFields, MemberCalls,
      MembersInv, OneOwner
  <2>5. AskedForThisOne'
    BY <1>12 DEF SendInvites, Call, Busy, MemberCall, None, MembersFields, MemberCalls,
      MembersInv, AskedForThisOne
  <2>6. MembersRead'
    BY <1>12 DEF SendInvites, Call, Busy, MemberCall, None, MembersFields, MemberCalls,
      MembersInv, MembersRead
  <2>7. MemberAnswers'
    BY <1>12 DEF SendInvites, Call, Busy, MemberCall, None, MembersFields, MemberCalls,
      MembersInv, MemberAnswers, AnswerHolds, MemberOf
  <2>8. MembersFollow'
    BY <1>12 DEF SendInvites, Call, Busy, MemberCall, None, MembersInv, MembersFields,
      MemberCalls, MemberRows, AreMembers, MemberFields, OneOwner, AskedForThisOne, MembersRead,
      MemberAnswers, AnswerHolds, MemberOf, MembersFollow, Unsettles, RowFollows, InvitedFollows,
      MemberWrites, Settled, Rights, Alike, Founder, OwnerIsTold
  <2> QED BY <2>1, <2>2, <2>3, <2>4, <2>5, <2>6, <2>7, <2>8 DEF MembersInv
<1>13. ASSUME NEW i \in page.invited, RevokeInvitation(i) PROVE MembersInv'
  BY <1>13 DEF RevokeInvitation, OnMembers, Call, Busy, MemberCall, None, MembersInv,
    MembersFields, MemberCalls, MemberRows, AreMembers, MemberFields, OneOwner, AskedForThisOne,
    MembersRead, MemberAnswers, AnswerHolds, MemberOf, MembersFollow, Unsettles, RowFollows,
    InvitedFollows, MemberWrites, Settled, Rights, Alike, Founder, OwnerIsTold
<1>14. ASSUME NEW i \in db.invited, Accepts(i) PROVE MembersInv'
  BY <1>14, AcceptsStep
<1>15. ASSUME NEW r \in wire, ServeMemberWrite(r) PROVE MembersInv'
  <2>1. r.op \in MemberWrites
    BY <1>15 DEF ServeMemberWrite
  <2> QED BY <1>15, <2>1, EditServed, RemoveServed, OwnerServed, InviteServed, RevokeServed DEF MemberWrites
<1>16. ASSUME NEW r \in wire, NEW part \in {"members", "invited"}, ServeMembersRead(r, part) PROVE MembersInv'
  BY <1>16, MembersReadStep
<1>17. ASSUME NEW r \in wire, NEW heard \in BOOLEAN, MembersArrive(r, heard) PROVE MembersInv'
  <2>1. MembersFields'
    BY <1>17 DEF MembersArrive, Then, Free, MembersFields, MemberCalls, MembersInv
  <2>2. MemberCalls'
    BY <1>17 DEF MembersArrive, Then, Free, MembersFields, MemberCalls, MembersInv
  <2>3. MemberRows'
    BY <1>17 DEF MembersArrive, Then, Free, MembersFields, MemberCalls, MembersInv, MemberRows,
      AreMembers, MemberFields
  <2>4. OneOwner'
    BY <1>17 DEF MembersArrive, Then, Free, MembersFields, MemberCalls, MembersInv, OneOwner
  <2>5. AskedForThisOne'
    BY <1>17 DEF MembersArrive, Then, Free, MembersFields, MemberCalls, MembersInv,
      AskedForThisOne, None
  <2>6. MembersRead'
    BY <1>17 DEF MembersArrive, Then, Free, MembersFields, MemberCalls, MembersInv, MembersRead
  <2>7. MemberAnswers'
    BY <1>17 DEF MembersArrive, Then, Free, MembersFields, MemberCalls, MembersInv,
      MemberAnswers, AnswerHolds, MemberOf
  <2>8. MembersFollow'
    <3> DEFINE read == IF heard THEN [page EXCEPT !.members = r.members, !.invited = r.invited, !.stale = r.old]
                       ELSE [page EXCEPT !.stale = @ \/ r.rest # <<>>]
    <3>1. /\ r.op = "all" /\ wire' = wire \ {r} /\ db' = db /\ (heard => r.got = {"members", "invited"})
          /\ page' = IF r.rest = <<>> THEN read ELSE [Free(read) EXCEPT !.inviting = FALSE]
      BY <1>17 DEF MembersArrive, Then
    <3>2. /\ heard => page'.members = r.members /\ page'.invited = r.invited /\ page'.stale = r.old
          /\ ~heard => page'.members = page.members /\ page'.invited = page.invited /\ (page'.stale = (page.stale \/ r.rest # <<>>))
      <4>1. DOMAIN read = DOMAIN page
        OBVIOUS
      <4>2. /\ heard => read.members = r.members /\ read.invited = r.invited /\ read.stale = r.old
            /\ ~heard => /\ read.members = page.members /\ read.invited = page.invited
                         /\ read.stale = (page.stale \/ r.rest # <<>>)
        BY DEF MembersInv, MembersFields
      <4>3. page'.members = read.members /\ page'.invited = read.invited /\ page'.stale = read.stale
        <5> HIDE DEF read
        <5> QED BY <3>1, <4>1 DEF Free, MembersInv, MembersFields
      <4> QED BY <4>2, <4>3
    <3> HIDE DEF read
    <3>3. CASE heard /\ r.old
      BY <3>2, <3>3 DEF MembersFollow
    <3>4. CASE heard /\ ~r.old
      <4>1. r.members = db.members /\ r.invited = db.invited
        BY <3>1, <3>4 DEF MembersInv, MembersRead
      <4>2. \A i : Settled(i)'
        BY <3>1, <3>2, <3>4, <4>1 DEF Settled, MemberOf, Alike
      <4> QED BY <3>1, <3>2, <3>4, <4>1, <4>2 DEF MembersFollow, RowFollows, InvitedFollows
    <3>5. CASE ~heard
      <4>1. \A i : MemberOf(page.members, i)' = MemberOf(page.members, i)
        BY <3>2, <3>5 DEF MemberOf
      <4> QED BY <3>1, <3>2, <3>5, <4>1, RowArrives DEF Unsettles, Rights, MemberWrites
    <3> QED BY <3>3, <3>4, <3>5
  <2> QED BY <2>1, <2>2, <2>3, <2>4, <2>5, <2>6, <2>7, <2>8 DEF MembersInv
<1>18. ASSUME NEW r \in wire, NEW heard \in BOOLEAN, MemberPatched(r, heard) PROVE MembersInv'
  <2>1. MembersFields'
    BY <1>18 DEF MemberPatched, MemberOf, Free, Selects, Then, Missed, Presses, None,
      MembersFields, MemberCalls, MembersInv
  <2>2. MemberCalls'
    BY <1>18 DEF MemberPatched, MemberOf, Free, Selects, Then, Missed, Presses, None,
      MembersFields, MemberCalls, MembersInv
  <2>3. MemberRows'
    BY <1>18 DEF MemberPatched, MemberOf, Free, Selects, Then, Missed, Presses, None,
      MembersFields, MemberCalls, MembersInv, MemberRows, AreMembers, MemberFields
  <2>4. OneOwner'
    BY <1>18 DEF MemberPatched, MemberOf, Free, Selects, Then, Missed, Presses, None,
      MembersFields, MemberCalls, MembersInv, OneOwner
  <2>5. AskedForThisOne'
    BY <1>18 DEF MemberPatched, MemberOf, Free, Selects, Then, Missed, Presses, None,
      MembersFields, MemberCalls, MembersInv, AskedForThisOne
  <2>6. MembersRead'
    BY <1>18 DEF MemberPatched, MemberOf, Free, Selects, Then, Missed, Presses, None,
      MembersFields, MemberCalls, MembersInv, MembersRead
  <2>7. MemberAnswers'
    BY <1>18 DEF MemberPatched, MemberOf, Free, Selects, Then, Missed, Presses, None,
      MembersFields, MemberCalls, MembersInv, MemberAnswers, AnswerHolds
  <2>8. MembersFollow'
    <3>1. r.op \in {"edit", "status"} /\ wire' = (wire \ {r}) \cup {} /\ db' = db
      BY <1>18 DEF MemberPatched, Then
    <3> DEFINE there == MemberOf(page.members, r.who)
    <3>2. /\ page'.invited = page.invited
          /\ heard => /\ r.out = "ok" /\ page'.stale = (page.stale \/ r.old)
                      /\ page'.members = IF there = {} THEN page.members ELSE (page.members \ there) \cup r.row
          /\ ~heard => page'.stale = (page.stale \/ r.out = "ok") /\ page'.members = page.members
      <4>1. CASE heard
        BY <1>18, <4>1 DEF MemberPatched, Then, Free, Selects, Presses, MembersInv, MembersFields
      <4>2. CASE ~heard
        BY <1>18, <4>2 DEF MemberPatched, Then, Free, Missed, MembersInv, MembersFields
      <4> QED BY <4>1, <4>2
    <3>3. CASE heard /\ ~r.old /\ there # {}
      <4>1. r.row = MemberOf(db.members, r.who)
        BY <3>1, <3>2, <3>3 DEF MembersInv, MemberAnswers, AnswerHolds
      <4>2. MemberOf(page.members, r.who)' = MemberOf(db.members, r.who)
        BY <3>2, <3>3, <4>1 DEF MemberOf
      <4>3. \A j : j # r.who => MemberOf(page.members, j)' = MemberOf(page.members, j)
        BY <3>2, <3>3, <4>1 DEF MemberOf
      <4> QED BY <3>1, <3>2, <4>2, <4>3, RowArrives DEF Unsettles
    <3>4. CASE heard /\ r.old
      BY <3>2, <3>4 DEF MembersFollow
    <3>5. CASE ~heard /\ r.out = "ok"
      BY <3>2, <3>5 DEF MembersFollow
    <3>6. CASE (heard /\ there = {}) \/ (~heard /\ r.out # "ok")
      <4>1. MemberOf(page.members, r.who)' = MemberOf(page.members, r.who) /\ ~Rights(r, r.who)
        BY <3>1, <3>2, <3>6 DEF MemberOf, Rights
      <4>2. page'.members = page.members
        BY <3>2, <3>6
      <4>3. \A j : MemberOf(page.members, j)' = MemberOf(page.members, j)
        BY <4>2 DEF MemberOf
      <4> QED BY <3>1, <3>2, <4>1, <4>3, RowArrives DEF Unsettles
    <3> QED BY <3>3, <3>4, <3>5, <3>6
  <2> QED BY <2>1, <2>2, <2>3, <2>4, <2>5, <2>6, <2>7, <2>8 DEF MembersInv
<1>19. ASSUME NEW r \in wire, NEW heard \in BOOLEAN, MemberRemoved(r, heard) PROVE MembersInv'
  <2>1. MembersFields'
    BY <1>19 DEF MemberRemoved, Then, Selects, Free, MemberOf, Missed, None, MembersFields,
      MemberCalls, MembersInv
  <2>2. MemberCalls'
    BY <1>19 DEF MemberRemoved, Then, Selects, Free, MemberOf, Missed, None, MembersFields,
      MemberCalls, MembersInv
  <2>3. MemberRows'
    BY <1>19 DEF MemberRemoved, Then, Selects, Free, MemberOf, Missed, None, MembersFields,
      MemberCalls, MembersInv, MemberRows, AreMembers, MemberFields
  <2>4. OneOwner'
    BY <1>19 DEF MemberRemoved, Then, Selects, Free, MemberOf, Missed, None, MembersFields,
      MemberCalls, MembersInv, OneOwner
  <2>5. AskedForThisOne'
    BY <1>19 DEF MemberRemoved, Then, Selects, Free, MemberOf, Missed, None, MembersFields,
      MemberCalls, MembersInv, AskedForThisOne
  <2>6. MembersRead'
    BY <1>19 DEF MemberRemoved, Then, Selects, Free, MemberOf, Missed, None, MembersFields,
      MemberCalls, MembersInv, MembersRead
  <2>7. MemberAnswers'
    BY <1>19 DEF MemberRemoved, Then, Selects, Free, MemberOf, Missed, None, MembersFields,
      MemberCalls, MembersInv, MemberAnswers, AnswerHolds
  <2>8. MembersFollow'
    <3>1. r.op = "remove" /\ wire' = (wire \ {r}) \cup {} /\ db' = db
      BY <1>19 DEF MemberRemoved, Then
    <3>2. /\ page'.invited = page.invited
          /\ heard => /\ r.out = "ok" /\ page'.stale = (page.stale \/ r.old)
                      /\ page'.members = page.members \ MemberOf(page.members, r.who)
          /\ ~heard => page'.stale = (page.stale \/ r.out = "ok") /\ page'.members = page.members
      BY <1>19 DEF MemberRemoved, Then, Free, Selects, Missed, MembersInv, MembersFields
    <3>3. CASE heard /\ ~r.old
      <4>1. MemberOf(db.members, r.who) = {}
        BY <3>1, <3>2, <3>3 DEF MembersInv, MemberAnswers, AnswerHolds
      <4>2. /\ MemberOf(page.members, r.who)' = {}
            /\ \A j : j # r.who => MemberOf(page.members, j)' = MemberOf(page.members, j)
        BY <3>2, <3>3 DEF MemberOf
      <4> QED BY <3>1, <3>2, <4>1, <4>2, RowArrives DEF Unsettles
    <3>4. CASE (heard /\ r.old) \/ (~heard /\ r.out = "ok")
      BY <3>2, <3>4 DEF MembersFollow
    <3>5. CASE ~heard /\ r.out # "ok"
      <4>1. \A j : MemberOf(page.members, j)' = MemberOf(page.members, j)
        BY <3>2, <3>5 DEF MemberOf
      <4> QED BY <3>1, <3>2, <3>5, <4>1, RowArrives DEF Unsettles, Rights
    <3> QED BY <3>3, <3>4, <3>5
  <2> QED BY <2>1, <2>2, <2>3, <2>4, <2>5, <2>6, <2>7, <2>8 DEF MembersInv
<1>20. ASSUME NEW r \in wire, NEW heard \in BOOLEAN, OwnershipTransferred(r, heard) PROVE MembersInv'
  <2>1. MembersFields'
    BY <1>20 DEF OwnershipTransferred, Then, Selects, Free, Missed, None, MembersFields,
      MemberCalls, MembersInv
  <2>2. MemberCalls'
    BY <1>20 DEF OwnershipTransferred, Then, Selects, Free, Missed, None, MembersFields,
      MemberCalls, MembersInv
  <2>3. MemberRows'
    BY <1>20 DEF OwnershipTransferred, Then, Selects, Free, Missed, None, MembersFields,
      MemberCalls, MembersInv, MemberRows, AreMembers, MemberFields
  <2>4. OneOwner'
    BY <1>20 DEF OwnershipTransferred, Then, Selects, Free, Missed, None, MembersFields,
      MemberCalls, MembersInv, OneOwner
  <2>5. AskedForThisOne'
    BY <1>20 DEF OwnershipTransferred, Then, Selects, Free, Missed, None, MembersFields,
      MemberCalls, MembersInv, AskedForThisOne
  <2>6. MembersRead'
    BY <1>20 DEF OwnershipTransferred, Then, Selects, Free, Missed, None, MembersFields,
      MemberCalls, MembersInv, MembersRead
  <2>7. MemberAnswers'
    BY <1>20 DEF OwnershipTransferred, Then, Selects, Free, Missed, None, MembersFields,
      MemberCalls, MembersInv, MemberAnswers, AnswerHolds, MemberOf
  <2>8. MembersFollow'
    <3> DEFINE Given(p) == [p EXCEPT !.owner = p.id = r.who]
    <3>1. r.op = "owner" /\ wire' = (wire \ {r}) \cup {} /\ db' = db
      BY <1>20 DEF OwnershipTransferred, Then
    <3>2. /\ page'.invited = page.invited
          /\ heard => /\ r.out = "ok" /\ page'.stale = (page.stale \/ r.old)
                      /\ page'.members = {Given(p) : p \in page.members}
          /\ ~heard => page'.stale = (page.stale \/ r.out = "ok") /\ page'.members = page.members
      <4>1. CASE heard
        BY <1>20, <4>1 DEF OwnershipTransferred, Then, Free, Selects, MembersInv, MembersFields
      <4>2. CASE ~heard
        BY <1>20, <4>2 DEF OwnershipTransferred, Then, Free, Missed, MembersInv, MembersFields
      <4> QED BY <4>1, <4>2
    <3>3. CASE heard /\ ~r.old
      <4>1. \A m \in db.members : m.owner = (m.id = r.who)
        BY <3>1, <3>2, <3>3 DEF MembersInv, MemberAnswers, AnswerHolds
      <4>2. ASSUME NEW p \in page.members
            PROVE  Given(p).id = p.id /\ Given(p).role = p.role /\ Given(p).status = p.status /\ Given(p).owner = (p.id = r.who)
        BY DEF MembersInv, MemberRows, AreMembers, MemberFields
      <4> HIDE DEF Given
      <4>3. ASSUME NEW p \in page.members, NEW m \in db.members, Alike(p, m) PROVE Alike(Given(p), m)'
        BY <4>1, <4>2, <4>3 DEF Alike
      <4>4. ASSUME NEW i, Settled(i) PROVE Settled(i)'
        <5>1. \A q \in MemberOf(page.members, i)' : \E m \in MemberOf(db.members, i) : Alike(q, m)'
          BY <3>2, <3>3, <4>2, <4>3, <4>4 DEF Settled, MemberOf
        <5>2. \A m \in MemberOf(db.members, i) : \E q \in MemberOf(page.members, i)' : Alike(q, m)'
          BY <3>2, <3>3, <4>2, <4>3, <4>4 DEF Settled, MemberOf
        <5> QED BY <3>1, <5>1, <5>2 DEF Settled, MemberOf
      <4>5. ASSUME NEW i, MemberOf(page.members, i) # {} PROVE MemberOf(page.members, i)' # {}
        BY <3>2, <3>3, <4>2, <4>5 DEF MemberOf
      <4>6. ASSUME NEW i, NEW o \in wire, Rights(o, i) PROVE o \in wire' /\ Rights(o, i)'
        BY <3>1, <4>5, <4>6 DEF Rights
      <4>7. \A i : InvitedFollows(i) => InvitedFollows(i)'
        BY <3>1, <3>2 DEF InvitedFollows
      <4>8. (page.stale => page'.stale) /\ ~Unsettles(r)
        BY <3>1, <3>2, <3>3 DEF Unsettles
      <4> QED BY <3>1, <4>4, <4>6, <4>7, <4>8 DEF MembersInv, MembersFollow, RowFollows
    <3>4. CASE (heard /\ r.old) \/ (~heard /\ r.out = "ok")
      BY <3>2, <3>4 DEF MembersFollow
    <3>5. CASE ~heard /\ r.out # "ok"
      <4>1. \A j : MemberOf(page.members, j)' = MemberOf(page.members, j)
        BY <3>2, <3>5 DEF MemberOf
      <4> QED BY <3>1, <3>2, <3>5, <4>1, RowArrives DEF Unsettles, Rights
    <3> QED BY <3>3, <3>4, <3>5
  <2> QED BY <2>1, <2>2, <2>3, <2>4, <2>5, <2>6, <2>7, <2>8 DEF MembersInv
<1>21. ASSUME NEW r \in wire, NEW heard \in BOOLEAN, InviteSent(r, heard) PROVE MembersInv'
  <2>1. MembersFields'
    BY <1>21 DEF InviteSent, MemberOf, Then, Free, Missed, MemberList, MemberCall, None,
      MembersFields, MemberCalls, MembersInv
  <2>2. MemberCalls'
    BY <1>21 DEF InviteSent, MemberOf, Then, Free, Missed, MemberList, MemberCall, None,
      MembersFields, MemberCalls, MembersInv
  <2>3. MemberRows'
    <3> DEFINE next == IF r.rest = <<>> THEN MemberList(<<"invite">>)
                       ELSE [MemberCall("invite", Head(r.rest)) EXCEPT !.rest = Tail(r.rest)]
               N == IF heard THEN {next} ELSE {}
    <3>1. wire' = (wire \ {r}) \cup N /\ db' = db
      BY <1>21 DEF InviteSent, Then
    <3>2. \A q \in N : q.row = {} /\ q.members = {}
      BY DEF MemberList, MemberCall
    <3>3. page'.members = page.members \/ page'.members = (page.members \ MemberOf(page.members, r.who)) \cup r.row
      <4>1. CASE heard
        BY <1>21, <4>1 DEF InviteSent, Then, MembersInv, MembersFields
      <4>2. CASE ~heard
        BY <1>21, <4>2 DEF InviteSent, Then, Free, Missed, MembersInv, MembersFields
      <4> QED BY <4>1, <4>2
    <3> HIDE DEF N
    <3>4. AreMembers(page.members)'
      BY <3>3 DEF AreMembers, MembersInv, MemberRows
    <3>5. \A q \in wire' : AreMembers(q.members) /\ AreMembers(q.row)
      BY <3>1, <3>2 DEF AreMembers, MembersInv, MemberRows
    <3> QED BY <3>1, <3>4, <3>5 DEF MembersInv, MemberRows
  <2>4. OneOwner'
    BY <1>21 DEF InviteSent, MemberOf, Then, Free, Missed, MemberList, MemberCall, None,
      MembersFields, MemberCalls, MembersInv, OneOwner
  <2>5. AskedForThisOne'
    <3>1. /\ page'.at = page.at /\ page'.detail = page.detail
          /\ page'.confirm = page.confirm /\ page'.asked = page.asked
      <4>1. CASE heard
        BY <1>21, <4>1 DEF InviteSent, Then, MembersInv, MembersFields
      <4>2. CASE ~heard
        BY <1>21, <4>2 DEF InviteSent, Then, Free, Missed, MembersInv, MembersFields
      <4> QED BY <4>1, <4>2
    <3> QED BY <3>1 DEF MembersInv, AskedForThisOne
  <2>6. MembersRead'
    BY <1>21 DEF InviteSent, MemberOf, Then, Free, Missed, MemberList, MemberCall, None,
      MembersFields, MemberCalls, MembersInv, MembersRead
  <2>7. MemberAnswers'
    BY <1>21 DEF InviteSent, MemberOf, Then, Free, Missed, MemberList, MemberCall, None,
      MembersFields, MemberCalls, MembersInv, MemberAnswers, AnswerHolds
  <2>8. MembersFollow'
    <3> DEFINE next == IF r.rest = <<>> THEN MemberList(<<"invite">>)
                       ELSE [MemberCall("invite", Head(r.rest)) EXCEPT !.rest = Tail(r.rest)]
               N == IF heard THEN {next} ELSE {}
    <3>1. r.op = "invite" /\ wire' = (wire \ {r}) \cup N /\ db' = db
      BY <1>21 DEF InviteSent, Then
    <3>2. \A q \in N : q.out = "sent"
      BY DEF MemberList, MemberCall
    <3>3. /\ page'.invited = page.invited
          /\ heard => /\ r.out = "ok" /\ page'.stale = (page.stale \/ r.row = {} \/ r.old)
                      /\ page'.members = IF r.row = {} THEN page.members
                                         ELSE (page.members \ MemberOf(page.members, r.who)) \cup r.row
          /\ ~heard => page'.stale = (page.stale \/ r.out = "ok") /\ page'.members = page.members
      <4>1. CASE heard
        BY <1>21, <4>1 DEF InviteSent, Then, MembersInv, MembersFields
      <4>2. CASE ~heard
        BY <1>21, <4>2 DEF InviteSent, Then, Free, Missed, MembersInv, MembersFields
      <4> QED BY <4>1, <4>2
    <3> HIDE DEF N
    <3>4. CASE heard /\ ~r.old /\ r.row # {}
      <4>1. r.row = MemberOf(db.members, r.who)
        BY <3>1, <3>3, <3>4 DEF MembersInv, MemberAnswers, AnswerHolds
      <4>2. /\ MemberOf(page.members, r.who)' = MemberOf(db.members, r.who)
            /\ \A j : j # r.who => MemberOf(page.members, j)' = MemberOf(page.members, j)
        BY <3>3, <3>4, <4>1 DEF MemberOf
      <4> QED BY <3>1, <3>2, <3>3, <4>2, RowArrives DEF Unsettles
    <3>5. CASE (heard /\ (r.old \/ r.row = {})) \/ (~heard /\ r.out = "ok")
      BY <3>3, <3>5 DEF MembersFollow
    <3>6. CASE ~heard /\ r.out # "ok"
      <4>1. \A j : MemberOf(page.members, j)' = MemberOf(page.members, j)
        BY <3>3, <3>6 DEF MemberOf
      <4> QED BY <3>1, <3>2, <3>3, <3>6, <4>1, RowArrives DEF Unsettles, Rights
    <3> QED BY <3>4, <3>5, <3>6
  <2> QED BY <2>1, <2>2, <2>3, <2>4, <2>5, <2>6, <2>7, <2>8 DEF MembersInv
<1>22. ASSUME NEW r \in wire, NEW heard \in BOOLEAN, InvitationRevoked(r, heard) PROVE MembersInv'
  <2>1. MembersFields'
    BY <1>22 DEF InvitationRevoked, Then, Selects, Free, Missed, None, MembersFields,
      MemberCalls, MembersInv
  <2>2. MemberCalls'
    BY <1>22 DEF InvitationRevoked, Then, Selects, Free, Missed, None, MembersFields,
      MemberCalls, MembersInv
  <2>3. MemberRows'
    BY <1>22 DEF InvitationRevoked, Then, Selects, Free, Missed, None, MembersFields,
      MemberCalls, MembersInv, MemberRows, AreMembers, MemberFields
  <2>4. OneOwner'
    BY <1>22 DEF InvitationRevoked, Then, Selects, Free, Missed, None, MembersFields,
      MemberCalls, MembersInv, OneOwner
  <2>5. AskedForThisOne'
    BY <1>22 DEF InvitationRevoked, Then, Selects, Free, Missed, None, MembersFields,
      MemberCalls, MembersInv, AskedForThisOne
  <2>6. MembersRead'
    BY <1>22 DEF InvitationRevoked, Then, Selects, Free, Missed, None, MembersFields,
      MemberCalls, MembersInv, MembersRead
  <2>7. MemberAnswers'
    BY <1>22 DEF InvitationRevoked, Then, Selects, Free, Missed, None, MembersFields,
      MemberCalls, MembersInv, MemberAnswers, AnswerHolds, MemberOf
  <2>8. MembersFollow'
    <3>1. r.op = "revoke" /\ wire' = (wire \ {r}) \cup {} /\ db' = db
      BY <1>22 DEF InvitationRevoked, Then
    <3>2. /\ page'.members = page.members
          /\ heard => /\ r.out = "ok" /\ page'.stale = (page.stale \/ r.old)
                      /\ page'.invited = page.invited \ {r.who}
          /\ ~heard => page'.stale = (page.stale \/ r.out = "ok") /\ page'.invited = page.invited
      BY <1>22 DEF InvitationRevoked, Then, Free, Selects, Missed, MembersInv, MembersFields
    <3>3. (\A j : MemberOf(page.members, j)' = MemberOf(page.members, j)) /\ ~Rights(r, r.who)
      BY <3>1, <3>2 DEF MemberOf, Rights
    <3>4. CASE heard
      BY <3>1, <3>2, <3>3, <3>4, RowArrives DEF Unsettles
    <3>5. CASE ~heard /\ r.out = "ok"
      BY <3>2, <3>5 DEF MembersFollow
    <3>6. CASE ~heard /\ r.out # "ok"
      BY <3>1, <3>2, <3>3, <3>6, RowArrives DEF Unsettles
    <3> QED BY <3>4, <3>5, <3>6
  <2> QED BY <2>1, <2>2, <2>3, <2>4, <2>5, <2>6, <2>7, <2>8 DEF MembersInv
<1> QED
  BY <1>1, <1>2, <1>3, <1>4, <1>5, <1>6, <1>7, <1>8, <1>9, <1>10, <1>11, <1>12, <1>13, <1>14,
    <1>15, <1>16, <1>17, <1>18, <1>19, <1>20, <1>21, <1>22 DEF MembersNext

-----------------------------------------------------------------------------
(* The frame around a project *)

Lookups == {"adopt", "adopt projects"}
ShellFields == {"at", "url", "left", "memory", "orgs", "list", "org", "project", "pid", "before", "adopted", "listOf",
                "torn", "late", "cut", "picked", "form", "typed", "busy", "calls"}
CallFields == {"op", "org", "who", "memory"}
ShellShape == page.at = "shell" /\ DOMAIN page = ShellFields /\ DOMAIN db = {"of", "there"}
ShellCalls == \A r \in wire : DOMAIN r = CallFields
Owned == \A p \in db.there : Of(p) # None

\* At most one look-up is on its way, of the project in the URL.
LookedUp ==
    /\ \A q, r \in wire : q.op \in Lookups /\ r.op \in Lookups => q = r
    /\ \A r \in wire :
         /\ r.op \in Lookups => r.who = page.url.proj /\ r.who # None
         /\ r.op = "adopt projects" => r.org = Of(r.who) /\ r.org # None
Adopted == page.url.proj # None => page.adopted = page.url.proj

\* The project whose URL was looked up last is the one of the scope, ...
ScopeOfAdopted ==
    page.adopted # None => \/ page.left \/ page.picked \/ page.cut \/ page.late \/ page.pid = page.adopted
                           \/ \E r \in wire : r.op \in Lookups
\* ... and the lists are those of the organization.
Lists ==
    /\ \A r \in wire : r.op = "list" => r.org = page.org
    /\ \A p \in page.list : Of(p) = page.listOf
\* Before the organizations are read the memory and the URL alone chose one.
OrgsFirst ==
  /\ \A q, r \in wire : q.op = "orgs" /\ r.op = "orgs" => q = r
  /\ (\E r \in wire : r.op = "orgs") =>
      /\ page.before = page.org /\ (page.org = None => page.project = None)
      /\ \A q \in wire : q.op = "adopt projects" => q.org = page.org
PidIsProject == page.project # None => page.pid = page.project

ShellInv ==
    /\ ShellShape /\ ShellCalls /\ Owned /\ LookedUp /\ Adopted /\ ScopeOfAdopted /\ Lists /\ OrgsFirst /\ PidIsProject
    /\ ScopeCoherent

\* The invariant says what the runs ask of the frame.
LEMMA ShellHolds == ShellInv => ScopeCoherent /\ ScopeFollowsUrl
BY DEF ShellInv, ScopeFollowsUrl, Adopted, ScopeOfAdopted, InFlight, Lookups

\* What an effect, or a turn, leaves as it was.
AsWas(q, p) ==
    /\ DOMAIN q = ShellFields /\ q.at = p.at /\ q.url = p.url /\ q.left = p.left /\ q.memory = p.memory /\ q.org = p.org
    /\ q.pid = p.pid /\ q.listOf = p.listOf
ListAsWas(q, p) == q.list = p.list /\ q.project = p.project /\ q.before = p.before
HistoryAsWas(q, p) == q.adopted = p.adopted /\ q.torn = p.torn /\ q.late = p.late /\ q.cut = p.cut /\ q.picked = p.picked
Calls(W) == \A r \in W : DOMAIN r = CallFields

\* What the effects make of the list and the project, of the organization before, ...
ScopeListFollows(q, p) ==
    \/ p.org = None /\ q.list = {} /\ q.project = None /\ q.before = p.before
    \/ p.org # None /\ p.url.proj # None /\ ListAsWas(q, p)
    \/ /\ p.org # None /\ p.url.proj = None /\ q.before = p.org
       /\ \/ p.before \in {None, p.org} /\ q.list = p.list /\ q.project = p.project
          \/ p.before \notin {None, p.org} /\ q.list = {} /\ q.project = None
\* ... and of the look-up of a URL.
UrlSeen(q, V, p, W) ==
    /\ p.url.proj = None \/ p.adopted = p.url.proj
    /\ q.adopted = p.adopted /\ q.late = p.late /\ q.picked = p.picked
    /\ p.cut \/ (\E r \in W : r.op \in Lookups) => q.cut
    /\ p.torn \/ (\E r \in W : r.op = "adopt projects") => q.torn
    /\ \A r \in V : r.op \notin Lookups
UrlAsked(q, V, p, W) ==
    /\ p.url.proj # None /\ q.adopted = p.url.proj
    /\ p.torn \/ (\E r \in W : r.op = "adopt projects") => q.torn
    /\ \E r \in V : r.op = "adopt" /\ r.who = p.url.proj
    /\ \A r \in V : r.op \in Lookups => r.op = "adopt" /\ r.who = p.url.proj
    /\ \A r, o \in V : r.op \in Lookups /\ o.op \in Lookups => r = o
UrlFollows(q, V, p, W) == UrlSeen(q, V, p, W) \/ UrlAsked(q, V, p, W)
\* Calls of the given kinds are made, and cancelled.
Exchanged(V, W, ops) ==
    /\ \A r \in V : r \in W \/ r.op \in ops
    /\ \A r \in W : r \in V \/ r.op \in ops

\* The effect on the organization reads its projects, and leaves where the user is.
LEMMA ListEffect ==
  ASSUME NEW p, DOMAIN p = ShellFields, NEW W, Calls(W)
  PROVE  LET s == ProjectsEffect(p, W)
         IN /\ AsWas(s.p, p) /\ HistoryAsWas(s.p, p) /\ ScopeListFollows(s.p, p) /\ Calls(s.W) /\ Exchanged(s.W, W, {"list"})
            /\ \A r \in s.W : r.op = "list" => r.org = p.org
<1> DEFINE s == ProjectsEffect(p, W)
           changed == p.before \notin {None, p.org}
           call == [ShellCall("list") EXCEPT !.org = p.org, !.memory = p.memory]
<1>1. call.op = "list" /\ call.org = p.org /\ DOMAIN call = CallFields
  BY DEF ShellCall, CallFields
<1>2. CASE p.org = None
  <2>1. s.p = [p EXCEPT !.list = {}, !.project = None] /\ s.W = Cancel(W, {"list"})
    BY <1>2 DEF ProjectsEffect, State
  <2>2. AsWas(s.p, p) /\ HistoryAsWas(s.p, p) /\ ScopeListFollows(s.p, p)
    BY <1>2, <2>1 DEF AsWas, HistoryAsWas, ScopeListFollows, ShellFields
  <2> QED BY <2>1, <2>2 DEF Cancel, Calls, Exchanged
<1>3. CASE p.org # None /\ p.url.proj # None
  <2>1. s.p = p /\ s.W = Cancel(W, {"list"})
    BY <1>3 DEF ProjectsEffect, State
  <2> QED BY <1>3, <2>1 DEF Cancel, Calls, Exchanged, AsWas, HistoryAsWas, ScopeListFollows, ListAsWas
<1>4. CASE p.org # None /\ p.url.proj = None
  <2>1. /\ s.p = [p EXCEPT !.before = p.org, !.list = IF changed THEN {} ELSE @, !.project = IF changed THEN None ELSE @]
        /\ s.W = Cancel(W, {"list"}) \cup {call}
    BY <1>4 DEF ProjectsEffect, State
  <2>2. AsWas(s.p, p) /\ HistoryAsWas(s.p, p) /\ ScopeListFollows(s.p, p)
    BY <1>4, <2>1 DEF AsWas, HistoryAsWas, ScopeListFollows, ShellFields
  <2> HIDE DEF call
  <2> QED BY <1>1, <2>1, <2>2 DEF Cancel, Calls, Exchanged
<1> QED BY <1>2, <1>3, <1>4

\* The effect on the URL looks the project up, or drops what it looked up.
LEMMA UrlEffect ==
  ASSUME NEW p, DOMAIN p = ShellFields, NEW W, Calls(W)
  PROVE  LET s == AdoptEffect(p, W)
         IN /\ AsWas(s.p, p) /\ ListAsWas(s.p, p) /\ UrlFollows(s.p, s.W, p, W) /\ Calls(s.W) /\ Exchanged(s.W, W, Lookups)
<1> DEFINE s == AdoptEffect(p, W)
           going == \E r \in W : r.op \in {"adopt", "adopt projects"}
           half == \E r \in W : r.op = "adopt projects"
           left == Cancel(W, {"adopt", "adopt projects"})
           away == [p EXCEPT !.cut = @ \/ going, !.torn = @ \/ half]
           call == [ShellCall("adopt") EXCEPT !.who = p.url.proj]
<1>1. call.op = "adopt" /\ call.who = p.url.proj /\ DOMAIN call = CallFields
  BY DEF ShellCall, CallFields
<1>2. CASE p.url.proj = None \/ p.adopted = p.url.proj
  <2>1. s.p = away /\ s.W = left
    BY <1>2 DEF AdoptEffect, State
  <2>2. /\ DOMAIN s.p = ShellFields /\ AsWas(s.p, p) /\ ListAsWas(s.p, p)
        /\ s.p.adopted = p.adopted /\ s.p.late = p.late /\ s.p.picked = p.picked
        /\ s.p.cut = (p.cut \/ going) /\ s.p.torn = (p.torn \/ half)
    BY <2>1 DEF AsWas, ListAsWas, ShellFields
  <2> QED BY <1>2, <2>1, <2>2 DEF Cancel, Calls, Exchanged, UrlFollows, UrlSeen, UrlAsked, Lookups
<1>3. CASE ~(p.url.proj = None \/ p.adopted = p.url.proj)
  <2>1. /\ s.p = [away EXCEPT !.adopted = p.url.proj, !.cut = FALSE, !.late = FALSE, !.picked = FALSE]
        /\ s.W = left \cup {call}
    BY <1>3 DEF AdoptEffect, State
  <2>2. DOMAIN away = ShellFields /\ AsWas(away, p) /\ ListAsWas(away, p) /\ away.torn = (p.torn \/ half)
    BY DEF AsWas, ListAsWas, ShellFields
  <2> HIDE DEF away
  <2>3. AsWas(s.p, away)
    BY <2>1, <2>2 DEF AsWas, ShellFields
  <2>4. ListAsWas(s.p, away) /\ s.p.adopted = p.url.proj /\ s.p.torn = away.torn
    BY <2>1, <2>2 DEF ListAsWas, ShellFields
  <2>5. AsWas(s.p, p) /\ ListAsWas(s.p, p) /\ s.p.adopted = p.url.proj /\ s.p.torn = (p.torn \/ half)
    BY <2>2, <2>3, <2>4 DEF AsWas, ListAsWas
  <2> HIDE DEF call
  <2> QED BY <1>1, <1>3, <2>1, <2>5 DEF Cancel, Calls, Exchanged, UrlFollows, UrlSeen, UrlAsked, Lookups
<1> QED BY <1>2, <1>3

\* The effect on the settings form only reads what the form shows.
LEMMA FormEffect ==
  ASSUME NEW p, DOMAIN p = ShellFields, NEW W, Calls(W)
  PROVE  LET s == SettingsEffect(p, W)
         IN /\ AsWas(s.p, p) /\ ListAsWas(s.p, p) /\ HistoryAsWas(s.p, p) /\ Calls(s.W) /\ Exchanged(s.W, W, {"settings"})
<1> DEFINE s == SettingsEffect(p, W)
           call == [ShellCall("settings") EXCEPT !.org = p.org, !.who = p.project]
<1>1. call.op = "settings" /\ DOMAIN call = CallFields
  BY DEF ShellCall, CallFields
<1>2. CASE ~InForm(p)
  <2>1. s.p = [p EXCEPT !.form = None, !.typed = FALSE, !.busy = "none"] /\ s.W = Cancel(W, {"settings"})
    BY <1>2 DEF SettingsEffect, State
  <2>2. AsWas(s.p, p) /\ ListAsWas(s.p, p) /\ HistoryAsWas(s.p, p)
    BY <2>1 DEF AsWas, HistoryAsWas, ListAsWas, ShellFields
  <2> QED BY <2>1, <2>2 DEF Cancel, Calls, Exchanged
<1>3. CASE InForm(p) /\ InForm(page) /\ page.org = p.org /\ page.project = p.project
  <2>1. s.p = p /\ s.W = W
    BY <1>3 DEF SettingsEffect, State
  <2> QED BY <2>1 DEF Calls, Exchanged, AsWas, HistoryAsWas, ListAsWas
<1>4. CASE InForm(p) /\ ~(InForm(page) /\ page.org = p.org /\ page.project = p.project)
  <2>1. PICK f : s.p = [p EXCEPT !.form = f] /\ s.W = Cancel(W, {"settings"}) \cup {call}
    BY <1>4 DEF SettingsEffect, State
  <2>2. AsWas(s.p, p) /\ ListAsWas(s.p, p) /\ HistoryAsWas(s.p, p)
    BY <2>1 DEF AsWas, HistoryAsWas, ListAsWas, ShellFields
  <2> HIDE DEF call
  <2> QED BY <1>1, <2>1, <2>2 DEF Cancel, Calls, Exchanged
<1> QED BY <1>2, <1>3, <1>4

\* A turn: the effects, one after the other.
Scoped(p) == (p.org = page.org /\ ListAsWas(page', p)) \/ (p.org # page.org /\ ScopeListFollows(page', p))
Routed(p, W) ==
    \/ p.url = page.url /\ HistoryAsWas(page', p) /\ Exchanged(wire', W, {"list", "settings"})
    \/ p.url # page.url /\ UrlFollows(page', wire', p, W)

\* A handler that goes on to p is followed by the effects whose inputs it changed.
LEMMA TurnIs ==
  ASSUME NEW p, DOMAIN p = ShellFields, NEW W, Calls(W), Turn(p, W)
  PROVE  /\ db' = db /\ AsWas(page', p) /\ Scoped(p) /\ Routed(p, W) /\ Calls(wire)'
         /\ Exchanged(wire', W, Lookups \cup {"list", "settings"})
         /\ \A r \in wire' : r.op = "list" => (p.org # page.org /\ r.org = p.org) \/ (p.org = page.org /\ r \in W)
<1> DEFINE a == IF p.org = page.org THEN State(p, W) ELSE ProjectsEffect(p, W)
           b == IF p.url = page.url THEN a ELSE AdoptEffect(a.p, a.W)
           c == SettingsEffect(b.p, b.W)
<1>1. page' = c.p /\ wire' = c.W /\ db' = db
  BY DEF Turn
<1>2. /\ AsWas(a.p, p) /\ HistoryAsWas(a.p, p) /\ Calls(a.W) /\ Exchanged(a.W, W, {"list"})
      /\ \/ p.org = page.org /\ ListAsWas(a.p, p) /\ a.W = W
         \/ p.org # page.org /\ ScopeListFollows(a.p, p) /\ \A r \in a.W : r.op = "list" => r.org = p.org
  <2>1. CASE p.org = page.org
    <3>1. a.p = p /\ a.W = W
      BY <2>1 DEF State
    <3> HIDE DEF a
    <3> QED BY <2>1, <3>1 DEF AsWas, ListAsWas, HistoryAsWas, Exchanged
  <2>2. CASE p.org # page.org
    <3>1. a = ProjectsEffect(p, W)
      BY <2>2
    <3> HIDE DEF a
    <3> QED BY <2>2, <3>1, ListEffect
  <2> QED BY <2>1, <2>2
<1> HIDE DEF a
<1>3. /\ AsWas(b.p, a.p) /\ ListAsWas(b.p, a.p) /\ Calls(b.W) /\ Exchanged(b.W, a.W, Lookups)
      /\ \/ p.url = page.url /\ HistoryAsWas(b.p, a.p) /\ b.W = a.W
         \/ p.url # page.url /\ UrlFollows(b.p, b.W, a.p, a.W)
  <2>1. CASE p.url = page.url
    <3>1. b = a
      BY <2>1
    <3> HIDE DEF b
    <3> QED BY <1>2, <2>1, <3>1 DEF AsWas, ListAsWas, HistoryAsWas, Exchanged
  <2>2. CASE p.url # page.url
    <3>1. b = AdoptEffect(a.p, a.W) /\ DOMAIN a.p = ShellFields
      BY <1>2, <2>2 DEF AsWas
    <3> HIDE DEF b
    <3> QED BY <1>2, <2>2, <3>1, UrlEffect
  <2> QED BY <2>1, <2>2
<1> HIDE DEF b
<1>4. /\ AsWas(c.p, b.p) /\ ListAsWas(c.p, b.p) /\ HistoryAsWas(c.p, b.p) /\ Calls(c.W) /\ Exchanged(c.W, b.W, {"settings"})
  <2>1. DOMAIN b.p = ShellFields
    BY <1>3 DEF AsWas
  <2> QED BY <1>3, <2>1, FormEffect
<1> HIDE DEF c
<1>5. AsWas(page', p)
  BY <1>1, <1>2, <1>3, <1>4 DEF AsWas
<1>6. Scoped(p)
  BY <1>1, <1>2, <1>3, <1>4 DEF Scoped, ListAsWas, ScopeListFollows
<1>7. Exchanged(wire', W, Lookups \cup {"list", "settings"}) /\ Calls(wire)'
  BY <1>1, <1>2, <1>3, <1>4 DEF Exchanged, Calls
<1>8. \A r \in wire' : r.op = "list" => (p.org # page.org /\ r.org = p.org) \/ (p.org = page.org /\ r \in W)
  BY <1>1, <1>2, <1>3, <1>4 DEF Exchanged, Lookups
<1>9. Routed(p, W)
  <2>1. CASE p.url = page.url
    BY <1>1, <1>2, <1>3, <1>4, <2>1 DEF Routed, HistoryAsWas, Exchanged
  <2>2. CASE p.url # page.url
    <3>1. UrlFollows(b.p, b.W, a.p, a.W)
      BY <1>3, <2>2
    <3>2. /\ (\E r \in W : r.op \in Lookups) => \E r \in a.W : r.op \in Lookups
          /\ (\E r \in W : r.op = "adopt projects") => \E r \in a.W : r.op = "adopt projects"
      BY <1>2 DEF Exchanged, Lookups
    <3>3. UrlFollows(b.p, b.W, p, W)
      <4>1. a.p.url = p.url /\ a.p.adopted = p.adopted /\ a.p.late = p.late /\ a.p.picked = p.picked /\ a.p.cut = p.cut /\ a.p.torn = p.torn
        BY <1>2 DEF AsWas, HistoryAsWas
      <4>2. CASE UrlSeen(b.p, b.W, a.p, a.W)
        BY <3>2, <4>1, <4>2 DEF UrlFollows, UrlSeen
      <4>3. CASE UrlAsked(b.p, b.W, a.p, a.W)
        BY <3>2, <4>1, <4>3 DEF UrlFollows, UrlAsked
      <4> QED BY <3>1, <4>2, <4>3 DEF UrlFollows
    <3>4. \A r \in wire' : r.op \in Lookups => r \in b.W
      BY <1>1, <1>4 DEF Exchanged, Lookups
    <3>5. (\E r \in b.W : r.op = "adopt" /\ r.who = p.url.proj) => \E r \in wire' : r.op = "adopt" /\ r.who = p.url.proj
      BY <1>1, <1>4 DEF Exchanged
    <3>6. UrlFollows(page', wire', p, W)
      BY <1>1, <1>4, <3>3, <3>4, <3>5 DEF UrlFollows, UrlSeen, UrlAsked, HistoryAsWas
    <3> QED BY <2>2, <3>6 DEF Routed
  <2> QED BY <2>1, <2>2
<1> QED BY <1>1, <1>5, <1>6, <1>7, <1>8, <1>9

\* The invariant after a turn, from what holds of the page and the calls a
\* handler leaves to the effects.
LookUps(W) == \A q, r \in W : q.op \in Lookups /\ r.op \in Lookups => q = r
OfUrl(p, W) ==
    /\ p.adopted = page.adopted
    /\ \A r \in W : /\ r.op \in Lookups => r.who = p.url.proj /\ r.who # None
                    /\ r.op = "adopt projects" => r.org = Of(r.who) /\ r.org # None
Knows(p, W) ==
    p.adopted # None => \/ p.left \/ p.picked \/ p.cut \/ p.late \/ p.pid = p.adopted
                        \/ \E r \in W : r.op \in Lookups
ListedOf(p, W) ==
    /\ \A r \in W : r.op = "list" => r.org = page.org
    /\ \A x \in p.list : Of(x) = p.listOf
First(p, W) ==
    /\ \A q, r \in W : q.op = "orgs" /\ r.op = "orgs" => q = r
    /\ (\E r \in W : r.op = "orgs") =>
         /\ p.before = p.org /\ (p.org = None => p.project = None)
         /\ \A q \in W : q.op = "adopt projects" => q.org = p.org
Fits(p, W) ==
    \/ p.project = None \/ Of(p.project) = p.org \/ p.torn \/ \E r \in W : r.op = "adopt projects"
    \/ p.org # page.org /\ (p.org = None \/ (p.url.proj = None /\ p.before \notin {None, p.org}))
MemoryFits(p) == \A m \in p.memory : m.pid # None => Of(m.pid) = m.org \/ m.torn

\* What is remembered fits if the project is of the organization.
LEMMA MemoryIs ==
  ASSUME NEW s, NEW o, NEW x, NEW t, s.memory = Remembered(o, x, t), x = None \/ Of(x) = o \/ t
  PROVE  MemoryFits(s)
<1> DEFINE m == [org |-> o, pid |-> x, torn |-> t]
<1>1. s.memory = {m}
  BY DEF Remembered
<1>2. m.org = o /\ m.pid = x /\ (t => m.torn)
  OBVIOUS
<1> HIDE DEF m
<1> QED BY <1>1, <1>2 DEF MemoryFits

\* A turn keeps the invariant if what its handler made of the page does.
LEMMA TurnKeeps ==
  ASSUME ShellInv, NEW p, NEW W, Turn(p, W), DOMAIN p = ShellFields, p.at = "shell", Calls(W), LookUps(W),
         p.url = page.url => OfUrl(p, W), Knows(p, W), ListedOf(p, W), First(p, W), Fits(p, W), MemoryFits(p),
         p.project # None => p.pid = p.project
  PROVE  ShellInv'
<1>1. /\ db' = db /\ AsWas(page', p) /\ Scoped(p) /\ Routed(p, W) /\ Calls(wire)'
      /\ Exchanged(wire', W, Lookups \cup {"list", "settings"})
      /\ \A r \in wire' : r.op = "list" => (p.org # page.org /\ r.org = p.org) \/ (p.org = page.org /\ r \in W)
  BY TurnIs
<1>2. /\ page'.at = "shell" /\ DOMAIN page' = ShellFields /\ page'.url = p.url /\ page'.left = p.left
      /\ page'.memory = p.memory /\ page'.org = p.org /\ page'.pid = p.pid /\ page'.listOf = p.listOf
  BY <1>1 DEF AsWas
<1>3. \/ page'.list = p.list /\ page'.project = p.project
      \/ page'.list = {} /\ page'.project = None
  BY <1>1 DEF Scoped, ListAsWas, ScopeListFollows
<1>4. p.torn => page'.torn
  BY <1>1 DEF Routed, HistoryAsWas, UrlFollows, UrlSeen, UrlAsked
<1>5. ASSUME p.url = page.url PROVE LookedUp' /\ Adopted' /\ ScopeOfAdopted'
  <2>1. /\ page'.adopted = p.adopted /\ page'.late = p.late /\ page'.cut = p.cut /\ page'.picked = p.picked
        /\ \A r \in W : r.op \in Lookups => r \in wire'
        /\ \A r \in wire' : r.op \in Lookups => r \in W
    BY <1>1, <1>5 DEF Routed, HistoryAsWas, UrlFollows, UrlSeen, UrlAsked, Exchanged, Lookups
  <2>2. LookedUp'
    BY <1>1, <1>2, <1>5, <2>1 DEF LookedUp, LookUps, OfUrl, Lookups, Of
  <2>3. Adopted'
    BY <1>2, <1>5, <2>1 DEF Adopted, OfUrl, ShellInv
  <2>4. ScopeOfAdopted'
    BY <1>2, <2>1 DEF ScopeOfAdopted, Knows
  <2> QED BY <2>2, <2>3, <2>4
<1>6. ASSUME p.url # page.url PROVE LookedUp' /\ Adopted' /\ ScopeOfAdopted'
  <2>1. UrlFollows(page', wire', p, W)
    BY <1>1, <1>6 DEF Routed
  <2>2. LookedUp'
    BY <1>2, <2>1 DEF LookedUp, UrlFollows, UrlSeen, UrlAsked, Lookups
  <2>3. Adopted'
    BY <1>2, <2>1 DEF Adopted, UrlFollows, UrlSeen, UrlAsked
  <2>4. ScopeOfAdopted'
    BY <1>2, <2>1 DEF ScopeOfAdopted, Knows, UrlFollows, UrlSeen, UrlAsked, Lookups
  <2> QED BY <2>2, <2>3, <2>4
<1>7. LookedUp' /\ Adopted' /\ ScopeOfAdopted'
  BY <1>5, <1>6
<1>8. /\ (\E r \in W : r.op = "adopt projects") => page'.torn \/ \E r \in wire' : r.op = "adopt projects"
      /\ \A r \in wire' : r.op = "adopt projects" => r \in W
  <2>1. CASE p.url = page.url
    BY <1>1, <2>1 DEF Routed, Exchanged, UrlFollows, UrlSeen, UrlAsked
  <2>2. CASE p.url # page.url
    BY <1>1, <2>2 DEF Routed, UrlFollows, UrlSeen, UrlAsked, Lookups
  <2> QED BY <2>1, <2>2
<1>9. ShellShape' /\ ShellCalls' /\ Owned' /\ PidIsProject'
  BY <1>1, <1>2, <1>3 DEF ShellShape, ShellCalls, Calls, Owned, PidIsProject, ShellInv, Of
<1>10. Lists'
  BY <1>1, <1>2, <1>3 DEF Lists, ListedOf, Of
<1>11. OrgsFirst'
  <2>1. \A r \in wire' : r.op = "orgs" => r \in W
    BY <1>1 DEF Exchanged, Lookups
  <2> SUFFICES ASSUME NEW r \in wire', r.op = "orgs"
               PROVE  /\ page'.before = page'.org /\ (page'.org = None => page'.project = None)
                      /\ \A q \in wire' : q.op = "adopt projects" => q.org = page'.org
    BY <2>1 DEF OrgsFirst, First
  <2>2. p.before = p.org /\ (p.org = None => p.project = None)
    BY <2>1 DEF First
  <2>3. \A q \in wire' : q.op = "adopt projects" => q.org = page'.org
    BY <1>2, <1>8, <2>1 DEF First
  <2>4. page'.before = p.org
    BY <1>1, <2>2 DEF Scoped, ListAsWas, ScopeListFollows
  <2> QED BY <1>2, <1>3, <2>2, <2>3, <2>4
<1>12. ScopeCoherent'
  <2>1. \A m \in page'.memory : m.pid # None => Of(m.pid)' = m.org \/ m.torn
    BY <1>1, <1>2 DEF MemoryFits, Of
  <2>2. ASSUME page'.project # None PROVE Of(page'.project) = p.org \/ page'.torn \/ \E r \in wire' : r.op = "adopt projects"
    <3>1. page'.project = p.project
      BY <1>3, <2>2
    <3>2. ~(p.org # page.org /\ (p.org = None \/ (p.url.proj = None /\ p.before \notin {None, p.org})))
      BY <1>1, <2>2 DEF Scoped, ScopeListFollows
    <3> QED BY <1>4, <1>8, <2>2, <3>1, <3>2 DEF Fits
  <2> QED BY <1>1, <1>2, <2>1, <2>2 DEF ScopeCoherent, InFlight, Of
<1> QED BY <1>7, <1>9, <1>10, <1>11, <1>12 DEF ShellInv

\* The invariant holds when the frame is mounted.
LEMMA ShellStart == ShellInit => ShellInv
<1> SUFFICES ASSUME ShellInit PROVE ShellInv
  OBVIOUS
<1>1. db \in [of : [ProjectIds -> Orgs], there : {ProjectIds}]
  BY DEF ShellInit
<1>2. PICK u \in Reachable, orgs \in {{}, Orgs}, o \in Orgs, x \in ProjectIds \cup {None} :
         \E memory \in {{}, Remembered(o, x, FALSE)} :
           LET mounted == ShellMounted(u, IF x = None \/ Of(x) = o THEN memory ELSE {}, orgs)
               list == IF mounted.org = None THEN State(mounted, {}) ELSE ProjectsEffect(mounted, {})
               url == AdoptEffect(list.p, list.W)
           IN /\ page = url.p
              /\ wire = url.W \cup IF u.proj = None THEN {[ShellCall("orgs") EXCEPT !.memory = mounted.memory]} ELSE {}
  BY DEF ShellInit
<1>3. PICK kept : /\ kept = {} \/ (kept = Remembered(o, x, FALSE) /\ (x = None \/ Of(x) = o))
                  /\ LET mounted == ShellMounted(u, kept, orgs)
                         list == IF mounted.org = None THEN State(mounted, {}) ELSE ProjectsEffect(mounted, {})
                         url == AdoptEffect(list.p, list.W)
                     IN /\ page = url.p
                        /\ wire = url.W \cup IF u.proj = None THEN {[ShellCall("orgs") EXCEPT !.memory = mounted.memory]} ELSE {}
  BY <1>2
<1> DEFINE p == ShellMounted(u, kept, orgs)
           a == IF p.org = None THEN State(p, {}) ELSE ProjectsEffect(p, {})
           b == AdoptEffect(a.p, a.W)
           read == [ShellCall("orgs") EXCEPT !.memory = p.memory]
<1>4. page = b.p /\ wire = b.W \cup IF u.proj = None THEN {read} ELSE {}
  BY <1>3
<1>5. /\ DOMAIN p = ShellFields /\ p.at = "shell" /\ p.url = u /\ p.memory = kept /\ p.pid = p.project /\ p.before = None
      /\ p.adopted = None /\ p.list = {} /\ ~p.left
      /\ \/ kept = {} /\ p.org = None /\ p.project = None
         \/ kept = Remembered(o, x, FALSE) /\ (x = None \/ Of(x) = o) /\ p.org = o /\ p.project = x
  <2>1. ASSUME kept = Remembered(o, x, FALSE)
        PROVE  (CHOOSE m \in kept : TRUE) = [org |-> o, pid |-> x, torn |-> FALSE]
    BY <2>1 DEF Remembered
  <2> QED BY <1>3, <2>1 DEF ShellMounted, ShellFields, Remembered
<1>6. \A m \in kept : m.pid = None \/ Of(m.pid) = m.org
  BY <1>3 DEF Remembered
<1>7. read.op = "orgs" /\ DOMAIN read = CallFields
  BY DEF ShellCall, CallFields
<1> HIDE DEF p, read
<1>8. /\ AsWas(a.p, p) /\ HistoryAsWas(a.p, p) /\ Calls(a.W) /\ Exchanged(a.W, {}, {"list"})
      /\ \A r \in a.W : r.op = "list" => r.org = p.org
      /\ \/ p.org = None /\ ListAsWas(a.p, p)
         \/ p.org # None /\ ScopeListFollows(a.p, p)
  <2>1. CASE p.org = None
    <3>1. a.p = p /\ a.W = {}
      BY <2>1 DEF State
    <3> HIDE DEF a
    <3> QED BY <1>5, <2>1, <3>1 DEF AsWas, ListAsWas, HistoryAsWas, Exchanged, Calls
  <2>2. CASE p.org # None
    <3>1. a = ProjectsEffect(p, {}) /\ Calls({})
      BY <2>2 DEF Calls
    <3> HIDE DEF a
    <3> QED BY <1>5, <2>2, <3>1, ListEffect
  <2> QED BY <2>1, <2>2
<1> HIDE DEF a
<1>9. /\ AsWas(b.p, a.p) /\ ListAsWas(b.p, a.p) /\ UrlFollows(b.p, b.W, a.p, a.W) /\ Calls(b.W) /\ Exchanged(b.W, a.W, Lookups)
  <2>1. DOMAIN a.p = ShellFields
    BY <1>8 DEF AsWas
  <2> QED BY <1>8, <2>1, UrlEffect
<1> HIDE DEF b
<1>10. /\ DOMAIN page = ShellFields /\ page.at = "shell" /\ page.url = u /\ page.memory = kept /\ page.org = p.org
       /\ page.pid = p.project /\ page.list = {} /\ (page.project = p.project \/ page.project = None)
       /\ p.org # None /\ u.proj = None => page.before = p.org
       /\ p.org = None => page.before = None /\ page.project = None
       /\ p.project # None => Of(p.project) = p.org
  <2>1. /\ DOMAIN page = ShellFields /\ page.at = "shell" /\ page.url = u /\ page.memory = kept /\ page.org = p.org
        /\ page.pid = p.project
    BY <1>4, <1>5, <1>8, <1>9 DEF AsWas
  <2>2. /\ page.list = a.p.list /\ page.project = a.p.project /\ page.before = a.p.before
        /\ a.p.list = {} /\ (a.p.project = p.project \/ a.p.project = None)
        /\ p.org # None /\ u.proj = None => a.p.before = p.org
        /\ p.org = None => a.p.before = None /\ a.p.project = None
    BY <1>4, <1>5, <1>8, <1>9, OrgsAssumption DEF ListAsWas, ScopeListFollows
  <2>3. p.project # None => Of(p.project) = p.org
    BY <1>5
  <2> QED BY <2>1, <2>2, <2>3
<1>11. /\ \A r \in wire : r \in b.W \/ (r = read /\ u.proj = None)
       /\ \A r \in b.W : r.op \in Lookups \/ (r.op = "list" /\ r.org = p.org)
  BY <1>4, <1>8, <1>9 DEF Exchanged
<1>12. /\ \A r \in b.W : r.op \in Lookups => r.op = "adopt" /\ r.who = u.proj /\ u.proj # None
       /\ \A r, q \in b.W : r.op \in Lookups /\ q.op \in Lookups => r = q
       /\ u.proj # None => page.adopted = u.proj /\ \E r \in b.W : r.op \in Lookups
       /\ u.proj = None => page.adopted = None
  <2>1. a.p.url = u /\ a.p.adopted = None
    BY <1>5, <1>8 DEF AsWas, HistoryAsWas
  <2> QED BY <1>4, <1>9, <2>1 DEF UrlFollows, UrlSeen, UrlAsked, Lookups
<1>13. ShellShape /\ ShellCalls
  BY <1>1, <1>4, <1>7, <1>9, <1>10 DEF ShellShape, ShellCalls, Calls
<1>14. Owned
  BY <1>1, OrgsAssumption DEF Owned, Of
<1>15. LookedUp
  BY <1>7, <1>10, <1>11, <1>12 DEF LookedUp, Lookups
<1>16. Adopted /\ ScopeOfAdopted
  BY <1>4, <1>10, <1>12 DEF Adopted, ScopeOfAdopted
<1>17. Lists
  BY <1>7, <1>10, <1>11, <1>12 DEF Lists, Lookups
<1>18. OrgsFirst
  BY <1>7, <1>10, <1>11, <1>12 DEF OrgsFirst, Lookups
<1>19. PidIsProject /\ ScopeCoherent
  BY <1>6, <1>10 DEF PidIsProject, ScopeCoherent
<1> QED BY <1>13, <1>14, <1>15, <1>16, <1>17, <1>18, <1>19 DEF ShellInv

\* A call of the settings, or its answer, leaves the scope alone.
LEMMA ScopeUntouched ==
  ASSUME ShellInv, db' = db, AsWas(page', page), ListAsWas(page', page), HistoryAsWas(page', page),
         \A r \in wire : r \in wire' \/ r.op \in {"settings", "save", "delete"},
         \A r \in wire' : r \in wire \/ (r.op \in {"settings", "save", "delete"} /\ DOMAIN r = CallFields)
  PROVE  ShellInv'
<1>1. ShellShape' /\ ShellCalls' /\ Owned' /\ Adopted' /\ PidIsProject'
  BY DEF ShellInv, ShellShape, ShellCalls, Owned, Adopted, PidIsProject, AsWas, ListAsWas, HistoryAsWas, Of
<1>2. /\ \A r \in wire : r.op \in Lookups \cup {"list", "orgs"} => r \in wire'
      /\ \A r \in wire' : r.op \in Lookups \cup {"list", "orgs"} => r \in wire
  BY DEF Lookups
<1>3. LookedUp'
  BY <1>2 DEF ShellInv, LookedUp, AsWas, Of, Lookups
<1>4. ScopeOfAdopted'
  BY <1>2 DEF ShellInv, ScopeOfAdopted, AsWas, HistoryAsWas
<1>5. Lists'
  BY <1>2 DEF ShellInv, Lists, AsWas, ListAsWas, Of
<1>6. OrgsFirst'
  BY <1>2 DEF ShellInv, OrgsFirst, AsWas, ListAsWas, Lookups
<1>7. ScopeCoherent'
  BY <1>2 DEF ShellInv, ShellShape, ScopeCoherent, AsWas, ListAsWas, HistoryAsWas, Of, InFlight, Lookups
<1> QED BY <1>1, <1>3, <1>4, <1>5, <1>6, <1>7 DEF ShellInv

\* The frame may be left whenever no look-up is between its two parts.
LEMMA LeftAlone ==
  ASSUME ShellInv, Leaves(page), page.project = None \/ ~InFlight({"adopt projects"})
  PROVE  ShellInv'
<1>1. /\ page' = [page EXCEPT !.left = TRUE] /\ wire' = {} /\ db' = db
  BY DEF Leaves
<1>2. /\ DOMAIN page' = ShellFields /\ page'.at = page.at /\ page'.url = page.url /\ page'.left /\ page'.memory = page.memory
      /\ page'.org = page.org /\ page'.project = page.project /\ page'.pid = page.pid /\ page'.list = page.list
      /\ page'.listOf = page.listOf /\ page'.adopted = page.adopted /\ page'.torn = page.torn
  BY <1>1 DEF ShellInv, ShellShape, ShellFields
<1> QED BY <1>1, <1>2 DEF ShellInv, ShellShape, ShellCalls, Owned, LookedUp, Adopted, ScopeOfAdopted, Lists, OrgsFirst,
           PidIsProject, ScopeCoherent, Of, InFlight

\* Another URL, and nothing else.
LEMMA GoesTo ==
  ASSUME ShellInv, NEW u, u # page.url, Acts([page EXCEPT !.url = u])
  PROVE  ShellInv'
<1> DEFINE s == [[page EXCEPT !.url = u] EXCEPT !.calls = @ + 1]
<1>1. Turn(s, wire)
  BY DEF Acts
<1>2. /\ DOMAIN s = ShellFields /\ s.at = "shell" /\ s.url = u /\ s.left = page.left /\ s.memory = page.memory /\ s.org = page.org
      /\ s.list = page.list /\ s.project = page.project /\ s.pid = page.pid /\ s.listOf = page.listOf /\ s.before = page.before
      /\ s.adopted = page.adopted /\ s.torn = page.torn /\ s.late = page.late /\ s.cut = page.cut /\ s.picked = page.picked
  BY DEF ShellInv, ShellShape, ShellFields
<1> HIDE DEF s
<1>3. Calls(wire) /\ LookUps(wire)
  BY DEF ShellInv, ShellCalls, Calls, LookedUp, LookUps
<1>4. Knows(s, wire) /\ ListedOf(s, wire) /\ First(s, wire)
  BY <1>2 DEF ShellInv, ScopeOfAdopted, Knows, Lists, ListedOf, OrgsFirst, First
<1>5. Fits(s, wire) /\ MemoryFits(s)
  BY <1>2 DEF ShellInv, ShellShape, ScopeCoherent, Fits, MemoryFits, InFlight
<1> QED BY <1>1, <1>2, <1>3, <1>4, <1>5, TurnKeeps DEF ShellInv, PidIsProject

\* Every step keeps the invariant, however the user goes about and the look-ups,
\* the lists and the memory come in.
LEMMA ShellStep ==
  ASSUME ShellInv, ShellNext
  PROVE  ShellInv'
<1>1. ASSUME NEW o \in page.orgs, SelectOrganization(o) PROVE ShellInv'
  <2> DEFINE s == [page EXCEPT !.org = o, !.project = None, !.pid = None, !.torn = FALSE, !.memory = Remembered(o, None, FALSE)]
  <2>1. page' = [s EXCEPT !.left = TRUE] /\ wire' = {} /\ db' = db
    BY <1>1 DEF SelectOrganization, Leaves
  <2>2. /\ DOMAIN page' = ShellFields /\ page'.at = page.at /\ page'.url = page.url /\ page'.left
        /\ page'.memory = Remembered(o, None, FALSE) /\ page'.project = None /\ page'.list = page.list
        /\ page'.listOf = page.listOf /\ page'.adopted = page.adopted
    BY <2>1 DEF ShellInv, ShellShape, ShellFields
  <2>3. MemoryFits(page')
    BY <2>2, MemoryIs
  <2>4. ScopeCoherent'
    BY <2>1, <2>2, <2>3 DEF ScopeCoherent, MemoryFits, Of
  <2> QED BY <2>1, <2>2, <2>4 DEF ShellInv, ShellShape, ShellCalls, Owned, LookedUp, Adopted, ScopeOfAdopted, Lists, OrgsFirst,
             PidIsProject, ScopeCoherent, Of
<1>2. ASSUME NEW p \in page.list, SelectProject(p) PROVE ShellInv'
  <2> DEFINE torn == page.listOf # page.org
             s == [[page EXCEPT !.project = p, !.pid = p, !.torn = torn, !.picked = TRUE, !.memory = Remembered(page.org, p, torn)]
                     EXCEPT !.calls = @ + 1]
  <2>1. Turn(s, wire)
    BY <1>2 DEF SelectProject, Acts
  <2>2. /\ DOMAIN s = ShellFields /\ s.at = "shell" /\ s.url = page.url /\ s.org = page.org /\ s.project = p /\ s.pid = p
        /\ s.torn = torn /\ s.picked /\ s.memory = Remembered(page.org, p, torn) /\ s.list = page.list
        /\ s.listOf = page.listOf /\ s.adopted = page.adopted /\ s.before = page.before
    BY DEF ShellInv, ShellShape, ShellFields
  <2> HIDE DEF s
  <2>3. Of(p) = page.listOf
    BY DEF ShellInv, Lists
  <2>4. Calls(wire) /\ LookUps(wire) /\ OfUrl(s, wire) /\ ListedOf(s, wire)
    BY <2>2 DEF ShellInv, ShellCalls, Calls, LookedUp, LookUps, OfUrl, Lists, ListedOf
  <2>5. page.org # None
    BY <1>2 DEF SelectProject
  <2>6. MemoryFits(s)
    BY <2>2, <2>3, MemoryIs
  <2>7. Knows(s, wire) /\ Fits(s, wire) /\ First(s, wire)
    BY <2>2, <2>3, <2>5 DEF ShellInv, Knows, Fits, First, OrgsFirst
  <2> QED BY <2>1, <2>2, <2>4, <2>6, <2>7, TurnKeeps
<1>3. ASSUME SelectNetwork PROVE ShellInv'
  <2> DEFINE torn == page.torn \/ InFlight({"adopt projects"})
             u == [page EXCEPT !.memory = Remembered(page.org, page.pid, torn)]
  <2>1. page.project # None /\ page' = u /\ wire' = wire /\ db' = db
    BY <1>3 DEF SelectNetwork, Show
  <2>2. /\ DOMAIN u = ShellFields /\ u.at = page.at /\ u.url = page.url /\ u.left = page.left /\ u.org = page.org /\ u.pid = page.pid
        /\ u.listOf = page.listOf /\ ListAsWas(u, page) /\ HistoryAsWas(u, page)
        /\ u.memory = Remembered(page.org, page.pid, torn)
    BY DEF ShellInv, ShellShape, ShellFields, ListAsWas, HistoryAsWas
  <2>3. Of(page.pid) = page.org \/ torn
    BY <2>1 DEF ShellInv, ShellShape, ScopeCoherent, PidIsProject
  <2> HIDE DEF u, torn
  <2>4. MemoryFits(u)
    BY <2>2, <2>3, MemoryIs
  <2>5. ScopeCoherent'
    BY <2>1, <2>2, <2>4 DEF ShellInv, ShellShape, ScopeCoherent, MemoryFits, ListAsWas, HistoryAsWas, Of, InFlight
  <2> QED BY <2>1, <2>2, <2>5 DEF ShellInv, ShellShape, ShellCalls, Owned, LookedUp, Adopted, ScopeOfAdopted, Lists, OrgsFirst,
             PidIsProject, ListAsWas, HistoryAsWas, Of
<1>4. ASSUME TypeName PROVE ShellInv'
  <2> DEFINE u == [page EXCEPT !.typed = TRUE]
  <2>1. page' = u /\ wire' = wire /\ db' = db
    BY <1>4 DEF TypeName, Show
  <2>2. AsWas(u, page) /\ ListAsWas(u, page) /\ HistoryAsWas(u, page)
    BY DEF ShellInv, ShellShape, ShellFields, AsWas, ListAsWas, HistoryAsWas
  <2> HIDE DEF u
  <2> QED BY <2>1, <2>2, ScopeUntouched
<1>5. ASSUME SaveProject PROVE ShellInv'
  <2> DEFINE q == [ShellCall("save") EXCEPT !.org = page.org, !.who = page.project]
             u == [[page EXCEPT !.busy = "general"] EXCEPT !.calls = @ + 1]
  <2>1. page' = u /\ wire' = wire \cup {q} /\ db' = db
    BY <1>5 DEF SaveProject, Call
  <2>2. q.op \in {"settings", "save", "delete"} /\ DOMAIN q = CallFields
    BY DEF ShellCall, CallFields
  <2>3. AsWas(u, page) /\ ListAsWas(u, page) /\ HistoryAsWas(u, page)
    BY DEF ShellInv, ShellShape, ShellFields, AsWas, ListAsWas, HistoryAsWas
  <2> HIDE DEF u, q
  <2> QED BY <2>1, <2>2, <2>3, ScopeUntouched
<1>6. ASSUME DeleteProject PROVE ShellInv'
  <2> DEFINE q == [ShellCall("delete") EXCEPT !.org = page.org, !.who = page.project, !.memory = Remembered(page.org, page.pid, FALSE)]
             u == [[page EXCEPT !.busy = "delete"] EXCEPT !.calls = @ + 1]
  <2>1. page' = u /\ wire' = wire \cup {q} /\ db' = db
    BY <1>6 DEF DeleteProject, Call
  <2>2. q.op \in {"settings", "save", "delete"} /\ DOMAIN q = CallFields
    BY DEF ShellCall, CallFields
  <2>3. AsWas(u, page) /\ ListAsWas(u, page) /\ HistoryAsWas(u, page)
    BY DEF ShellInv, ShellShape, ShellFields, AsWas, ListAsWas, HistoryAsWas
  <2> HIDE DEF u, q
  <2> QED BY <2>1, <2>2, <2>3, ScopeUntouched
<1>7. ASSUME NEW tab \in {"home", "settings", "explorer"}, NavigateTo(tab) PROVE ShellInv'
  <2> DEFINE href == [proj |-> IF tab = "explorer" THEN None ELSE page.pid, tab |-> tab]
  <2>1. CASE tab # "explorer" /\ page.pid = None
    <3>1. Leaves(page)
      BY <1>7, <2>1 DEF NavigateTo
    <3>2. page.project = None
      BY <2>1 DEF ShellInv, PidIsProject
    <3> QED BY <3>1, <3>2, LeftAlone
  <2>2. CASE ~(tab # "explorer" /\ page.pid = None)
    <3>1. href # page.url /\ Acts([page EXCEPT !.url = href])
      BY <1>7, <2>2 DEF NavigateTo
    <3> HIDE DEF href
    <3> QED BY <3>1, GoesTo
  <2> QED BY <2>1, <2>2
<1>8. ASSUME NEW u \in Reachable, FollowHref(u) PROVE ShellInv'
  BY <1>8, GoesTo DEF FollowHref
<1>9. ASSUME NEW r \in wire, ServeDelete(r) PROVE ShellInv'
  <2>1. page' = page /\ wire' = wire /\ DOMAIN db' = DOMAIN db /\ db'.of = db.of /\ db'.there \subseteq db.there
    BY <1>9 DEF ServeDelete, ShellInv, ShellShape
  <2>2. ShellShape' /\ ShellCalls' /\ Adopted' /\ ScopeOfAdopted' /\ PidIsProject'
    BY <2>1 DEF ShellInv, ShellShape, ShellCalls, Adopted, ScopeOfAdopted, PidIsProject
  <2>3. Owned' /\ LookedUp' /\ Lists' /\ OrgsFirst'
    BY <2>1 DEF ShellInv, Owned, LookedUp, Lists, OrgsFirst, Of
  <2>4. ScopeCoherent'
    BY <2>1 DEF ShellInv, ScopeCoherent, InFlight, Of
  <2> QED BY <2>2, <2>3, <2>4 DEF ShellInv
<1>10. ASSUME NEW r \in wire, NEW heard \in BOOLEAN, OrgsArrive(r, heard) PROVE ShellInv'
  <2> DEFINE late == page.adopted # None
             W == wire \ {r}
  <2>1. r.op = "orgs"
    BY <1>10 DEF OrgsArrive
  <2>2. /\ page.before = page.org /\ (page.org = None => page.project = None)
        /\ \A q \in wire : q.op = "orgs" => q = r
    BY <2>1 DEF ShellInv, OrgsFirst
  <2>3. Calls(W) /\ LookUps(W) /\ \A q \in W : q.op # "orgs"
    BY <2>2 DEF ShellInv, ShellCalls, Calls, LookedUp, LookUps
  <2>4. \A q \in W : q.op = "list" => q.org = page.org
    BY DEF ShellInv, Lists
  <2>5. CASE heard
    <3>1. PICK o : Turn([page EXCEPT !.orgs = Orgs, !.org = o, !.late = @ \/ late,
                                     !.torn = @ \/ (o # page.org /\ page.url.proj # None)], W)
      BY <1>10, <2>5 DEF OrgsArrive
    <3> DEFINE s == [page EXCEPT !.orgs = Orgs, !.org = o, !.late = @ \/ late,
                                 !.torn = @ \/ (o # page.org /\ page.url.proj # None)]
    <3>2. /\ DOMAIN s = ShellFields /\ s.at = "shell" /\ s.url = page.url /\ s.org = o /\ s.project = page.project /\ s.pid = page.pid
          /\ s.torn = (page.torn \/ (o # page.org /\ page.url.proj # None)) /\ s.late = (page.late \/ late) /\ s.memory = page.memory
          /\ s.list = page.list /\ s.listOf = page.listOf /\ s.adopted = page.adopted /\ s.before = page.before /\ s.left = page.left
      BY DEF ShellInv, ShellShape, ShellFields
    <3> HIDE DEF s, W
    <3>3. OfUrl(s, W)
      BY <3>2 DEF ShellInv, LookedUp, OfUrl, W
    <3>4. ListedOf(s, W) /\ First(s, W) /\ Knows(s, W) /\ MemoryFits(s)
      BY <2>3, <2>4, <3>2 DEF ShellInv, ShellShape, Lists, ListedOf, First, Knows, MemoryFits, ScopeCoherent
    <3>5. Fits(s, W)
      <4>1. page.project # None => Of(page.project) = page.org \/ page.torn \/ \E q \in W : q.op = "adopt projects"
        BY <2>1 DEF ShellInv, ScopeCoherent, ShellShape, InFlight, W
      <4> QED BY <2>2, <3>2, <4>1 DEF Fits
    <3> QED BY <2>3, <3>1, <3>2, <3>3, <3>4, <3>5, TurnKeeps DEF ShellInv, PidIsProject, s
  <2>6. CASE ~heard
    <3> DEFINE s == [page EXCEPT !.orgs = {}, !.org = None, !.late = @ \/ late, !.torn = FALSE]
    <3>1. Turn(s, W)
      BY <1>10, <2>6 DEF OrgsArrive
    <3>2. /\ DOMAIN s = ShellFields /\ s.at = "shell" /\ s.url = page.url /\ s.org = None /\ s.project = page.project /\ s.pid = page.pid
          /\ s.late = (page.late \/ late) /\ s.memory = page.memory
          /\ s.list = page.list /\ s.listOf = page.listOf /\ s.adopted = page.adopted /\ s.before = page.before /\ s.left = page.left
      BY DEF ShellInv, ShellShape, ShellFields
    <3> HIDE DEF s, W
    <3>3. OfUrl(s, W)
      BY <3>2 DEF ShellInv, LookedUp, OfUrl, W
    <3>4. ListedOf(s, W) /\ First(s, W) /\ Knows(s, W) /\ MemoryFits(s)
      BY <2>3, <2>4, <3>2 DEF ShellInv, ShellShape, Lists, ListedOf, First, Knows, MemoryFits, ScopeCoherent
    <3>5. Fits(s, W)
      BY <2>2, <3>2 DEF Fits
    <3> QED BY <2>3, <3>1, <3>2, <3>3, <3>4, <3>5, TurnKeeps DEF ShellInv, PidIsProject
  <2> QED BY <2>5, <2>6
<1>11. ASSUME NEW r \in wire, NEW heard \in BOOLEAN, ScopeListArrives(r, heard) PROVE ShellInv'
  <2> DEFINE W == wire \ {r}
             list == Listing(r.org)
             shown == [page EXCEPT !.listOf = r.org, !.torn = FALSE, !.late = @ \/ page.adopted # None]
  <2>1. r.op = "list" /\ r.org = page.org
    BY <1>11 DEF ScopeListArrives, ShellInv, Lists
  <2>2. Calls(W) /\ LookUps(W) /\ \A q \in W : q.op = "list" => q.org = page.org
    BY DEF ShellInv, ShellCalls, Calls, LookedUp, LookUps, Lists
  <2>3. PICK s : /\ Turn(s, W) /\ DOMAIN s = ShellFields /\ s.at = "shell" /\ s.url = page.url /\ s.org = page.org
                 /\ s.listOf = r.org /\ (page.adopted # None => s.late) /\ s.adopted = page.adopted /\ s.before = page.before
                 /\ \/ s.list = list /\ s.project \in list /\ s.pid = s.project /\ s.memory = Remembered(r.org, s.project, FALSE)
                    \/ s.list = {} /\ s.project = None /\ s.memory = page.memory
    <3>1. CASE heard /\ list # {}
      <4>1. PICK x \in list : Turn([shown EXCEPT !.list = list, !.project = x, !.pid = x, !.memory = Remembered(r.org, x, FALSE)], W)
        BY <1>11, <3>1 DEF ScopeListArrives
      <4> DEFINE s == [shown EXCEPT !.list = list, !.project = x, !.pid = x, !.memory = Remembered(r.org, x, FALSE)]
      <4>2. /\ DOMAIN s = ShellFields /\ s.at = "shell" /\ s.url = page.url /\ s.org = page.org
            /\ s.listOf = r.org /\ (page.adopted # None => s.late) /\ s.adopted = page.adopted /\ s.before = page.before
            /\ s.list = list /\ s.project = x /\ s.pid = x /\ s.memory = Remembered(r.org, x, FALSE)
        BY DEF ShellInv, ShellShape, ShellFields
      <4>3. Turn(s, W)
        BY <4>1
      <4> HIDE DEF s, W, list
      <4> QED BY <4>2, <4>3
    <3>2. CASE ~(heard /\ list # {})
      <4> DEFINE s == [shown EXCEPT !.list = {}, !.project = None, !.pid = IF heard THEN None ELSE @]
      <4>1. Turn(s, W)
        BY <1>11, <3>2 DEF ScopeListArrives
      <4>2. /\ DOMAIN s = ShellFields /\ s.at = "shell" /\ s.url = page.url /\ s.org = page.org
            /\ s.listOf = r.org /\ (page.adopted # None => s.late) /\ s.adopted = page.adopted /\ s.before = page.before
            /\ s.list = {} /\ s.project = None /\ s.memory = page.memory
        BY DEF ShellInv, ShellShape, ShellFields
      <4> HIDE DEF s, W, list
      <4> QED BY <4>1, <4>2
    <3> QED BY <3>1, <3>2
  <2>4. \A x \in list : Of(x) = r.org /\ Of(x) # None
    BY DEF Listing, ShellInv, Owned
  <2>5. OfUrl(s, W)
    BY <2>3 DEF ShellInv, LookedUp, OfUrl
  <2> HIDE DEF list
  <2>6. ListedOf(s, W) /\ Knows(s, W) /\ Fits(s, W)
    BY <2>1, <2>2, <2>3, <2>4 DEF ListedOf, Knows, Fits
  <2>7. First(s, W)
    BY <2>1, <2>3, <2>4 DEF ShellInv, OrgsFirst, First
  <2>8. MemoryFits(s)
    <3>1. CASE s.project \in list /\ s.memory = Remembered(r.org, s.project, FALSE)
      BY <2>4, <3>1, MemoryIs
    <3>2. CASE s.memory = page.memory
      BY <3>2 DEF ShellInv, ShellShape, ScopeCoherent, MemoryFits
    <3> QED BY <2>3, <3>1, <3>2
  <2> QED BY <2>2, <2>3, <2>5, <2>6, <2>7, <2>8, TurnKeeps
<1>12. ASSUME NEW r \in wire, NEW heard \in BOOLEAN, AdoptArrives(r, heard) PROVE ShellInv'
  <2> DEFINE q == [r EXCEPT !.op = "adopt projects", !.org = Of(r.who)]
             s == [page EXCEPT !.orgs = Orgs, !.org = Of(r.who), !.before = Of(r.who)]
             W == (wire \ {r}) \cup {q}
  <2>1. r.op = "adopt"
    BY <1>12 DEF AdoptArrives
  <2>2. \A o \in wire : o.op \in Lookups => o = r
    BY <2>1 DEF ShellInv, LookedUp, Lookups
  <2>3. CASE ~(heard /\ r.who \in db.there)
    <3>1. Leaves(page)
      BY <1>12, <2>3 DEF AdoptArrives
    <3>2. ~InFlight({"adopt projects"})
      BY <2>1, <2>2 DEF InFlight, Lookups
    <3> QED BY <3>1, <3>2, LeftAlone
  <2>4. CASE heard /\ r.who \in db.there
    <3>1. Turn(s, W)
      BY <1>12, <2>4 DEF AdoptArrives
    <3>2. /\ DOMAIN s = ShellFields /\ s.at = "shell" /\ s.url = page.url /\ s.org = Of(r.who) /\ s.before = Of(r.who)
          /\ s.project = page.project /\ s.pid = page.pid /\ s.memory = page.memory
          /\ s.list = page.list /\ s.listOf = page.listOf /\ s.adopted = page.adopted
      BY DEF ShellInv, ShellShape, ShellFields
    <3>3. q.op = "adopt projects" /\ q.who = r.who /\ q.org = Of(r.who) /\ DOMAIN q = CallFields
      BY DEF ShellInv, ShellCalls, CallFields
    <3> HIDE DEF s, q
    <3>4. Of(r.who) # None
      BY <2>4 DEF ShellInv, Owned
    <3>5. r.who = page.url.proj /\ r.who # None
      BY <2>1 DEF ShellInv, LookedUp, Lookups
    <3>6. /\ \A o \in W : o = q \/ (o \in wire /\ o.op \notin Lookups)
          /\ q \in W
      BY <2>2
    <3> HIDE DEF W
    <3>7. Calls(W) /\ LookUps(W)
      BY <3>3, <3>6 DEF ShellInv, ShellCalls, Calls, LookUps
    <3>8. OfUrl(s, W)
      BY <3>2, <3>3, <3>4, <3>5, <3>6 DEF OfUrl, Lookups
    <3>9. Knows(s, W) /\ Fits(s, W)
      BY <3>3, <3>6 DEF Knows, Fits, Lookups
    <3>10. ListedOf(s, W) /\ MemoryFits(s)
      BY <3>2, <3>3, <3>6 DEF ShellInv, ShellShape, Lists, ListedOf, MemoryFits, ScopeCoherent
    <3>11. First(s, W)
      BY <3>2, <3>3, <3>4, <3>6 DEF ShellInv, OrgsFirst, First, Lookups
    <3> QED BY <3>1, <3>2, <3>7, <3>8, <3>9, <3>10, <3>11, TurnKeeps DEF ShellInv, PidIsProject
  <2> QED BY <2>3, <2>4
<1>13. ASSUME NEW r \in wire, NEW heard \in BOOLEAN, AdoptProjectsArrive(r, heard) PROVE ShellInv'
  <2> DEFINE W == wire \ {r}
             s == [page EXCEPT !.list = IF heard THEN Listing(r.org) ELSE @, !.listOf = IF heard THEN r.org ELSE @,
                               !.project = r.who, !.pid = r.who, !.torn = page.org # r.org, !.memory = Remembered(r.org, r.who, FALSE)]
  <2>1. r.op = "adopt projects" /\ Turn(s, W)
    BY <1>13 DEF AdoptProjectsArrive
  <2>2. /\ DOMAIN s = ShellFields /\ s.at = "shell" /\ s.url = page.url /\ s.org = page.org /\ s.before = page.before
        /\ s.project = r.who /\ s.pid = r.who /\ s.memory = Remembered(r.org, r.who, FALSE)
        /\ s.torn = (page.org # r.org) /\ s.adopted = page.adopted
        /\ \/ s.list = page.list /\ s.listOf = page.listOf
           \/ s.list = Listing(r.org) /\ s.listOf = r.org
    BY DEF ShellInv, ShellShape, ShellFields
  <2> HIDE DEF s
  <2>3. r.who = page.url.proj /\ r.who # None /\ r.org = Of(r.who) /\ r.org # None /\ page.adopted = r.who
    BY <2>1 DEF ShellInv, LookedUp, Lookups, Adopted
  <2>4. Calls(W) /\ LookUps(W) /\ OfUrl(s, W)
    BY <2>2 DEF ShellInv, ShellCalls, Calls, LookedUp, LookUps, OfUrl
  <2>5. Knows(s, W) /\ Fits(s, W) /\ MemoryFits(s)
    BY <2>2, <2>3, MemoryIs DEF Knows, Fits
  <2>6. ListedOf(s, W)
    BY <2>2 DEF ShellInv, Lists, ListedOf, Listing
  <2>7. First(s, W)
    BY <2>1, <2>2, <2>3 DEF ShellInv, OrgsFirst, First
  <2> QED BY <2>1, <2>2, <2>4, <2>5, <2>6, <2>7, TurnKeeps
<1>14. ASSUME NEW r \in wire, NEW heard \in BOOLEAN, SettingsArrive(r, heard) PROVE ShellInv'
  <2> DEFINE u == IF heard THEN [page EXCEPT !.form = r.who, !.typed = FALSE] ELSE page
  <2>1. r.op = "settings" /\ page' = u /\ wire' = (wire \ {r}) \cup {} /\ db' = db
    BY <1>14 DEF SettingsArrive, Then
  <2>2. AsWas(u, page) /\ ListAsWas(u, page) /\ HistoryAsWas(u, page)
    BY DEF ShellInv, ShellShape, ShellFields, AsWas, ListAsWas, HistoryAsWas
  <2> HIDE DEF u
  <2> QED BY <2>1, <2>2, ScopeUntouched
<1>15. ASSUME NEW r \in wire, NEW heard \in BOOLEAN, ProjectSaved(r, heard) PROVE ShellInv'
  <2> DEFINE u == IF ~OnForm THEN page
                  ELSE IF heard THEN [page EXCEPT !.form = r.who, !.typed = @ /\ r.who # page.form, !.busy = "none"]
                  ELSE [page EXCEPT !.busy = "none"]
  <2>1. r.op = "save" /\ page' = u /\ wire' = (wire \ {r}) \cup {} /\ db' = db
    BY <1>15 DEF ProjectSaved, Then
  <2>2. AsWas(u, page) /\ ListAsWas(u, page) /\ HistoryAsWas(u, page)
    BY DEF ShellInv, ShellShape, ShellFields, AsWas, ListAsWas, HistoryAsWas
  <2> HIDE DEF u
  <2> QED BY <2>1, <2>2, ScopeUntouched
<1>16. ASSUME NEW r \in wire, NEW heard \in BOOLEAN, ProjectDeleted(r, heard) PROVE ShellInv'
  <2> DEFINE W == wire \ {r}
             s == [page EXCEPT !.list = @ \ {r.who}, !.project = None, !.torn = FALSE, !.picked = TRUE,
                               !.url = [proj |-> (CHOOSE m \in r.memory : TRUE).pid, tab |-> "home"]]
  <2>1. r.op = "delete"
    BY <1>16 DEF ProjectDeleted
  <2>2. CASE heard
    <3>1. Turn(s, W)
      BY <1>16, <2>2 DEF ProjectDeleted
    <3>2. /\ DOMAIN s = ShellFields /\ s.at = "shell" /\ s.org = page.org /\ s.before = page.before /\ s.project = None
          /\ s.memory = page.memory /\ s.picked /\ s.adopted = page.adopted /\ s.list \subseteq page.list /\ s.listOf = page.listOf
      BY DEF ShellInv, ShellShape, ShellFields
    <3> HIDE DEF s
    <3>3. Calls(W) /\ LookUps(W) /\ (s.url = page.url => OfUrl(s, W))
      BY <3>2 DEF ShellInv, ShellCalls, Calls, LookedUp, LookUps, OfUrl
    <3>4. Knows(s, W) /\ Fits(s, W)
      BY <3>2 DEF Knows, Fits
    <3>5. ListedOf(s, W) /\ MemoryFits(s) /\ First(s, W)
      BY <3>2 DEF ShellInv, ShellShape, Lists, ListedOf, MemoryFits, ScopeCoherent, OrgsFirst, First
    <3> QED BY <3>1, <3>2, <3>3, <3>4, <3>5, TurnKeeps
  <2>3. CASE ~heard
    <3> DEFINE u == [page EXCEPT !.busy = "none"]
    <3>1. page' = u /\ wire' = (wire \ {r}) \cup {} /\ db' = db
      BY <1>16, <2>3 DEF ProjectDeleted, Then
    <3>2. AsWas(u, page) /\ ListAsWas(u, page) /\ HistoryAsWas(u, page)
      BY DEF ShellInv, ShellShape, ShellFields, AsWas, ListAsWas, HistoryAsWas
    <3> HIDE DEF u
    <3> QED BY <2>1, <3>1, <3>2, ScopeUntouched
  <2> QED BY <2>2, <2>3
<1> QED
  BY <1>1, <1>2, <1>3, <1>4, <1>5, <1>6, <1>7, <1>8, <1>9, <1>10, <1>11, <1>12, <1>13, <1>14,
    <1>15, <1>16 DEF ShellNext

-----------------------------------------------------------------------------
(* The page that is mounted steps, or none does *)

\* Only the handlers of the mounted page run.
LEMMA OnePageSteps ==
  ASSUME Next
  PROVE  \/ SignInNext /\ page.at = "signin"
         \/ OrgProjectsNext /\ page.at \in {"orgprojects", "orglist", "orgcreate"}
         \/ OrgSettingsNext /\ page.at = "orgsettings"
         \/ MembersNext /\ page.at = "members"
         \/ ShellNext /\ page.at = "shell"
         \/ WalletsNext /\ page.at = "wallets"
         \/ ContractsNext /\ page.at = "contracts"
         \/ AlertsNext /\ page.at = "alerts"
         \/ BuilderNext /\ page.at = "builder"
<1>1. SignInNext => page.at = "signin"
  BY DEF SignInNext
<1>2. OrgProjectsNext => page.at \in {"orgprojects", "orglist", "orgcreate"}
  BY DEF OrgProjectsNext
<1>3. OrgSettingsNext => page.at = "orgsettings"
  BY DEF OrgSettingsNext
<1>4. MembersNext => page.at = "members"
  BY DEF MembersNext
<1>5. ShellNext => page.at = "shell"
  BY DEF ShellNext
<1>6. WalletsNext => page.at = "wallets"
  BY DEF WalletsNext
<1>7. ContractsNext => page.at = "contracts"
  BY DEF ContractsNext
<1>8. AlertsNext => page.at = "alerts"
  BY DEF AlertsNext
<1>9. BuilderNext => page.at = "builder"
  BY DEF BuilderNext
<1> QED BY <1>1, <1>2, <1>3, <1>4, <1>5, <1>6, <1>7, <1>8, <1>9 DEF Next

\* While the way in is mounted, every step keeps the invariant.
LEMMA SignInKeeps ==
  ASSUME SignInInv, [Next]_hostVars
  PROVE  SignInInv'
<1>1. page.at = "signin"
  BY DEF SignInInv, SignInFields
<1>2. CASE SignInNext
  BY <1>2, SignInStep
<1>3. CASE UNCHANGED hostVars
  BY <1>3 DEF SignInInv, SignInFields, AuthCalls, WelcomedIsMember, NothingUnclaimed, Welcomed, hostVars
<1> QED BY <1>1, <1>2, <1>3, OnePageSteps

\* While the pages of an organization's projects are mounted, every step keeps the invariant.
LEMMA OrgProjectsKeeps ==
  ASSUME OrgProjectsInv, [Next]_hostVars
  PROVE  OrgProjectsInv'
<1>1. page.at \in {"orgprojects", "orglist", "orgcreate"}
  BY DEF OrgProjectsInv, OrgProjectsFields
<1>2. CASE OrgProjectsNext
  BY <1>2, OrgProjectsStep
<1>3. CASE UNCHANGED hostVars
  BY <1>3 DEF OrgProjectsInv, OrgProjectsFields, OrgCalls, ChoiceIsRemembered, OneCreation, ListIsFirst, CreatesOne,
      ProjectsFollow, Arriving, hostVars
<1> QED BY <1>1, <1>2, <1>3, OnePageSteps

\* While an organization's settings are mounted, every step keeps the invariant.
LEMMA OrgSettingsKeeps ==
  ASSUME OrgSettingsInv, [Next]_hostVars
  PROVE  OrgSettingsInv'
<1>1. page.at = "orgsettings"
  BY DEF OrgSettingsInv, SettingsFields
<1>2. CASE OrgSettingsNext
  BY <1>2, OrgSettingsStep
<1>3. CASE UNCHANGED hostVars
  BY <1>3 DEF OrgSettingsInv, SettingsFields, SettingCalls, NameIsFirst, LastRenaming, HeaderFollows, TokenRows,
      TokenAnswers, TokensFollow, SecretsAreHeld, RevokedIds, Held, hostVars
<1> QED BY <1>1, <1>2, <1>3, OnePageSteps

\* While the members of an organization are mounted, every step keeps the invariant.
LEMMA MembersKeeps ==
  ASSUME MembersInv, [Next]_hostVars
  PROVE  MembersInv'
<1>1. page.at = "members"
  BY DEF MembersInv, MembersFields
<1>2. CASE MembersNext
  BY <1>2, MembersStep
<1>3. CASE UNCHANGED hostVars
  BY <1>3 DEF MembersInv, MembersFields, MemberCalls, MemberRows, OneOwner, AskedForThisOne, MembersRead,
      MemberAnswers, MembersFollow, AnswerHolds, RowFollows, InvitedFollows, Settled, Rights, Alike, OwnerIsTold,
      hostVars
<1> QED BY <1>1, <1>2, <1>3, OnePageSteps

\* While the frame around a project is mounted, every step keeps the invariant.
LEMMA ShellKeeps ==
  ASSUME ShellInv, [Next]_hostVars
  PROVE  ShellInv'
<1>1. page.at = "shell"
  BY DEF ShellInv, ShellShape
<1>2. CASE ShellNext
  BY <1>2, ShellStep
<1>3. CASE UNCHANGED hostVars
  BY <1>3 DEF ShellInv, ShellShape, ShellCalls, Owned, LookedUp, Adopted, ScopeOfAdopted, Lists, OrgsFirst,
      PidIsProject, ScopeCoherent, Of, InFlight, hostVars
<1> QED BY <1>1, <1>2, <1>3, OnePageSteps

-----------------------------------------------------------------------------
(* Changes of a list by address *)

Edits == {"rename", "attach", "delete"}
Changes == Edits \cup {"track"}
Listable(R) == \A w \in R : {"address", "name", "tagged"} \subseteq DOMAIN w
Renaming(who, w) == IF w.address \in who THEN [w EXCEPT !.name = "renamed"] ELSE w
Tagging(who, w) == IF w.address \in who THEN [w EXCEPT !.tagged = TRUE] ELSE w
Edit(op, who, w) ==
    CASE op = "rename" -> Renaming(who, w) [] op = "attach" -> Tagging(who, w) [] OTHER -> w
Keeps(op, who, w) == op = "delete" => w.address \notin who
After(op, who, R) == {Edit(op, who, w) : w \in {v \in R : Keeps(op, who, v)}}
Distinct(R) == \A v, w \in R : v.address = w.address => v = w

\* Renaming and tagging keep the address, repeat without effect and commute.
LEMMA RowEdits ==
  ASSUME NEW w, {"address", "name", "tagged"} \subseteq DOMAIN w, NEW a, NEW b
  PROVE /\ DOMAIN Renaming(a, w) = DOMAIN w /\ Renaming(a, w).address = w.address
        /\ DOMAIN Tagging(a, w) = DOMAIN w /\ Tagging(a, w).address = w.address
        /\ Renaming(a, Renaming(a, w)) = Renaming(a, w)
        /\ Tagging(a, Tagging(a, w)) = Tagging(a, w)
        /\ Renaming(a, Renaming(b, w)) = Renaming(b, Renaming(a, w))
        /\ Tagging(a, Tagging(b, w)) = Tagging(b, Tagging(a, w))
        /\ Renaming(a, Tagging(b, w)) = Tagging(b, Renaming(a, w))
<1> USE DEF Renaming, Tagging
<1>1. /\ DOMAIN Renaming(a, w) = DOMAIN w /\ Renaming(a, w).address = w.address
        /\ DOMAIN Tagging(a, w) = DOMAIN w /\ Tagging(a, w).address = w.address
    OBVIOUS
<1>2. Renaming(a, Renaming(a, w)) = Renaming(a, w)
  OBVIOUS
<1>3. Tagging(a, Tagging(a, w)) = Tagging(a, w)
  OBVIOUS
<1>4. Renaming(a, Renaming(b, w)) = Renaming(b, Renaming(a, w))
  OBVIOUS
<1>5. Tagging(a, Tagging(b, w)) = Tagging(b, Tagging(a, w))
  OBVIOUS
<1>6. Renaming(a, Tagging(b, w)) = Tagging(b, Renaming(a, w))
  OBVIOUS
<1> QED BY <1>1, <1>2, <1>3, <1>4, <1>5, <1>6

\* So do the edits of a row, and none of them saves a row from a deletion.
LEMMA EditsOfARow ==
  ASSUME NEW w, {"address", "name", "tagged"} \subseteq DOMAIN w, NEW o, NEW a, NEW p, NEW b
  PROVE  /\ DOMAIN Edit(o, a, w) = DOMAIN w /\ Edit(o, a, w).address = w.address
         /\ Keeps(p, b, Edit(o, a, w)) <=> Keeps(p, b, w)
         /\ Edit(o, a, Edit(o, a, w)) = Edit(o, a, w)
         /\ Edit(o, a, Edit(p, b, w)) = Edit(p, b, Edit(o, a, w))
<1>1. DOMAIN Edit(o, a, w) = DOMAIN w /\ Edit(o, a, w).address = w.address
  BY RowEdits DEF Edit
<1>2. Keeps(p, b, Edit(o, a, w)) <=> Keeps(p, b, w)
  BY RowEdits DEF Edit, Keeps
<1>3. Edit(o, a, Edit(o, a, w)) = Edit(o, a, w)
  BY RowEdits DEF Edit
<1>4. Edit(o, a, Edit(p, b, w)) = Edit(p, b, Edit(o, a, w))
  BY RowEdits DEF Edit
<1> QED BY <1>1, <1>2, <1>3, <1>4

\* A list after two edits, in one go.
LEMMA AfterBoth ==
  ASSUME NEW R, Listable(R), NEW o, NEW a, NEW p, NEW b
  PROVE  After(o, a, After(p, b, R)) =
           {Edit(o, a, Edit(p, b, w)) : w \in {v \in R : Keeps(o, a, v) /\ Keeps(p, b, v)}}
BY EditsOfARow DEF After, Listable

\* An edit that is applied again changes nothing.
LEMMA AfterTwice ==
  ASSUME NEW R, Listable(R), NEW o, NEW a
  PROVE  After(o, a, After(o, a, R)) = After(o, a, R)
<1>1. After(o, a, After(o, a, R)) =
        {Edit(o, a, Edit(o, a, w)) : w \in {v \in R : Keeps(o, a, v) /\ Keeps(o, a, v)}}
  BY AfterBoth
<1>2. \A w \in R : Edit(o, a, Edit(o, a, w)) = Edit(o, a, w)
  BY EditsOfARow DEF Listable
<1> QED BY <1>1, <1>2 DEF After

\* The order of two edits does not matter.
LEMMA AfterEither ==
  ASSUME NEW R, Listable(R), NEW o, NEW a, NEW p, NEW b
  PROVE  After(o, a, After(p, b, R)) = After(p, b, After(o, a, R))
<1>1. /\ After(o, a, After(p, b, R)) =
           {Edit(o, a, Edit(p, b, w)) : w \in {v \in R : Keeps(o, a, v) /\ Keeps(p, b, v)}}
      /\ After(p, b, After(o, a, R)) =
           {Edit(p, b, Edit(o, a, w)) : w \in {v \in R : Keeps(p, b, v) /\ Keeps(o, a, v)}}
  BY AfterBoth
<1>2. \A w \in R : Edit(o, a, Edit(p, b, w)) = Edit(p, b, Edit(o, a, w))
  BY EditsOfARow DEF Listable
<1> QED BY <1>1, <1>2

\* What an edit does, as the handlers and the server write it.
LEMMA AfterIs ==
  ASSUME NEW o, NEW a, NEW R
  PROVE  /\ o = "rename" =>
              After(o, a, R) = {IF w.address \in a THEN [w EXCEPT !.name = "renamed"] ELSE w : w \in R}
         /\ o = "attach" =>
              After(o, a, R) = {IF w.address \in a THEN [w EXCEPT !.tagged = TRUE] ELSE w : w \in R}
         /\ o = "delete" => After(o, a, R) = {w \in R : w.address \notin a}
<1>1. CASE o = "rename"
  <2>1. {v \in R : Keeps(o, a, v)} = R
    BY <1>1 DEF Keeps
  <2> QED BY <2>1, <1>1 DEF After, Edit, Renaming
<1>2. CASE o = "attach"
  <2>1. {v \in R : Keeps(o, a, v)} = R
    BY <1>2 DEF Keeps
  <2> QED BY <2>1, <1>2 DEF After, Edit, Tagging
<1>3. CASE o = "delete"
  BY <1>3 DEF After, Edit, Keeps
<1> QED BY <1>1, <1>2, <1>3

\* An edited list is a list, as distinct as it was.
LEMMA AfterListable ==
  ASSUME NEW R, Listable(R), NEW o, NEW a
  PROVE  Listable(After(o, a, R)) /\ (Distinct(R) => Distinct(After(o, a, R)))
<1>1. Listable(After(o, a, R))
  BY EditsOfARow DEF Listable, After
<1>2. \A w \in R : Edit(o, a, w).address = w.address
  BY EditsOfARow DEF Listable
<1>3. Distinct(R) => Distinct(After(o, a, R))
  BY <1>2 DEF After, Distinct
<1> QED BY <1>1, <1>3

\* Rows of a table, and all of them if the list is whole; an edit that the table has
\* had leaves them so.
RowsOf(R, whole, D) == R \subseteq D /\ (whole => R = D)
LEMMA AfterShown ==
  ASSUME NEW R, NEW D, NEW whole, RowsOf(R, whole, D), NEW o, NEW a
  PROVE  RowsOf(After(o, a, R), whole, After(o, a, D))
BY DEF RowsOf, After

\* The two pages are catalogues in the same way.  Their calls are records of the
\* same fields, and their rows have the fields that the edits change.
CatalogueCalls == \A r \in wire : DOMAIN r = {"op", "who", "net", "out", "rows", "cursors", "old"}
CatalogueRows == Listable(db) /\ Listable(page.rows) /\ \A r \in wire : Listable(r.rows)

\* An answer that nothing has overtaken is about the catalogue as it is: what was
\* read are rows of it, and what was changed has been changed.
ReadIs(r, D) == RowsOf(r.rows, r.op # "turn" /\ r.cursors = {}, D)
AnswersAreCurrent(reads) ==
    \A r \in wire :
      /\ r.out = "sent" => ~r.old
      /\ r.out = "ok" /\ ~r.old /\ r.op \in reads => ReadIs(r, db)
      /\ r.out = "ok" /\ ~r.old /\ r.op \in Edits => After(r.op, r.who, db) = db

\* The list is one answer away from the catalogue, unless an answer is under way
\* that will say that it is stale, or it is known to be.
Overtaken(r) == r.out = "ok" /\ r.op \in Changes /\ (r.old \/ r.op = "track")
Completes(r) ==
    r.out = "ok" /\ r.op \in Edits /\ ~r.old /\ RowsOf(After(r.op, r.who, page.rows), page.whole, db)
ListFollows ==
    page.stale \/ RowsOf(page.rows, page.whole, db) \/ \E r \in wire : Overtaken(r) \/ Completes(r)

\* The server's change of the calls when it applies another one.
Marked(reads, W) ==
    {IF q.op \in reads \cup Changes /\ q.out = "ok" THEN [q EXCEPT !.old = TRUE] ELSE q : q \in W}

\* The answer s of the server to the change r, which made db' of the catalogue.
Applied(reads, r, s) ==
    /\ r.op \in Changes /\ r.out = "sent"
    /\ s \in wire' /\ s.op = r.op /\ s.who = r.who /\ s.rows = r.rows /\ s.out # "sent" /\ s.old = r.old
    /\ s.out = "ok" /\ r.op \in Edits => db' = After(s.op, s.who, db)
    /\ wire' = (IF db' = db THEN wire \ {r} ELSE Marked(reads, wire \ {r})) \cup {s}
    /\ page'.rows = page.rows /\ page'.whole = page.whole
    /\ page.stale => page'.stale
    /\ db' # db /\ s.out # "ok" => page'.stale

\* An answer to an edit that the page applies to its list brings it closer.
LEMMA EditArrives ==
  ASSUME CatalogueRows, NEW reads, AnswersAreCurrent(reads), ListFollows,
         NEW r \in wire, r.op \in Edits, r.out = "ok",
         page'.rows = After(r.op, r.who, page.rows), page'.whole = page.whole,
         page'.stale = (page.stale \/ r.old),
         wire' = wire \ {r}, db' = db
  PROVE  ListFollows'
<1>1. CASE page.stale \/ r.old
  BY <1>1 DEF ListFollows
<1>2. CASE \E q \in wire : Overtaken(q)
  <2>1. PICK q \in wire : Overtaken(q)
    BY <1>2
  <2>2. CASE q = r
    BY <2>1, <2>2 DEF ListFollows, Overtaken, Edits
  <2>3. CASE q # r
    BY <2>1, <2>3 DEF ListFollows, Overtaken
  <2> QED BY <2>2, <2>3
<1>3. CASE ~r.old /\ RowsOf(page.rows, page.whole, db)
  <2>1. After(r.op, r.who, db) = db
    BY <1>3 DEF AnswersAreCurrent
  <2>2. RowsOf(page'.rows, page'.whole, db')
    BY <1>3, <2>1, AfterShown
  <2> QED BY <2>2 DEF ListFollows
<1>4. CASE ~r.old /\ \E q \in wire : Completes(q)
  <2>1. PICK q \in wire : Completes(q)
    BY <1>4
  <2>2. CASE q = r
    BY <2>1, <2>2 DEF ListFollows, Completes
  <2>3. CASE q # r
    <3>1. After(q.op, q.who, page'.rows) = After(r.op, r.who, After(q.op, q.who, page.rows))
      BY AfterEither DEF CatalogueRows
    <3>2. RowsOf(After(q.op, q.who, page'.rows), page'.whole, After(r.op, r.who, db))
      BY <3>1, <2>1, AfterShown DEF Completes
    <3>3. RowsOf(After(q.op, q.who, page'.rows), page'.whole, db')
      BY <3>2, <1>4 DEF AnswersAreCurrent
    <3> QED BY <2>1, <2>3, <3>3 DEF ListFollows, Completes
  <2> QED BY <2>2, <2>3
<1> QED BY <1>1, <1>2, <1>3, <1>4 DEF ListFollows

\* A failed answer leaves the list as close to the catalogue as it was.
LEMMA NothingLearnt ==
  ASSUME ListFollows, NEW r \in wire, r.out # "ok",
         page'.rows = page.rows, page'.whole = page.whole, page'.stale = page.stale,
         wire' = wire \ {r}, db' = db
  PROVE  ListFollows'
BY DEF ListFollows, Overtaken, Completes

\* A new call brings it no closer, and no further.
LEMMA CallsAreNoAnswers ==
  ASSUME ListFollows, page'.rows = page.rows, page'.whole = page.whole, page'.stale = page.stale,
         wire \subseteq wire', db' = db
  PROVE  ListFollows'
BY DEF ListFollows, Overtaken, Completes

\* A page that was read brings it there, unless it is old.
LEMMA ListRead ==
  ASSUME NEW reads, AnswersAreCurrent(reads), NEW r \in wire, r.out = "ok", r.op \in reads,
         page'.rows = r.rows, page'.stale = r.old, page'.whole = (r.op # "turn" /\ r.cursors = {}), db' = db
  PROVE  ListFollows'
BY DEF AnswersAreCurrent, ReadIs, RowsOf, ListFollows

\* When the server applies a change, the answers it has given since are still
\* current or are marked, ...
LEMMA AppliedIsCurrent ==
  ASSUME CatalogueCalls, CatalogueRows, NEW reads, reads \cap Changes = {}, AnswersAreCurrent(reads),
         NEW r \in wire, NEW s, Applied(reads, r, s)
  PROVE  AnswersAreCurrent(reads)'
<1>1. ~s.old /\ s.out # "sent" /\ s.op \notin reads
  BY DEF Applied, AnswersAreCurrent
<1>2. ASSUME s.out = "ok", s.op \in Edits PROVE After(s.op, s.who, db') = db'
  BY <1>2, AfterTwice DEF Applied, CatalogueRows
<1>3. \A q \in wire' \ {s} : (q \in wire /\ db' = db) \/ q.out # "ok" \/ q.old \/ q.op \notin reads \cup Changes
  <2>1. CASE db' = db
    BY <2>1 DEF Applied
  <2>2. CASE db' # db
    BY <2>2 DEF Applied, Marked, CatalogueCalls
  <2> QED BY <2>1, <2>2
<1>4. \A q \in wire' \ {s} : q.out = "sent" => ~q.old
  BY DEF Applied, Marked, CatalogueCalls, AnswersAreCurrent
<1> QED BY <1>1, <1>2, <1>3, <1>4 DEF AnswersAreCurrent, Edits, Changes

\* ... and the list is an answer away, or will be known to be stale.
LEMMA AppliedFollows ==
  ASSUME CatalogueCalls, NEW reads, AnswersAreCurrent(reads), ListFollows,
         NEW r \in wire, NEW s, Applied(reads, r, s)
  PROVE  ListFollows'
<1>1. CASE page.stale \/ page'.stale
  BY <1>1 DEF Applied, ListFollows
<1>2. CASE db' = db /\ ~page.stale
  BY <1>2 DEF Applied, ListFollows, Overtaken, Completes
<1>3. CASE db' # db /\ RowsOf(page.rows, page.whole, db) /\ s.out = "ok"
  <2>1. ~s.old /\ s \in wire'
    BY DEF Applied, AnswersAreCurrent
  <2>2. CASE s.op = "track"
    BY <1>3, <2>1, <2>2 DEF ListFollows, Overtaken, Changes
  <2>3. CASE s.op # "track"
    <3>1. s.op \in Edits /\ db' = After(s.op, s.who, db)
      BY <1>3, <2>3 DEF Applied, Changes
    <3>2. RowsOf(After(s.op, s.who, page'.rows), page'.whole, db')
      BY <1>3, <3>1, AfterShown DEF Applied
    <3> QED BY <1>3, <2>1, <3>1, <3>2 DEF ListFollows, Completes
  <2> QED BY <2>2, <2>3
<1>4. CASE db' # db /\ \E q \in wire : Overtaken(q) \/ Completes(q)
  <2>1. PICK q \in wire : q.out = "ok" /\ q.op \in Changes
    BY <1>4 DEF Overtaken, Completes, Edits, Changes
  <2>2. [q EXCEPT !.old = TRUE] \in wire'
    BY <1>4, <2>1 DEF Applied, Marked
  <2>3. Overtaken([q EXCEPT !.old = TRUE])
    BY <2>1 DEF Overtaken, CatalogueCalls
  <2> QED BY <2>2, <2>3 DEF ListFollows
<1> QED BY <1>1, <1>2, <1>3, <1>4 DEF Applied, ListFollows

\* What a page read from the server may hold.
LEMMA ReadingsAre ==
  ASSUME NEW r, NEW first, "turn" \notin first, NEW out, NEW p \in Readings(r, first, out)
  PROVE  /\ p.rows \subseteq db
         /\ out = "ok" /\ r.op \in first \cup {"turn"} => RowsOf(p.rows, r.op # "turn" /\ p.cursors = {}, db)
<1>1. CASE out # "ok" \/ r.op \notin first \cup {"turn"}
  BY <1>1 DEF Readings
<1>2. CASE out = "ok" /\ r.op = "turn"
  BY <1>2 DEF Readings, LaterReadings, Reading, RowsOf
<1>3. CASE out = "ok" /\ r.op \in first
  BY <1>3 DEF Readings, FirstReadings, Reading, RowsOf
<1> QED BY <1>1, <1>2, <1>3

\* When the server answers a call that changes nothing, the answers stay current and
\* the list as close to the catalogue as it was.
LEMMA ReadServed ==
  ASSUME CatalogueCalls, CatalogueRows, NEW first, "turn" \notin first,
         AnswersAreCurrent(first \cup {"turn"}), ListFollows,
         NEW r \in wire, r.out = "sent", r.op \notin Changes, NEW out, NEW p \in Readings(r, first, out),
         out \in {"ok", "fail"}, page' = page, db' = db,
         wire' = (wire \ {r}) \cup {[r EXCEPT !.out = out, !.rows = p.rows, !.cursors = p.cursors]}
  PROVE  /\ CatalogueCalls' /\ CatalogueRows' /\ AnswersAreCurrent(first \cup {"turn"})' /\ ListFollows'
         /\ \A q \in wire' : q \in wire \/ (q.op = r.op /\ q.who = r.who /\ q.rows \subseteq db)
<1> DEFINE s == [r EXCEPT !.out = out, !.rows = p.rows, !.cursors = p.cursors]
<1>1. /\ DOMAIN s = {"op", "who", "net", "out", "rows", "cursors", "old"} /\ s.op = r.op /\ s.who = r.who
      /\ s.out = out /\ s.rows = p.rows /\ s.cursors = p.cursors /\ s.old = r.old
  BY DEF CatalogueCalls
<1>2. wire' = (wire \ {r}) \cup {s}
  OBVIOUS
<1> HIDE DEF s
<1>3. /\ p.rows \subseteq db
      /\ out = "ok" /\ r.op \in first \cup {"turn"} => RowsOf(p.rows, r.op # "turn" /\ p.cursors = {}, db)
  BY ReadingsAre
<1>4. CatalogueCalls' /\ CatalogueRows'
  BY <1>1, <1>2, <1>3 DEF CatalogueCalls, CatalogueRows, Listable
<1>5. s.out = "ok" /\ s.op \in first \cup {"turn"} => ReadIs(s, db)
  BY <1>1, <1>3 DEF ReadIs, RowsOf
<1>6. AnswersAreCurrent(first \cup {"turn"})'
  BY <1>1, <1>2, <1>5 DEF AnswersAreCurrent, Changes
<1>7. ListFollows'
  BY <1>2 DEF ListFollows, Overtaken, Completes
<1> QED BY <1>1, <1>2, <1>3, <1>4, <1>6, <1>7

-----------------------------------------------------------------------------
(* The page of the accounts *)

WalletsFields ==
    /\ page.at = "wallets"
    /\ DOMAIN page = {"at", "url", "opened", "detail", "rows", "cursors", "whole", "stale", "query", "ticked", "dialog",
                      "targets", "address", "timer", "checking", "found", "network", "verified", "loading", "refreshing", "calls"}

\* The lookups under way are for the address in the dialog, ...
LookupsAreCurrent ==
    /\ page.timer => page.dialog = "add" /\ page.address # None
    /\ \A r \in wire : r.op = "lookup" => page.dialog = "add" /\ page.address # None /\ r.who = {page.address}

\* ... and so is what the last of them found.
VerifiedIsFound ==
    page.verified =>
      /\ page.address # None /\ page.found \subseteq FoundOn[page.address]
      /\ page.network # None => page.network \in FoundOn[page.address]

WalletsInv ==
    /\ WalletsFields /\ CatalogueCalls /\ LookupsAreCurrent /\ VerifiedIsFound /\ TrackedWasFound
    /\ CatalogueRows /\ AnswersAreCurrent(Reads) /\ ListFollows

\* What is applied to the list and to the catalogue are the same edits.
LEMMA WrittenIs ==
  ASSUME NEW r, NEW part, r.op \in Edits
  PROVE  Written(r, part) = After(r.op, part, db)
<1>1. CASE r.op = "rename"
  BY <1>1, AfterIs DEF Written
<1>2. CASE r.op = "attach"
  BY <1>2, AfterIs DEF Written
<1>3. CASE r.op = "delete"
  BY <1>3, AfterIs DEF Written
<1> QED BY <1>1, <1>2, <1>3 DEF Edits

\* A change that the server decides is an answer, and the marks on the others.
LEMMA WriteIsApplied ==
  ASSUME WalletsInv, NEW r \in wire, ServeWrite(r)
  PROVE  \E s : Applied(Reads, r, s)
<1>1. PICK e \in Effects(r), heard \in BOOLEAN :
       /\ r.op \in Writes /\ r.out = "sent" /\ db' = e.db
       /\ wire' = (IF e.db = db THEN wire \ {r} ELSE Outdated(wire \ {r}))
                    \cup {[r EXCEPT !.out = IF heard /\ e.done THEN "ok" ELSE "fail"]}
       /\ page' = [page EXCEPT !.stale = @ \/ (e.db # db /\ ~(heard /\ e.done))]
  BY DEF ServeWrite
<1> DEFINE ok == heard /\ e.done
           s == [r EXCEPT !.out = IF ok THEN "ok" ELSE "fail"]
<1>2. s \in wire' /\ wire' = (IF db' = db THEN wire \ {r} ELSE Marked(Reads, wire \ {r})) \cup {s}
  BY <1>1 DEF Outdated, Marked, Writes, Changes, Edits
<1>3. s.op = r.op /\ s.who = r.who /\ s.rows = r.rows /\ s.out # "sent" /\ s.old = r.old
  BY DEF WalletsInv, CatalogueCalls
<1>4. (s.out = "ok" => ok) /\ (s.out # "ok" => ~ok)
  BY DEF WalletsInv, CatalogueCalls
<1>5. ASSUME s.out = "ok", r.op \in Edits PROVE db' = After(s.op, s.who, db)
  <2>1. e.done => e.db = Written(r, r.who)
    BY DEF Effects
  <2> QED BY <1>1, <1>3, <1>4, <1>5, <2>1, WrittenIs
<1>6. page' = [page EXCEPT !.stale = @ \/ (db' # db /\ ~ok)]
  BY <1>1
<1> HIDE DEF s, ok
<1>7. /\ page'.rows = page.rows /\ page'.whole = page.whole
      /\ (page.stale => page'.stale) /\ (db' # db /\ s.out # "ok" => page'.stale)
  BY <1>4, <1>6 DEF WalletsInv, WalletsFields
<1>8. r.op \in Changes /\ r.out = "sent"
  BY <1>1 DEF Writes, Changes, Edits
<1>9. Applied(Reads, r, s)
  BY <1>2, <1>3, <1>5, <1>7, <1>8 DEF Applied
<1> QED BY <1>9

\* ... and leaves rows of the same fields.
LEMMA WriteKeepsRows ==
  ASSUME WalletsInv, NEW r \in wire, ServeWrite(r)
  PROVE  CatalogueRows'
<1>1. PICK e \in Effects(r) : r.op \in Writes /\ db' = e.db
  BY DEF ServeWrite
<1>2. ASSUME NEW part PROVE Listable(Written(r, part))
  <2>1. CASE r.op = "track"
    <3>1. Written(r, part) = {w \in db : w.address \notin part} \cup {Entered(a) : a \in part}
      BY <2>1 DEF Written
    <3>2. \A a \in part : {"address", "name", "tagged"} \subseteq DOMAIN Entered(a)
      BY DEF Entered
    <3> QED BY <3>1, <3>2 DEF Listable, WalletsInv, CatalogueRows
  <2>2. CASE r.op # "track"
    BY <2>2, <1>1, WrittenIs, AfterListable DEF Writes, Edits, WalletsInv, CatalogueRows
  <2> QED BY <2>1, <2>2
<1>3. Listable(Untagged(r.who))
  BY DEF Untagged, Listable, WalletsInv, CatalogueRows
<1>4. Listable(db')
  <2>1. e.db \in {db, Untagged(r.who)} \/ \E part : e.db = Written(r, part)
    BY DEF Effects
  <2> QED BY <1>1, <1>2, <1>3, <2>1 DEF WalletsInv, CatalogueRows
<1>5. page'.rows = page.rows
  BY DEF ServeWrite, WalletsInv, WalletsFields
<1>6. \A q \in wire' : \E s \in wire : q.rows = s.rows
  BY DEF ServeWrite, Outdated, WalletsInv, CatalogueCalls
<1> QED BY <1>4, <1>5, <1>6 DEF WalletsInv, CatalogueRows

\* Every step of the page keeps the invariant.
LEMMA WalletsStep ==
  ASSUME WalletsInv, WalletsNext
  PROVE  WalletsInv'
<1>1. ASSUME NEW q \in Sought \cup {None}, Search(q) PROVE WalletsInv'
  BY <1>1 DEF Search, Browsing, Show, OnWallets, None, WalletScreen, WalletsInv, WalletsFields,
    CatalogueCalls, LookupsAreCurrent, VerifiedIsFound, TrackedWasFound, CatalogueRows, Listable,
    AnswersAreCurrent, Reads, Edits, ListFollows, Overtaken, Completes, Changes
<1>2. ASSUME NEW a \in Accounts \cup {None}, TypeAddress(a) PROVE WalletsInv'
  BY <1>2 DEF TypeAddress, OnWallets, None, WalletScreen, WalletsInv, WalletsFields,
    CatalogueCalls, LookupsAreCurrent, VerifiedIsFound, TrackedWasFound, CatalogueRows, Listable,
    AnswersAreCurrent, Reads, Edits, ListFollows, Overtaken, Completes, Changes
<1>3. ASSUME NEW a \in Accounts, ToggleWallet(a) PROVE WalletsInv'
  BY <1>3 DEF ToggleWallet, RowOffers, Show, Browsing, Visible, OnWallets, None, WalletScreen,
    WalletsInv, WalletsFields, CatalogueCalls, LookupsAreCurrent, VerifiedIsFound,
    TrackedWasFound, CatalogueRows, Listable, AnswersAreCurrent, Reads, Edits, ListFollows,
    Overtaken, Completes, Changes
<1>4. ASSUME NEW a \in Accounts, OpenWallet(a) PROVE WalletsInv'
  BY <1>4 DEF OpenWallet, RowOffers, Call, WalletCall, None, Browsing, Visible, OnWallets,
    WalletScreen, WalletsInv, WalletsFields, CatalogueCalls, LookupsAreCurrent, VerifiedIsFound,
    TrackedWasFound, CatalogueRows, Listable, AnswersAreCurrent, Reads, Edits, ListFollows,
    Overtaken, Completes, Changes
<1>5. ASSUME NEW kind \in {"tag", "rename", "delete"}, NEW who \in SUBSET Accounts, OpenDialog(kind, who) PROVE WalletsInv'
  BY <1>5 DEF OpenDialog, RowOffers, CanTagSelected, CanDeleteSelected, Show, Browsing, Visible,
    SelectedVisible, OnWallets, None, WalletScreen, WalletsInv, WalletsFields, CatalogueCalls,
    LookupsAreCurrent, VerifiedIsFound, TrackedWasFound, CatalogueRows, Listable,
    AnswersAreCurrent, Reads, Edits, ListFollows, Overtaken, Completes, Changes
<1>6. ASSUME ToggleAllWallets PROVE WalletsInv'
  BY <1>6 DEF ToggleAllWallets, Visible, Browsing, Show, AllVisibleSelected, None, OnWallets,
    WalletScreen, WalletsInv, WalletsFields, CatalogueCalls, LookupsAreCurrent, VerifiedIsFound,
    TrackedWasFound, CatalogueRows, Listable, AnswersAreCurrent, Reads, Edits, ListFollows,
    Overtaken, Completes, Changes
<1>7. ASSUME CloseDialog PROVE WalletsInv'
  BY <1>7 DEF CloseDialog, OnWallets, None, WalletScreen, WalletsInv, WalletsFields,
    CatalogueCalls, LookupsAreCurrent, VerifiedIsFound, TrackedWasFound, CatalogueRows, Listable,
    AnswersAreCurrent, Reads, Edits, ListFollows, Overtaken, Completes, Changes
<1>8. ASSUME RefreshList PROVE WalletsInv'
  BY <1>8 DEF RefreshList, CanRefresh, Call, WalletCall, None, Browsing, OnWallets, WalletScreen,
    WalletsInv, WalletsFields, CatalogueCalls, LookupsAreCurrent, VerifiedIsFound,
    TrackedWasFound, CatalogueRows, Listable, AnswersAreCurrent, Reads, Edits, ListFollows,
    Overtaken, Completes, Changes
<1>9. ASSUME RefreshSettles PROVE WalletsInv'
  BY <1>9 DEF RefreshSettles, InFlight, Show, WalletsInv, WalletsFields, CatalogueCalls,
    LookupsAreCurrent, None, VerifiedIsFound, TrackedWasFound, CatalogueRows, Listable,
    AnswersAreCurrent, Reads, Edits, ListFollows, Overtaken, Completes, Changes
<1>10. ASSUME ShowAdd PROVE WalletsInv'
  BY <1>10 DEF ShowAdd, Browsing, Show, None, OnWallets, WalletScreen, WalletsInv, WalletsFields,
    CatalogueCalls, LookupsAreCurrent, VerifiedIsFound, TrackedWasFound, CatalogueRows, Listable,
    AnswersAreCurrent, Reads, Edits, ListFollows, Overtaken, Completes, Changes
<1>11. ASSUME StartCheck PROVE WalletsInv'
  BY <1>11 DEF StartCheck, OnWallets, Call, WalletCall, None, WalletScreen, WalletsInv,
    WalletsFields, CatalogueCalls, LookupsAreCurrent, VerifiedIsFound, TrackedWasFound,
    CatalogueRows, Listable, AnswersAreCurrent, Reads, Edits, ListFollows, Overtaken, Completes,
    Changes
<1>12. ASSUME NEW n \in Networks, ChooseNetwork(n) PROVE WalletsInv'
  BY <1>12 DEF ChooseNetwork, OnWallets, Show, WalletScreen, None, WalletsInv, WalletsFields,
    CatalogueCalls, LookupsAreCurrent, VerifiedIsFound, TrackedWasFound, CatalogueRows, Listable,
    AnswersAreCurrent, Reads, Edits, ListFollows, Overtaken, Completes, Changes
<1>13. ASSUME Track PROVE WalletsInv'
  BY <1>13 DEF Track, OnWallets, CanAdd, Call, WalletCall, WalletScreen, None, WalletsInv,
    WalletsFields, CatalogueCalls, LookupsAreCurrent, VerifiedIsFound, TrackedWasFound,
    CatalogueRows, Listable, AnswersAreCurrent, Reads, Edits, ListFollows, Overtaken, Completes,
    Changes
<1>14. ASSUME RenameWallet PROVE WalletsInv'
  BY <1>14 DEF RenameWallet, OnWallets, CanRename, Call, WalletCall, None, WalletScreen,
    WalletsInv, WalletsFields, CatalogueCalls, LookupsAreCurrent, VerifiedIsFound,
    TrackedWasFound, CatalogueRows, Listable, AnswersAreCurrent, Reads, Edits, ListFollows,
    Overtaken, Completes, Changes
<1>15. ASSUME SaveTag PROVE WalletsInv'
  BY <1>15 DEF SaveTag, OnWallets, CanSaveTag, DialogTargets, Call, WalletCall, None,
    WalletScreen, SelectedVisible, Visible, WalletsInv, WalletsFields, CatalogueCalls,
    LookupsAreCurrent, VerifiedIsFound, TrackedWasFound, CatalogueRows, Listable,
    AnswersAreCurrent, Reads, Edits, ListFollows, Overtaken, Completes, Changes
<1>16. ASSUME DeleteSelectedWallets PROVE WalletsInv'
  BY <1>16 DEF DeleteSelectedWallets, OnWallets, CanDelete, DialogTargets, Call, WalletCall,
    None, WalletScreen, SelectedVisible, Visible, WalletsInv, WalletsFields, CatalogueCalls,
    LookupsAreCurrent, VerifiedIsFound, TrackedWasFound, CatalogueRows, Listable,
    AnswersAreCurrent, Reads, Edits, ListFollows, Overtaken, Completes, Changes
<1>17. ASSUME FollowUrl PROVE WalletsInv'
  <2>1. WalletsFields'
    BY <1>17 DEF FollowUrl, None, Show, Call, WalletCall, WalletsFields, CatalogueCalls,
      WalletsInv
  <2>2. CatalogueCalls'
    BY <1>17 DEF FollowUrl, None, Show, Call, WalletCall, WalletsFields, CatalogueCalls,
      WalletsInv
  <2>3. LookupsAreCurrent'
    <3>1. page'.timer = page.timer /\ page'.dialog = page.dialog /\ page'.address = page.address
      BY <1>17 DEF WalletsInv, WalletsFields, FollowUrl, Call, Show
    <3>2. \A q \in wire' : q \in wire \/ q.op = "open"
      BY <1>17 DEF FollowUrl, Call, Show, WalletCall
    <3> QED BY <3>1, <3>2 DEF WalletsInv, LookupsAreCurrent
  <2>4. VerifiedIsFound'
    <3>1. /\ page'.verified = page.verified /\ page'.address = page.address
          /\ page'.found = page.found /\ page'.network = page.network
      BY <1>17 DEF WalletsInv, WalletsFields, FollowUrl, Call, Show
    <3> QED BY <3>1 DEF WalletsInv, VerifiedIsFound
  <2>5. TrackedWasFound'
    BY <1>17 DEF FollowUrl, None, Show, Call, WalletCall, WalletsFields, CatalogueCalls,
      WalletsInv, TrackedWasFound
  <2>6. CatalogueRows'
    <3>1. page'.rows = page.rows
      BY <1>17 DEF WalletsInv, WalletsFields, FollowUrl, Call, Show
    <3>2. \A q \in wire' : q \in wire \/ q.rows = {}
      BY <1>17 DEF FollowUrl, Call, Show, WalletCall
    <3>3. db' = db
      BY <1>17 DEF FollowUrl, Call, Show
    <3> QED BY <3>1, <3>2, <3>3 DEF WalletsInv, CatalogueRows, Listable
  <2>7. AnswersAreCurrent(Reads)'
    BY <1>17 DEF FollowUrl, None, Show, Call, WalletCall, WalletsFields, CatalogueCalls,
      WalletsInv, AnswersAreCurrent, Reads, Edits
  <2>8. ListFollows'
    <3>1. page'.rows = page.rows /\ page'.whole = page.whole /\ page'.stale = page.stale
      BY <1>17 DEF WalletsInv, WalletsFields, FollowUrl, Call, Show
    <3>2. wire \subseteq wire' /\ db' = db
      BY <1>17 DEF FollowUrl, Call, Show
    <3> QED BY <3>1, <3>2, CallsAreNoAnswers DEF WalletsInv
  <2> QED BY <2>1, <2>2, <2>3, <2>4, <2>5, <2>6, <2>7, <2>8 DEF WalletsInv
<1>18. ASSUME BackToList PROVE WalletsInv'
  BY <1>18 DEF BackToList, WalletScreen, Show, None, WalletsInv, WalletsFields, CatalogueCalls,
    LookupsAreCurrent, VerifiedIsFound, TrackedWasFound, CatalogueRows, Listable,
    AnswersAreCurrent, Reads, Edits, ListFollows, Overtaken, Completes, Changes
<1>19. ASSUME HistoryBack PROVE WalletsInv'
  BY <1>19 DEF HistoryBack, None, Show, WalletsInv, WalletsFields, CatalogueCalls,
    LookupsAreCurrent, VerifiedIsFound, TrackedWasFound, CatalogueRows, Listable,
    AnswersAreCurrent, Reads, Edits, ListFollows, Overtaken, Completes, Changes
<1>20. ASSUME NEW r \in wire, ListArrives(r) PROVE WalletsInv'
  <2>1. r.op \in Reads /\ wire' = wire \ {r} /\ db' = db
    BY <1>20 DEF ListArrives, Answers, Then
  <2>2. /\ WalletsFields' /\ page'.timer = page.timer /\ page'.dialog = page.dialog
        /\ page'.address = page.address /\ page'.verified = page.verified
        /\ page'.found = page.found /\ page'.network = page.network
        /\ IF r.out = "ok" THEN /\ page'.rows = r.rows /\ page'.stale = r.old
                                /\ page'.whole = (r.op # "turn" /\ r.cursors = {})
           ELSE page'.rows = page.rows /\ page'.whole = page.whole /\ page'.stale = page.stale
    BY <1>20 DEF ListArrives, Then, PageRead, WalletsInv, WalletsFields
  <2>3. CatalogueCalls' /\ CatalogueRows'
    BY <2>1, <2>2 DEF WalletsInv, CatalogueCalls, CatalogueRows
  <2>4. LookupsAreCurrent' /\ VerifiedIsFound' /\ TrackedWasFound'
    BY <2>1, <2>2 DEF WalletsInv, WalletsFields, LookupsAreCurrent, VerifiedIsFound, TrackedWasFound
  <2>5. AnswersAreCurrent(Reads)'
    BY <2>1 DEF WalletsInv, AnswersAreCurrent
  <2>6. ListFollows'
    BY <2>1, <2>2, ListRead, NothingLearnt DEF WalletsInv
  <2> QED BY <2>2, <2>3, <2>4, <2>5, <2>6 DEF WalletsInv
<1>21. ASSUME NEW r \in wire, Checked(r) PROVE WalletsInv'
  BY <1>21 DEF Checked, Answers, Then, Detected, None, WalletsInv, WalletsFields, CatalogueCalls,
    LookupsAreCurrent, VerifiedIsFound, TrackedWasFound, CatalogueRows, Listable,
    AnswersAreCurrent, Reads, Edits, ListFollows, Overtaken, Completes, Changes
<1>22. ASSUME NEW r \in wire, Tracked(r) PROVE WalletsInv'
  <2>1. WalletsFields'
    BY <1>22 DEF Tracked, Answers, None, WalletCall, Then, WalletsFields, CatalogueCalls,
      WalletsInv
  <2>2. CatalogueCalls'
    BY <1>22 DEF Tracked, Answers, None, WalletCall, Then, WalletsFields, CatalogueCalls,
      WalletsInv
  <2>3. LookupsAreCurrent'
    <3>1. CASE r.out = "ok"
      <4>1. ~page'.timer
        BY <1>22, <3>1 DEF Tracked, WalletsInv, WalletsFields
      <4>2. \A q \in wire' : q.op # "lookup"
        BY <1>22, <3>1 DEF Tracked, WalletCall
      <4> QED BY <4>1, <4>2 DEF LookupsAreCurrent
    <3>2. CASE r.out # "ok"
      <4>1. page'.timer = page.timer /\ page'.dialog = page.dialog /\ page'.address = page.address /\ wire' \subseteq wire
        BY <1>22, <3>2 DEF Tracked, Then, WalletsInv, WalletsFields
      <4> QED BY <4>1 DEF WalletsInv, LookupsAreCurrent
    <3> QED BY <3>1, <3>2
  <2>4. VerifiedIsFound'
    BY <1>22 DEF Tracked, Answers, None, WalletCall, Then, WalletsFields, CatalogueCalls,
      WalletsInv, VerifiedIsFound
  <2>5. TrackedWasFound'
    BY <1>22 DEF Tracked, Answers, None, WalletCall, Then, WalletsFields, CatalogueCalls,
      WalletsInv, TrackedWasFound
  <2>6. CatalogueRows'
    <3>1. page'.rows = page.rows /\ db' = db
      BY <1>22 DEF Tracked, Then, WalletsInv, WalletsFields
    <3>2. \A q \in wire' : q \in wire \/ q.rows = {}
      BY <1>22 DEF Tracked, Then, WalletCall
    <3> QED BY <3>1, <3>2 DEF WalletsInv, CatalogueRows, Listable
  <2>7. AnswersAreCurrent(Reads)'
    BY <1>22 DEF Tracked, Answers, None, WalletCall, Then, WalletsFields, CatalogueCalls,
      WalletsInv, AnswersAreCurrent, Reads, Edits
  <2>8. ListFollows'
    <3>1. CASE r.out = "ok"
      <4>1. page'.stale
        BY <1>22, <3>1 DEF Tracked, WalletsInv, WalletsFields
      <4> QED BY <4>1 DEF ListFollows
    <3>2. CASE r.out # "ok"
      <4>1. /\ page'.rows = page.rows /\ page'.whole = page.whole /\ page'.stale = page.stale
            /\ wire' = wire \ {r} /\ db' = db
        BY <1>22, <3>2 DEF Tracked, Then, WalletsInv, WalletsFields
      <4> QED BY <3>2, <4>1, NothingLearnt DEF WalletsInv
    <3> QED BY <3>1, <3>2
  <2> QED BY <2>1, <2>2, <2>3, <2>4, <2>5, <2>6, <2>7, <2>8 DEF WalletsInv
<1>23. ASSUME NEW r \in wire, Renamed(r) PROVE WalletsInv'
  <2>1. WalletsFields'
    BY <1>23 DEF Renamed, Answers, Then, DialogDone, None, WalletsFields, CatalogueCalls,
      WalletsInv
  <2>2. CatalogueCalls'
    BY <1>23 DEF Renamed, Answers, Then, DialogDone, None, WalletsFields, CatalogueCalls,
      WalletsInv
  <2>3. LookupsAreCurrent'
    BY <1>23 DEF Renamed, Answers, Then, DialogDone, None, WalletsFields, CatalogueCalls,
      WalletsInv, LookupsAreCurrent
  <2>4. VerifiedIsFound'
    BY <1>23 DEF Renamed, Answers, Then, DialogDone, None, WalletsFields, CatalogueCalls,
      WalletsInv, VerifiedIsFound
  <2>5. TrackedWasFound'
    BY <1>23 DEF Renamed, Answers, Then, DialogDone, None, WalletsFields, CatalogueCalls,
      WalletsInv, TrackedWasFound
  <2>6. CatalogueRows'
    BY <1>23 DEF Renamed, Answers, Then, DialogDone, None, WalletsFields, CatalogueCalls,
      WalletsInv, CatalogueRows, Listable
  <2>7. AnswersAreCurrent(Reads)'
    BY <1>23 DEF Renamed, Answers, Then, DialogDone, None, WalletsFields, CatalogueCalls,
      WalletsInv, AnswersAreCurrent, Reads, Edits
  <2>8. ListFollows'
    <3>1. r.op = "rename" /\ wire' = wire \ {r} /\ db' = db
      BY <1>23 DEF Renamed, Answers, Then
    <3>2. CASE r.out = "ok"
      <4>1. /\ page'.rows = After(r.op, r.who, page.rows) /\ page'.whole = page.whole
            /\ page'.stale = (page.stale \/ r.old)
        BY <1>23, <3>1, <3>2, AfterIs DEF Renamed, Then, DialogDone, WalletsInv, WalletsFields
      <4> QED BY <3>1, <3>2, <4>1, EditArrives DEF Edits, WalletsInv
    <3>3. CASE r.out # "ok"
      <4>1. page'.rows = page.rows /\ page'.whole = page.whole /\ page'.stale = page.stale
        BY <1>23, <3>3 DEF Renamed, Then, WalletsInv, WalletsFields
      <4> QED BY <3>1, <3>3, <4>1, NothingLearnt DEF WalletsInv
    <3> QED BY <3>2, <3>3
  <2> QED BY <2>1, <2>2, <2>3, <2>4, <2>5, <2>6, <2>7, <2>8 DEF WalletsInv
<1>24. ASSUME NEW r \in wire, TagCreated(r) PROVE WalletsInv'
  BY <1>24 DEF TagCreated, Answers, Then, WalletCall, None, WalletsInv, WalletsFields,
    CatalogueCalls, LookupsAreCurrent, VerifiedIsFound, TrackedWasFound, CatalogueRows, Listable,
    AnswersAreCurrent, Reads, Edits, ListFollows, Overtaken, Completes, Changes
<1>25. ASSUME NEW r \in wire, Attached(r) PROVE WalletsInv'
  <2>1. WalletsFields'
    BY <1>25 DEF Attached, Answers, Then, DialogDone, None, WalletsFields, CatalogueCalls,
      WalletsInv
  <2>2. CatalogueCalls'
    BY <1>25 DEF Attached, Answers, Then, DialogDone, None, WalletsFields, CatalogueCalls,
      WalletsInv
  <2>3. LookupsAreCurrent'
    BY <1>25 DEF Attached, Answers, Then, DialogDone, None, WalletsFields, CatalogueCalls,
      WalletsInv, LookupsAreCurrent
  <2>4. VerifiedIsFound'
    BY <1>25 DEF Attached, Answers, Then, DialogDone, None, WalletsFields, CatalogueCalls,
      WalletsInv, VerifiedIsFound
  <2>5. TrackedWasFound'
    BY <1>25 DEF Attached, Answers, Then, DialogDone, None, WalletsFields, CatalogueCalls,
      WalletsInv, TrackedWasFound
  <2>6. CatalogueRows'
    BY <1>25 DEF Attached, Answers, Then, DialogDone, None, WalletsFields, CatalogueCalls,
      WalletsInv, CatalogueRows, Listable
  <2>7. AnswersAreCurrent(Reads)'
    BY <1>25 DEF Attached, Answers, Then, DialogDone, None, WalletsFields, CatalogueCalls,
      WalletsInv, AnswersAreCurrent, Reads, Edits
  <2>8. ListFollows'
    <3>1. r.op = "attach" /\ wire' = wire \ {r} /\ db' = db
      BY <1>25 DEF Attached, Answers, Then
    <3>2. CASE r.out = "ok"
      <4>1. /\ page'.rows = After(r.op, r.who, page.rows) /\ page'.whole = page.whole
            /\ page'.stale = (page.stale \/ r.old)
        BY <1>25, <3>1, <3>2, AfterIs DEF Attached, Then, DialogDone, WalletsInv, WalletsFields
      <4> QED BY <3>1, <3>2, <4>1, EditArrives DEF Edits, WalletsInv
    <3>3. CASE r.out # "ok"
      <4>1. page'.rows = page.rows /\ page'.whole = page.whole /\ page'.stale = page.stale
        BY <1>25, <3>3 DEF Attached, Then, WalletsInv, WalletsFields
      <4> QED BY <3>1, <3>3, <4>1, NothingLearnt DEF WalletsInv
    <3> QED BY <3>2, <3>3
  <2> QED BY <2>1, <2>2, <2>3, <2>4, <2>5, <2>6, <2>7, <2>8 DEF WalletsInv
<1>26. ASSUME NEW r \in wire, Deleted(r) PROVE WalletsInv'
  <2>1. WalletsFields'
    BY <1>26 DEF Deleted, Answers, Then, DialogDone, None, WalletsFields, CatalogueCalls,
      WalletsInv
  <2>2. CatalogueCalls'
    BY <1>26 DEF Deleted, Answers, Then, DialogDone, None, WalletsFields, CatalogueCalls,
      WalletsInv
  <2>3. LookupsAreCurrent'
    BY <1>26 DEF Deleted, Answers, Then, DialogDone, None, WalletsFields, CatalogueCalls,
      WalletsInv, LookupsAreCurrent
  <2>4. VerifiedIsFound'
    BY <1>26 DEF Deleted, Answers, Then, DialogDone, None, WalletsFields, CatalogueCalls,
      WalletsInv, VerifiedIsFound
  <2>5. TrackedWasFound'
    BY <1>26 DEF Deleted, Answers, Then, DialogDone, None, WalletsFields, CatalogueCalls,
      WalletsInv, TrackedWasFound
  <2>6. CatalogueRows'
    BY <1>26 DEF Deleted, Answers, Then, DialogDone, None, WalletsFields, CatalogueCalls,
      WalletsInv, CatalogueRows, Listable
  <2>7. AnswersAreCurrent(Reads)'
    BY <1>26 DEF Deleted, Answers, Then, DialogDone, None, WalletsFields, CatalogueCalls,
      WalletsInv, AnswersAreCurrent, Reads, Edits
  <2>8. ListFollows'
    <3>1. r.op = "delete" /\ wire' = wire \ {r} /\ db' = db
      BY <1>26 DEF Deleted, Answers, Then
    <3>2. CASE r.out = "ok"
      <4>1. /\ page'.rows = After(r.op, r.who, page.rows) /\ page'.whole = page.whole
            /\ page'.stale = (page.stale \/ r.old)
        BY <1>26, <3>1, <3>2, AfterIs DEF Deleted, Then, DialogDone, WalletsInv, WalletsFields
      <4> QED BY <3>1, <3>2, <4>1, EditArrives DEF Edits, WalletsInv
    <3>3. CASE r.out # "ok"
      <4>1. page'.rows = page.rows /\ page'.whole = page.whole /\ page'.stale = page.stale
        BY <1>26, <3>3 DEF Deleted, Then, WalletsInv, WalletsFields
      <4> QED BY <3>1, <3>3, <4>1, NothingLearnt DEF WalletsInv
    <3> QED BY <3>2, <3>3
  <2> QED BY <2>1, <2>2, <2>3, <2>4, <2>5, <2>6, <2>7, <2>8 DEF WalletsInv
<1>27. ASSUME NEW r \in wire, Opened(r) PROVE WalletsInv'
  BY <1>27 DEF Opened, Answers, Then, WalletsInv, WalletsFields, CatalogueCalls,
    LookupsAreCurrent, None, VerifiedIsFound, TrackedWasFound, CatalogueRows, Listable,
    AnswersAreCurrent, Reads, Edits, ListFollows, Overtaken, Completes, Changes
<1>28. ASSUME NEW r \in wire, ServeWrite(r) PROVE WalletsInv'
  <2>1. WalletsFields'
    BY <1>28 DEF ServeWrite, WalletsFields, WalletsInv
  <2>2. CatalogueCalls'
    BY <1>28 DEF ServeWrite, Outdated, WalletsInv, CatalogueCalls
  <2>3. LookupsAreCurrent'
    BY <1>28 DEF ServeWrite, Outdated, WalletsFields, CatalogueCalls, WalletsInv,
      LookupsAreCurrent, None
  <2>4. VerifiedIsFound'
    BY <1>28 DEF ServeWrite, WalletsFields, WalletsInv, VerifiedIsFound, None
  <2>5. TrackedWasFound'
    BY <1>28 DEF ServeWrite, Outdated, WalletsFields, CatalogueCalls, WalletsInv, TrackedWasFound
  <2>6. CatalogueRows'
    BY <1>28, WriteKeepsRows
  <2>7. AnswersAreCurrent(Reads)'
    BY <1>28, WriteIsApplied, AppliedIsCurrent DEF WalletsInv, Reads, FirstReads, Changes, Edits
  <2>8. ListFollows'
    BY <1>28, WriteIsApplied, AppliedFollows DEF WalletsInv
  <2> QED BY <2>1, <2>2, <2>3, <2>4, <2>5, <2>6, <2>7, <2>8 DEF WalletsInv
<1>29. ASSUME NEW r \in wire, ServeRead(r) PROVE WalletsInv'
  <2>1. PICK out \in {"ok", "fail"} : \E p \in Readings(r, FirstReads, out) :
           wire' = (wire \ {r}) \cup {[r EXCEPT !.out = out, !.rows = p.rows, !.cursors = p.cursors]}
    BY <1>29 DEF ServeRead
  <2>2. r.out = "sent" /\ r.op \notin Changes /\ page' = page /\ db' = db
    BY <1>29 DEF ServeRead, Writes, Changes, Edits
  <2>3. /\ CatalogueCalls' /\ CatalogueRows' /\ AnswersAreCurrent(Reads)' /\ ListFollows'
        /\ \A q \in wire' : q \in wire \/ (q.op = r.op /\ q.who = r.who /\ q.rows \subseteq db)
    BY <2>1, <2>2, ReadServed DEF WalletsInv, Reads, FirstReads
  <2>4. WalletsFields' /\ VerifiedIsFound'
    BY <2>2 DEF WalletsInv, WalletsFields, VerifiedIsFound
  <2>5. LookupsAreCurrent'
    BY <2>2, <2>3 DEF WalletsInv, LookupsAreCurrent
  <2>6. TrackedWasFound'
    BY <2>2, <2>3 DEF WalletsInv, TrackedWasFound, Changes
  <2> QED BY <2>3, <2>4, <2>5, <2>6 DEF WalletsInv
<1>30. ASSUME TurnPage PROVE WalletsInv'
  BY <1>30 DEF TurnPage, Call, WalletCall, None, Browsing, OnWallets, WalletScreen,
    WalletsInv, WalletsFields, CatalogueCalls, LookupsAreCurrent, VerifiedIsFound,
    TrackedWasFound, CatalogueRows, Listable, AnswersAreCurrent, Reads, Edits, ListFollows,
    Overtaken, Completes, Changes
<1> QED
  BY <1>1, <1>2, <1>3, <1>4, <1>5, <1>6, <1>7, <1>8, <1>9, <1>10, <1>11, <1>12, <1>13, <1>14,
    <1>15, <1>16, <1>17, <1>18, <1>19, <1>20, <1>21, <1>22, <1>23, <1>24, <1>25, <1>26, <1>27,
    <1>28, <1>29, <1>30 DEF WalletsNext

\* The invariant holds when the page is mounted.
LEMMA WalletsStart == WalletsInit => WalletsInv
<1> SUFFICES ASSUME WalletsInit PROVE WalletsInv
  OBVIOUS
<1> USE DEF WalletsInit, WalletsMounted, WalletCall
<1>1. WalletsFields /\ CatalogueCalls
  BY DEF WalletsFields, CatalogueCalls
<1>2. LookupsAreCurrent /\ VerifiedIsFound /\ TrackedWasFound
  BY DEF LookupsAreCurrent, VerifiedIsFound, TrackedWasFound
<1>3. CatalogueRows
  BY DEF CatalogueRows, Listable, Row
<1>4. AnswersAreCurrent(Reads) /\ ListFollows
  BY DEF AnswersAreCurrent, ListFollows
<1> QED BY <1>1, <1>2, <1>3, <1>4 DEF WalletsInv

\* With no change under way, the list that is not known to be stale is a page of the catalogue.
LEMMA WalletsListIsCatalogue == WalletsInv => TrackedWasFound /\ WalletsListAgrees
BY DEF WalletsInv, WalletsListAgrees, ShowsTable, RowsOf, ListFollows, Overtaken, Completes, InFlight, Writes, Edits, Changes

-----------------------------------------------------------------------------
(* The page of the contracts *)

ContractsFields ==
    /\ page.at = "contracts"
    /\ DOMAIN page = {"at", "url", "going", "following", "detail", "network", "rows", "cursors", "whole", "stale",
                      "query", "ticked", "dialog", "targets", "address", "adding", "loading", "refreshing", "calls"}

\* A contract is in the catalogue, and in each answer and the list made from it, once.
CatalogueIsDistinct == Distinct(db) /\ Distinct(page.rows) /\ \A r \in wire : Distinct(r.rows)

ContractsInv ==
    /\ ContractsFields /\ CatalogueCalls /\ CatalogueRows /\ CatalogueIsDistinct
    /\ AnswersAreCurrent(ContractReads) /\ ListFollows

\* What is applied to the list and to the catalogue are the same edits.
LEMMA ContractWrittenIs ==
  ASSUME NEW r, NEW part, r.op \in Edits
  PROVE  ContractWritten(r, part) = After(r.op, part, db)
<1>1. CASE r.op = "rename"
  BY <1>1, AfterIs DEF ContractWritten
<1>2. CASE r.op = "attach"
  BY <1>2, AfterIs DEF ContractWritten
<1>3. CASE r.op = "delete"
  BY <1>3, AfterIs DEF ContractWritten
<1> QED BY <1>1, <1>2, <1>3 DEF Edits

\* A change that the server decides is an answer, and the marks on the others.
LEMMA ContractWriteIsApplied ==
  ASSUME ContractsInv, NEW r \in wire, ServeContractWrite(r)
  PROVE  \E s : Applied(ContractReads, r, s)
<1>1. PICK e \in ContractEffects(r), heard \in BOOLEAN :
       /\ r.op \in ContractWrites /\ r.out = "sent" /\ db' = e.db
       /\ wire' = (IF e.db = db THEN wire \ {r} ELSE ContractsOutdated(wire \ {r}))
                    \cup {[r EXCEPT !.out = IF heard /\ e.done THEN "ok" ELSE "fail"]}
       /\ page' = [page EXCEPT !.stale = @ \/ (e.db # db /\ ~(heard /\ e.done))]
  BY DEF ServeContractWrite
<1> DEFINE ok == heard /\ e.done
           s == [r EXCEPT !.out = IF ok THEN "ok" ELSE "fail"]
<1>2. s \in wire' /\ wire' = (IF db' = db THEN wire \ {r} ELSE Marked(ContractReads, wire \ {r})) \cup {s}
  BY <1>1 DEF ContractsOutdated, Marked, ContractWrites, Changes, Edits
<1>3. s.op = r.op /\ s.who = r.who /\ s.rows = r.rows /\ s.out # "sent" /\ s.old = r.old
  BY DEF ContractsInv, CatalogueCalls
<1>4. (s.out = "ok" => ok) /\ (s.out # "ok" => ~ok)
  BY DEF ContractsInv, CatalogueCalls
<1>5. ASSUME s.out = "ok", r.op \in Edits PROVE db' = After(s.op, s.who, db)
  <2>1. e.done => e.db = ContractWritten(r, r.who)
    BY DEF ContractEffects
  <2> QED BY <1>1, <1>3, <1>4, <1>5, <2>1, ContractWrittenIs
<1>6. page' = [page EXCEPT !.stale = @ \/ (db' # db /\ ~ok)]
  BY <1>1
<1> HIDE DEF s, ok
<1>7. /\ page'.rows = page.rows /\ page'.whole = page.whole
      /\ (page.stale => page'.stale) /\ (db' # db /\ s.out # "ok" => page'.stale)
  BY <1>4, <1>6 DEF ContractsInv, ContractsFields
<1>8. r.op \in Changes /\ r.out = "sent"
  BY <1>1 DEF ContractWrites, Changes, Edits
<1>9. Applied(ContractReads, r, s)
  BY <1>2, <1>3, <1>5, <1>7, <1>8 DEF Applied
<1> QED BY <1>9

\* ... and leaves rows of the same fields.
LEMMA ContractWriteKeepsRows ==
  ASSUME ContractsInv, NEW r \in wire, ServeContractWrite(r)
  PROVE  CatalogueRows'
<1>1. PICK e \in ContractEffects(r) : r.op \in ContractWrites /\ db' = e.db
  BY DEF ServeContractWrite
<1>2. ASSUME NEW part PROVE Listable(ContractWritten(r, part))
  <2>1. CASE r.op = "track"
    <3>1. ContractWritten(r, part) = {w \in db : w.address \notin part} \cup {EnteredContract(a, r.net) : a \in part}
      BY <2>1 DEF ContractWritten
    <3>2. \A a \in part : {"address", "name", "tagged"} \subseteq DOMAIN EnteredContract(a, r.net)
      BY DEF EnteredContract
    <3> QED BY <3>1, <3>2 DEF Listable, ContractsInv, CatalogueRows
  <2>2. CASE r.op # "track"
    BY <2>2, <1>1, ContractWrittenIs, AfterListable DEF ContractWrites, Edits, ContractsInv, CatalogueRows
  <2> QED BY <2>1, <2>2
<1>3. Listable(ContractsUntagged(r.who))
  BY DEF ContractsUntagged, Listable, ContractsInv, CatalogueRows
<1>4. Listable(db')
  <2>1. e.db \in {db, ContractsUntagged(r.who)} \/ \E part : e.db = ContractWritten(r, part)
    BY DEF ContractEffects
  <2> QED BY <1>1, <1>2, <1>3, <2>1 DEF ContractsInv, CatalogueRows
<1>5. page'.rows = page.rows
  BY DEF ServeContractWrite, ContractsInv, ContractsFields
<1>6. \A q \in wire' : \E s \in wire : q.rows = s.rows
  BY DEF ServeContractWrite, ContractsOutdated, ContractsInv, CatalogueCalls
<1> QED BY <1>4, <1>5, <1>6 DEF ContractsInv, CatalogueRows

\* A contract that is tracked takes the place of the one with its address.
LEMMA ContractWriteIsDistinct ==
  ASSUME ContractsInv, NEW r \in wire, ServeContractWrite(r)
  PROVE  CatalogueIsDistinct'
<1>1. PICK e \in ContractEffects(r) : r.op \in ContractWrites /\ db' = e.db
  BY DEF ServeContractWrite
<1>2. ASSUME NEW part PROVE Distinct(ContractWritten(r, part))
  <2>1. CASE r.op = "track"
    <3>1. ContractWritten(r, part) = {c \in db : c.address \notin part} \cup {EnteredContract(a, r.net) : a \in part}
      BY <2>1 DEF ContractWritten
    <3>2. \A a \in part : EnteredContract(a, r.net).address = a
      BY DEF EnteredContract
    <3> QED BY <3>1, <3>2 DEF Distinct, ContractsInv, CatalogueIsDistinct
  <2>2. CASE r.op # "track"
    BY <2>2, <1>1, ContractWrittenIs, AfterListable
       DEF ContractWrites, Edits, ContractsInv, CatalogueRows, CatalogueIsDistinct
  <2> QED BY <2>1, <2>2
<1>3. Distinct(ContractsUntagged(r.who))
  <2>1. \A c \in db : (IF c.address \in r.who THEN [c EXCEPT !.tagged = FALSE] ELSE c).address = c.address
    BY DEF ContractsInv, CatalogueRows, Listable
  <2>2. ASSUME NEW x \in ContractsUntagged(r.who), NEW y \in ContractsUntagged(r.who), x.address = y.address
        PROVE  x = y
    <3>1. PICK c \in db : x = IF c.address \in r.who THEN [c EXCEPT !.tagged = FALSE] ELSE c
      BY DEF ContractsUntagged
    <3>2. PICK d \in db : y = IF d.address \in r.who THEN [d EXCEPT !.tagged = FALSE] ELSE d
      BY DEF ContractsUntagged
    <3>3. c.address = d.address
      BY <2>1, <2>2, <3>1, <3>2
    <3>4. c = d
      BY <3>3 DEF ContractsInv, CatalogueIsDistinct, Distinct
    <3> QED BY <3>1, <3>2, <3>4
  <2> QED BY <2>2 DEF Distinct
<1>4. Distinct(db')
  <2>1. e.db \in {db, ContractsUntagged(r.who)} \/ \E part : e.db = ContractWritten(r, part)
    BY DEF ContractEffects
  <2> QED BY <1>1, <1>2, <1>3, <2>1 DEF ContractsInv, CatalogueIsDistinct
<1>5. page'.rows = page.rows
  BY DEF ServeContractWrite, ContractsInv, ContractsFields
<1>6. \A q \in wire' : \E s \in wire : q.rows = s.rows
  BY DEF ServeContractWrite, ContractsOutdated, ContractsInv, CatalogueCalls
<1> QED BY <1>4, <1>5, <1>6 DEF ContractsInv, CatalogueIsDistinct

\* Every step of the page keeps the invariant.
LEMMA ContractsStep ==
  ASSUME ContractsInv, ContractsNext
  PROVE  ContractsInv'
<1>1. ASSUME NEW q \in Sought \cup {None}, SearchContracts(q) PROVE ContractsInv'
  BY <1>1 DEF SearchContracts, BrowsingContracts, Show, OnContracts, None, ContractScreen,
    ContractsInv, ContractsFields, CatalogueCalls, CatalogueRows, Listable, CatalogueIsDistinct,
    Distinct, AnswersAreCurrent, ContractReads, Edits, ListFollows, Overtaken,
    Completes, Changes
<1>2. ASSUME NEW a \in (Sought \cap Contracts) \cup {None}, TypeContract(a) PROVE ContractsInv'
  BY <1>2 DEF TypeContract, OnContracts, Show, ContractScreen, None, ContractsInv,
    ContractsFields, CatalogueCalls, CatalogueRows, Listable, CatalogueIsDistinct, Distinct,
    AnswersAreCurrent, ContractReads, Edits, ListFollows, Overtaken, Completes, Changes
<1>3. ASSUME NEW r \in page.rows, ToggleContract(r) PROVE ContractsInv'
  BY <1>3 DEF ToggleContract, ContractRowOffers, Show, BrowsingContracts, VisibleContracts,
    OnContracts, None, ContractScreen, ContractsInv, ContractsFields, CatalogueCalls,
    CatalogueRows, Listable, CatalogueIsDistinct, Distinct, AnswersAreCurrent,
    ContractReads, Edits, ListFollows, Overtaken, Completes, Changes
<1>4. ASSUME NEW r \in page.rows, OpenContract(r) PROVE ContractsInv'
  BY <1>4 DEF OpenContract, ContractRowOffers, Opening, BrowsingContracts, VisibleContracts,
    Call, ContractCall, OnContracts, None, ContractScreen, ContractsInv, ContractsFields,
    CatalogueCalls, CatalogueRows, Listable, CatalogueIsDistinct, Distinct, AnswersAreCurrent, ContractReads, Edits, ListFollows, Overtaken, Completes, Changes
<1>5. ASSUME NEW kind \in {"tag", "rename", "delete"}, NEW who \in SUBSET Contracts, OpenContractDialog(kind, who) PROVE ContractsInv'
  BY <1>5 DEF OpenContractDialog, ContractRowOffers, ContractToolbar, Show, BrowsingContracts,
    VisibleContracts, SelectedVisibleContracts, OnContracts, None, ShownContracts,
    ContractScreen, ContractsInv, ContractsFields, CatalogueCalls, CatalogueRows, Listable,
    CatalogueIsDistinct, Distinct, AnswersAreCurrent, ContractReads, Edits,
    ListFollows, Overtaken, Completes, Changes
<1>6. ASSUME ToggleAllContracts PROVE ContractsInv'
  BY <1>6 DEF ToggleAllContracts, BrowsingContracts, ShownContracts, Show, OnContracts, None,
    VisibleContracts, ContractScreen, ContractsInv, ContractsFields, CatalogueCalls,
    CatalogueRows, Listable, CatalogueIsDistinct, Distinct, AnswersAreCurrent,
    ContractReads, Edits, ListFollows, Overtaken, Completes, Changes
<1>7. ASSUME CloseContractDialog PROVE ContractsInv'
  BY <1>7 DEF CloseContractDialog, OnContracts, None, Show, ContractScreen, ContractsInv,
    ContractsFields, CatalogueCalls, CatalogueRows, Listable, CatalogueIsDistinct, Distinct,
    AnswersAreCurrent, ContractReads, Edits, ListFollows, Overtaken, Completes, Changes
<1>8. ASSUME RefreshContracts PROVE ContractsInv'
  BY <1>8 DEF RefreshContracts, ContractToolbar, Call, ContractCall, None, BrowsingContracts,
    SelectedVisibleContracts, OnContracts, ShownContracts, ContractScreen, VisibleContracts,
    ContractsInv, ContractsFields, CatalogueCalls, CatalogueRows, Listable, CatalogueIsDistinct,
    Distinct, AnswersAreCurrent, ContractReads, Edits, ListFollows, Overtaken,
    Completes, Changes
<1>9. ASSUME ContractsSettle PROVE ContractsInv'
  BY <1>9 DEF ContractsSettle, InFlight, Show, ContractsInv, ContractsFields, CatalogueCalls,
    CatalogueRows, Listable, CatalogueIsDistinct, Distinct, AnswersAreCurrent,
    ContractReads, Edits, ListFollows, Overtaken, Completes, Changes
<1>10. ASSUME ShowAddContract PROVE ContractsInv'
  BY <1>10 DEF ShowAddContract, BrowsingContracts, Show, None, OnContracts, ContractScreen,
    ContractsInv, ContractsFields, CatalogueCalls, CatalogueRows, Listable, CatalogueIsDistinct,
    Distinct, AnswersAreCurrent, ContractReads, Edits, ListFollows, Overtaken,
    Completes, Changes
<1>11. ASSUME NEW n \in ContractNetworks, ChooseContractNetwork(n) PROVE ContractsInv'
  BY <1>11 DEF ChooseContractNetwork, OnContracts, Show, ContractScreen, None, ContractsInv,
    ContractsFields, CatalogueCalls, CatalogueRows, Listable, CatalogueIsDistinct, Distinct,
    AnswersAreCurrent, ContractReads, Edits, ListFollows, Overtaken, Completes, Changes
<1>12. ASSUME TrackContract PROVE ContractsInv'
  BY <1>12 DEF TrackContract, OnContracts, CanAddContract, Call, ContractCall, ContractScreen,
    None, ContractsInv, ContractsFields, CatalogueCalls, CatalogueRows, Listable,
    CatalogueIsDistinct, Distinct, AnswersAreCurrent, ContractReads, Edits,
    ListFollows, Overtaken, Completes, Changes
<1>13. ASSUME RenameContract PROVE ContractsInv'
  BY <1>13 DEF RenameContract, OnContracts, CanRenameContract, Call, ContractCall, None,
    ContractScreen, ContractsInv, ContractsFields, CatalogueCalls, CatalogueRows, Listable,
    CatalogueIsDistinct, Distinct, AnswersAreCurrent, ContractReads, Edits,
    ListFollows, Overtaken, Completes, Changes
<1>14. ASSUME SaveContractTag PROVE ContractsInv'
  BY <1>14 DEF SaveContractTag, OnContracts, CanTagContract, ContractTargets, Call, ContractCall,
    None, ContractScreen, SelectedVisibleContracts, ShownContracts, VisibleContracts,
    ContractsInv, ContractsFields, CatalogueCalls, CatalogueRows, Listable, CatalogueIsDistinct,
    Distinct, AnswersAreCurrent, ContractReads, Edits, ListFollows, Overtaken,
    Completes, Changes
<1>15. ASSUME DeleteSelectedContracts PROVE ContractsInv'
  BY <1>15 DEF DeleteSelectedContracts, OnContracts, CanDeleteContract, ContractTargets, Call,
    ContractCall, None, ContractScreen, SelectedVisibleContracts, ShownContracts,
    VisibleContracts, ContractsInv, ContractsFields, CatalogueCalls, CatalogueRows, Listable,
    CatalogueIsDistinct, Distinct, AnswersAreCurrent, ContractReads, Edits,
    ListFollows, Overtaken, Completes, Changes
<1>16. ASSUME Navigated PROVE ContractsInv'
  BY <1>16 DEF Navigated, None, Show, ContractsInv, ContractsFields, CatalogueCalls,
    CatalogueRows, Listable, CatalogueIsDistinct, Distinct, AnswersAreCurrent,
    ContractReads, Edits, ListFollows, Overtaken, Completes, Changes
<1>17. ASSUME FollowContractUrl PROVE ContractsInv'
  <2>1. ContractsFields'
    BY <1>17 DEF FollowContractUrl, None, Show, Opening, Call, ContractCall, ContractsFields,
      CatalogueCalls, ContractsInv
  <2>2. CatalogueCalls'
    BY <1>17 DEF FollowContractUrl, None, Show, Opening, Call, ContractCall, ContractsFields,
      CatalogueCalls, ContractsInv
  <2>3. CatalogueRows'
    <3>1. page'.rows = page.rows /\ db' = db
      BY <1>17 DEF ContractsInv, ContractsFields, FollowContractUrl, Opening, Call, Show
    <3>2. \A q \in wire' : q \in wire \/ q.rows = {}
      BY <1>17 DEF FollowContractUrl, Opening, Call, Show, ContractCall
    <3> QED BY <3>1, <3>2 DEF ContractsInv, CatalogueRows, Listable
  <2>4. CatalogueIsDistinct'
    <3>1. page'.rows = page.rows /\ db' = db
      BY <1>17 DEF ContractsInv, ContractsFields, FollowContractUrl, Opening, Call, Show
    <3>2. \A q \in wire' : q \in wire \/ q.rows = {}
      BY <1>17 DEF FollowContractUrl, Opening, Call, Show, ContractCall
    <3> QED BY <3>1, <3>2 DEF ContractsInv, CatalogueIsDistinct, Distinct
  <2>6. AnswersAreCurrent(ContractReads)'
    <3>1. \A q \in wire' : q \in wire \/ (q.out = "sent" /\ ~q.old)
      BY <1>17 DEF FollowContractUrl, Opening, Call, Show, ContractCall
    <3>2. db' = db
      BY <1>17 DEF FollowContractUrl, Opening, Call, Show
    <3> QED BY <3>1, <3>2 DEF ContractsInv, AnswersAreCurrent, ContractReads, Edits
  <2>7. ListFollows'
    <3>1. /\ page'.rows = page.rows /\ page'.whole = page.whole /\ page'.stale = page.stale
          /\ wire \subseteq wire' /\ db' = db
      BY <1>17 DEF ContractsInv, ContractsFields, FollowContractUrl, Opening, Call, Show
    <3> QED BY <3>1, CallsAreNoAnswers DEF ContractsInv
  <2> QED BY <2>1, <2>2, <2>3, <2>4, <2>6, <2>7 DEF ContractsInv
<1>18. ASSUME BackToContracts PROVE ContractsInv'
  BY <1>18 DEF BackToContracts, ContractScreen, Show, None, ContractsInv, ContractsFields,
    CatalogueCalls, CatalogueRows, Listable, CatalogueIsDistinct, Distinct, AnswersAreCurrent, ContractReads, Edits, ListFollows, Overtaken, Completes, Changes
<1>19. ASSUME BrowserBack PROVE ContractsInv'
  BY <1>19 DEF BrowserBack, None, Show, ContractsInv, ContractsFields, CatalogueCalls,
    CatalogueRows, Listable, CatalogueIsDistinct, Distinct, AnswersAreCurrent,
    ContractReads, Edits, ListFollows, Overtaken, Completes, Changes
<1>20. ASSUME NEW r \in wire, ContractsArrive(r) PROVE ContractsInv'
  <2>1. r.op \in ContractReads /\ wire' = wire \ {r} /\ db' = db
    BY <1>20 DEF ContractsArrive, Answers, Then
  <2>2. /\ ContractsFields'
        /\ IF r.out = "ok" THEN /\ page'.rows = r.rows /\ page'.stale = r.old
                                /\ page'.whole = (r.op # "turn" /\ r.cursors = {})
           ELSE page'.rows = page.rows /\ page'.whole = page.whole /\ page'.stale = page.stale
    BY <1>20 DEF ContractsArrive, Then, PageRead, ContractsInv, ContractsFields
  <2>3. CatalogueCalls' /\ CatalogueRows' /\ CatalogueIsDistinct'
    BY <2>1, <2>2 DEF ContractsInv, CatalogueCalls, CatalogueRows, CatalogueIsDistinct
  <2>4. AnswersAreCurrent(ContractReads)'
    BY <2>1 DEF ContractsInv, AnswersAreCurrent
  <2>5. ListFollows'
    BY <2>1, <2>2, ListRead, NothingLearnt DEF ContractsInv
  <2> QED BY <2>2, <2>3, <2>4, <2>5 DEF ContractsInv
<1>21. ASSUME NEW r \in wire, ContractTracked(r) PROVE ContractsInv'
  <2>1. ContractsFields'
    BY <1>21 DEF ContractTracked, Answers, Then, None, ContractCall, ContractsFields,
      CatalogueCalls, ContractsInv
  <2>2. CatalogueCalls'
    BY <1>21 DEF ContractTracked, Answers, Then, None, ContractCall, ContractsFields,
      CatalogueCalls, ContractsInv
  <2>3. CatalogueRows'
    <3>1. page'.rows = page.rows /\ db' = db
      BY <1>21 DEF ContractsInv, ContractsFields, ContractTracked, Then
    <3>2. \A q \in wire' : q \in wire \/ q.rows = {}
      BY <1>21 DEF ContractTracked, Then, ContractCall
    <3> QED BY <3>1, <3>2 DEF ContractsInv, CatalogueRows, Listable
  <2>4. CatalogueIsDistinct'
    <3>1. page'.rows = page.rows /\ db' = db
      BY <1>21 DEF ContractsInv, ContractsFields, ContractTracked, Then
    <3>2. \A q \in wire' : q \in wire \/ q.rows = {}
      BY <1>21 DEF ContractTracked, Then, ContractCall
    <3> QED BY <3>1, <3>2 DEF ContractsInv, CatalogueIsDistinct, Distinct
  <2>6. AnswersAreCurrent(ContractReads)'
    BY <1>21 DEF ContractTracked, Answers, Then, None, ContractCall, ContractsFields,
      CatalogueCalls, ContractsInv, AnswersAreCurrent, ContractReads, Edits
  <2>7. ListFollows'
    <3>1. CASE r.out = "ok"
      <4>1. page'.stale
        BY <1>21, <3>1 DEF ContractTracked, Then, ContractsInv, ContractsFields
      <4> QED BY <4>1 DEF ListFollows
    <3>2. CASE r.out # "ok"
      <4>1. /\ page'.rows = page.rows /\ page'.whole = page.whole /\ page'.stale = page.stale
            /\ wire' = wire \ {r} /\ db' = db
        BY <1>21, <3>2 DEF ContractTracked, Then, ContractsInv, ContractsFields
      <4> QED BY <3>2, <4>1, NothingLearnt DEF ContractsInv
    <3> QED BY <3>1, <3>2
  <2> QED BY <2>1, <2>2, <2>3, <2>4, <2>6, <2>7 DEF ContractsInv
<1>22. ASSUME NEW r \in wire, ContractRenamed(r) PROVE ContractsInv'
  <2>1. ContractsFields'
    BY <1>22 DEF ContractRenamed, Answers, Then, ContractDialogDone, None, ContractsFields,
      CatalogueCalls, ContractsInv
  <2>2. CatalogueCalls'
    BY <1>22 DEF ContractRenamed, Answers, Then, ContractDialogDone, None, ContractsFields,
      CatalogueCalls, ContractsInv
  <2>3. CatalogueRows'
    <3>1. r.op = "rename" /\ wire' = wire \ {r} /\ db' = db
      BY <1>22 DEF ContractRenamed, Answers, Then
    <3>2. CASE r.out = "ok"
      <4>1. page'.rows = After(r.op, r.who, page.rows)
        BY <1>22, <3>1, <3>2, AfterIs DEF ContractRenamed, Then, ContractDialogDone, ContractsInv, ContractsFields
      <4> QED BY <3>1, <4>1, AfterListable DEF ContractsInv, CatalogueRows
    <3>3. CASE r.out # "ok"
      <4>1. page'.rows = page.rows
        BY <1>22, <3>3 DEF ContractRenamed, Then, ContractsInv, ContractsFields
      <4> QED BY <3>1, <4>1 DEF ContractsInv, CatalogueRows
    <3> QED BY <3>2, <3>3
  <2>4. CatalogueIsDistinct'
    <3>1. r.op = "rename" /\ wire' = wire \ {r} /\ db' = db
      BY <1>22 DEF ContractRenamed, Answers, Then
    <3>2. CASE r.out = "ok"
      <4>1. page'.rows = After(r.op, r.who, page.rows)
        BY <1>22, <3>1, <3>2, AfterIs DEF ContractRenamed, Then, ContractDialogDone, ContractsInv, ContractsFields
      <4> QED BY <3>1, <4>1, AfterListable DEF ContractsInv, CatalogueRows, CatalogueIsDistinct
    <3>3. CASE r.out # "ok"
      <4>1. page'.rows = page.rows
        BY <1>22, <3>3 DEF ContractRenamed, Then, ContractsInv, ContractsFields
      <4> QED BY <3>1, <4>1 DEF ContractsInv, CatalogueIsDistinct
    <3> QED BY <3>2, <3>3
  <2>6. AnswersAreCurrent(ContractReads)'
    BY <1>22 DEF ContractRenamed, Answers, Then, ContractDialogDone, None, ContractsFields,
      CatalogueCalls, ContractsInv, AnswersAreCurrent, ContractReads, Edits
  <2>7. ListFollows'
    <3>1. r.op = "rename" /\ wire' = wire \ {r} /\ db' = db
      BY <1>22 DEF ContractRenamed, Answers, Then
    <3>2. CASE r.out = "ok"
      <4>1. /\ page'.rows = After(r.op, r.who, page.rows) /\ page'.whole = page.whole
            /\ page'.stale = (page.stale \/ r.old)
        BY <1>22, <3>1, <3>2, AfterIs DEF ContractRenamed, Then, ContractDialogDone, ContractsInv, ContractsFields
      <4> QED BY <3>1, <3>2, <4>1, EditArrives DEF Edits, ContractsInv
    <3>3. CASE r.out # "ok"
      <4>1. page'.rows = page.rows /\ page'.whole = page.whole /\ page'.stale = page.stale
        BY <1>22, <3>3 DEF ContractRenamed, Then, ContractsInv, ContractsFields
      <4> QED BY <3>1, <3>3, <4>1, NothingLearnt DEF ContractsInv
    <3> QED BY <3>2, <3>3
  <2> QED BY <2>1, <2>2, <2>3, <2>4, <2>6, <2>7 DEF ContractsInv
<1>23. ASSUME NEW r \in wire, ContractTagReady(r) PROVE ContractsInv'
  BY <1>23 DEF ContractTagReady, Answers, Then, ContractCall, None, ContractsInv,
    ContractsFields, CatalogueCalls, CatalogueRows, Listable, CatalogueIsDistinct, Distinct,
    AnswersAreCurrent, ContractReads, Edits, ListFollows, Overtaken, Completes, Changes
<1>24. ASSUME NEW r \in wire, ContractsTagged(r) PROVE ContractsInv'
  <2>1. ContractsFields'
    BY <1>24 DEF ContractsTagged, Answers, Then, ContractDialogDone, None, ContractsFields,
      CatalogueCalls, ContractsInv
  <2>2. CatalogueCalls'
    BY <1>24 DEF ContractsTagged, Answers, Then, ContractDialogDone, None, ContractsFields,
      CatalogueCalls, ContractsInv
  <2>3. CatalogueRows'
    <3>1. r.op = "attach" /\ wire' = wire \ {r} /\ db' = db
      BY <1>24 DEF ContractsTagged, Answers, Then
    <3>2. CASE r.out = "ok"
      <4>1. page'.rows = After(r.op, r.who, page.rows)
        BY <1>24, <3>1, <3>2, AfterIs DEF ContractsTagged, Then, ContractDialogDone, ContractsInv, ContractsFields
      <4> QED BY <3>1, <4>1, AfterListable DEF ContractsInv, CatalogueRows
    <3>3. CASE r.out # "ok"
      <4>1. page'.rows = page.rows
        BY <1>24, <3>3 DEF ContractsTagged, Then, ContractsInv, ContractsFields
      <4> QED BY <3>1, <4>1 DEF ContractsInv, CatalogueRows
    <3> QED BY <3>2, <3>3
  <2>4. CatalogueIsDistinct'
    <3>1. r.op = "attach" /\ wire' = wire \ {r} /\ db' = db
      BY <1>24 DEF ContractsTagged, Answers, Then
    <3>2. CASE r.out = "ok"
      <4>1. page'.rows = After(r.op, r.who, page.rows)
        BY <1>24, <3>1, <3>2, AfterIs DEF ContractsTagged, Then, ContractDialogDone, ContractsInv, ContractsFields
      <4> QED BY <3>1, <4>1, AfterListable DEF ContractsInv, CatalogueRows, CatalogueIsDistinct
    <3>3. CASE r.out # "ok"
      <4>1. page'.rows = page.rows
        BY <1>24, <3>3 DEF ContractsTagged, Then, ContractsInv, ContractsFields
      <4> QED BY <3>1, <4>1 DEF ContractsInv, CatalogueIsDistinct
    <3> QED BY <3>2, <3>3
  <2>6. AnswersAreCurrent(ContractReads)'
    BY <1>24 DEF ContractsTagged, Answers, Then, ContractDialogDone, None, ContractsFields,
      CatalogueCalls, ContractsInv, AnswersAreCurrent, ContractReads, Edits
  <2>7. ListFollows'
    <3>1. r.op = "attach" /\ wire' = wire \ {r} /\ db' = db
      BY <1>24 DEF ContractsTagged, Answers, Then
    <3>2. CASE r.out = "ok"
      <4>1. /\ page'.rows = After(r.op, r.who, page.rows) /\ page'.whole = page.whole
            /\ page'.stale = (page.stale \/ r.old)
        BY <1>24, <3>1, <3>2, AfterIs DEF ContractsTagged, Then, ContractDialogDone, ContractsInv, ContractsFields
      <4> QED BY <3>1, <3>2, <4>1, EditArrives DEF Edits, ContractsInv
    <3>3. CASE r.out # "ok"
      <4>1. page'.rows = page.rows /\ page'.whole = page.whole /\ page'.stale = page.stale
        BY <1>24, <3>3 DEF ContractsTagged, Then, ContractsInv, ContractsFields
      <4> QED BY <3>1, <3>3, <4>1, NothingLearnt DEF ContractsInv
    <3> QED BY <3>2, <3>3
  <2> QED BY <2>1, <2>2, <2>3, <2>4, <2>6, <2>7 DEF ContractsInv
<1>25. ASSUME NEW r \in wire, ContractsDeleted(r) PROVE ContractsInv'
  <2>1. ContractsFields'
    BY <1>25 DEF ContractsDeleted, Answers, Then, ContractDialogDone, None, ContractsFields,
      CatalogueCalls, ContractsInv
  <2>2. CatalogueCalls'
    BY <1>25 DEF ContractsDeleted, Answers, Then, ContractDialogDone, None, ContractsFields,
      CatalogueCalls, ContractsInv
  <2>3. CatalogueRows'
    <3>1. r.op = "delete" /\ wire' = wire \ {r} /\ db' = db
      BY <1>25 DEF ContractsDeleted, Answers, Then
    <3>2. CASE r.out = "ok"
      <4>1. page'.rows = After(r.op, r.who, page.rows)
        BY <1>25, <3>1, <3>2, AfterIs DEF ContractsDeleted, Then, ContractDialogDone, ContractsInv, ContractsFields
      <4> QED BY <3>1, <4>1, AfterListable DEF ContractsInv, CatalogueRows
    <3>3. CASE r.out # "ok"
      <4>1. page'.rows = page.rows
        BY <1>25, <3>3 DEF ContractsDeleted, Then, ContractsInv, ContractsFields
      <4> QED BY <3>1, <4>1 DEF ContractsInv, CatalogueRows
    <3> QED BY <3>2, <3>3
  <2>4. CatalogueIsDistinct'
    <3>1. r.op = "delete" /\ wire' = wire \ {r} /\ db' = db
      BY <1>25 DEF ContractsDeleted, Answers, Then
    <3>2. CASE r.out = "ok"
      <4>1. page'.rows = After(r.op, r.who, page.rows)
        BY <1>25, <3>1, <3>2, AfterIs DEF ContractsDeleted, Then, ContractDialogDone, ContractsInv, ContractsFields
      <4> QED BY <3>1, <4>1, AfterListable DEF ContractsInv, CatalogueRows, CatalogueIsDistinct
    <3>3. CASE r.out # "ok"
      <4>1. page'.rows = page.rows
        BY <1>25, <3>3 DEF ContractsDeleted, Then, ContractsInv, ContractsFields
      <4> QED BY <3>1, <4>1 DEF ContractsInv, CatalogueIsDistinct
    <3> QED BY <3>2, <3>3
  <2>6. AnswersAreCurrent(ContractReads)'
    BY <1>25 DEF ContractsDeleted, Answers, Then, ContractDialogDone, None, ContractsFields,
      CatalogueCalls, ContractsInv, AnswersAreCurrent, ContractReads, Edits
  <2>7. ListFollows'
    <3>1. r.op = "delete" /\ wire' = wire \ {r} /\ db' = db
      BY <1>25 DEF ContractsDeleted, Answers, Then
    <3>2. CASE r.out = "ok"
      <4>1. /\ page'.rows = After(r.op, r.who, page.rows) /\ page'.whole = page.whole
            /\ page'.stale = (page.stale \/ r.old)
        BY <1>25, <3>1, <3>2, AfterIs DEF ContractsDeleted, Then, ContractDialogDone, ContractsInv, ContractsFields
      <4> QED BY <3>1, <3>2, <4>1, EditArrives DEF Edits, ContractsInv
    <3>3. CASE r.out # "ok"
      <4>1. page'.rows = page.rows /\ page'.whole = page.whole /\ page'.stale = page.stale
        BY <1>25, <3>3 DEF ContractsDeleted, Then, ContractsInv, ContractsFields
      <4> QED BY <3>1, <3>3, <4>1, NothingLearnt DEF ContractsInv
    <3> QED BY <3>2, <3>3
  <2> QED BY <2>1, <2>2, <2>3, <2>4, <2>6, <2>7 DEF ContractsInv
<1>26. ASSUME NEW r \in wire, ContractOpened(r) PROVE ContractsInv'
  BY <1>26 DEF ContractOpened, Answers, Then, ContractsInv, ContractsFields, CatalogueCalls,
    CatalogueRows, Listable, CatalogueIsDistinct, Distinct, AnswersAreCurrent,
    ContractReads, Edits, ListFollows, Overtaken, Completes, Changes
<1>27. ASSUME NEW r \in wire, ServeContractWrite(r) PROVE ContractsInv'
  <2>1. ContractsFields'
    BY <1>27 DEF ServeContractWrite, ContractsFields, ContractsInv
  <2>2. CatalogueCalls'
    BY <1>27 DEF ServeContractWrite, ContractsOutdated, ContractsInv, CatalogueCalls
  <2>3. CatalogueRows'
    BY <1>27, ContractWriteKeepsRows
  <2>4. CatalogueIsDistinct'
    BY <1>27, ContractWriteIsDistinct
  <2>6. AnswersAreCurrent(ContractReads)'
    BY <1>27, ContractWriteIsApplied, AppliedIsCurrent DEF ContractsInv, ContractReads, FirstContractReads, Changes, Edits
  <2>7. ListFollows'
    BY <1>27, ContractWriteIsApplied, AppliedFollows DEF ContractsInv
  <2> QED BY <2>1, <2>2, <2>3, <2>4, <2>6, <2>7 DEF ContractsInv
<1>28. ASSUME NEW r \in wire, ServeContractRead(r) PROVE ContractsInv'
  <2>1. PICK out \in {"ok", "fail"} : \E p \in Readings(r, FirstContractReads, out) :
           wire' = (wire \ {r}) \cup {[r EXCEPT !.out = out, !.rows = p.rows, !.cursors = p.cursors]}
    BY <1>28 DEF ServeContractRead
  <2>2. r.out = "sent" /\ r.op \notin Changes /\ page' = page /\ db' = db
    BY <1>28 DEF ServeContractRead, ContractWrites, Changes, Edits
  <2>3. /\ CatalogueCalls' /\ CatalogueRows' /\ AnswersAreCurrent(ContractReads)' /\ ListFollows'
        /\ \A q \in wire' : q \in wire \/ (q.op = r.op /\ q.who = r.who /\ q.rows \subseteq db)
    BY <2>1, <2>2, ReadServed DEF ContractsInv, ContractReads, FirstContractReads
  <2>4. ContractsFields'
    BY <2>2 DEF ContractsInv, ContractsFields
  <2>5. CatalogueIsDistinct'
    BY <2>2, <2>3 DEF ContractsInv, CatalogueIsDistinct, Distinct
  <2> QED BY <2>3, <2>4, <2>5 DEF ContractsInv
<1>29. ASSUME TurnContractsPage PROVE ContractsInv'
  BY <1>29 DEF TurnContractsPage, Call, ContractCall, None, BrowsingContracts, OnContracts,
    ContractScreen, ContractsInv, ContractsFields, CatalogueCalls, CatalogueRows, Listable,
    CatalogueIsDistinct, Distinct, AnswersAreCurrent, ContractReads, Edits, ListFollows, Overtaken,
    Completes, Changes
<1> QED
  BY <1>1, <1>2, <1>3, <1>4, <1>5, <1>6, <1>7, <1>8, <1>9, <1>10, <1>11, <1>12, <1>13, <1>14,
    <1>15, <1>16, <1>17, <1>18, <1>19, <1>20, <1>21, <1>22, <1>23, <1>24, <1>25, <1>26, <1>27,
    <1>28, <1>29 DEF ContractsNext

\* The invariant holds when the page is mounted.
LEMMA ContractsStart == ContractsInit => ContractsInv
<1> SUFFICES ASSUME ContractsInit PROVE ContractsInv
  OBVIOUS
<1>1. PICK url : page = ContractsMounted(url)
  BY DEF ContractsInit
<1>2. ContractsFields /\ page.rows = {} /\ page.stale
  BY <1>1 DEF ContractsMounted, ContractsFields
<1>3. wire = {ContractCall("contracts", {}, None)}
  BY DEF ContractsInit
<1>4. CatalogueCalls /\ AnswersAreCurrent(ContractReads) /\ \A r \in wire : r.rows = {}
  BY <1>3 DEF ContractCall, CatalogueCalls, AnswersAreCurrent
<1>5. Listable(db) /\ Distinct(db)
  <2>1. /\ db \subseteq ContractRow
        /\ \A r \in db : r.name = "Soroban contract" /\ ~r.tagged /\ r.net = DeployedOn[r.address]
    BY DEF ContractsInit
  <2>2. ASSUME NEW r \in ContractRow
        PROVE  /\ DOMAIN r = {"address", "net", "name", "tagged"} /\ r.tagged \in BOOLEAN
               /\ r = [x \in {"address", "net", "name", "tagged"} |-> r[x]]
    <3>1. DOMAIN r = {"address", "net", "name", "tagged"} /\ r.tagged \in BOOLEAN
      BY DEF ContractRow
    <3>2. r = [x \in {"address", "net", "name", "tagged"} |-> r[x]]
      BY DEF ContractRow
    <3> QED BY <3>1, <3>2
  <2>3. Listable(db)
    BY <2>1, <2>2 DEF Listable
  <2>4. ASSUME NEW r \in db, NEW s \in db, r.address = s.address PROVE r = s
    <3>1. r.net = s.net /\ r.name = s.name /\ r.tagged = s.tagged
      BY <2>1, <2>2, <2>4
    <3>2. /\ r = [x \in {"address", "net", "name", "tagged"} |-> r[x]]
          /\ s = [x \in {"address", "net", "name", "tagged"} |-> s[x]]
      BY <2>1, <2>2
    <3> QED BY <2>4, <3>1, <3>2
  <2> QED BY <2>3, <2>4 DEF Distinct
<1>6. CatalogueRows /\ CatalogueIsDistinct
  BY <1>2, <1>4, <1>5 DEF CatalogueRows, CatalogueIsDistinct, Listable, Distinct
<1> QED BY <1>2, <1>4, <1>6 DEF ContractsInv, ListFollows

\* With no change under way, the list that is not known to be stale is a page of the
\* catalogue; and it holds an address once.
LEMMA ContractsListIsCatalogue == ContractsInv => ContractsListAgrees /\ ContractsAreDistinct
<1>1. ContractsInv => ContractsListAgrees
  BY DEF ContractsInv, ContractsListAgrees, ShowsTable, RowsOf, ListFollows, Overtaken, Completes, InFlight, ContractWrites, Edits, Changes
<1>2. ContractsInv => ContractsAreDistinct
  BY DEF ContractsInv, CatalogueIsDistinct, Distinct, ContractsAreDistinct
<1> QED BY <1>1, <1>2

-----------------------------------------------------------------------------
(* The page of the alert rules *)

AlertsFields ==
    /\ page.at = "alerts"
    /\ DOMAIN page = {"at", "rows", "cursors", "whole", "stale", "query", "ticked", "section", "firings", "awaiting", "detail", "past",
                      "building", "editing", "dialog", "loading", "refreshing", "calls"}
RuleCalls == \A r \in wire : DOMAIN r = {"op", "who", "body", "out", "rows", "cursors", "old"}

\* The calls that keep the page loading are made one at a time.
Exclusive == {"delete", "tag", "post", "patch", "saved"}
OneAtATime == \A r, s \in wire : r.op \in Exclusive /\ s.op \in Exclusive => page.loading /\ r = s

RuleAnswersAreCurrent ==
    \A r \in wire : r.out = "ok" /\ ~r.old /\ r.op \in RuleReads => ReadIs(r, db)

\* What has been deleted, though the page does not know yet, is gone; and the rest
\* of the list is the server's, all of it if the list is whole, unless it is or will
\* be known to be stale.
Gone(a) == \E r \in wire : r.op = "delete" /\ r.out = "ok" /\ a.id \in r.who
DeletedAreGone == \A a \in db : ~Gone(a)
WillBeStale(r) == r.out = "ok" /\ r.op \in {"post", "patch", "toggle", "remove"}
RulesListFollows ==
    \/ page.stale
    \/ \E r \in wire : WillBeStale(r)
    \/ /\ \A a \in page.rows : a \in db \/ Gone(a)
       /\ page.whole => \A a \in db : a \in page.rows

\* The round of histories under way, if any, is about the rules of the list.
RoundIsOfTheList ==
    /\ \A r \in wire : r.op = "histories" => page.section = "history" /\ r.who = Ids(page.rows)
    /\ page.section = "history" /\ ~page.awaiting => page.firings \subseteq Ids(page.rows)

AlertsInv ==
    /\ AlertsFields /\ RuleCalls /\ OneAtATime /\ RuleAnswersAreCurrent
    /\ DeletedAreGone /\ RulesListFollows /\ RoundIsOfTheList

\* What the effect of the history section leaves as the handler made it, ...
LEMMA EffectKeeps ==
  ASSUME NEW p, {"at", "rows", "whole", "stale", "loading", "section", "firings", "awaiting"} \subseteq DOMAIN p,
         NEW W, NEW newRows, HistoryEffect(p, W, newRows)
  PROVE  /\ db' = db /\ DOMAIN page' = DOMAIN p
         /\ page'.at = p.at /\ page'.rows = p.rows /\ page'.stale = p.stale /\ page'.loading = p.loading
         /\ page'.whole = p.whole
         /\ \A q \in wire' : q \in W \/ q = Round(p)
         /\ \A q \in W : q.op # "histories" => q \in wire'
BY DEF HistoryEffect, Rounds

\* ... and that the round it makes is about the rows on display.
LEMMA EffectIsOfTheList ==
  ASSUME RoundIsOfTheList,
         NEW p, {"rows", "section", "firings", "awaiting"} \subseteq DOMAIN p,
         NEW W, \A q \in W : q.op = "histories" => q \in wire,
         NEW newRows \in BOOLEAN, newRows \/ p.rows = page.rows,
         p.firings = page.firings, p.awaiting = page.awaiting, HistoryEffect(p, W, newRows)
  PROVE  RoundIsOfTheList'
<1>1. Round(p).who = Ids(p.rows)
  BY DEF Round, RuleCall
<1>2. CASE p.section = "history" /\ (newRows \/ page.section # "history")
  <2>1. page' = [p EXCEPT !.awaiting = TRUE] /\ wire' = (W \ Rounds(W)) \cup {Round(p)}
    BY <1>2 DEF HistoryEffect
  <2>2. page'.awaiting /\ page'.section = "history" /\ page'.rows = p.rows
    BY <1>2, <2>1
  <2> QED BY <1>1, <2>1, <2>2 DEF RoundIsOfTheList, Rounds
<1>3. CASE p.section = "history" /\ ~newRows /\ page.section = "history"
  <2>1. page' = p /\ wire' = W /\ p.rows = page.rows
    BY <1>3 DEF HistoryEffect
  <2> QED BY <1>3, <2>1 DEF RoundIsOfTheList
<1>4. CASE p.section # "history"
  BY <1>4 DEF HistoryEffect, RoundIsOfTheList, Rounds
<1> QED BY <1>2, <1>3, <1>4

\* A handler that leaves the list alone, and adds to the calls only the round.
LEMMA EffectAlone ==
  ASSUME AlertsInv, NEW p, HistoryEffect(p, wire, FALSE),
         DOMAIN p = DOMAIN page, p.at = page.at, p.rows = page.rows, p.stale = page.stale, p.whole = page.whole,
         p.loading = page.loading, p.firings = page.firings, p.awaiting = page.awaiting
  PROVE  AlertsInv'
<1>1. /\ db' = db /\ DOMAIN page' = DOMAIN page
      /\ page'.at = page.at /\ page'.rows = page.rows /\ page'.stale = page.stale /\ page'.loading = page.loading
      /\ page'.whole = page.whole
      /\ \A q \in wire' : q \in wire \/ q = Round(p)
      /\ \A q \in wire : q.op # "histories" => q \in wire'
  BY EffectKeeps DEF AlertsInv, AlertsFields
<1>2. /\ Round(p).op = "histories" /\ Round(p).out = "sent"
      /\ DOMAIN Round(p) = {"op", "who", "body", "out", "rows", "cursors", "old"}
  BY DEF Round, RuleCall
<1> HIDE DEF Round
<1>3. AlertsFields' /\ RuleCalls' /\ OneAtATime' /\ RuleAnswersAreCurrent'
  BY <1>1, <1>2 DEF AlertsInv, AlertsFields, RuleCalls, OneAtATime, Exclusive, RuleAnswersAreCurrent
<1>4. \A a : Gone(a)' <=> Gone(a)
  BY <1>1, <1>2 DEF Gone
<1>5. (\E r \in wire : WillBeStale(r)) => \E r \in wire' : WillBeStale(r)
  BY <1>1 DEF WillBeStale
<1>6. DeletedAreGone' /\ RulesListFollows'
  BY <1>1, <1>4, <1>5 DEF AlertsInv, DeletedAreGone, RulesListFollows
<1>7. RoundIsOfTheList'
  BY EffectIsOfTheList DEF AlertsInv, AlertsFields
<1> QED BY <1>3, <1>6, <1>7 DEF AlertsInv

\* The answer s of the server to the change r of the rules.
RuleWritten(r, s) ==
    /\ r.op \in RuleWrites /\ r.out = "sent"
    /\ DOMAIN s = DOMAIN r /\ s.op = r.op /\ s.who = r.who /\ s.out # "sent"
    /\ wire' = (IF db' = db THEN wire \ {r} ELSE RulesOutdated(wire \ {r})) \cup {s}
    /\ DOMAIN page' = DOMAIN page /\ page'.at = page.at /\ page'.rows = page.rows
    /\ page'.whole = page.whole
    /\ page'.loading = page.loading /\ page'.section = page.section
    /\ page'.awaiting = page.awaiting /\ page'.firings = page.firings
    /\ page.stale => page'.stale
    /\ db' # db /\ s.out # "ok" => page'.stale
    /\ r.op = "delete" /\ s.out = "ok" => db' = {a \in db : a.id \notin r.who}
    /\ r.op # "post" => \A a \in db' : \E c \in db : c.id = a.id

\* What the server does with a call that changes rules.
LEMMA RuleWriteIs ==
  ASSUME AlertsInv, NEW r \in wire, ServeRuleWrite(r)
  PROVE  \E s : RuleWritten(r, s)
<1> DEFINE done(part, fresh) == part = r.who /\ part \subseteq Ids(db) /\ (r.op = "post" => fresh # {})
           answer(ok) == [r EXCEPT !.out = IF ok THEN "ok" ELSE "fail"]
<1>1. PICK part, fresh, heard :
        /\ r.op \in RuleWrites /\ r.out = "sent"
        /\ db' = RulesWritten(r, part, fresh)
        /\ wire' = (IF db' = db THEN wire \ {r} ELSE RulesOutdated(wire \ {r}))
                     \cup {answer(heard /\ done(part, fresh))}
        /\ page' = [page EXCEPT !.stale = @ \/ (db' # db /\ ~(heard /\ done(part, fresh)))]
  BY DEF ServeRuleWrite
<1> DEFINE ok == heard /\ done(part, fresh)
           s == answer(ok)
<1>2. /\ DOMAIN s = DOMAIN r /\ s.op = r.op /\ s.who = r.who /\ s.out # "sent"
      /\ (s.out = "ok" => ok) /\ (s.out # "ok" => ~ok)
  BY DEF AlertsInv, RuleCalls
<1>3. s.out = "ok" /\ r.op = "delete" => db' = {a \in db : a.id \notin r.who}
  BY <1>1, <1>2 DEF RulesWritten
<1>4. ASSUME r.op # "post", NEW a \in db' PROVE \E c \in db : c.id = a.id
  <2>1. CASE r.op \in {"patch", "toggle"}
    <3>1. PICK c \in db : a = IF \E b \in r.body : b.id = c.id /\ c.id \in part
                              THEN CHOOSE b \in r.body : b.id = c.id ELSE c
      BY <1>1, <1>4, <2>1 DEF RulesWritten
    <3> QED BY <3>1
  <2>2. CASE r.op \notin {"patch", "toggle"}
    BY <1>1, <1>4, <2>2 DEF RulesWritten
  <2> QED BY <2>1, <2>2
<1>5. page' = [page EXCEPT !.stale = @ \/ (db' # db /\ ~ok)]
  BY <1>1
<1>6. /\ r.op \in RuleWrites /\ r.out = "sent"
      /\ wire' = (IF db' = db THEN wire \ {r} ELSE RulesOutdated(wire \ {r})) \cup {s}
  BY <1>1
<1> HIDE DEF ok, s
<1>7. /\ DOMAIN page' = DOMAIN page /\ page'.at = page.at /\ page'.rows = page.rows
      /\ page'.whole = page.whole
      /\ page'.loading = page.loading /\ page'.section = page.section
      /\ page'.awaiting = page.awaiting /\ page'.firings = page.firings
      /\ page.stale => page'.stale
      /\ db' # db /\ s.out # "ok" => page'.stale
  BY <1>2, <1>5 DEF AlertsInv, AlertsFields
<1> QED BY <1>2, <1>3, <1>4, <1>6, <1>7 DEF RuleWritten

\* It changes the rules, marks the answers given before, and tells of both.
LEMMA ServeRuleWriteKeeps ==
  ASSUME AlertsInv, NEW r \in wire, ServeRuleWrite(r)
  PROVE  AlertsInv'
<1>1. PICK s : RuleWritten(r, s)
  BY RuleWriteIs
<1> DEFINE marked(o) == IF db' # db /\ o.op \in RuleReads /\ o.out = "ok" THEN [o EXCEPT !.old = TRUE] ELSE o
<1>2. /\ wire' = {marked(o) : o \in wire \ {r}} \cup {s} /\ s \in wire'
      /\ \A o \in wire : /\ DOMAIN marked(o) = DOMAIN o /\ marked(o).op = o.op /\ marked(o).who = o.who
                         /\ marked(o).out = o.out /\ marked(o).rows = o.rows
                         /\ o.op \notin RuleReads \/ db' = db => marked(o) = o
                         /\ db' # db /\ o.op \in RuleReads /\ o.out = "ok" => marked(o).old
  <2>1. wire' = {marked(o) : o \in wire \ {r}} \cup {s}
    BY <1>1 DEF RuleWritten, RulesOutdated
  <2>2. \A o \in wire : /\ DOMAIN marked(o) = DOMAIN o /\ marked(o).op = o.op /\ marked(o).who = o.who
                        /\ marked(o).out = o.out /\ marked(o).rows = o.rows
                        /\ o.op \notin RuleReads \/ db' = db => marked(o) = o
                        /\ db' # db /\ o.op \in RuleReads /\ o.out = "ok" => marked(o).old
    BY DEF AlertsInv, RuleCalls
  <2> QED BY <2>1, <2>2
<1> HIDE DEF marked
<1>3. \A o \in wire : o.out = "ok" => marked(o) \in wire'
  BY <1>1, <1>2 DEF RuleWritten
<1>4. AlertsFields' /\ RuleCalls'
  <2>1. AlertsFields' /\ DOMAIN s = DOMAIN r
    BY <1>1 DEF RuleWritten, AlertsInv, AlertsFields
  <2>2. /\ wire' = {marked(o) : o \in wire \ {r}} \cup {s}
        /\ \A o \in wire : DOMAIN marked(o) = DOMAIN o
    BY <1>2
  <2> QED BY <2>1, <2>2 DEF AlertsInv, RuleCalls
<1>5. OneAtATime'
  <2>1. \A q \in wire' : q.op \in Exclusive =>
           \/ q = s /\ r.op \in Exclusive
           \/ \E o \in wire \ {r} : q = marked(o) /\ o.op \in Exclusive
    BY <1>1, <1>2 DEF RuleWritten
  <2>2. s.op = r.op /\ page'.loading = page.loading
    BY <1>1 DEF RuleWritten
  <2> QED BY <2>1, <2>2 DEF AlertsInv, OneAtATime
<1>6. RuleAnswersAreCurrent'
  <2>1. s.op \notin RuleReads
    BY <1>1 DEF RuleWritten, RuleReads, FirstRuleReads, RuleWrites
  <2>2. \A o \in wire : marked(o).out = "ok" /\ ~marked(o).old /\ marked(o).op \in RuleReads =>
           marked(o) = o /\ db' = db
    BY <1>2
  <2>3. \A q \in wire' : q.out = "ok" /\ ~q.old /\ q.op \in RuleReads => q \in wire /\ db' = db
    BY <1>2, <2>1, <2>2
  <2> QED BY <2>3 DEF AlertsInv, RuleAnswersAreCurrent
<1>7. \A a : Gone(a)' => Gone(a) \/ (r.op = "delete" /\ s.out = "ok" /\ a.id \in r.who)
  BY <1>1, <1>2 DEF RuleWritten, Gone, RuleReads
<1>8. \A a : Gone(a) => Gone(a)' /\ r.op # "post"
  <2> SUFFICES ASSUME NEW a, NEW o \in wire, o.op = "delete", o.out = "ok", a.id \in o.who
               PROVE  Gone(a)' /\ r.op # "post"
    BY DEF Gone
  <2>1. Gone(a)'
    BY <1>2, <1>3 DEF Gone
  <2>2. r # o
    BY <1>1 DEF RuleWritten
  <2>3. r.op # "post"
    BY <2>2 DEF AlertsInv, OneAtATime, Exclusive
  <2> QED BY <2>1, <2>3
<1>9. DeletedAreGone'
  <2> SUFFICES ASSUME NEW a \in db', Gone(a)' PROVE FALSE
    BY DEF DeletedAreGone
  <2>1. CASE r.op = "delete" /\ s.out = "ok" /\ a.id \in r.who
    BY <1>1, <2>1 DEF RuleWritten
  <2>2. CASE Gone(a)
    <3>1. PICK c \in db : c.id = a.id
      BY <1>1, <1>8, <2>2 DEF RuleWritten
    <3>2. Gone(c)
      BY <2>2, <3>1 DEF Gone
    <3> QED BY <3>2 DEF AlertsInv, DeletedAreGone
  <2> QED BY <1>7, <2>1, <2>2
<1>10. RulesListFollows'
  <2>1. CASE page.stale \/ page'.stale
    BY <1>1, <2>1 DEF RuleWritten, RulesListFollows
  <2>2. CASE \E q \in wire : WillBeStale(q)
    <3>1. PICK q \in wire : WillBeStale(q)
      BY <2>2
    <3>2. marked(q) \in wire' /\ WillBeStale(marked(q))
      BY <3>1, <1>2, <1>3 DEF WillBeStale
    <3> QED BY <3>2 DEF RulesListFollows
  <2>3. CASE db' # db /\ s.out = "ok" /\ r.op # "delete"
    <3>1. WillBeStale(s) /\ s \in wire'
      BY <1>1, <2>3 DEF RuleWritten, RuleWrites, WillBeStale
    <3> QED BY <3>1 DEF RulesListFollows
  <2>4. CASE /\ r.op = "delete" /\ s.out = "ok" /\ db' = {a \in db : a.id \notin r.who}
             /\ \A a \in page.rows : a \in db \/ Gone(a)
             /\ page.whole => \A a \in db : a \in page.rows
    <3>1. \A a : a.id \in r.who => Gone(a)'
      <4>1. s \in wire' /\ s.op = "delete" /\ s.who = r.who
        BY <1>1, <1>2, <2>4 DEF RuleWritten
      <4> QED BY <4>1, <2>4 DEF Gone
    <3>2. \A a : Gone(a)' <=> Gone(a) \/ a.id \in r.who
      BY <1>7, <1>8, <3>1
    <3> QED BY <1>1, <2>4, <3>2 DEF RuleWritten, RulesListFollows
  <2>5. CASE /\ db' = db /\ ~(r.op = "delete" /\ s.out = "ok")
             /\ \A a \in page.rows : a \in db \/ Gone(a)
             /\ page.whole => \A a \in db : a \in page.rows
    <3>1. \A a : Gone(a)' <=> Gone(a)
      BY <1>7, <1>8, <2>5
    <3> QED BY <1>1, <2>5, <3>1 DEF RuleWritten, RulesListFollows
  <2> QED BY <1>1, <2>1, <2>2, <2>3, <2>4, <2>5 DEF RuleWritten, AlertsInv, RulesListFollows
<1>11. RoundIsOfTheList'
  <2>1. s.op # "histories"
    BY <1>1 DEF RuleWritten, RuleWrites
  <2>2. \A q \in wire' : q.op = "histories" => \E o \in wire : o.op = "histories" /\ o.who = q.who
    BY <1>2, <2>1
  <2>3. /\ page'.rows = page.rows /\ page'.section = page.section
        /\ page'.awaiting = page.awaiting /\ page'.firings = page.firings
    BY <1>1 DEF RuleWritten
  <2> QED BY <2>2, <2>3 DEF AlertsInv, RoundIsOfTheList
<1> QED BY <1>4, <1>5, <1>6, <1>9, <1>10, <1>11 DEF AlertsInv

\* The list arrives: it is the one the server holds, or it is known to be old.
LEMMA RulesArriveKeeps ==
  ASSUME AlertsInv, NEW r \in wire, RulesArrive(r)
  PROVE  AlertsInv'
<1> DEFINE p == [PageRead(page, r) EXCEPT !.loading = @ /\ r.op # "saved"]
<1>1. r.op \in RuleReads /\ r.out # "sent" /\ HistoryEffect(p, wire \ {r}, r.out = "ok")
  BY DEF RulesArrive, Answers
<1>2. /\ DOMAIN p = DOMAIN page /\ p.at = page.at /\ p.section = page.section
      /\ p.firings = page.firings /\ p.awaiting = page.awaiting
      /\ p.loading = (page.loading /\ r.op # "saved")
      /\ r.out = "ok" => /\ p.rows = r.rows /\ p.stale = r.old
                         /\ p.whole = (r.op # "turn" /\ r.cursors = {})
      /\ r.out # "ok" => p.rows = page.rows /\ p.stale = page.stale /\ p.whole = page.whole
  BY DEF AlertsInv, AlertsFields, PageRead
<1> HIDE DEF p
<1>3. /\ db' = db /\ DOMAIN page' = DOMAIN page
      /\ page'.at = page.at /\ page'.rows = p.rows /\ page'.stale = p.stale /\ page'.loading = p.loading
      /\ page'.whole = p.whole
      /\ \A q \in wire' : q \in wire \ {r} \/ q = Round(p)
      /\ \A q \in wire \ {r} : q.op # "histories" => q \in wire'
  BY <1>1, <1>2, EffectKeeps DEF AlertsInv, AlertsFields
<1>4. /\ Round(p).op = "histories" /\ Round(p).out = "sent"
      /\ DOMAIN Round(p) = {"op", "who", "body", "out", "rows", "cursors", "old"}
  BY DEF Round, RuleCall
<1> HIDE DEF Round
<1>5. AlertsFields' /\ RuleCalls' /\ RuleAnswersAreCurrent'
  <2>1. AlertsFields'
    BY <1>2, <1>3 DEF AlertsInv, AlertsFields
  <2>2. RuleCalls'
    BY <1>3, <1>4 DEF AlertsInv, RuleCalls
  <2>3. RuleAnswersAreCurrent'
    BY <1>3, <1>4 DEF AlertsInv, RuleAnswersAreCurrent
  <2> QED BY <2>1, <2>2, <2>3
<1>6. OneAtATime'
  <2>1. \A q \in wire' : q.op \in Exclusive => q \in wire \ {r}
    BY <1>3, <1>4 DEF Exclusive
  <2>2. page.loading /\ r.op # "saved" => page'.loading
    BY <1>2, <1>3
  <2>3. r.op = "saved" => \A q \in wire \ {r} : q.op \notin Exclusive
    BY DEF AlertsInv, OneAtATime, Exclusive
  <2> QED BY <2>1, <2>2, <2>3 DEF AlertsInv, OneAtATime
<1>7. \A a : Gone(a)' <=> Gone(a)
  BY <1>1, <1>3, <1>4 DEF Gone, RuleReads, FirstRuleReads
<1>8. (\E q \in wire : WillBeStale(q)) => \E q \in wire' : WillBeStale(q)
  BY <1>1, <1>3 DEF WillBeStale, RuleReads, FirstRuleReads
<1>9. DeletedAreGone'
  BY <1>3, <1>7 DEF AlertsInv, DeletedAreGone
<1>10. RulesListFollows'
  <2>1. CASE r.out = "ok" /\ ~r.old
    <3>1. RowsOf(page'.rows, page'.whole, db)
      BY <1>1, <1>2, <1>3, <2>1 DEF AlertsInv, RuleAnswersAreCurrent, ReadIs
    <3> QED BY <1>3, <3>1 DEF RowsOf, RulesListFollows
  <2>2. CASE r.out = "ok" /\ r.old
    BY <1>2, <1>3, <2>2 DEF RulesListFollows
  <2>3. CASE r.out # "ok"
    BY <1>2, <1>3, <1>7, <1>8, <2>3 DEF AlertsInv, RulesListFollows
  <2> QED BY <2>1, <2>2, <2>3
<1>11. RoundIsOfTheList'
  BY <1>1, <1>2, EffectIsOfTheList DEF AlertsInv, AlertsFields
<1> QED BY <1>5, <1>6, <1>9, <1>10, <1>11 DEF AlertsInv

\* The rules that are gone leave the list, and nothing else is deleted meanwhile.
LEMMA RulesDeletedKeeps ==
  ASSUME AlertsInv, NEW r \in wire, RulesDeleted(r)
  PROVE  AlertsInv'
<1>1. r.op = "delete" /\ r.out # "sent"
  BY DEF RulesDeleted, Answers
<1>2. \A q \in wire \ {r} : q.op \notin Exclusive
  BY <1>1 DEF AlertsInv, OneAtATime, Exclusive
<1>3. CASE r.out = "ok"
  <2> DEFINE p == [page EXCEPT !.loading = FALSE, !.rows = {a \in @ : a.id \notin r.who},
                      !.ticked = @ \ r.who, !.dialog = IF @ = "delete" THEN None ELSE @]
  <2>1. HistoryEffect(p, wire \ {r}, TRUE)
    BY <1>3 DEF RulesDeleted
  <2>2. /\ DOMAIN p = DOMAIN page /\ p.at = page.at /\ p.section = page.section /\ p.stale = page.stale
        /\ p.whole = page.whole
        /\ p.firings = page.firings /\ p.awaiting = page.awaiting
        /\ p.rows = {a \in page.rows : a.id \notin r.who}
    BY DEF AlertsInv, AlertsFields
  <2> HIDE DEF p
  <2>3. /\ db' = db /\ DOMAIN page' = DOMAIN page
        /\ page'.at = page.at /\ page'.rows = p.rows /\ page'.stale = page.stale
        /\ page'.whole = page.whole
        /\ \A q \in wire' : q \in wire \ {r} \/ q = Round(p)
        /\ \A q \in wire \ {r} : q.op # "histories" => q \in wire'
    BY <2>1, <2>2, EffectKeeps DEF AlertsInv, AlertsFields
  <2>4. /\ Round(p).op = "histories" /\ Round(p).out = "sent"
        /\ DOMAIN Round(p) = {"op", "who", "body", "out", "rows", "cursors", "old"}
    BY DEF Round, RuleCall
  <2> HIDE DEF Round
  <2>5. AlertsFields' /\ RuleCalls' /\ RuleAnswersAreCurrent'
    BY <2>3, <2>4 DEF AlertsInv, AlertsFields, RuleCalls, RuleAnswersAreCurrent
  <2>6. OneAtATime'
    BY <1>2, <2>3, <2>4 DEF OneAtATime, Exclusive
  <2>7. \A a : ~Gone(a)' /\ (Gone(a) <=> a.id \in r.who)
    BY <1>1, <1>2, <1>3, <2>3, <2>4 DEF Gone, Exclusive
  <2>8. (\E q \in wire : WillBeStale(q)) => \E q \in wire' : WillBeStale(q)
    BY <1>1, <2>3 DEF WillBeStale
  <2>9. DeletedAreGone' /\ RulesListFollows'
    BY <2>2, <2>3, <2>7, <2>8 DEF AlertsInv, DeletedAreGone, RulesListFollows
  <2>10. RoundIsOfTheList'
    BY <2>1, <2>2, EffectIsOfTheList DEF AlertsInv, AlertsFields
  <2> QED BY <2>5, <2>6, <2>9, <2>10 DEF AlertsInv
<1>4. CASE r.out # "ok"
  <2>1. page' = [page EXCEPT !.loading = FALSE] /\ wire' = wire \ {r} /\ db' = db
    BY <1>4 DEF RulesDeleted, Then
  <2>2. AlertsFields' /\ RuleCalls' /\ RuleAnswersAreCurrent'
    BY <2>1 DEF AlertsInv, AlertsFields, RuleCalls, RuleAnswersAreCurrent
  <2>3. OneAtATime'
    BY <1>2, <2>1 DEF OneAtATime
  <2>4. \A a : Gone(a)' <=> Gone(a)
    BY <1>4, <2>1 DEF Gone
  <2>5. (\E q \in wire : WillBeStale(q)) => \E q \in wire' : WillBeStale(q)
    BY <1>4, <2>1 DEF WillBeStale
  <2>6. /\ page'.rows = page.rows /\ page'.stale = page.stale /\ page'.section = page.section
        /\ page'.whole = page.whole
        /\ page'.awaiting = page.awaiting /\ page'.firings = page.firings
    BY <2>1 DEF AlertsInv, AlertsFields
  <2>7. DeletedAreGone' /\ RulesListFollows'
    BY <2>1, <2>4, <2>5, <2>6 DEF AlertsInv, DeletedAreGone, RulesListFollows
  <2>8. RoundIsOfTheList'
    BY <2>1, <2>6 DEF AlertsInv, RoundIsOfTheList
  <2> QED BY <2>2, <2>3, <2>7, <2>8 DEF AlertsInv
<1> QED BY <1>3, <1>4

\* A rule that was saved makes the list stale until it is read again.
LEMMA RuleSavedKeeps ==
  ASSUME AlertsInv, NEW r \in wire, RuleSaved(r)
  PROVE  AlertsInv'
<1>1. r.op \in {"post", "patch"} /\ r.out # "sent"
  BY DEF RuleSaved, Answers
<1>2. page.loading /\ \A q \in wire \ {r} : q.op \notin Exclusive
  BY <1>1 DEF AlertsInv, OneAtATime, Exclusive
<1>3. CASE r.out = "ok"
  <2> DEFINE p == [page EXCEPT !.building = FALSE, !.editing = {}, !.section = "alerts", !.stale = TRUE]
             again == RuleCall("saved", {}, {})
  <2>1. HistoryEffect(p, (wire \ {r}) \cup {again}, FALSE)
    BY <1>3 DEF RuleSaved
  <2>2. /\ DOMAIN p = DOMAIN page /\ p.at = page.at /\ p.stale /\ p.loading = page.loading
        /\ p.firings = page.firings /\ p.awaiting = page.awaiting /\ p.rows = page.rows
    BY DEF AlertsInv, AlertsFields
  <2>3. /\ again.op = "saved" /\ again.out = "sent"
        /\ DOMAIN again = {"op", "who", "body", "out", "rows", "cursors", "old"}
    BY DEF RuleCall
  <2> HIDE DEF p, again
  <2>4. /\ db' = db /\ DOMAIN page' = DOMAIN page
        /\ page'.at = page.at /\ page'.stale = p.stale /\ page'.loading = page.loading
        /\ \A q \in wire' : q \in (wire \ {r}) \cup {again} \/ q = Round(p)
    BY <2>1, <2>2, EffectKeeps DEF AlertsInv, AlertsFields
  <2>5. /\ Round(p).op = "histories" /\ Round(p).out = "sent"
        /\ DOMAIN Round(p) = {"op", "who", "body", "out", "rows", "cursors", "old"}
    BY DEF Round, RuleCall
  <2> HIDE DEF Round
  <2>6. AlertsFields' /\ RuleCalls' /\ RuleAnswersAreCurrent'
    BY <2>3, <2>4, <2>5 DEF AlertsInv, AlertsFields, RuleCalls, RuleAnswersAreCurrent
  <2>7. OneAtATime'
    BY <1>2, <2>3, <2>4, <2>5 DEF OneAtATime, Exclusive
  <2>8. \A a : Gone(a)' => Gone(a)
    BY <2>3, <2>4, <2>5 DEF Gone
  <2>9. DeletedAreGone' /\ RulesListFollows'
    BY <2>2, <2>4, <2>8 DEF AlertsInv, DeletedAreGone, RulesListFollows
  <2>10. RoundIsOfTheList'
    BY <2>1, <2>2, <2>3, EffectIsOfTheList DEF AlertsInv, AlertsFields
  <2> QED BY <2>6, <2>7, <2>9, <2>10 DEF AlertsInv
<1>4. CASE r.out # "ok"
  <2>1. page' = [page EXCEPT !.loading = FALSE] /\ wire' = wire \ {r} /\ db' = db
    BY <1>4 DEF RuleSaved, Then
  <2>2. AlertsFields' /\ RuleCalls' /\ RuleAnswersAreCurrent'
    BY <2>1 DEF AlertsInv, AlertsFields, RuleCalls, RuleAnswersAreCurrent
  <2>3. OneAtATime'
    BY <1>2, <2>1 DEF OneAtATime
  <2>4. \A a : Gone(a)' <=> Gone(a)
    BY <1>4, <2>1 DEF Gone
  <2>5. (\E q \in wire : WillBeStale(q)) => \E q \in wire' : WillBeStale(q)
    BY <1>4, <2>1 DEF WillBeStale
  <2>6. /\ page'.rows = page.rows /\ page'.stale = page.stale /\ page'.section = page.section
        /\ page'.whole = page.whole
        /\ page'.awaiting = page.awaiting /\ page'.firings = page.firings
    BY <2>1 DEF AlertsInv, AlertsFields
  <2>7. DeletedAreGone' /\ RulesListFollows'
    BY <2>1, <2>4, <2>5, <2>6 DEF AlertsInv, DeletedAreGone, RulesListFollows
  <2>8. RoundIsOfTheList'
    BY <2>1, <2>6 DEF AlertsInv, RoundIsOfTheList
  <2> QED BY <2>2, <2>3, <2>7, <2>8 DEF AlertsInv
<1> QED BY <1>3, <1>4

\* Every step of the page keeps the invariant.
LEMMA AlertsStep ==
  ASSUME AlertsInv, AlertsNext
  PROVE  AlertsInv'
<1>1. ASSUME NEW s \in {"alerts", "history", "destinations"}, GoToSection(s) PROVE AlertsInv'
  <2> DEFINE p == [page EXCEPT !.section = s]
  <2>1. HistoryEffect(p, wire, FALSE)
    BY <1>1 DEF GoToSection
  <2>2. /\ DOMAIN p = DOMAIN page /\ p.at = page.at /\ p.rows = page.rows /\ p.stale = page.stale
        /\ p.whole = page.whole /\ p.loading = page.loading /\ p.firings = page.firings /\ p.awaiting = page.awaiting
    BY DEF AlertsInv, AlertsFields
  <2> HIDE DEF p
  <2> QED BY <2>1, <2>2, EffectAlone
<1>2. ASSUME NEW q \in Sought \cup {None}, SearchAlerts(q) PROVE AlertsInv'
  BY <1>2 DEF SearchAlerts, OnAlerts, Show, AlertScreen, None, AlertsInv, AlertsFields,
    RuleCalls, OneAtATime, Exclusive, RuleAnswersAreCurrent, RuleReads, DeletedAreGone, Gone,
    RulesListFollows, WillBeStale, RoundIsOfTheList, Ids
<1>3. ASSUME NEW r \in page.rows, ToggleRule(r) PROVE AlertsInv'
  BY <1>3 DEF ToggleRule, AlertRowOffers, Show, OnAlerts, VisibleRules, AlertScreen, None,
    AlertsInv, AlertsFields, RuleCalls, OneAtATime, Exclusive, RuleAnswersAreCurrent, RuleReads,
    DeletedAreGone, Gone, RulesListFollows, WillBeStale, RoundIsOfTheList, Ids
<1>4. ASSUME NEW r \in page.rows, OpenAlert(r) PROVE AlertsInv'
  BY <1>4 DEF OpenAlert, AlertRowOffers, Call, RuleCall, OnAlerts, VisibleRules, AlertScreen,
    None, AlertsInv, AlertsFields, RuleCalls, OneAtATime, Exclusive, RuleAnswersAreCurrent,
    RuleReads, DeletedAreGone, Gone, RulesListFollows, WillBeStale, RoundIsOfTheList, Ids
<1>5. ASSUME NEW kind \in {"tag", "delete"}, OpenAlertDialog(kind) PROVE AlertsInv'
  BY <1>5 DEF OpenAlertDialog, AlertToolbar, Show, OnAlerts, SelectedRules, AlertScreen, None,
    VisibleRules, AlertsInv, AlertsFields, RuleCalls, OneAtATime, Exclusive,
    RuleAnswersAreCurrent, RuleReads, DeletedAreGone, Gone, RulesListFollows, WillBeStale,
    RoundIsOfTheList, Ids
<1>6. ASSUME RefreshAlerts PROVE AlertsInv'
  BY <1>6 DEF RefreshAlerts, AlertToolbar, Call, RuleCall, OnAlerts, SelectedRules, AlertScreen,
    None, VisibleRules, AlertsInv, AlertsFields, RuleCalls, OneAtATime, Exclusive,
    RuleAnswersAreCurrent, RuleReads, DeletedAreGone, Gone, RulesListFollows, WillBeStale,
    RoundIsOfTheList, Ids
<1>7. ASSUME AlertsSettle PROVE AlertsInv'
  BY <1>7 DEF AlertsSettle, InFlight, Show, AlertsInv, AlertsFields, RuleCalls, OneAtATime,
    Exclusive, RuleAnswersAreCurrent, RuleReads, DeletedAreGone, Gone, RulesListFollows,
    WillBeStale, RoundIsOfTheList, Ids
<1>8. ASSUME ToggleAllRules PROVE AlertsInv'
  BY <1>8 DEF ToggleAllRules, OnAlerts, VisibleRules, Show, SelectedRules, Ids, AlertScreen,
    None, AlertsInv, AlertsFields, RuleCalls, OneAtATime, Exclusive, RuleAnswersAreCurrent,
    RuleReads, DeletedAreGone, Gone, RulesListFollows, WillBeStale, RoundIsOfTheList
<1>9. ASSUME CloseAlertDialog PROVE AlertsInv'
  BY <1>9 DEF CloseAlertDialog, None, AlertScreen, Show, AlertsInv, AlertsFields, RuleCalls,
    OneAtATime, Exclusive, RuleAnswersAreCurrent, RuleReads, DeletedAreGone, Gone,
    RulesListFollows, WillBeStale, RoundIsOfTheList, Ids
<1>10. ASSUME DeleteSelectedRules PROVE AlertsInv'
  <2>1. AlertsFields'
    BY <1>10 DEF DeleteSelectedRules, AlertScreen, SelectedRules, Call, RuleCall, Ids,
      VisibleRules, None, AlertsFields, RuleCalls, AlertsInv
  <2>2. RuleCalls'
    BY <1>10 DEF DeleteSelectedRules, AlertScreen, SelectedRules, Call, RuleCall, Ids,
      VisibleRules, None, AlertsFields, RuleCalls, AlertsInv
  <2>3. OneAtATime'
    BY <1>10 DEF DeleteSelectedRules, AlertScreen, SelectedRules, Call, RuleCall, Ids,
      VisibleRules, None, AlertsFields, RuleCalls, AlertsInv, OneAtATime, Exclusive
  <2>4. RuleAnswersAreCurrent'
    BY <1>10 DEF DeleteSelectedRules, AlertScreen, SelectedRules, Call, RuleCall, Ids,
      VisibleRules, None, AlertsFields, RuleCalls, AlertsInv, RuleAnswersAreCurrent, RuleReads
  <2>5. DeletedAreGone'
    BY <1>10 DEF DeleteSelectedRules, AlertScreen, SelectedRules, Call, RuleCall, Ids,
      VisibleRules, None, AlertsFields, RuleCalls, AlertsInv, DeletedAreGone, Gone
  <2>6. RulesListFollows'
    BY <1>10 DEF DeleteSelectedRules, AlertScreen, SelectedRules, Call, RuleCall, Ids,
      VisibleRules, None, AlertsFields, RuleCalls, AlertsInv, RulesListFollows, WillBeStale, Gone
  <2>7. RoundIsOfTheList'
    BY <1>10 DEF DeleteSelectedRules, AlertScreen, SelectedRules, Call, RuleCall, Ids,
      VisibleRules, None, AlertsFields, RuleCalls, AlertsInv, RoundIsOfTheList
  <2> QED BY <2>1, <2>2, <2>3, <2>4, <2>5, <2>6, <2>7 DEF AlertsInv
<1>11. ASSUME SaveAlertTag PROVE AlertsInv'
  <2>1. AlertsFields'
    BY <1>11 DEF SaveAlertTag, AlertScreen, SelectedRules, Call, RuleCall, VisibleRules, None,
      AlertsFields, RuleCalls, AlertsInv
  <2>2. RuleCalls'
    BY <1>11 DEF SaveAlertTag, AlertScreen, SelectedRules, Call, RuleCall, VisibleRules, None,
      AlertsFields, RuleCalls, AlertsInv
  <2>3. OneAtATime'
    BY <1>11 DEF SaveAlertTag, AlertScreen, SelectedRules, Call, RuleCall, VisibleRules, None,
      AlertsFields, RuleCalls, AlertsInv, OneAtATime, Exclusive
  <2>4. RuleAnswersAreCurrent'
    BY <1>11 DEF SaveAlertTag, AlertScreen, SelectedRules, Call, RuleCall, VisibleRules, None,
      AlertsFields, RuleCalls, AlertsInv, RuleAnswersAreCurrent, RuleReads
  <2>5. DeletedAreGone'
    BY <1>11 DEF SaveAlertTag, AlertScreen, SelectedRules, Call, RuleCall, VisibleRules, None,
      AlertsFields, RuleCalls, AlertsInv, DeletedAreGone, Gone
  <2>6. RulesListFollows'
    BY <1>11 DEF SaveAlertTag, AlertScreen, SelectedRules, Call, RuleCall, VisibleRules, None,
      AlertsFields, RuleCalls, AlertsInv, RulesListFollows, WillBeStale, Gone
  <2>7. RoundIsOfTheList'
    BY <1>11 DEF SaveAlertTag, AlertScreen, SelectedRules, Call, RuleCall, VisibleRules, None,
      AlertsFields, RuleCalls, AlertsInv, RoundIsOfTheList, Ids
  <2> QED BY <2>1, <2>2, <2>3, <2>4, <2>5, <2>6, <2>7 DEF AlertsInv
<1>12. ASSUME NEW rule, ResetBuilder(rule) PROVE AlertsInv'
  <2> DEFINE p == [page EXCEPT !.detail = {}, !.section = "alerts", !.building = TRUE, !.editing = rule]
  <2>1. HistoryEffect(p, wire, FALSE)
    BY <1>12 DEF ResetBuilder
  <2>2. /\ DOMAIN p = DOMAIN page /\ p.at = page.at /\ p.rows = page.rows /\ p.stale = page.stale
        /\ p.whole = page.whole /\ p.loading = page.loading /\ p.firings = page.firings /\ p.awaiting = page.awaiting
    BY DEF AlertsInv, AlertsFields
  <2> HIDE DEF p
  <2> QED BY <2>1, <2>2, EffectAlone
<1>13. ASSUME LeaveBuilder PROVE AlertsInv'
  BY <1>13 DEF LeaveBuilder, OnAlerts, Show, AlertScreen, None, AlertsInv, AlertsFields,
    RuleCalls, OneAtATime, Exclusive, RuleAnswersAreCurrent, RuleReads, DeletedAreGone, Gone,
    RulesListFollows, WillBeStale, RoundIsOfTheList, Ids
<1>14. ASSUME NEW on \in BOOLEAN, SaveRule(on) PROVE AlertsInv'
  <2> DEFINE of == Ids(page.editing)
             q == RuleCall(IF of = {} THEN "post" ELSE "patch", of, [id : of, edited : {TRUE}, on : {on}])
  <2>1. ~page.loading /\ Call([page EXCEPT !.loading = TRUE], q)
    BY <1>14 DEF SaveRule
  <2>2. /\ page' = [[page EXCEPT !.loading = TRUE] EXCEPT !.calls = @ + 1]
        /\ wire' = wire \cup {q} /\ db' = db
    BY <2>1 DEF Call
  <2>3. /\ DOMAIN q = {"op", "who", "body", "out", "rows", "cursors", "old"}
        /\ q.op \in {"post", "patch"} /\ q.out = "sent"
    BY DEF RuleCall
  <2> HIDE DEF q
  <2>4. AlertsFields' /\ RuleCalls'
    BY <2>2, <2>3 DEF AlertsInv, AlertsFields, RuleCalls
  <2>5. OneAtATime' /\ RuleAnswersAreCurrent'
    BY <2>1, <2>2, <2>3 DEF AlertsInv, AlertsFields, OneAtATime, RuleAnswersAreCurrent
  <2>6. \A a : Gone(a)' <=> Gone(a)
    BY <2>2, <2>3 DEF Gone
  <2>7. /\ page'.stale = page.stale /\ page'.rows = page.rows /\ page'.section = page.section
        /\ page'.whole = page.whole
        /\ page'.awaiting = page.awaiting /\ page'.firings = page.firings
    BY <2>2 DEF AlertsInv, AlertsFields
  <2>8. DeletedAreGone' /\ RulesListFollows'
    BY <2>2, <2>6, <2>7 DEF AlertsInv, DeletedAreGone, RulesListFollows
  <2>9. RoundIsOfTheList'
    BY <2>2, <2>3, <2>7 DEF AlertsInv, RoundIsOfTheList
  <2> QED BY <2>4, <2>5, <2>8, <2>9 DEF AlertsInv
<1>15. ASSUME BackToAlerts PROVE AlertsInv'
  BY <1>15 DEF BackToAlerts, OnAlerts, Show, AlertScreen, None, AlertsInv, AlertsFields,
    RuleCalls, OneAtATime, Exclusive, RuleAnswersAreCurrent, RuleReads, DeletedAreGone, Gone,
    RulesListFollows, WillBeStale, RoundIsOfTheList, Ids
<1>16. ASSUME PatchEnabled PROVE AlertsInv'
  BY <1>16 DEF PatchEnabled, OnAlerts, Call, RuleCall, Ids, AlertScreen, None, AlertsInv,
    AlertsFields, RuleCalls, OneAtATime, Exclusive, RuleAnswersAreCurrent, RuleReads,
    DeletedAreGone, Gone, RulesListFollows, WillBeStale, RoundIsOfTheList
<1>17. ASSUME RemoveRule PROVE AlertsInv'
  BY <1>17 DEF RemoveRule, OnAlerts, Call, RuleCall, Ids, AlertScreen, None, AlertsInv,
    AlertsFields, RuleCalls, OneAtATime, Exclusive, RuleAnswersAreCurrent, RuleReads,
    DeletedAreGone, Gone, RulesListFollows, WillBeStale, RoundIsOfTheList
<1>18. ASSUME NEW r \in wire, RulesArrive(r) PROVE AlertsInv'
  BY <1>18, RulesArriveKeeps
<1>19. ASSUME NEW r \in wire, HistoriesArrive(r) PROVE AlertsInv'
  BY <1>19 DEF HistoriesArrive, Then, AlertsInv, AlertsFields, RuleCalls, OneAtATime, Exclusive,
    RuleAnswersAreCurrent, RuleReads, DeletedAreGone, Gone, RulesListFollows, WillBeStale,
    RoundIsOfTheList, Ids
<1>20. ASSUME NEW r \in wire, RulesDeleted(r) PROVE AlertsInv'
  BY <1>20, RulesDeletedKeeps
<1>21. ASSUME NEW r \in wire, AlertTagSaved(r) PROVE AlertsInv'
  BY <1>21 DEF AlertTagSaved, Answers, Then, None, AlertsInv, AlertsFields, RuleCalls,
    OneAtATime, Exclusive, RuleAnswersAreCurrent, RuleReads, DeletedAreGone, Gone,
    RulesListFollows, WillBeStale, RoundIsOfTheList, Ids
<1>22. ASSUME NEW r \in wire, RuleSaved(r) PROVE AlertsInv'
  BY <1>22, RuleSavedKeeps
<1>23. ASSUME NEW r \in wire, HistoryArrives(r) PROVE AlertsInv'
  BY <1>23 DEF HistoryArrives, Answers, Then, AlertsInv, AlertsFields, RuleCalls, OneAtATime,
    Exclusive, RuleAnswersAreCurrent, RuleReads, DeletedAreGone, Gone, RulesListFollows,
    WillBeStale, RoundIsOfTheList, Ids
<1>24. ASSUME NEW r \in wire, RulePatched(r) PROVE AlertsInv'
  <2>1. AlertsFields'
    BY <1>24 DEF RulePatched, Answers, Then, RuleCall, AlertsFields, RuleCalls, AlertsInv
  <2>2. RuleCalls'
    BY <1>24 DEF RulePatched, Answers, Then, RuleCall, AlertsFields, RuleCalls, AlertsInv
  <2>3. OneAtATime'
    <3>1. page'.loading = page.loading
      BY <1>24 DEF RulePatched, Then, AlertsInv, AlertsFields
    <3>2. \A q \in wire' : q \in wire \/ q.op = "reload"
      BY <1>24 DEF RulePatched, Then, RuleCall
    <3> QED BY <3>1, <3>2 DEF AlertsInv, OneAtATime, Exclusive
  <2>4. RuleAnswersAreCurrent'
    BY <1>24 DEF RulePatched, Answers, Then, RuleCall, AlertsFields, RuleCalls, AlertsInv,
      RuleAnswersAreCurrent, RuleReads
  <2>5. DeletedAreGone'
    BY <1>24 DEF RulePatched, Answers, Then, RuleCall, AlertsFields, RuleCalls, AlertsInv,
      DeletedAreGone, Gone
  <2>6. RulesListFollows'
    BY <1>24 DEF RulePatched, Answers, Then, RuleCall, AlertsFields, RuleCalls, AlertsInv,
      RulesListFollows, WillBeStale, Gone
  <2>7. RoundIsOfTheList'
    <3>1. \A q \in wire' : q \in wire \/ q.op = "reload"
      BY <1>24 DEF RulePatched, Then, RuleCall
    <3>2. /\ page'.rows = page.rows /\ page'.section = page.section
          /\ page'.awaiting = page.awaiting /\ page'.firings = page.firings
      BY <1>24 DEF RulePatched, Then, AlertsInv, AlertsFields
    <3> QED BY <3>1, <3>2 DEF AlertsInv, RoundIsOfTheList
  <2> QED BY <2>1, <2>2, <2>3, <2>4, <2>5, <2>6, <2>7 DEF AlertsInv
<1>25. ASSUME NEW r \in wire, RuleRemoved(r) PROVE AlertsInv'
  <2>1. AlertsFields'
    BY <1>25 DEF RuleRemoved, Answers, Then, RuleCall, AlertsFields, RuleCalls, AlertsInv
  <2>2. RuleCalls'
    BY <1>25 DEF RuleRemoved, Answers, Then, RuleCall, AlertsFields, RuleCalls, AlertsInv
  <2>3. OneAtATime'
    <3>1. page'.loading = page.loading
      BY <1>25 DEF RuleRemoved, Then, AlertsInv, AlertsFields
    <3>2. \A q \in wire' : q \in wire \/ q.op = "reload"
      BY <1>25 DEF RuleRemoved, Then, RuleCall
    <3> QED BY <3>1, <3>2 DEF AlertsInv, OneAtATime, Exclusive
  <2>4. RuleAnswersAreCurrent'
    BY <1>25 DEF RuleRemoved, Answers, Then, RuleCall, AlertsFields, RuleCalls, AlertsInv,
      RuleAnswersAreCurrent, RuleReads
  <2>5. DeletedAreGone'
    BY <1>25 DEF RuleRemoved, Answers, Then, RuleCall, AlertsFields, RuleCalls, AlertsInv,
      DeletedAreGone, Gone
  <2>6. RulesListFollows'
    BY <1>25 DEF RuleRemoved, Answers, Then, RuleCall, AlertsFields, RuleCalls, AlertsInv,
      RulesListFollows, WillBeStale, Gone
  <2>7. RoundIsOfTheList'
    <3>1. \A q \in wire' : q \in wire \/ q.op = "reload"
      BY <1>25 DEF RuleRemoved, Then, RuleCall
    <3>2. /\ page'.rows = page.rows /\ page'.section = page.section
          /\ page'.awaiting = page.awaiting /\ page'.firings = page.firings
      BY <1>25 DEF RuleRemoved, Then, AlertsInv, AlertsFields
    <3> QED BY <3>1, <3>2 DEF AlertsInv, RoundIsOfTheList
  <2> QED BY <2>1, <2>2, <2>3, <2>4, <2>5, <2>6, <2>7 DEF AlertsInv
<1>26. ASSUME NEW r \in wire, ServeRuleWrite(r) PROVE AlertsInv'
  BY <1>26, ServeRuleWriteKeeps
<1>27. ASSUME NEW r \in wire, ServeRuleRead(r) PROVE AlertsInv'
  <2>1. PICK out \in {"ok", "fail"} : \E p \in Readings(r, FirstRuleReads, out) :
           wire' = (wire \ {r}) \cup {[r EXCEPT !.out = out, !.rows = p.rows, !.cursors = p.cursors]}
    BY <1>27 DEF ServeRuleRead
  <2>2. PICK p \in Readings(r, FirstRuleReads, out) :
           wire' = (wire \ {r}) \cup {[r EXCEPT !.out = out, !.rows = p.rows, !.cursors = p.cursors]}
    BY <2>1
  <2> DEFINE s == [r EXCEPT !.out = out, !.rows = p.rows, !.cursors = p.cursors]
  <2>3. /\ r.out = "sent" /\ page' = page /\ db' = db
        /\ r.op \notin {"delete", "post", "patch", "toggle", "remove", "histories"}
    BY <1>27 DEF ServeRuleRead, RuleWrites
  <2>4. /\ DOMAIN s = DOMAIN r /\ s.op = r.op /\ s.who = r.who /\ s.out = out
        /\ s.rows = p.rows /\ s.cursors = p.cursors
    BY DEF AlertsInv, RuleCalls
  <2>5. out = "ok" /\ s.op \in RuleReads => ReadIs(s, db)
    BY <2>4, ReadingsAre DEF RuleReads, FirstRuleReads, ReadIs
  <2> HIDE DEF s
  <2>6. wire' = (wire \ {r}) \cup {s}
    BY <2>2 DEF s
  <2>7. AlertsFields' /\ RuleCalls' /\ OneAtATime'
    BY <2>3, <2>4, <2>6 DEF AlertsInv, AlertsFields, RuleCalls, OneAtATime
  <2>8. RuleAnswersAreCurrent'
    BY <2>3, <2>4, <2>5, <2>6 DEF AlertsInv, RuleAnswersAreCurrent
  <2>9. \A a : Gone(a)' <=> Gone(a)
    BY <2>3, <2>4, <2>6 DEF Gone
  <2>10. (\E q \in wire : WillBeStale(q)) => \E q \in wire' : WillBeStale(q)
    BY <2>3, <2>6 DEF WillBeStale
  <2>11. DeletedAreGone' /\ RulesListFollows'
    BY <2>3, <2>9, <2>10 DEF AlertsInv, DeletedAreGone, RulesListFollows
  <2>12. RoundIsOfTheList'
    BY <2>3, <2>4, <2>6 DEF AlertsInv, RoundIsOfTheList
  <2> QED BY <2>7, <2>8, <2>11, <2>12 DEF AlertsInv
<1>28. ASSUME TurnAlertsPage PROVE AlertsInv'
  BY <1>28 DEF TurnAlertsPage, OnAlerts, Call, RuleCall, AlertScreen, None, AlertsInv,
    AlertsFields, RuleCalls, OneAtATime, Exclusive, RuleAnswersAreCurrent,
    DeletedAreGone, Gone, RulesListFollows, WillBeStale, RoundIsOfTheList
<1> QED
  BY <1>1, <1>2, <1>3, <1>4, <1>5, <1>6, <1>7, <1>8, <1>9, <1>10, <1>11, <1>12, <1>13, <1>14,
    <1>15, <1>16, <1>17, <1>18, <1>19, <1>20, <1>21, <1>22, <1>23, <1>24, <1>25, <1>26,
    <1>27, <1>28 DEF AlertsNext

\* The invariant holds when the page is mounted.
LEMMA AlertsStart == AlertsInit => AlertsInv
<1> SUFFICES ASSUME AlertsInit PROVE AlertsInv
  OBVIOUS
<1>1. CASE page = [AlertsMounted EXCEPT !.calls = 1] /\ wire = {RuleCall("alerts", {}, {})}
  <2>1. AlertsFields /\ RuleCalls /\ OneAtATime /\ RuleAnswersAreCurrent
    BY <1>1 DEF AlertsMounted, RuleCall, AlertsFields, RuleCalls, OneAtATime, Exclusive, RuleAnswersAreCurrent
  <2>2. DeletedAreGone /\ RulesListFollows /\ RoundIsOfTheList
    BY <1>1 DEF AlertsMounted, RuleCall, DeletedAreGone, Gone, RulesListFollows, RoundIsOfTheList
  <2> QED BY <2>1, <2>2 DEF AlertsInv
<1>2. ASSUME NEW p \in FirstReadings, wire = {},
             page = [AlertsMounted EXCEPT !.rows = p.rows, !.cursors = p.cursors,
                                          !.whole = p.cursors = {}, !.stale = FALSE]
      PROVE  AlertsInv
  <2>1. AlertsFields /\ RuleCalls /\ OneAtATime /\ RuleAnswersAreCurrent
    BY <1>2 DEF AlertsMounted, AlertsFields, RuleCalls, OneAtATime, RuleAnswersAreCurrent
  <2>2. /\ page.rows \subseteq db /\ (page.whole => page.rows = db)
        /\ page.section = "alerts" /\ \A a : ~Gone(a)
    BY <1>2 DEF AlertsMounted, Gone, FirstReadings, Reading
  <2>3. DeletedAreGone /\ RulesListFollows /\ RoundIsOfTheList
    BY <1>2, <2>2 DEF DeletedAreGone, RulesListFollows, RoundIsOfTheList
  <2> QED BY <2>1, <2>3 DEF AlertsInv
<1> QED BY <1>1, <1>2 DEF AlertsInit

\* The invariant says what the runs ask of the rules and of their history.
LEMMA RulesListIsTheServers == AlertsInv => RulesListAgrees /\ HistoryIsOfTheList
<1> SUFFICES ASSUME AlertsInv PROVE RulesListAgrees /\ HistoryIsOfTheList
  OBVIOUS
<1>1. ASSUME ~InFlight(RuleWrites), ~page.stale PROVE ShowsTable
  <2>1. (\A a : ~Gone(a)) /\ \A r \in wire : ~WillBeStale(r)
    BY <1>1 DEF Gone, WillBeStale, InFlight, RuleWrites
  <2> QED BY <1>1, <2>1 DEF AlertsInv, RulesListFollows, ShowsTable
<1>2. HistoryIsOfTheList
  BY DEF AlertsInv, RoundIsOfTheList, HistoryIsOfTheList
<1> QED BY <1>1, <1>2 DEF RulesListAgrees

-----------------------------------------------------------------------------
(* The builder of an alert rule *)

ParamSet == [by : {"default", "saved", "typed", "broken", "key"}, of : Watched \cup {None},
             variant : Variants \cup {None}, entry : Entries \cup {None}]
ConditionSet == [type : {"failed_transaction", "state_change", "function_call", "event_emitted"}, params : ParamSet]
KeySet == [on : BOOLEAN, of : Watched \cup {None}, failed : BOOLEAN, loading : BOOLEAN, variant : Variants \cup {None},
           entry : Entries, built : ParamSet, moved : BOOLEAN]
BuilderCallSet == [op : {"destinations", "lookup", "schema", "encode", "save"}, row : Nat, of : Watched \cup {None},
                   key : ParamSet, live : BOOLEAN]
BuilderPage(p) ==
    /\ p.at = "builder"
    /\ DOMAIN p = {"at", "named", "target", "rows", "keys", "chosen", "offered", "busy", "left", "calls"}
    /\ p.rows \in Seq(ConditionSet) /\ p.keys \in [AllRows -> KeySet]
\* Calls of no key builder name row 0.
BuilderCalls(W) ==
    /\ W \subseteq BuilderCallSet
    /\ \A r \in W : IF r.op \in {"destinations", "save"} THEN r.row = 0 ELSE r.row \in AllRows

\* Calls are those of a builder that is mounted, of a row of the list, ...
CallsOfRow(p, W, i) ==
    /\ p.keys[i].on => i \in DOMAIN p.rows
    /\ \A r \in W : r.row = i => p.keys[i].on /\ (r.op = "lookup" => r.of \in Watched)
\* ... and what is being encoded is the key it shows.
RowEncodes(p, W, i) == \A r \in W : r.row = i /\ r.op = "encode" => r.key = KeyParams(p.keys[i])
RowAgrees(p, W, i) ==
    LET b == p.keys[i]
    IN b.on /\ ~p.left /\ b.built.by = "key" =>
         \/ \E r \in W : r.op = "encode" /\ r.row = i
         \/ b.moved \/ p.rows[i].params.by \in {"typed", "broken"} \/ p.rows[i].params = KeyParams(b)
\* A builder without a contract waits for a look-up that still counts.
RowLooksUp(p, W, i) ==
    LET b == p.keys[i]
    IN b.on /\ ~p.left /\ b.of = None /\ ~b.failed /\ Address(p) # None => \E r \in W : r.op = "lookup" /\ r.row = i /\ r.live
RowLoads(p, W, i) == p.keys[i].on /\ ~p.left /\ p.keys[i].loading => \E r \in W : r.op = "schema" /\ r.row = i
RowHolds(p, W, i) ==
    CallsOfRow(p, W, i) /\ RowEncodes(p, W, i) /\ RowAgrees(p, W, i) /\ RowLooksUp(p, W, i) /\ RowLoads(p, W, i)

BuilderInv == BuilderPage(page) /\ BuilderCalls(wire) /\ \A i \in AllRows : RowHolds(page, wire, i)

\* The invariant says what the runs ask of the conditions and of their builders.
LEMMA BuilderHolds == BuilderInv => ConditionsAgree /\ KeysGoOn
<1> SUFFICES ASSUME BuilderInv, NEW i \in AllRows
             PROVE  /\ LET b == page.keys[i]
                       IN b.on /\ ~page.left /\ b.built.by = "key" /\ OfRow(wire, "encode", i) = {} =>
                            b.moved \/ page.rows[i].params.by \in {"typed", "broken"} \/ page.rows[i].params = KeyParams(b)
                    /\ LET b == page.keys[i]
                       IN b.on /\ ~page.left =>
                            /\ b.of = None /\ ~b.failed /\ Address(page) # None => OfRow(wire, "lookup", i) # {}
                            /\ b.loading => OfRow(wire, "schema", i) # {}
  BY DEF ConditionsAgree, KeysGoOn
<1>1. RowAgrees(page, wire, i) /\ RowLooksUp(page, wire, i) /\ RowLoads(page, wire, i)
  BY DEF BuilderInv, RowHolds
<1> QED BY <1>1 DEF RowAgrees, RowLooksUp, RowLoads, OfRow

\* What the effects work on.
LEMMA StageIs == ASSUME NEW p, NEW W PROVE Stage(p, W).p = p /\ Stage(p, W).W = W
BY DEF Stage

\* The calls of the builder are calls.
LEMMA BuilderCallIs ==
  ASSUME NEW op \in {"destinations", "lookup", "schema", "encode", "save"}, NEW i \in Nat
  PROVE  BuilderCall(op, i) \in BuilderCallSet /\ BuilderCall(op, i).op = op /\ BuilderCall(op, i).row = i
         /\ BuilderCall(op, i).live
BY DEF BuilderCall, BuilderCallSet, Params, ParamSet

\* The rows are numbers, and 0 is none of them.
LEMMA RowsAreNats == AllRows \subseteq Nat /\ 0 \notin AllRows
BY MaxConditionsAssumption DEF AllRows

\* The look-ups that are superseded, and those that are made.
LEMMA ResolveIs ==
  ASSUME NEW p, NEW W, BuilderPage(p), BuilderCalls(W), NEW I \in SUBSET AllRows
  PROVE  LET s == Resolve(Stage(p, W), I)
         IN /\ s.p = p /\ BuilderCalls(s.W)
            /\ \A i \in AllRows : /\ CallsOfRow(p, W, i) => CallsOfRow(p, s.W, i)
                                  /\ RowEncodes(p, W, i) => RowEncodes(p, s.W, i)
                                  /\ RowAgrees(p, W, i) => RowAgrees(p, s.W, i)
                                  /\ RowLoads(p, W, i) => RowLoads(p, s.W, i)
                                  /\ i \in I \/ RowLooksUp(p, W, i) => RowLooksUp(p, s.W, i)
<1> DEFINE on == {i \in I : p.keys[i].on}
           open == {i \in on : p.keys[i].of = None /\ Address(p) # None}
           older(r) == IF r.op = "lookup" /\ r.row \in on THEN [r EXCEPT !.live = FALSE] ELSE r
           call(i) == [BuilderCall("lookup", i) EXCEPT !.of = Address(p)]
           V == {older(r) : r \in W} \cup {call(i) : i \in open}
<1>1. Resolve(Stage(p, W), I).p = p /\ Resolve(Stage(p, W), I).W = V
  BY DEF Resolve, Superseded, Stage
<1>2. \A r \in W : /\ older(r) \in BuilderCallSet /\ older(r).op = r.op /\ older(r).row = r.row /\ older(r).of = r.of
                   /\ older(r).key = r.key /\ (r.live /\ r.row \notin I => older(r).live)
  BY DEF BuilderCalls, BuilderCallSet
<1>3. Address(p) \in Watched \cup {None}
  BY DEF Address
<1>4. ASSUME NEW i \in I, Address(p) # None
      PROVE  /\ call(i) \in BuilderCallSet /\ call(i).op = "lookup" /\ call(i).row = i /\ call(i).live /\ call(i).of \in Watched
  <2>1. i \in Nat
    BY RowsAreNats
  <2>2. BuilderCall("lookup", i) \in BuilderCallSet /\ BuilderCall("lookup", i).op = "lookup" /\ BuilderCall("lookup", i).row = i
        /\ BuilderCall("lookup", i).live
    BY <2>1, BuilderCallIs
  <2> QED BY <1>3, <1>4, <2>2 DEF BuilderCallSet
<1> HIDE DEF older, call
<1>5. /\ \A r \in V : \/ \E o \in W : /\ r \in BuilderCallSet /\ r.op = o.op /\ r.row = o.row /\ r.of = o.of /\ r.key = o.key
                      \/ r \in BuilderCallSet /\ r.op = "lookup" /\ r.row \in on /\ r.of \in Watched
      /\ \A o \in W : \E r \in V : r.op = o.op /\ r.row = o.row /\ (o.live /\ o.row \notin I => r.live)
      /\ \A i \in open : \E r \in V : r.op = "lookup" /\ r.row = i /\ r.live
  <2>1. \A i \in open : i \in I /\ i \in on /\ Address(p) # None
    OBVIOUS
  <2> HIDE DEF open, on
  <2> QED BY <1>2, <1>4, <2>1
<1> HIDE DEF V
<1>6. BuilderCalls(V)
  BY <1>5 DEF BuilderCalls
<1>7. ASSUME NEW i \in AllRows
      PROVE  /\ CallsOfRow(p, W, i) => CallsOfRow(p, V, i)
             /\ RowEncodes(p, W, i) => RowEncodes(p, V, i)
             /\ RowAgrees(p, W, i) => RowAgrees(p, V, i)
             /\ RowLoads(p, W, i) => RowLoads(p, V, i)
             /\ i \in I \/ RowLooksUp(p, W, i) => RowLooksUp(p, V, i)
  <2>1. CallsOfRow(p, W, i) => CallsOfRow(p, V, i)
    BY <1>5 DEF CallsOfRow
  <2>2. RowEncodes(p, W, i) => RowEncodes(p, V, i)
    BY <1>5 DEF RowEncodes
  <2>3. (\E r \in W : r.op = "encode" /\ r.row = i) => \E r \in V : r.op = "encode" /\ r.row = i
    BY <1>5
  <2>4. RowAgrees(p, W, i) => RowAgrees(p, V, i)
    BY <2>3 DEF RowAgrees
  <2>5. RowLoads(p, W, i) => RowLoads(p, V, i)
    BY <1>5 DEF RowLoads
  <2>6. i \in I \/ RowLooksUp(p, W, i) => RowLooksUp(p, V, i)
    BY <1>5 DEF RowLooksUp
  <2> QED BY <2>1, <2>2, <2>4, <2>5, <2>6
<1> QED BY <1>1, <1>6, <1>7

\* Parameters of every origin are parameters.
LEMMA ParamsIs ==
  /\ \A by \in {"default", "saved", "typed", "broken"} : Params(by) \in ParamSet /\ Params(by).by = by
  /\ \A b \in KeySet : KeyParams(b) \in ParamSet
BY DEF Params, ParamSet, KeyParams, KeySet

\* The key of one row is encoded, or forgotten.
LEMMA EncodeIs ==
  ASSUME NEW p, NEW W, BuilderPage(p), BuilderCalls(W), NEW i \in AllRows, p.keys[i].on
  PROVE  LET s == Encode(Stage(p, W), i)
         IN /\ BuilderPage(s.p) /\ BuilderCalls(s.W)
            /\ \A j \in AllRows \ {i} : RowHolds(p, W, j) => RowHolds(s.p, s.W, j)
            /\ CallsOfRow(p, W, i) /\ RowLooksUp(p, W, i) /\ RowLoads(p, W, i) => RowHolds(s.p, s.W, i)
<1> DEFINE b == p.keys[i]
           ready == b.of # None /\ b.variant # None /\ (b.variant = "keyed" => b.entry # "empty")
           rest == W \ OfRow(W, "encode", i)
           call == [BuilderCall("encode", i) EXCEPT !.key = KeyParams(b)]
           s == Encode(Stage(p, W), i)
<1>1. /\ \A r \in rest : r \in W /\ ~(r.op = "encode" /\ r.row = i)
      /\ \A r \in W : r \in rest \/ (r.op = "encode" /\ r.row = i)
  BY DEF OfRow
<1>2. call \in BuilderCallSet /\ call.op = "encode" /\ call.row = i /\ call.key = KeyParams(b)
  <2>1. i \in Nat /\ b \in KeySet
    BY RowsAreNats DEF BuilderPage
  <2>2. KeyParams(b) \in ParamSet
    BY <2>1, ParamsIs
  <2>3. BuilderCall("encode", i) \in BuilderCallSet /\ BuilderCall("encode", i).op = "encode" /\ BuilderCall("encode", i).row = i
    BY <2>1, BuilderCallIs
  <2> HIDE DEF b
  <2> QED BY <2>2, <2>3 DEF BuilderCallSet
<1>3. CASE ready
  <2>1. s.p = p /\ s.W = rest \cup {call}
    BY <1>3 DEF Encode, Stage
  <2> HIDE DEF rest, call
  <2>2. BuilderCalls(s.W)
    BY <1>1, <1>2, <2>1 DEF BuilderCalls
  <2>3. ASSUME NEW j \in AllRows \ {i}, RowHolds(p, W, j) PROVE RowHolds(p, s.W, j)
    <3>1. /\ \A r \in s.W : r.row = j => r \in W
          /\ \A r \in W : r.row = j => r \in s.W
      BY <1>1, <1>2, <2>1
    <3>2. CallsOfRow(p, s.W, j) /\ RowEncodes(p, s.W, j) /\ RowLoads(p, s.W, j) /\ RowLooksUp(p, s.W, j)
      BY <2>3, <3>1 DEF RowHolds, CallsOfRow, RowEncodes, RowLoads, RowLooksUp
    <3>3. RowAgrees(p, s.W, j)
      BY <2>3, <3>1 DEF RowHolds, RowAgrees
    <3> QED BY <3>2, <3>3 DEF RowHolds
  <2>4. ASSUME CallsOfRow(p, W, i), RowLooksUp(p, W, i), RowLoads(p, W, i) PROVE RowHolds(p, s.W, i)
    <3>1. CallsOfRow(p, s.W, i) /\ RowLooksUp(p, s.W, i) /\ RowLoads(p, s.W, i)
      BY <1>1, <1>2, <2>1, <2>4 DEF CallsOfRow, RowLooksUp, RowLoads
    <3>2. RowEncodes(p, s.W, i) /\ RowAgrees(p, s.W, i)
      BY <1>1, <1>2, <2>1 DEF RowEncodes, RowAgrees
    <3> QED BY <3>1, <3>2 DEF RowHolds
  <2> QED BY <2>1, <2>2, <2>3, <2>4
<1>4. CASE ~ready
  <2> DEFINE q == [p EXCEPT !.keys[i].built = Params("default")]
  <2>1. s.p = q /\ s.W = rest
    BY <1>4 DEF Encode, Stage
  <2>2. /\ BuilderPage(q) /\ q.rows = p.rows /\ q.left = p.left /\ q.target = p.target
        /\ q.keys[i].on = b.on /\ q.keys[i].of = b.of /\ q.keys[i].failed = b.failed /\ q.keys[i].loading = b.loading
        /\ q.keys[i].built.by = "default" /\ \A j \in AllRows \ {i} : q.keys[j] = p.keys[j]
    BY ParamsIs DEF BuilderPage, KeySet
  <2> HIDE DEF q, rest
  <2>3. BuilderCalls(rest)
    BY <1>1 DEF BuilderCalls
  <2>4. ASSUME NEW j \in AllRows \ {i}, RowHolds(p, W, j) PROVE RowHolds(q, rest, j)
    <3>1. /\ \A r \in rest : r.row = j => r \in W
          /\ \A r \in W : r.row = j => r \in rest
      BY <1>1
    <3>2. CallsOfRow(q, rest, j) /\ RowEncodes(q, rest, j) /\ RowLoads(q, rest, j)
      BY <2>2, <2>4, <3>1 DEF RowHolds, CallsOfRow, RowEncodes, RowLoads
    <3>3. RowLooksUp(q, rest, j)
      BY <2>2, <2>4, <3>1 DEF RowHolds, RowLooksUp, Address
    <3>4. RowAgrees(q, rest, j)
      BY <2>2, <2>4, <3>1 DEF RowHolds, RowAgrees
    <3> QED BY <3>2, <3>3, <3>4 DEF RowHolds
  <2>5. ASSUME CallsOfRow(p, W, i), RowLooksUp(p, W, i), RowLoads(p, W, i) PROVE RowHolds(q, rest, i)
    <3>1. CallsOfRow(q, rest, i) /\ RowLoads(q, rest, i)
      BY <1>1, <2>2, <2>5 DEF CallsOfRow, RowLoads
    <3>2. RowLooksUp(q, rest, i)
      BY <1>1, <2>2, <2>5 DEF RowLooksUp, Address
    <3>3. RowEncodes(q, rest, i) /\ RowAgrees(q, rest, i)
      BY <1>1, <2>2 DEF RowEncodes, RowAgrees
    <3> QED BY <3>1, <3>2, <3>3 DEF RowHolds
  <2> QED BY <2>1, <2>2, <2>3, <2>4, <2>5
<1> QED BY <1>3, <1>4

\* A row is as it was if its builder, its parameters and its calls are.
LEMMA RowUntouched ==
  ASSUME NEW p, NEW W, NEW q, NEW V, NEW j, RowHolds(p, W, j), q.keys[j] = p.keys[j], q.left = p.left, q.target = p.target,
         j \in DOMAIN p.rows => j \in DOMAIN q.rows /\ q.rows[j].params = p.rows[j].params,
         \A r \in V : r.row = j => r \in W, \A r \in W : r.row = j => r \in V
  PROVE  RowHolds(q, V, j)
<1>1. CallsOfRow(q, V, j) /\ RowEncodes(q, V, j) /\ RowLoads(q, V, j)
  BY DEF RowHolds, CallsOfRow, RowEncodes, RowLoads
<1>2. RowLooksUp(q, V, j)
  BY DEF RowHolds, RowLooksUp, Address
<1>3. RowAgrees(q, V, j)
  BY DEF RowHolds, RowAgrees, CallsOfRow
<1> QED BY <1>1, <1>2, <1>3 DEF RowHolds

\* One builder is changed.
LEMMA KeyIsSet ==
  ASSUME BuilderPage(page), NEW i \in AllRows, NEW k \in KeySet, NEW p, p = [page EXCEPT !.keys[i] = k]
  PROVE  /\ BuilderPage(p) /\ p.keys[i] = k /\ p.left = page.left /\ p.target = page.target /\ p.rows = page.rows
         /\ \A j \in AllRows \ {i} : p.keys[j] = page.keys[j]
BY DEF BuilderPage

\* A handler keeps the invariant if what it made of the page and the calls does.
LEMMA TurnsKeep ==
  ASSUME NEW p, NEW W, BuilderPage(p), BuilderCalls(W), \A i \in AllRows : RowHolds(p, W, i),
         wire' = W, page' = p \/ page' = [p EXCEPT !.calls = @ + 1]
  PROVE  BuilderInv'
<1>1. /\ BuilderPage(page') /\ page'.keys = p.keys /\ page'.rows = p.rows /\ page'.left = p.left /\ page'.target = p.target
  BY DEF BuilderPage
<1>2. \A i \in AllRows : RowHolds(page', wire', i)
  BY <1>1, RowUntouched
<1>3. BuilderPage(page)' /\ BuilderCalls(wire)' /\ \A i \in AllRows : RowHolds(page, wire, i)'
  BY <1>1, <1>2 DEF BuilderPage, BuilderCalls, RowHolds, CallsOfRow, RowEncodes, RowAgrees, RowLooksUp, RowLoads, Address
<1> QED BY <1>3 DEF BuilderInv

\* What is asked of a row before its builder is mounted, or goes.
RowWas(p, W, i) ==
    /\ \A r \in W : r.row = i => p.keys[i].on /\ (r.op = "lookup" => r.of \in Watched)
    /\ RowEncodes(p, W, i) /\ RowLooksUp(p, W, i) /\ RowLoads(p, W, i)
    /\ i \in DOMAIN p.rows => RowAgrees(p, W, i)

\* Of a row that held, it is true.
LEMMA RowWasHeld == ASSUME NEW p, NEW W, NEW i, RowHolds(p, W, i) PROVE RowWas(p, W, i)
BY DEF RowHolds, RowWas, CallsOfRow

\* The key builders of some rows are mounted, stay or go.
LEMMA MountsIs ==
  ASSUME NEW p, NEW W, BuilderPage(p), BuilderCalls(W), NEW I \in SUBSET AllRows
  PROVE  LET s == Mounts(Stage(p, W), I)
         IN /\ BuilderPage(s.p) /\ BuilderCalls(s.W)
            /\ \A i \in AllRows : RowHolds(p, W, i) \/ (i \in I /\ RowWas(p, W, i)) => RowHolds(s.p, s.W, i)
<1> DEFINE wanted == {i \in I \cap DOMAIN p.rows : p.rows[i].type = "state_change"}
           fresh == {i \in wanted : ~p.keys[i].on}
           keys == [i \in DOMAIN p.keys |-> IF i \in I \ wanted THEN Unmounted ELSE IF i \in fresh THEN Mounted ELSE p.keys[i]]
           q == [p EXCEPT !.keys = keys]
           V == {r \in W : r.row \notin I \ wanted}
           s == Mounts(Stage(p, W), I)
<1>1. s = Resolve(Stage(q, V), fresh)
  BY DEF Mounts, Stage
<1>2. Unmounted \in KeySet /\ Mounted \in KeySet /\ ~Unmounted.on /\ Mounted.on /\ ~Mounted.loading /\ Mounted.built.by = "default"
  BY ParamsIs DEF Unmounted, Mounted, KeySet, Entries, Variants
<1>3. /\ wanted \subseteq I /\ fresh \subseteq wanted /\ fresh \in SUBSET AllRows /\ wanted \subseteq DOMAIN p.rows
      /\ \A i \in fresh : ~p.keys[i].on
  OBVIOUS
<1>4. /\ \A i \in AllRows : keys[i] \in KeySet
      /\ keys = [i \in AllRows |-> keys[i]]
      /\ \A i \in AllRows : /\ i \in I \ wanted => keys[i] = Unmounted
                            /\ i \in fresh => keys[i] = Mounted
                            /\ i \notin (I \ wanted) \cup fresh => keys[i] = p.keys[i]
  <2>1. DOMAIN p.keys = AllRows /\ \A i \in AllRows : p.keys[i] \in KeySet
    BY DEF BuilderPage
  <2> HIDE DEF wanted, fresh
  <2> QED BY <1>2, <1>3, <2>1
<1> HIDE DEF keys
<1>5. BuilderPage(q) /\ q.keys = keys /\ q.rows = p.rows /\ q.left = p.left /\ q.target = p.target
  BY <1>4 DEF BuilderPage
<1>6. /\ \A r \in V : r \in W /\ r.row \notin I \ wanted
      /\ \A r \in W : r.row \notin I \ wanted => r \in V
  OBVIOUS
<1> HIDE DEF q, V, wanted, fresh
<1>7. BuilderCalls(V)
  BY <1>6 DEF BuilderCalls
<1>8. /\ s.p = q /\ BuilderCalls(s.W)
      /\ \A i \in AllRows : /\ CallsOfRow(q, V, i) => CallsOfRow(q, s.W, i)
                            /\ RowEncodes(q, V, i) => RowEncodes(q, s.W, i)
                            /\ RowAgrees(q, V, i) => RowAgrees(q, s.W, i)
                            /\ RowLoads(q, V, i) => RowLoads(q, s.W, i)
                            /\ i \in fresh \/ RowLooksUp(q, V, i) => RowLooksUp(q, s.W, i)
  BY <1>1, <1>3, <1>5, <1>7, ResolveIs
<1> HIDE DEF s
<1>9. ASSUME NEW i \in AllRows, RowHolds(p, W, i) \/ (i \in I /\ RowWas(p, W, i))
      PROVE  /\ CallsOfRow(q, V, i) /\ RowEncodes(q, V, i) /\ RowAgrees(q, V, i) /\ RowLoads(q, V, i)
             /\ i \in fresh \/ RowLooksUp(q, V, i)
  <2>1. RowWas(p, W, i)
    BY <1>9, RowWasHeld
  <2>2. CASE i \in I \ wanted
    <3>1. ~q.keys[i].on /\ \A r \in V : r.row # i
      BY <1>2, <1>4, <1>5, <1>6, <2>2
    <3> QED BY <3>1 DEF CallsOfRow, RowEncodes, RowAgrees, RowLoads, RowLooksUp
  <2>3. CASE i \in fresh
    <3>1. q.keys[i] = Mounted /\ i \in DOMAIN q.rows /\ \A r \in V : r.row # i
      BY <1>3, <1>4, <1>5, <1>6, <2>1, <2>3 DEF RowWas
    <3> QED BY <1>2, <2>3, <3>1 DEF CallsOfRow, RowEncodes, RowAgrees, RowLoads
  <2>4. CASE i \in wanted /\ i \notin fresh
    <3>1. /\ q.keys[i] = p.keys[i] /\ i \in DOMAIN p.rows
          /\ \A r \in W : r.row = i => r \in V
      BY <1>3, <1>4, <1>5, <1>6, <2>4
    <3>2. RowHolds(p, W, i)
      BY <2>1, <3>1 DEF RowWas, RowHolds, CallsOfRow
    <3>3. RowHolds(q, V, i)
      BY <1>5, <1>6, <3>1, <3>2, RowUntouched
    <3> QED BY <3>3 DEF RowHolds
  <2>5. CASE i \notin I
    <3>1. RowHolds(p, W, i)
      BY <1>9, <2>5
    <3>2. RowHolds(q, V, i)
      BY <1>3, <1>4, <1>5, <1>6, <2>5, <3>1, RowUntouched
    <3> QED BY <3>2 DEF RowHolds
  <2> QED BY <2>2, <2>3, <2>4, <2>5
<1>10. \A i \in AllRows : RowHolds(p, W, i) \/ (i \in I /\ RowWas(p, W, i)) => RowHolds(q, s.W, i)
  BY <1>8, <1>9 DEF RowHolds
<1> QED BY <1>5, <1>8, <1>10 DEF s

\* The invariant holds when the builder is opened.
LEMMA BuilderStart == BuilderInit => BuilderInv
<1> SUFFICES ASSUME BuilderInit PROVE BuilderInv
  OBVIOUS
<1>1. PICK edited \in BOOLEAN, target \in Watched,
            types \in {<<"state_change">>, <<"function_call", "state_change">>, <<"state_change", "state_change">>} :
        LET rows == IF edited THEN [i \in DOMAIN types |-> Condition(types[i], Params("saved"))]
                    ELSE <<Condition("failed_transaction", Params("default"))>>
            fresh == [at |-> "builder", named |-> edited, target |-> IF edited THEN target ELSE "project",
                      rows |-> rows, keys |-> [i \in AllRows |-> Unmounted], chosen |-> {}, offered |-> {},
                      busy |-> FALSE, left |-> FALSE, calls |-> 0]
            s == Mounts(Stage(fresh, {BuilderCall("destinations", 0)}), AllRows)
        IN page = s.p /\ wire = s.W
  BY DEF BuilderInit
<1> DEFINE Types == {"failed_transaction", "state_change", "function_call", "event_emitted"}
           rows == IF edited THEN [i \in DOMAIN types |-> Condition(types[i], Params("saved"))]
                   ELSE <<Condition("failed_transaction", Params("default"))>>
           p == [at |-> "builder", named |-> edited, target |-> IF edited THEN target ELSE "project",
                 rows |-> rows, keys |-> [i \in AllRows |-> Unmounted], chosen |-> {}, offered |-> {},
                 busy |-> FALSE, left |-> FALSE, calls |-> 0]
           W == {BuilderCall("destinations", 0)}
<1>2. rows \in Seq(ConditionSet)
  <2>1. Params("saved") \in ParamSet /\ Params("default") \in ParamSet
    BY ParamsIs
  <2>2. \A type \in Types : Condition(type, Params("saved")) \in ConditionSet /\ Condition(type, Params("default")) \in ConditionSet
    BY <2>1 DEF Condition, ConditionSet
  <2>3. \E n \in Nat : DOMAIN types = 1..n /\ \A i \in 1..n : types[i] \in Types
    <3>1. CASE types = <<"state_change">>
      <4>1. DOMAIN types = 1..1 /\ \A i \in 1..1 : types[i] \in Types
        BY <3>1
      <4> QED BY <4>1
    <3>2. CASE types = <<"function_call", "state_change">> \/ types = <<"state_change", "state_change">>
      <4>1. DOMAIN types = 1..2 /\ \A i \in 1..2 : types[i] \in Types
        BY <3>2
      <4> QED BY <4>1
    <3> QED BY <3>1, <3>2
  <2>4. PICK n \in Nat : DOMAIN types = 1..n /\ \A i \in 1..n : types[i] \in Types
    BY <2>3
  <2> HIDE DEF Types
  <2>5. [i \in DOMAIN types |-> Condition(types[i], Params("saved"))] \in Seq(ConditionSet)
    BY <2>2, <2>4
  <2>6. <<Condition("failed_transaction", Params("default"))>> \in Seq(ConditionSet)
    BY <2>2 DEF Types
  <2> QED BY <2>5, <2>6
<1> HIDE DEF rows
<1>3. Unmounted \in KeySet /\ ~Unmounted.on
  BY ParamsIs DEF Unmounted, KeySet, Entries
<1>4. BuilderPage(p) /\ \A i \in AllRows : ~p.keys[i].on
  BY <1>2, <1>3 DEF BuilderPage
<1>5. BuilderCalls(W) /\ \A i \in AllRows : \A r \in W : r.row # i
  BY BuilderCallIs, RowsAreNats DEF BuilderCalls
<1>6. page = Mounts(Stage(p, W), AllRows).p /\ wire = Mounts(Stage(p, W), AllRows).W
  BY <1>1 DEF rows
<1> HIDE DEF p, W
<1>7. \A i \in AllRows : RowWas(p, W, i)
  BY <1>4, <1>5 DEF RowWas, RowEncodes, RowAgrees, RowLooksUp, RowLoads
<1>8. BuilderPage(page) /\ BuilderCalls(wire) /\ \A i \in AllRows : RowHolds(page, wire, i)
  BY <1>4, <1>5, <1>6, <1>7, MountsIs
<1> QED BY <1>8 DEF BuilderInv

\* What is no concern of the conditions: the name, the destinations, saving.
LEMMA RowsUntouched ==
  ASSUME BuilderInv, NEW u, page' = u, BuilderPage(u), u.keys = page.keys, u.rows = page.rows, u.left = page.left,
         u.target = page.target, BuilderCalls(wire'), \A r \in wire' : r.row # 0 => r \in wire, \A r \in wire : r.row # 0 => r \in wire'
  PROVE  BuilderInv'
<1>1. \A i \in AllRows : RowHolds(page, wire, i)
  BY DEF BuilderInv
<1>2. \A i \in AllRows : RowHolds(u, wire', i)
  BY <1>1, RowsAreNats, RowUntouched
<1> QED BY <1>2, TurnsKeep

\* Nothing is asked of a builder that is left.
LEMMA BuilderIsLeft ==
  ASSUME BuilderInv, page' = [page EXCEPT !.left = TRUE], wire' = {}
  PROVE  BuilderInv'
<1>1. BuilderPage(page') /\ page'.left /\ page'.keys = page.keys /\ page'.rows = page.rows
  BY DEF BuilderInv, BuilderPage
<1>2. \A i \in AllRows : RowHolds(page', {}, i)
  BY <1>1 DEF BuilderInv, RowHolds, CallsOfRow, RowEncodes, RowAgrees, RowLooksUp, RowLoads
<1>3. BuilderCalls({})
  BY DEF BuilderCalls
<1> QED BY <1>1, <1>2, <1>3, TurnsKeep

\* Every step keeps the invariant, however rows are added, removed and retyped
\* between a look-up, a schema or an encoding and its answer.
LEMMA BuilderStep ==
  ASSUME BuilderInv, BuilderNext
  PROVE  BuilderInv'
<1>1. ASSUME NameRule PROVE BuilderInv'
  <2> DEFINE u == [page EXCEPT !.named = TRUE]
  <2>1. page' = u /\ wire' = wire
    BY <1>1 DEF NameRule, Show, Call, Then
  <2>2. BuilderPage(u) /\ u.keys = page.keys /\ u.rows = page.rows /\ u.left = page.left /\ u.target = page.target
    BY DEF BuilderInv, BuilderPage
  <2> HIDE DEF u
  <2> QED BY <2>1, <2>2, RowsUntouched DEF BuilderInv
<1>2. ASSUME AddCondition PROVE BuilderInv'
  <2> DEFINE new == Condition("event_emitted", Params("default"))
             p == [page EXCEPT !.rows = Append(@, new)]
  <2>1. wire' = wire /\ page' = [p EXCEPT !.calls = @ + 1]
    BY <1>2 DEF AddCondition, UserTurns, Turns, Stage
  <2>2. new \in ConditionSet
    BY ParamsIs DEF Condition, ConditionSet
  <2> HIDE DEF new
  <2>3. page.rows \in Seq(ConditionSet)
    BY DEF BuilderInv, BuilderPage
  <2>4. /\ Append(page.rows, new) \in Seq(ConditionSet)
        /\ \A j \in DOMAIN page.rows : j \in DOMAIN Append(page.rows, new) /\ Append(page.rows, new)[j] = page.rows[j]
    BY <2>2, <2>3
  <2>5. /\ BuilderPage(p) /\ p.keys = page.keys /\ p.left = page.left /\ p.target = page.target /\ p.rows = Append(page.rows, new)
    BY <2>4 DEF BuilderInv, BuilderPage
  <2> HIDE DEF p
  <2>6. \A j \in AllRows : RowHolds(p, wire, j)
    BY <2>4, <2>5, RowUntouched DEF BuilderInv
  <2> QED BY <2>1, <2>5, <2>6, TurnsKeep DEF BuilderInv
<1>3. ASSUME LeaveAlertBuilder PROVE BuilderInv'
  BY <1>3, BuilderIsLeft DEF LeaveAlertBuilder
<1>4. ASSUME SaveAlert PROVE BuilderInv'
  <2> DEFINE u == [[page EXCEPT !.busy = TRUE] EXCEPT !.calls = @ + 1]
  <2>1. page' = u /\ wire' = wire \cup {BuilderCall("save", 0)}
    BY <1>4 DEF SaveAlert, Show, Call, Then
  <2>2. BuilderPage(u) /\ u.keys = page.keys /\ u.rows = page.rows /\ u.left = page.left /\ u.target = page.target
    BY DEF BuilderInv, BuilderPage
  <2> HIDE DEF u
  <2>3. BuilderCall("save", 0) \in BuilderCallSet /\ BuilderCall("save", 0).op \in {"destinations", "save"} /\ BuilderCall("save", 0).row = 0
    BY BuilderCallIs
  <2>4. BuilderCalls(wire')
    BY <2>1, <2>3 DEF BuilderInv, BuilderCalls
  <2> QED BY <2>1, <2>2, <2>3, <2>4, RowsUntouched
<1>5. ASSUME RefreshDestinations PROVE BuilderInv'
  <2> DEFINE u == [page EXCEPT !.calls = @ + 1]
  <2>1. page' = u /\ wire' = wire \cup {BuilderCall("destinations", 0)}
    BY <1>5 DEF RefreshDestinations, Show, Call, Then
  <2>2. BuilderPage(u) /\ u.keys = page.keys /\ u.rows = page.rows /\ u.left = page.left /\ u.target = page.target
    BY DEF BuilderInv, BuilderPage
  <2> HIDE DEF u
  <2>3. BuilderCall("destinations", 0) \in BuilderCallSet /\ BuilderCall("destinations", 0).op \in {"destinations", "save"} /\ BuilderCall("destinations", 0).row = 0
    BY BuilderCallIs
  <2>4. BuilderCalls(wire')
    BY <2>1, <2>3 DEF BuilderInv, BuilderCalls
  <2> QED BY <2>1, <2>2, <2>3, <2>4, RowsUntouched
<1>6. ASSUME NEW t \in Sought \cup {"project"}, SetTarget(t) PROVE BuilderInv'
  <2> DEFINE p == [page EXCEPT !.target = t]
             s == Resolve(Stage(p, wire), AllRows)
  <2>1. wire' = s.W /\ page' = [s.p EXCEPT !.calls = @ + 1]
    BY <1>6, StageIs DEF SetTarget, UserTurns, Turns
  <2>2. BuilderPage(p) /\ p.keys = page.keys /\ p.rows = page.rows /\ p.left = page.left
    BY DEF BuilderInv, BuilderPage
  <2> HIDE DEF p
  <2>3. \A i \in AllRows : CallsOfRow(p, wire, i) /\ RowEncodes(p, wire, i) /\ RowAgrees(p, wire, i) /\ RowLoads(p, wire, i)
    BY <2>2 DEF BuilderInv, RowHolds, CallsOfRow, RowEncodes, RowAgrees, RowLoads
  <2>4. /\ s.p = p /\ BuilderCalls(s.W)
        /\ \A i \in AllRows : RowHolds(p, s.W, i)
    BY <2>2, <2>3, ResolveIs DEF BuilderInv, RowHolds
  <2> HIDE DEF s
  <2> QED BY <2>1, <2>2, <2>4, TurnsKeep
<1>7. ASSUME NEW d \in Destinations, ToggleDestination(d) PROVE BuilderInv'
  <2> DEFINE u == [page EXCEPT !.chosen = IF d \in @ THEN @ \ {d} ELSE @ \cup {d}]
  <2>1. page' = u /\ wire' = wire
    BY <1>7 DEF ToggleDestination, Show, Call, Then
  <2>2. BuilderPage(u) /\ u.keys = page.keys /\ u.rows = page.rows /\ u.left = page.left /\ u.target = page.target
    BY DEF BuilderInv, BuilderPage
  <2> HIDE DEF u
  <2> QED BY <2>1, <2>2, RowsUntouched DEF BuilderInv
<1>8. ASSUME NEW i \in AllRows, NEW type \in {"state_change", "function_call"}, SetType(i, type) PROVE BuilderInv'
  <2> DEFINE p == [page EXCEPT !.rows[i].type = type]
             s == Mounts(Stage(p, wire), {i})
  <2>1. wire' = s.W /\ page' = [s.p EXCEPT !.calls = @ + 1] /\ i <= Len(page.rows)
    BY <1>8, StageIs DEF SetType, UserTurns, Turns
  <2>2. /\ BuilderPage(p) /\ p.keys = page.keys /\ p.left = page.left /\ p.target = page.target /\ DOMAIN p.rows = DOMAIN page.rows
        /\ \A j \in DOMAIN page.rows : p.rows[j].params = page.rows[j].params
    <3>1. i \in DOMAIN page.rows
      BY <2>1, RowsAreNats DEF BuilderInv, BuilderPage, AllRows
    <3>2. \A c \in ConditionSet : [c EXCEPT !.type = type] \in ConditionSet /\ [c EXCEPT !.type = type].params = c.params
      BY DEF ConditionSet
    <3>3. page.rows \in Seq(ConditionSet)
      BY DEF BuilderInv, BuilderPage
    <3>4. p.rows = [page.rows EXCEPT ![i] = [page.rows[i] EXCEPT !.type = type]]
      BY DEF BuilderInv, BuilderPage
    <3>5. p.rows \in Seq(ConditionSet) /\ DOMAIN p.rows = DOMAIN page.rows
      BY <3>1, <3>2, <3>3, <3>4
    <3>6. \A j \in DOMAIN page.rows : p.rows[j].params = page.rows[j].params
      BY <3>1, <3>2, <3>3, <3>4
    <3>7. BuilderPage(p) /\ p.keys = page.keys /\ p.left = page.left /\ p.target = page.target
      BY <3>5 DEF BuilderInv, BuilderPage
    <3> QED BY <3>5, <3>6, <3>7
  <2> HIDE DEF p
  <2>3. \A j \in AllRows : RowHolds(p, wire, j)
    BY <2>2, RowUntouched DEF BuilderInv
  <2>4. /\ BuilderPage(s.p) /\ BuilderCalls(s.W)
        /\ \A j \in AllRows : RowHolds(s.p, s.W, j)
    BY <2>2, <2>3, MountsIs DEF BuilderInv
  <2> HIDE DEF s
  <2> QED BY <2>1, <2>4, TurnsKeep
<1>9. ASSUME NEW i \in AllRows, NEW by \in {"typed", "broken"}, EditParams(i, by) PROVE BuilderInv'
  <2> DEFINE p == [page EXCEPT !.rows[i].params = Params(by)]
  <2>1. wire' = wire /\ page' = [p EXCEPT !.calls = @ + 1] /\ i <= Len(page.rows)
    BY <1>9 DEF EditParams, UserTurns, Turns, Stage
  <2>2. /\ BuilderPage(p) /\ p.keys = page.keys /\ p.left = page.left /\ p.target = page.target /\ DOMAIN p.rows = DOMAIN page.rows
        /\ p.rows[i].params = Params(by) /\ \A j \in AllRows \ {i} : p.rows[j] = page.rows[j]
    <3>1. i \in DOMAIN page.rows
      BY <2>1, RowsAreNats DEF BuilderInv, BuilderPage, AllRows
    <3>2. \A c \in ConditionSet : [c EXCEPT !.params = Params(by)] \in ConditionSet /\ [c EXCEPT !.params = Params(by)].params = Params(by)
      BY ParamsIs DEF ConditionSet
    <3>3. page.rows \in Seq(ConditionSet)
      BY DEF BuilderInv, BuilderPage
    <3>4. p.rows = [page.rows EXCEPT ![i] = [page.rows[i] EXCEPT !.params = Params(by)]]
      BY DEF BuilderInv, BuilderPage
    <3>5. p.rows \in Seq(ConditionSet) /\ DOMAIN p.rows = DOMAIN page.rows
      BY <3>1, <3>2, <3>3, <3>4
    <3>6. p.rows[i].params = Params(by) /\ \A j \in AllRows \ {i} : p.rows[j] = page.rows[j]
      BY <3>1, <3>2, <3>3, <3>4
    <3>7. BuilderPage(p) /\ p.keys = page.keys /\ p.left = page.left /\ p.target = page.target
      BY <3>5 DEF BuilderInv, BuilderPage
    <3> QED BY <3>5, <3>6, <3>7
  <2> HIDE DEF p
  <2>3. \A j \in AllRows \ {i} : RowHolds(p, wire, j)
    BY <2>2, RowUntouched DEF BuilderInv
  <2>4. RowHolds(p, wire, i)
    <3>1. RowAgrees(p, wire, i)
      BY <2>2, ParamsIs DEF RowAgrees
    <3> QED BY <2>2, <3>1 DEF BuilderInv, RowHolds, CallsOfRow, RowEncodes, RowLooksUp, RowLoads, Address
  <2> QED BY <2>1, <2>2, <2>3, <2>4, TurnsKeep DEF BuilderInv
<1>10. ASSUME NEW i \in AllRows, NEW v \in Variants, ChooseVariant(i, v) PROVE BuilderInv'
  <2> DEFINE p == [page EXCEPT !.keys[i].variant = v, !.keys[i].entry = "empty"]
             s == Encode(Stage(p, wire), i)
  <2>1. wire' = s.W /\ page' = [s.p EXCEPT !.calls = @ + 1] /\ page.keys[i].on
    BY <1>10, StageIs DEF ChooseVariant, UserTurns, Turns, Usable
  <2>2. /\ BuilderPage(p) /\ p.left = page.left /\ p.target = page.target /\ p.rows = page.rows
        /\ p.keys[i].on = page.keys[i].on /\ p.keys[i].of = page.keys[i].of /\ p.keys[i].failed = page.keys[i].failed
        /\ p.keys[i].loading = page.keys[i].loading /\ \A j \in AllRows \ {i} : p.keys[j] = page.keys[j]
    <3> DEFINE k == [page.keys[i] EXCEPT !.variant = v, !.entry = "empty"]
    <3>1. page.keys \in [AllRows -> KeySet] /\ BuilderPage(page)
      BY DEF BuilderInv, BuilderPage
    <3>2. k \in KeySet /\ k.on = page.keys[i].on /\ k.of = page.keys[i].of /\ k.failed = page.keys[i].failed
          /\ k.loading = page.keys[i].loading
      BY <3>1 DEF KeySet, Entries
    <3>3. p = [page EXCEPT !.keys[i] = k]
      BY <3>1 DEF BuilderPage
    <3> HIDE DEF k, p
    <3> QED BY <3>1, <3>2, <3>3, KeyIsSet
  <2> HIDE DEF p
  <2>3. \A j \in AllRows \ {i} : RowHolds(p, wire, j)
    BY <2>2, RowUntouched DEF BuilderInv
  <2>4. CallsOfRow(p, wire, i) /\ RowLooksUp(p, wire, i) /\ RowLoads(p, wire, i)
    BY <2>2 DEF BuilderInv, RowHolds, CallsOfRow, RowLooksUp, RowLoads, Address
  <2>5. BuilderPage(s.p) /\ BuilderCalls(s.W) /\ \A j \in AllRows : RowHolds(s.p, s.W, j)
    BY <2>1, <2>2, <2>3, <2>4, EncodeIs DEF BuilderInv
  <2> HIDE DEF s
  <2> QED BY <2>1, <2>5, TurnsKeep
<1>11. ASSUME NEW i \in AllRows, NEW e \in Entries, EnterKey(i, e) PROVE BuilderInv'
  <2> DEFINE p == [page EXCEPT !.keys[i].entry = e]
             s == Encode(Stage(p, wire), i)
  <2>1. wire' = s.W /\ page' = [s.p EXCEPT !.calls = @ + 1] /\ page.keys[i].on
    BY <1>11, StageIs DEF EnterKey, UserTurns, Turns, Usable
  <2>2. /\ BuilderPage(p) /\ p.left = page.left /\ p.target = page.target /\ p.rows = page.rows
        /\ p.keys[i].on = page.keys[i].on /\ p.keys[i].of = page.keys[i].of /\ p.keys[i].failed = page.keys[i].failed
        /\ p.keys[i].loading = page.keys[i].loading /\ \A j \in AllRows \ {i} : p.keys[j] = page.keys[j]
    <3> DEFINE k == [page.keys[i] EXCEPT !.entry = e]
    <3>1. page.keys \in [AllRows -> KeySet] /\ BuilderPage(page)
      BY DEF BuilderInv, BuilderPage
    <3>2. k \in KeySet /\ k.on = page.keys[i].on /\ k.of = page.keys[i].of /\ k.failed = page.keys[i].failed
          /\ k.loading = page.keys[i].loading
      BY <3>1 DEF KeySet, Entries
    <3>3. p = [page EXCEPT !.keys[i] = k]
      BY <3>1 DEF BuilderPage
    <3> HIDE DEF k, p
    <3> QED BY <3>1, <3>2, <3>3, KeyIsSet
  <2> HIDE DEF p
  <2>3. \A j \in AllRows \ {i} : RowHolds(p, wire, j)
    BY <2>2, RowUntouched DEF BuilderInv
  <2>4. CallsOfRow(p, wire, i) /\ RowLooksUp(p, wire, i) /\ RowLoads(p, wire, i)
    BY <2>2 DEF BuilderInv, RowHolds, CallsOfRow, RowLooksUp, RowLoads, Address
  <2>5. BuilderPage(s.p) /\ BuilderCalls(s.W) /\ \A j \in AllRows : RowHolds(s.p, s.W, j)
    BY <2>1, <2>2, <2>3, <2>4, EncodeIs DEF BuilderInv
  <2> HIDE DEF s
  <2> QED BY <2>1, <2>5, TurnsKeep
<1>12. ASSUME NEW i \in AllRows, RemoveCondition(i) PROVE BuilderInv'
  <2> DEFINE rows == [j \in 1..(Len(page.rows) - 1) |-> page.rows[IF j < i THEN j ELSE j + 1]]
             keys == [j \in AllRows |-> [page.keys[j] EXCEPT !.moved = @ \/ j >= i]]
             p == [page EXCEPT !.rows = rows, !.keys = keys]
             s == Mounts(Stage(p, wire), AllRows)
  <2>1. wire' = s.W /\ page' = [s.p EXCEPT !.calls = @ + 1] /\ i <= Len(page.rows) /\ Len(page.rows) > 1
    BY <1>12 DEF RemoveCondition, UserTurns, Turns, Stage
  <2>2. /\ page.rows \in Seq(ConditionSet) /\ Len(page.rows) \in Nat /\ DOMAIN page.rows = 1..Len(page.rows)
        /\ page.keys \in [AllRows -> KeySet] /\ i \in Nat /\ Len(page.rows) > 1
    <3>1. Len(page.rows) > 1
      BY <2>1
    <3> QED BY <3>1, RowsAreNats DEF BuilderInv, BuilderPage
  <2>3. /\ rows \in Seq(ConditionSet) /\ DOMAIN rows = 1..(Len(page.rows) - 1)
        /\ \A j \in DOMAIN rows : j < i => rows[j] = page.rows[j]
    <3>1. \A j \in 1..(Len(page.rows) - 1) : page.rows[IF j < i THEN j ELSE j + 1] \in ConditionSet
      <4>1. ASSUME NEW j \in 1..(Len(page.rows) - 1)
            PROVE  (IF j < i THEN j ELSE j + 1) \in 1..Len(page.rows)
        BY <2>2, <4>1
      <4> QED BY <2>2, <4>1
    <3>2. Len(page.rows) - 1 \in Nat
      BY <2>2
    <3> QED BY <3>1, <3>2
  <2>4. ASSUME NEW j \in AllRows
        PROVE  LET b == keys[j] c == page.keys[j]
               IN /\ b \in KeySet /\ b.on = c.on /\ b.of = c.of /\ b.failed = c.failed /\ b.loading = c.loading
                  /\ b.built = c.built /\ KeyParams(b) = KeyParams(c) /\ (j >= i \/ c.moved => b.moved)
    BY <2>2 DEF KeySet, KeyParams
  <2> HIDE DEF rows
  <2>5. /\ BuilderPage(p) /\ p.rows = rows /\ p.keys = keys /\ p.left = page.left /\ p.target = page.target
    <3>1. BuilderPage(page)
      BY DEF BuilderInv
    <3>2. p.rows = rows /\ DOMAIN p = DOMAIN page /\ p.at = page.at /\ p.left = page.left /\ p.target = page.target
      BY <3>1 DEF BuilderPage
    <3>3. p.keys = keys
      BY <3>1 DEF BuilderPage
    <3>4. keys \in [AllRows -> KeySet]
      BY <2>4
    <3> HIDE DEF p, keys
    <3> QED BY <2>3, <3>1, <3>2, <3>3, <3>4 DEF BuilderPage
  <2> HIDE DEF keys, p
  <2>6. ASSUME NEW j \in AllRows PROVE RowWas(p, wire, j)
    <3>1. RowHolds(page, wire, j) /\ j \in Nat
      BY RowsAreNats DEF BuilderInv
    <3>2. RowEncodes(p, wire, j) /\ RowLooksUp(p, wire, j) /\ RowLoads(p, wire, j)
      BY <2>4, <2>5, <3>1 DEF RowHolds, RowEncodes, RowLooksUp, RowLoads, Address
    <3>3. ASSUME j \in DOMAIN rows PROVE RowAgrees(p, wire, j)
      <4>1. CASE j < i
        BY <2>3, <2>4, <2>5, <3>1, <3>3, <4>1 DEF RowHolds, RowAgrees
      <4>2. CASE j >= i
        BY <2>4, <2>5, <4>2 DEF RowAgrees
      <4> QED BY <2>2, <3>1, <4>1, <4>2
    <3> QED BY <2>4, <2>5, <3>1, <3>2, <3>3 DEF RowWas, RowHolds, CallsOfRow
  <2>7. BuilderPage(s.p) /\ BuilderCalls(s.W) /\ \A j \in AllRows : RowHolds(s.p, s.W, j)
    BY <2>5, <2>6, MountsIs DEF BuilderInv
  <2> HIDE DEF s
  <2> QED BY <2>1, <2>7, TurnsKeep
<1>13. ASSUME NEW r \in wire, NEW outcome \in {"verified", "unverified", "error"}, LookupArrives(r, outcome) PROVE BuilderInv'
  <2> DEFINE i == r.row
             b == page.keys[i]
             rest == wire \ {r}
  <2>1. r.op = "lookup"
    BY <1>13 DEF LookupArrives
  <2>2. i \in AllRows /\ i \in Nat /\ BuilderPage(page) /\ BuilderCalls(rest)
    BY <2>1, RowsAreNats DEF BuilderInv, BuilderCalls
  <2>3. RowHolds(page, wire, i)
    BY <2>2 DEF BuilderInv
  <2>4. b.on /\ r.of \in Watched /\ r.of # None
    BY <2>1, <2>3, WatchedAssumption DEF RowHolds, CallsOfRow
  <2>5. CASE outcome = "verified" /\ b.of # r.of
    <3> DEFINE p == [page EXCEPT !.keys[r.row].of = r.of, !.keys[r.row].loading = TRUE]
               call == [BuilderCall("schema", i) EXCEPT !.of = r.of]
               W == (rest \ OfRow(rest, "schema", i)) \cup {call}
               q == Resolve(Stage(p, W), {i})
               s == Encode(Stage(p, q.W), i)
    <3>1. page' = Encode(q, i).p /\ wire' = Encode(q, i).W
      BY <1>13, <2>5 DEF LookupArrives, Turns
    <3>2. call \in BuilderCallSet /\ call.op = "schema" /\ call.row = i
      <4>1. BuilderCall("schema", i) \in BuilderCallSet /\ BuilderCall("schema", i).op = "schema" /\ BuilderCall("schema", i).row = i
        BY <2>2, BuilderCallIs
      <4> QED BY <2>4, <4>1 DEF BuilderCallSet
    <3>3. /\ BuilderPage(p) /\ p.left = page.left /\ p.target = page.target /\ p.rows = page.rows
          /\ p.keys[i].on /\ p.keys[i].of = r.of /\ \A j \in AllRows \ {i} : p.keys[j] = page.keys[j]
      <4> DEFINE k == [b EXCEPT !.of = r.of, !.loading = TRUE]
      <4>1. page.keys \in [AllRows -> KeySet]
        BY <2>2 DEF BuilderPage
      <4>2. k \in KeySet /\ k.on /\ k.of = r.of
        <5>1. b \in KeySet /\ b.on /\ r.of \in Watched
          BY <2>2, <2>4, <4>1
        <5> HIDE DEF b
        <5> QED BY <5>1 DEF KeySet
      <4>3. p = [page EXCEPT !.keys[i] = k]
        BY <2>2, <4>1 DEF BuilderPage
      <4>4. p.keys[i] = k /\ BuilderPage(p) /\ p.left = page.left /\ p.target = page.target /\ p.rows = page.rows
            /\ \A j \in AllRows \ {i} : p.keys[j] = page.keys[j]
        <5> HIDE DEF k, p, i
        <5> QED BY <2>2, <4>2, <4>3 DEF BuilderPage
      <4> HIDE DEF k, p
      <4> QED BY <4>2, <4>4
    <3>4. /\ \A o \in W : o = call \/ o \in wire
          /\ \A o \in wire : o.row # i => o \in W
          /\ call \in W
      BY DEF OfRow
    <3>5. BuilderCalls(W)
      BY <2>2, <3>2 DEF BuilderCalls
    <3> HIDE DEF p, call, W, i
    <3>6. \A j \in AllRows \ {i} : RowHolds(p, W, j)
      BY <3>2, <3>3, <3>4, RowUntouched DEF BuilderInv
    <3>7. CallsOfRow(p, W, i) /\ RowLooksUp(p, W, i) /\ RowLoads(p, W, i)
      BY <2>3, <2>4, <3>2, <3>3, <3>4 DEF RowHolds, CallsOfRow, RowLooksUp, RowLoads
    <3>8. /\ q.p = p /\ BuilderCalls(q.W) /\ CallsOfRow(p, q.W, i) /\ RowLooksUp(p, q.W, i) /\ RowLoads(p, q.W, i)
          /\ \A j \in AllRows \ {i} : RowHolds(p, q.W, j)
      BY <2>2, <3>3, <3>5, <3>6, <3>7, ResolveIs DEF RowHolds
    <3>9. Encode(q, i) = s
      <4>1. q = Stage(p, q.W)
        BY <3>8 DEF Resolve, Stage
      <4> QED BY <4>1
    <3> HIDE DEF q
    <3>10. BuilderPage(s.p) /\ BuilderCalls(s.W) /\ \A j \in AllRows : RowHolds(s.p, s.W, j)
      BY <2>2, <3>3, <3>8, EncodeIs
    <3> HIDE DEF s
    <3> QED BY <3>1, <3>9, <3>10, TurnsKeep
  <2>6. CASE ~(outcome = "verified" /\ b.of # r.of) /\ (outcome = "unverified" \/ (outcome = "error" /\ r.live))
    <3> DEFINE p == [page EXCEPT !.keys[r.row].failed = TRUE]
    <3>1. page' = p /\ wire' = rest
      BY <1>13, <2>6 DEF LookupArrives, Turns, Stage
    <3>2. /\ BuilderPage(p) /\ p.left = page.left /\ p.target = page.target /\ p.rows = page.rows
          /\ p.keys[i].on = b.on /\ p.keys[i].failed /\ p.keys[i].loading = b.loading /\ p.keys[i].built = b.built
          /\ p.keys[i].moved = b.moved /\ KeyParams(p.keys[i]) = KeyParams(b)
          /\ \A j \in AllRows \ {i} : p.keys[j] = page.keys[j]
      <4> DEFINE k == [page.keys[r.row] EXCEPT !.failed = TRUE]
      <4>1. page.keys \in [AllRows -> KeySet]
        BY <2>2 DEF BuilderPage
      <4>2. k \in KeySet /\ k.on = b.on /\ k.failed /\ k.loading = b.loading /\ k.built = b.built /\ k.moved = b.moved
            /\ KeyParams(k) = KeyParams(b)
        BY <2>2, <4>1 DEF KeySet, KeyParams
      <4>3. p = [page EXCEPT !.keys[i] = k]
        BY <2>2, <4>1 DEF BuilderPage
      <4>4. p.keys[i] = k /\ BuilderPage(p) /\ p.left = page.left /\ p.target = page.target /\ p.rows = page.rows
            /\ \A j \in AllRows \ {i} : p.keys[j] = page.keys[j]
        <5> HIDE DEF k, p, i
        <5> QED BY <2>2, <4>2, <4>3 DEF BuilderPage
      <4> HIDE DEF k, p
      <4> QED BY <4>2, <4>4
    <3> HIDE DEF p, i
    <3>3. \A j \in AllRows \ {i} : RowHolds(p, rest, j)
      BY <3>2, RowUntouched DEF BuilderInv, i
    <3>4. RowHolds(p, rest, i)
      <4>1. CallsOfRow(p, rest, i) /\ RowEncodes(p, rest, i) /\ RowLooksUp(p, rest, i) /\ RowLoads(p, rest, i)
        BY <2>1, <2>3, <3>2 DEF RowHolds, CallsOfRow, RowEncodes, RowLooksUp, RowLoads
      <4>2. RowAgrees(p, rest, i)
        BY <2>1, <2>3, <3>2 DEF RowHolds, RowAgrees
      <4> QED BY <4>1, <4>2 DEF RowHolds
    <3> QED BY <2>2, <3>1, <3>2, <3>3, <3>4, TurnsKeep
  <2>7. CASE ~(outcome = "verified" /\ b.of # r.of) /\ ~(outcome = "unverified" \/ (outcome = "error" /\ r.live))
    <3>1. page' = page /\ wire' = rest
      BY <1>13, <2>7 DEF LookupArrives, Turns, Stage
    <3>2. b.of = r.of \/ ~r.live
      BY <2>7
    <3> HIDE DEF i
    <3>3. \A j \in AllRows \ {i} : RowHolds(page, rest, j)
      BY RowUntouched DEF BuilderInv, i
    <3>4. RowHolds(page, rest, i)
      <4>1. CallsOfRow(page, rest, i) /\ RowEncodes(page, rest, i) /\ RowLoads(page, rest, i)
        BY <2>1, <2>3 DEF RowHolds, CallsOfRow, RowEncodes, RowLoads
      <4>2. RowAgrees(page, rest, i)
        BY <2>1, <2>3 DEF RowHolds, RowAgrees
      <4>3. RowLooksUp(page, rest, i)
        BY <2>3, <2>4, <3>2 DEF RowHolds, RowLooksUp
      <4> QED BY <4>1, <4>2, <4>3 DEF RowHolds
    <3> QED BY <2>2, <3>1, <3>3, <3>4, TurnsKeep
  <2> QED BY <2>5, <2>6, <2>7
<1>14. ASSUME NEW r \in wire, NEW heard \in BOOLEAN, DestinationsArrive(r, heard) PROVE BuilderInv'
  <2> DEFINE u == IF heard THEN [page EXCEPT !.offered = db.destinations] ELSE page
  <2>1. page' = u /\ wire' = (wire \ {r}) \cup {}
    BY <1>14 DEF DestinationsArrive, Show, Call, Then
  <2>2. BuilderPage(u) /\ u.keys = page.keys /\ u.rows = page.rows /\ u.left = page.left /\ u.target = page.target
    BY DEF BuilderInv, BuilderPage
  <2> HIDE DEF u
  <2>3. r.row = 0
    BY <1>14 DEF DestinationsArrive, BuilderInv, BuilderCalls
  <2>4. BuilderCalls(wire')
    BY <2>1 DEF BuilderInv, BuilderCalls
  <2> QED BY <2>1, <2>2, <2>3, <2>4, RowsUntouched
<1>15. ASSUME NEW r \in wire, NEW heard \in BOOLEAN, AlertSaved(r, heard) PROVE BuilderInv'
  <2> DEFINE u == [page EXCEPT !.busy = FALSE]
  <2>1. CASE heard
    BY <1>15, <2>1, BuilderIsLeft DEF AlertSaved
  <2>2. CASE ~heard
    <3>1. page' = u /\ wire' = (wire \ {r}) \cup {} /\ r.row = 0
      BY <1>15, <2>2 DEF AlertSaved, Then, BuilderInv, BuilderCalls
    <3>2. BuilderPage(u) /\ u.keys = page.keys /\ u.rows = page.rows /\ u.left = page.left /\ u.target = page.target
      BY DEF BuilderInv, BuilderPage
    <3> HIDE DEF u
    <3>3. BuilderCalls(wire')
      BY <3>1 DEF BuilderInv, BuilderCalls
    <3> QED BY <3>1, <3>2, <3>3, RowsUntouched
  <2> QED BY <2>1, <2>2
<1>16. ASSUME NEW r \in wire, NEW heard \in BOOLEAN, KeyArrives(r, heard) PROVE BuilderInv'
  <2> DEFINE i == r.row
             p == IF heard THEN [page EXCEPT !.keys[r.row].built = r.key, !.rows[r.row].params = r.key]
                  ELSE [page EXCEPT !.keys[r.row].built = Params("default")]
             W == wire \ {r}
  <2>1. r.op = "encode" /\ page' = p /\ wire' = W
    BY <1>16 DEF KeyArrives, Then
  <2>2. i \in AllRows /\ r.key \in ParamSet
    BY <2>1 DEF BuilderInv, BuilderCalls, BuilderCallSet
  <2>3. RowHolds(page, wire, i)
    BY <2>2 DEF BuilderInv
  <2>4. page.keys[i].on /\ i \in DOMAIN page.rows /\ r.key = KeyParams(page.keys[i])
    BY <2>1, <2>3 DEF RowHolds, CallsOfRow, RowEncodes
  <2>5. \A c \in ConditionSet : [c EXCEPT !.params = r.key] \in ConditionSet /\ [c EXCEPT !.params = r.key].params = r.key
    BY <2>2 DEF ConditionSet
  <2>6. \A b \in KeySet : \A built \in ParamSet :
          LET c == [b EXCEPT !.built = built]
          IN /\ c \in KeySet /\ c.on = b.on /\ c.of = b.of /\ c.failed = b.failed /\ c.loading = b.loading /\ c.moved = b.moved
             /\ KeyParams(c) = KeyParams(b) /\ c.built = built
    BY DEF KeySet, KeyParams
  <2>7. page.rows \in Seq(ConditionSet) /\ page.keys \in [AllRows -> KeySet]
    BY DEF BuilderInv, BuilderPage
  <2>8. PICK built \in ParamSet : /\ p.keys = [page.keys EXCEPT ![i] = [page.keys[i] EXCEPT !.built = built]]
                                 /\ DOMAIN p = DOMAIN page /\ p.at = page.at /\ p.left = page.left /\ p.target = page.target
                                 /\ \/ heard /\ p.rows = [page.rows EXCEPT ![i] = [page.rows[i] EXCEPT !.params = r.key]]
                                    \/ ~heard /\ p.rows = page.rows /\ built.by = "default"
    <3>1. CASE heard
      BY <2>2, <3>1 DEF BuilderInv, BuilderPage
    <3>2. CASE ~heard
      BY <3>2, ParamsIs DEF BuilderInv, BuilderPage
    <3> QED BY <3>1, <3>2
  <2> HIDE DEF p, i
  <2>9. /\ p.keys \in [AllRows -> KeySet] /\ \A j \in AllRows \ {i} : p.keys[j] = page.keys[j]
        /\ p.keys[i].on = page.keys[i].on /\ p.keys[i].of = page.keys[i].of /\ p.keys[i].failed = page.keys[i].failed
        /\ p.keys[i].loading = page.keys[i].loading /\ KeyParams(p.keys[i]) = KeyParams(page.keys[i]) /\ p.keys[i].built = built
    <3>1. page.keys[i] \in KeySet /\ p.keys[i] = [page.keys[i] EXCEPT !.built = built]
      BY <2>2, <2>7, <2>8
    <3>2. LET c == p.keys[i] b == page.keys[i]
          IN /\ c \in KeySet /\ c.on = b.on /\ c.of = b.of /\ c.failed = b.failed /\ c.loading = b.loading /\ c.moved = b.moved
             /\ KeyParams(c) = KeyParams(b) /\ c.built = built
      BY <2>6, <3>1
    <3> QED BY <2>2, <2>7, <2>8, <3>2
  <2>10. /\ p.rows \in Seq(ConditionSet) /\ DOMAIN p.rows = DOMAIN page.rows
         /\ \A j \in DOMAIN page.rows : j # i => p.rows[j] = page.rows[j]
         /\ heard => p.rows[i].params = r.key
    <3>1. CASE heard
      <4>1. page.rows[i] \in ConditionSet /\ i \in DOMAIN page.rows
        BY <2>4, <2>7
      <4> DEFINE c == [page.rows[i] EXCEPT !.params = r.key]
      <4>2. c \in ConditionSet /\ c.params = r.key
        BY <2>5, <4>1
      <4>3. p.rows = [page.rows EXCEPT ![i] = c]
        BY <2>8, <3>1
      <4> HIDE DEF c
      <4> QED BY <2>7, <4>1, <4>2, <4>3
    <3>2. CASE ~heard
      BY <2>7, <2>8, <3>2
    <3> QED BY <3>1, <3>2
  <2>11. BuilderPage(p)
    BY <2>8, <2>9, <2>10 DEF BuilderInv, BuilderPage
  <2>12. BuilderCalls(W)
    BY DEF BuilderInv, BuilderCalls
  <2>13. ASSUME NEW j \in AllRows, j # i PROVE RowHolds(p, W, j)
    BY <2>8, <2>9, <2>10, <2>13, RowUntouched DEF BuilderInv, i
  <2>14. RowHolds(p, W, i)
    <3>1. CallsOfRow(p, W, i) /\ RowEncodes(p, W, i)
      BY <2>3, <2>9, <2>10 DEF RowHolds, CallsOfRow, RowEncodes
    <3>2. RowLooksUp(p, W, i) /\ RowLoads(p, W, i)
      BY <2>1, <2>3, <2>8, <2>9 DEF RowHolds, RowLooksUp, RowLoads, Address
    <3>3. RowAgrees(p, W, i)
      BY <2>4, <2>8, <2>9, <2>10 DEF RowAgrees
    <3> QED BY <3>1, <3>2, <3>3 DEF RowHolds
  <2> QED BY <2>1, <2>11, <2>12, <2>13, <2>14, TurnsKeep
<1>17. ASSUME NEW r \in wire, NEW heard \in BOOLEAN, NEW first \in Variants \cup {None}, SchemaArrives(r, heard, first) PROVE BuilderInv'
  <2> DEFINE i == r.row
             W == wire \ {r}
             idle == [page EXCEPT !.keys[r.row].loading = FALSE]
             p == IF heard THEN [idle EXCEPT !.keys[r.row].variant = first, !.keys[r.row].entry = "empty"] ELSE idle
             s == Encode(Stage(p, W), i)
  <2>1. r.op = "schema"
    BY <1>17 DEF SchemaArrives
  <2>2. i \in AllRows
    BY <2>1 DEF BuilderInv, BuilderCalls
  <2>3. RowHolds(page, wire, i)
    BY <2>2 DEF BuilderInv
  <2>4. page.keys[i].on
    BY <2>3 DEF RowHolds, CallsOfRow
  <2>5. /\ BuilderPage(p) /\ p.left = page.left /\ p.target = page.target /\ p.rows = page.rows
        /\ p.keys[i].on = page.keys[i].on /\ p.keys[i].of = page.keys[i].of /\ p.keys[i].failed = page.keys[i].failed
        /\ ~p.keys[i].loading /\ \A j \in AllRows \ {i} : p.keys[j] = page.keys[j]
        /\ ~heard => /\ KeyParams(p.keys[i]) = KeyParams(page.keys[i]) /\ p.keys[i].built = page.keys[i].built
                     /\ p.keys[i].moved = page.keys[i].moved
    <3> DEFINE b == page.keys[r.row]
    <3>1. b \in KeySet /\ page.keys \in [AllRows -> KeySet] /\ BuilderPage(page)
      BY <2>2 DEF BuilderInv, BuilderPage
    <3>2. CASE heard
      <4> DEFINE k == [b EXCEPT !.loading = FALSE, !.variant = first, !.entry = "empty"]
      <4>1. k \in KeySet /\ k.on = b.on /\ k.of = b.of /\ k.failed = b.failed /\ ~k.loading
        BY <3>1 DEF KeySet, Entries
      <4>2. p = [page EXCEPT !.keys[i] = k]
        BY <2>2, <3>1, <3>2 DEF BuilderPage
      <4> HIDE DEF k, p
      <4> QED BY <2>2, <3>1, <3>2, <4>1, <4>2, KeyIsSet
    <3>3. CASE ~heard
      <4> DEFINE k == [b EXCEPT !.loading = FALSE]
      <4>1. k \in KeySet /\ k.on = b.on /\ k.of = b.of /\ k.failed = b.failed /\ ~k.loading
            /\ KeyParams(k) = KeyParams(b) /\ k.built = b.built /\ k.moved = b.moved
        BY <3>1 DEF KeySet, KeyParams
      <4>2. p = [page EXCEPT !.keys[i] = k]
        BY <2>2, <3>1, <3>3 DEF BuilderPage
      <4> HIDE DEF k, p
      <4> QED BY <2>2, <3>1, <4>1, <4>2, KeyIsSet
    <3> QED BY <3>2, <3>3
  <2>6. BuilderCalls(W)
    BY DEF BuilderInv, BuilderCalls
  <2>7. heard => page' = s.p /\ wire' = s.W
    BY <1>17 DEF SchemaArrives, Turns
  <2>8. ~heard => page' = p /\ wire' = W
    BY <1>17 DEF SchemaArrives, Turns, Stage
  <2> HIDE DEF p, i
  <2>9. ASSUME NEW j \in AllRows \ {i} PROVE RowHolds(p, W, j)
    BY <2>5, RowUntouched DEF BuilderInv, i
  <2>10. CallsOfRow(p, W, i) /\ RowLooksUp(p, W, i) /\ RowLoads(p, W, i)
    BY <2>1, <2>3, <2>5 DEF RowHolds, CallsOfRow, RowLooksUp, RowLoads, Address
  <2>11. CASE heard
    <3>1. BuilderPage(s.p) /\ BuilderCalls(s.W) /\ \A j \in AllRows : RowHolds(s.p, s.W, j)
      BY <2>2, <2>4, <2>5, <2>6, <2>9, <2>10, EncodeIs
    <3> HIDE DEF s
    <3> QED BY <2>7, <2>11, <3>1, TurnsKeep
  <2>12. CASE ~heard
    <3>1. RowEncodes(p, W, i) /\ RowAgrees(p, W, i)
      BY <2>1, <2>3, <2>5, <2>12 DEF RowHolds, RowEncodes, RowAgrees
    <3> QED BY <2>5, <2>6, <2>8, <2>9, <2>10, <2>12, <3>1, TurnsKeep DEF RowHolds
  <2> QED BY <2>11, <2>12
<1> QED
  BY <1>1, <1>2, <1>3, <1>4, <1>5, <1>6, <1>7, <1>8, <1>9, <1>10, <1>11, <1>12, <1>13, <1>14,
    <1>15, <1>16, <1>17 DEF BuilderNext

\* While the accounts are mounted, every step keeps the invariant.
LEMMA WalletsKeeps ==
  ASSUME WalletsInv, [Next]_hostVars
  PROVE  WalletsInv'
<1>1. page.at = "wallets"
  BY DEF WalletsInv, WalletsFields
<1>2. CASE WalletsNext
  BY <1>2, WalletsStep
<1>3. CASE UNCHANGED hostVars
  BY <1>3 DEF WalletsInv, WalletsFields, CatalogueCalls, LookupsAreCurrent, VerifiedIsFound, TrackedWasFound,
      CatalogueRows, AnswersAreCurrent, ListFollows, Completes, hostVars
<1> QED BY <1>1, <1>2, <1>3, OnePageSteps

\* While the contracts are mounted, every step keeps the invariant.
LEMMA ContractsKeeps ==
  ASSUME ContractsInv, [Next]_hostVars
  PROVE  ContractsInv'
<1>1. page.at = "contracts"
  BY DEF ContractsInv, ContractsFields
<1>2. CASE ContractsNext
  BY <1>2, ContractsStep
<1>3. CASE UNCHANGED hostVars
  BY <1>3 DEF ContractsInv, ContractsFields, CatalogueCalls, CatalogueRows, CatalogueIsDistinct,
      AnswersAreCurrent, ListFollows, Completes, hostVars
<1> QED BY <1>1, <1>2, <1>3, OnePageSteps

\* While the alert rules are mounted, every step keeps the invariant.
LEMMA AlertsKeeps ==
  ASSUME AlertsInv, [Next]_hostVars
  PROVE  AlertsInv'
<1>1. page.at = "alerts"
  BY DEF AlertsInv, AlertsFields
<1>2. CASE AlertsNext
  BY <1>2, AlertsStep
<1>3. CASE UNCHANGED hostVars
  BY <1>3 DEF AlertsInv, AlertsFields, RuleCalls, OneAtATime, RuleAnswersAreCurrent, DeletedAreGone, RulesListFollows,
      RoundIsOfTheList, Gone, hostVars
<1> QED BY <1>1, <1>2, <1>3, OnePageSteps

\* While the builder of a rule is mounted, every step keeps the invariant.
LEMMA BuilderKeeps ==
  ASSUME BuilderInv, [Next]_hostVars
  PROVE  BuilderInv'
<1>1. page.at = "builder"
  BY DEF BuilderInv, BuilderPage
<1>2. CASE BuilderNext
  BY <1>2, BuilderStep
<1>3. CASE UNCHANGED hostVars
  BY <1>3 DEF BuilderInv, hostVars
<1> QED BY <1>1, <1>2, <1>3, OnePageSteps

-----------------------------------------------------------------------------
(* All pages *)

\* The page that is mounted is in its invariant.
PagesInv ==
    \/ SignInInv \/ OrgProjectsInv \/ OrgSettingsInv \/ MembersInv
    \/ ShellInv \/ WalletsInv \/ ContractsInv \/ AlertsInv \/ BuilderInv

\* The invariant holds when a page is opened.
LEMMA PagesStart == Init => PagesInv
BY SignInStart, OrgProjectsStart, OrgSettingsStart, MembersStart, ShellStart, WalletsStart, ContractsStart,
   AlertsStart, BuilderStart DEF Init, PagesInv

\* Every step of every page keeps it.
LEMMA PagesStep == PagesInv /\ [Next]_hostVars => PagesInv'
<1> SUFFICES ASSUME PagesInv, [Next]_hostVars PROVE PagesInv'
  OBVIOUS
<1> QED
  BY SignInKeeps, OrgProjectsKeeps, OrgSettingsKeeps, MembersKeeps, ShellKeeps, WalletsKeeps, ContractsKeeps,
     AlertsKeeps, BuilderKeeps DEF PagesInv

\* Whichever page is visited, its invariant holds of every reachable state.
THEOREM PagesCorrect == Spec => []PagesInv
BY PagesStart, PagesStep, PTL DEF Spec

\* The page that is mounted decides whose invariant holds.
LEMMA MountedHolds ==
  ASSUME PagesInv
  PROVE  /\ page.at = "signin" => SignInInv
         /\ page.at \in {"orgprojects", "orgcreate"} => OrgProjectsInv
         /\ page.at = "orgsettings" => OrgSettingsInv
         /\ page.at = "members" => MembersInv
         /\ page.at = "shell" => ShellInv
         /\ page.at = "wallets" => WalletsInv
         /\ page.at = "contracts" => ContractsInv
         /\ page.at = "alerts" => AlertsInv
         /\ page.at = "builder" => BuilderInv
<1>1. SignInInv => page.at = "signin"
  BY DEF SignInInv, SignInFields
<1>2. OrgProjectsInv => page.at \in {"orgprojects", "orglist", "orgcreate"}
  BY DEF OrgProjectsInv, OrgProjectsFields
<1>3. OrgSettingsInv => page.at = "orgsettings"
  BY DEF OrgSettingsInv, SettingsFields
<1>4. MembersInv => page.at = "members"
  BY DEF MembersInv, MembersFields
<1>5. ShellInv => page.at = "shell"
  BY DEF ShellInv, ShellShape
<1>6. WalletsInv => page.at = "wallets"
  BY DEF WalletsInv, WalletsFields
<1>7. ContractsInv => page.at = "contracts"
  BY DEF ContractsInv, ContractsFields
<1>8. AlertsInv => page.at = "alerts"
  BY DEF AlertsInv, AlertsFields
<1>9. BuilderInv => page.at = "builder"
  BY DEF BuilderInv, BuilderPage
<1> QED BY <1>1, <1>2, <1>3, <1>4, <1>5, <1>6, <1>7, <1>8, <1>9 DEF PagesInv

\* What the invariants say of the pages, as the runs ask it.
LEMMA PagesHold ==
  ASSUME PagesInv
  PROVE  ListsAgree /\ CatalogHolds /\ ScopeHolds /\ AccountHolds /\ ViewsHold
<1>1. WalletsListAgrees
  BY MountedHolds, WalletsListIsCatalogue DEF WalletsListAgrees
<1>2. ContractsListAgrees
  BY MountedHolds, ContractsListIsCatalogue DEF ContractsListAgrees
<1>3. RulesListAgrees
  BY MountedHolds, RulesListIsTheServers DEF RulesListAgrees
<1>4. MembersAgree
  BY MountedHolds, MembersHold DEF MembersAgree
<1>5. TokensAgree
  BY MountedHolds, OrgSettingsHold DEF TokensAgree
<1>6. ProjectsAgree
  BY MountedHolds, OrgProjectsHold DEF ProjectsAgree
<1>7. TrackedWasFound
  BY MountedHolds, WalletsListIsCatalogue DEF TrackedWasFound
<1>8. ContractsAreDistinct
  BY MountedHolds, ContractsListIsCatalogue DEF ContractsAreDistinct
<1>9. ScopeCoherent
  BY MountedHolds, ShellHolds DEF ScopeCoherent
<1>10. ScopeFollowsUrl
  BY MountedHolds, ShellHolds DEF ScopeFollowsUrl
<1>11. OpensWhatItRemembers
  BY MountedHolds, OrgProjectsHold DEF OpensWhatItRemembers
<1>12. EntersAsMember
  BY MountedHolds, SignInHolds DEF EntersAsMember
<1>13. NothingUnclaimed
  BY MountedHolds, SignInHolds DEF NothingUnclaimed
<1>14. OneOrganization
  BY MountedHolds, OrgProjectsHold DEF OneOrganization
<1>15. HeaderAgrees
  BY MountedHolds, OrgSettingsHold DEF HeaderAgrees
<1>16. AskedForThisOne
  BY MountedHolds, MembersHold DEF AskedForThisOne
<1>17. HistoryIsOfTheList
  BY MountedHolds, RulesListIsTheServers DEF HistoryIsOfTheList
<1>18. ConditionsAgree
  BY MountedHolds, BuilderHolds DEF ConditionsAgree
<1>19. KeysGoOn
  BY MountedHolds, BuilderHolds DEF KeysGoOn
<1> QED
  BY <1>1, <1>2, <1>3, <1>4, <1>5, <1>6, <1>7, <1>8, <1>9, <1>10,
     <1>11, <1>12, <1>13, <1>14, <1>15, <1>16, <1>17, <1>18, <1>19
  DEF ListsAgree, CatalogHolds, ScopeHolds, AccountHolds, ViewsHold

\* A list on display is the server's once every answer was heard, however the
\* user's creations, edits and removals and their answers interleave.
THEOREM ListsAlwaysAgree == Spec => []ListsAgree
BY PagesStart, PagesStep, PagesHold, PTL DEF Spec

\* The catalogues of accounts and contracts hold what was found, and nothing twice.
THEOREM CatalogAlwaysHolds == Spec => []CatalogHolds
BY PagesStart, PagesStep, PagesHold, PTL DEF Spec

\* The organization, the project, the browser's memory and the URL belong
\* together, and who enters an organization is a member.
THEOREM ScopeAlwaysHolds == Spec => []ScopeHolds
BY PagesStart, PagesStep, PagesHold, PTL DEF Spec

\* An invitation is claimed by whom it is for, and an organization is created once.
THEOREM AccountAlwaysHolds == Spec => []AccountHolds
BY PagesStart, PagesStep, PagesHold, PTL DEF Spec

\* What is announced, confirmed or saved is of what the page shows by then.
THEOREM ViewsAlwaysHold == Spec => []ViewsHold
BY PagesStart, PagesStep, PagesHold, PTL DEF Spec
=============================================================================
