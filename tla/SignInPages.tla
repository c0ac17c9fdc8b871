----------------------------- MODULE SignInPages -----------------------------
(***************************************************************************)
(* The way into the application: the forms that sign in and up             *)
(* (auth-form.tsx), the guard of the routes (conditional-shell.tsx), what  *)
(* the tab knows of its session (auth-context.tsx), and the page that      *)
(* accepts an invitation (invite-accept.tsx).  One browser and one account;*)
(* one invitation, to the e-mail address of the account or to another.     *)
(*                                                                         *)
(* The server's part of an invitation is modelled too (orgs.rs): inviting, *)
(* revoking, accepting, and the claim that follows a sign-up.              *)
(***************************************************************************)
EXTENDS PageHost

\* app: the list of organizations; organization: the one of the invitation
Routes == {"signin", "signup", "invite", "app", "organization"}

AuthCall(op) == [op |-> op, for |-> None, out |-> "sent", status |-> None]

\* auth: what the tab knows; next: where the guard asked to come back to;
\* preview: the status of the invitation when the page read it
SignInMounted(route) == [at |-> "signin", route |-> route, auth |-> "loading", next |-> None, busy |-> FALSE,
    oauth |-> FALSE, preview |-> None, entering |-> FALSE, accepted |-> FALSE, calls |-> 0]

Loads(route) == {AuthCall("me")} \cup IF route = "invite" THEN {AuthCall("preview")} ELSE {}

\* asking: invite_member has looked for the account; claiming: a sign-up has not
\* claimed its invitations yet.  Of the history, crossed: an invitation was
\* written that a sign-up could not see; unclaimed: a claim failed; removed: a
\* member was removed; refused: the invited account was refused.
SignInInit ==
    /\ \E route \in Routes \ {"organization"} : page = SignInMounted(route) /\ wire = Loads(route)
    /\ \E account, mine, session, asking \in BOOLEAN :
         /\ session => account
         /\ db = [account |-> account, mine |-> mine, session |-> session, invite |-> "none", member |-> FALSE,
                  asking |-> asking, claiming |-> FALSE, crossed |-> FALSE, unclaimed |-> FALSE, removed |-> FALSE, refused |-> FALSE]

-----------------------------------------------------------------------------
(* What the tab knows of its session *)

\* The guard: a route of the application without a user leads to the sign-in.
Guarded(p) ==
    IF p.route \in {"app", "organization"} /\ p.auth = "out" THEN [p EXCEPT !.route = "signin", !.next = p.route] ELSE p

\* An answer other than "not signed in" leaves the tab without a user too.
MeArrives(r, heard) ==
    /\ r \in wire /\ r.op = "me" /\ r.for = None
    /\ Then(Guarded([page EXCEPT !.auth = IF heard /\ db.session THEN "in" ELSE "out"]), r, {})

Logout == /\ page.at = "signin" /\ page.route \in {"app", "organization"} /\ page.auth = "in"
          /\ Call(page, AuthCall("logout"))
LoggedOut(r, heard) ==
    /\ r \in wire /\ r.op = "logout"
    /\ heard => r.out = "ok"
    /\ Then(Guarded([page EXCEPT !.auth = "out"]), r, {})

-----------------------------------------------------------------------------
(* The forms *)

\* A sign-up whose passwords differ sends nothing.
Submit ==
    /\ page.at = "signin" /\ page.route \in {"signin", "signup"} /\ ~page.busy /\ page.auth # "loading"
    /\ Call([page EXCEPT !.busy = TRUE],
            IF page.route = "signin" THEN [AuthCall("login") EXCEPT !.for = "signin"] ELSE AuthCall("signup"))

\* The new account signs in at once.
SignedUp(r, heard) ==
    /\ r \in wire /\ r.op = "signup"
    /\ heard => r.out = "ok"
    /\ IF heard THEN Then(page, r, {[AuthCall("login") EXCEPT !.for = "signup"]})
       ELSE Then([page EXCEPT !.busy = FALSE], r, {})

\* After a failed first sign-in the form of the sign-in comes up.
LoginFails(p, r) == [p EXCEPT !.busy = FALSE, !.route = IF r.for = "signup" THEN "signin" ELSE @]

\* login: the cookies come with the first answer, the user with a second call.
LoginArrives(r, heard) ==
    /\ r \in wire /\ r.op = "login"
    /\ heard => r.out = "ok"
    /\ IF heard THEN Then(page, r, {[AuthCall("me") EXCEPT !.for = r.for]})
       ELSE Then(LoginFails(page, r), r, {})

\* Wherever the guard came from, a sign-in goes on to the organizations, and a
\* sign-up to the projects of the first one, if that can be read.
LoginLoads(r, heard) ==
    /\ r \in wire /\ r.op = "me" /\ r.for # None
    /\ heard => db.session
    /\ Then(IF heard THEN [page EXCEPT !.auth = "in", !.busy = FALSE, !.route = "app"] ELSE LoginFails(page, r), r, {})

StartOAuth ==
    /\ page.at = "signin" /\ page.route \in {"signin", "signup"} /\ ~page.oauth
    /\ Call([page EXCEPT !.oauth = TRUE], AuthCall("oauth"))

\* The provider's page comes between, and then the application is loaded anew.
OAuthReturns(r, heard) ==
    /\ r \in wire /\ r.op = "oauth"
    /\ heard => r.out = "ok"
    /\ IF heard THEN /\ page' = [SignInMounted("app") EXCEPT !.calls = page.calls]
                     /\ wire' = Loads("app")
                     /\ UNCHANGED db
       ELSE Then([page EXCEPT !.oauth = FALSE], r, {})

-----------------------------------------------------------------------------
(* The page of the invitation *)

\* the link of the e-mail: the application is loaded anew
OpenInvitation ==
    /\ page.at = "signin" /\ page.route \in {"signin", "app"} /\ page.calls < MaxCalls
    /\ page' = [SignInMounted("invite") EXCEPT !.calls = page.calls + 1]
    /\ wire' = Loads("invite")
    /\ UNCHANGED db

PreviewArrives(r, heard) ==
    /\ r \in wire /\ r.op = "preview"
    /\ heard => db.invite # "none"
    /\ Then(IF heard THEN [page EXCEPT !.preview = db.invite] ELSE page, r, {})

\* who is not signed in is offered the two forms
LeaveForForm(route) ==
    /\ page.at = "signin" /\ page.route = "invite" /\ page.preview # None /\ page.auth = "out"
    /\ Show([page EXCEPT !.route = route, !.next = IF route = "signin" THEN "invite" ELSE @])

Enter ==
    /\ page.at = "signin" /\ page.route = "invite" /\ page.auth = "in"
    /\ page.preview = "pending" /\ ~page.entering /\ ~page.accepted
    /\ Call([page EXCEPT !.entering = TRUE], AuthCall("accept"))

\* 409 is taken to mean that the user is a member already.
Accepted(r, heard) ==
    /\ r \in wire /\ r.op = "accept"
    /\ heard => r.out # "sent"
    /\ LET idle == [page EXCEPT !.entering = FALSE]
       IN Then(CASE heard /\ r.status = "ok" -> [idle EXCEPT !.accepted = TRUE]
                 [] heard /\ r.status = "conflict" -> [idle EXCEPT !.route = "organization"]
                 [] OTHER -> idle, r, {})
\* a moment later
GoIn == page.at = "signin" /\ page.route = "invite" /\ page.accepted /\ Show([page EXCEPT !.route = "organization"])

-----------------------------------------------------------------------------
(* The server *)

Answer(r, status) == wire' = (wire \ {r}) \cup {[r EXCEPT !.out = IF status = "ok" THEN "ok" ELSE "fail", !.status = status]}

\* The sessions themselves are in BrowserSession.
ServeLogin(r) ==
    /\ r.op \in {"login", "logout"} /\ r.out = "sent"
    /\ r.op = "login" => db.account
    /\ db' = [db EXCEPT !.session = r.op = "login"]
    /\ Answer(r, "ok")
    /\ UNCHANGED page

\* signup, and the first sign-in with a provider: the account is committed
\* before its invitations are claimed.
ServeSignUp(r) ==
    /\ r.op \in {"signup", "oauth"} /\ r.out = "sent" /\ ~db.claiming
    /\ IF db.account THEN /\ r.op = "oauth"
                          /\ db' = [db EXCEPT !.session = TRUE]
                          /\ Answer(r, "ok")
       ELSE /\ db' = [db EXCEPT !.account = TRUE, !.claiming = TRUE]
            /\ UNCHANGED wire
    /\ UNCHANGED page

\* claim_invitations_for_email, whose failure is only logged
Claim(r, works) ==
    /\ r.op \in {"signup", "oauth"} /\ r.out = "sent" /\ db.claiming
    /\ LET claimed == works /\ db.mine /\ db.invite = "pending"
       IN db' = [db EXCEPT !.claiming = FALSE, !.session = @ \/ r.op = "oauth", !.unclaimed = @ \/ ~works,
                           !.invite = IF claimed THEN "accepted" ELSE @, !.member = @ \/ claimed]
    /\ Answer(r, "ok")
    /\ UNCHANGED page

\* Somebody who manages the organization's members invites the address: an
\* account becomes a member, ...
InviteAccount ==
    /\ db.mine /\ db.account /\ ~db.member
    /\ db' = [db EXCEPT !.member = TRUE]
    /\ UNCHANGED <<page, wire>>
\* ... and an address without an account gets an invitation, in a second statement.
InviteAsks ==
    /\ ~(db.mine /\ db.account) /\ ~db.asking /\ db.invite # "pending"
    /\ db' = [db EXCEPT !.asking = TRUE]
    /\ UNCHANGED <<page, wire>>
InviteWrites ==
    /\ db.asking
    /\ db' = [db EXCEPT !.asking = FALSE, !.invite = "pending", !.crossed = @ \/ (db.mine /\ db.account)]
    /\ UNCHANGED <<page, wire>>
RevokeInvite ==
    /\ db.invite = "pending"
    /\ db' = [db EXCEPT !.invite = "revoked"]
    /\ UNCHANGED <<page, wire>>
RemoveAccount ==
    /\ db.member
    /\ db' = [db EXCEPT !.member = FALSE, !.removed = TRUE]
    /\ UNCHANGED <<page, wire>>

\* accept_invitation: resolve_org finds the organization among those of the
\* caller, so who is no member yet is answered "not found".
Accepts409 ==
    IF ~db.session THEN "unauthorized"
    ELSE IF ~db.member THEN "not found"
    ELSE IF db.invite # "pending" THEN "conflict"
    ELSE IF db.mine THEN "ok" ELSE "forbidden"

ServeAccept(r) ==
    LET status == Accepts409
    IN /\ r.op = "accept" /\ r.out = "sent"
       /\ db' = [db EXCEPT !.invite = IF status = "ok" THEN "accepted" ELSE @, !.member = @ \/ status = "ok",
                           !.refused = @ \/ (db.session /\ db.mine /\ db.invite = "pending" /\ status # "ok")]
       /\ Answer(r, status)
       /\ UNCHANGED page

SignInNext ==
    /\ page.at = "signin"
    /\ \/ Submit \/ StartOAuth \/ Logout \/ OpenInvitation \/ Enter \/ GoIn
       \/ \E route \in {"signin", "signup"} : LeaveForForm(route)
       \/ InviteAccount \/ InviteAsks \/ InviteWrites \/ RevokeInvite \/ RemoveAccount
       \/ \E r \in wire :
            \/ ServeLogin(r) \/ ServeSignUp(r) \/ ServeAccept(r)
            \/ \E b \in BOOLEAN :
                 \/ Claim(r, b) \/ MeArrives(r, b) \/ LoggedOut(r, b) \/ SignedUp(r, b) \/ LoginArrives(r, b)
                 \/ LoginLoads(r, b) \/ OAuthReturns(r, b) \/ PreviewArrives(r, b) \/ Accepted(r, b)

SignInSpec == SignInInit /\ [][SignInNext]_hostVars

-----------------------------------------------------------------------------
(* Properties *)

SignInTypeOK == page.at = "signin" =>
    /\ page.route \in Routes /\ page.auth \in {"loading", "in", "out"}
    /\ db.invite \in {"none", "pending", "accepted", "revoked"}

\* Who is led into the organization of an invitation is a member of it, unless
\* removed since: the page takes every 409 for "already a member", also that of
\* an invitation that was revoked after the page had read it.
EntersAsMember == page.at = "signin" =>
    (page.route = "organization" => db.member \/ db.removed)

\* An account has no invitation left to accept: inviting an account makes it a
\* member, and a sign-up claims what was there before, unless the claim failed
\* or the invitation was written while the account was being created.
NothingUnclaimed == page.at = "signin" =>
    (db.mine /\ db.account /\ db.invite = "pending" => db.claiming \/ db.crossed \/ db.unclaimed)

\* "Accept a pending invitation. The caller's account email must match the
\* invitation; on success they become a member": the account an invitation is
\* for is not refused.
InvitedMayAccept == page.at = "signin" => ~db.refused
=============================================================================
