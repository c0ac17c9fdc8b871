---------------------------- MODULE ProjectShell ----------------------------
(***************************************************************************)
(* The frame around the pages of a project (ReleeveApp of releeve-app.tsx): *)
(* it decides which organization and which project the pages are about.    *)
(* The URL may name a project, the browser's memory another, the switchers *)
(* a third; three chains of calls bring the answers.                       *)
(*                                                                         *)
(* Within the frame a route is ready at once; leaving it ends the visit.   *)
(* The project's settings (ProjectSettingsPage of settings-pages.tsx) are  *)
(* here too: they rename and delete what the frame shows.                  *)
(***************************************************************************)
EXTENDS PageHost

CONSTANTS
    Orgs,         \* the user's organizations
    ProjectIds    \* their projects

ASSUME OrgsAssumption == None \notin Orgs

\* Slugs and ids name the same things, but are kept and forgotten separately.
Href == [proj : ProjectIds \cup {None}, tab : {"home", "settings"}] \cup [proj : {None}, tab : {"explorer"}]
Reachable == {u \in Href : u.proj \in Sought \/ u.tab = "explorer"}

ShellCall(op) == [op |-> op, org |-> None, who |-> None, memory |-> {}]

\* memory: what the browser remembers of the scope; adopted: the project whose
\* URL was looked up last; before: the organization the list was last read for.
\* Of the history, listOf: the organization whose projects the list holds;
\* torn: the project may be another organization's; late, cut, picked: why the
\* scope may not be the one of the URL.
ShellMounted(u, memory, orgs) == [at |-> "shell", url |-> u, left |-> FALSE, memory |-> memory, orgs |-> orgs, list |-> {},
    org |-> IF memory = {} THEN None ELSE (CHOOSE m \in memory : TRUE).org,
    project |-> IF memory = {} THEN None ELSE (CHOOSE m \in memory : TRUE).pid,
    pid |-> IF memory = {} THEN None ELSE (CHOOSE m \in memory : TRUE).pid,
    before |-> None, adopted |-> None, listOf |-> None, torn |-> FALSE, late |-> FALSE, cut |-> FALSE, picked |-> FALSE,
    form |-> None, typed |-> FALSE, busy |-> "none", calls |-> 0]

Remembered(o, p, torn) == {[org |-> o, pid |-> p, torn |-> torn]}

-----------------------------------------------------------------------------
(* The effects.  Each takes the page and the wire a handler leaves, and     *)
(* gives what React makes of them.                                          *)

Cancel(W, ops) == {r \in W : r.op \notin ops}
State(p, W) == [p |-> p, W |-> W]

\* Mutant: the project of the organization before stays
ProjectsEffectKeeping(p, W) ==
    IF p.org = None THEN State([p EXCEPT !.list = {}, !.project = None], Cancel(W, {"list"}))
    ELSE IF p.url.proj # None THEN State(p, Cancel(W, {"list"}))
    ELSE State([p EXCEPT !.before = p.org],
               Cancel(W, {"list"}) \cup {[ShellCall("list") EXCEPT !.org = p.org, !.memory = p.memory]})

\* [activeOrganization]: nothing is read on the URL of a project.
ProjectsEffect(p, W) ==
    IF p.org = None THEN State([p EXCEPT !.list = {}, !.project = None], Cancel(W, {"list"}))
    ELSE IF p.url.proj # None THEN State(p, Cancel(W, {"list"}))
    ELSE LET changed == p.before \notin {None, p.org}
         IN State([p EXCEPT !.before = p.org, !.list = IF changed THEN {} ELSE @, !.project = IF changed THEN None ELSE @],
                  Cancel(W, {"list"}) \cup {[ShellCall("list") EXCEPT !.org = p.org, !.memory = p.memory]})

\* [pathname]: a URL is looked up once, whatever becomes of the look-up.
AdoptEffect(p, W) ==
    LET going == \E r \in W : r.op \in {"adopt", "adopt projects"}
        left == Cancel(W, {"adopt", "adopt projects"})
        half == \E r \in W : r.op = "adopt projects"
        away == [p EXCEPT !.cut = @ \/ going, !.torn = @ \/ half]
    IN IF p.url.proj = None \/ p.adopted = p.url.proj THEN State(away, left)
       ELSE State([away EXCEPT !.adopted = p.url.proj, !.cut = FALSE, !.late = FALSE, !.picked = FALSE],
                  left \cup {[ShellCall("adopt") EXCEPT !.who = p.url.proj]})

\* The settings, mounted anew or for another project, read it; they start from
\* the one of the list.
InForm(p) == p.url.tab = "settings" /\ p.org # None /\ p.project # None
SettingsEffect(p, W) ==
    IF ~InForm(p) THEN State([p EXCEPT !.form = None, !.typed = FALSE, !.busy = "none"], Cancel(W, {"settings"}))
    ELSE IF InForm(page) /\ page.org = p.org /\ page.project = p.project THEN State(p, W)
    ELSE State([p EXCEPT !.form = IF InForm(page) THEN @ ELSE IF p.project \in p.list THEN p.project ELSE None],
               Cancel(W, {"settings"}) \cup {[ShellCall("settings") EXCEPT !.org = p.org, !.who = p.project]})

\* What follows a handler that leaves p and W: the effects, in the order of the
\* code, of whatever changed.
Turn(p, W) ==
    LET orgs == IF p.org = page.org THEN State(p, W) ELSE ProjectsEffect(p, W)
        url == IF p.url = page.url THEN orgs ELSE AdoptEffect(orgs.p, orgs.W)
        form == SettingsEffect(url.p, url.W)
    IN page' = form.p /\ wire' = form.W /\ UNCHANGED db
Acts(p) == page.calls < MaxCalls /\ Turn([p EXCEPT !.calls = @ + 1], wire)
Leaves(p) == page' = [p EXCEPT !.left = TRUE] /\ wire' = {} /\ UNCHANGED db

Of(p) == db.of[p]
Listing(o) == {p \in db.there : Of(p) = o}

\* The organizations are read on mounting, except on the URL of a project,
\* which is looked up instead.
ShellInit ==
    /\ db \in [of : [ProjectIds -> Orgs], there : {ProjectIds}]
    /\ \E u \in Reachable, orgs \in {{}, Orgs}, o \in Orgs, p \in ProjectIds \cup {None} :
         \E memory \in {{}, Remembered(o, p, FALSE)} :
           LET mounted == ShellMounted(u, IF p = None \/ Of(p) = o THEN memory ELSE {}, orgs)
               list == IF mounted.org = None THEN State(mounted, {}) ELSE ProjectsEffect(mounted, {})
               url == AdoptEffect(list.p, list.W)
           IN /\ page = url.p
              /\ wire = url.W \cup IF u.proj = None THEN {[ShellCall("orgs") EXCEPT !.memory = mounted.memory]} ELSE {}

-----------------------------------------------------------------------------
(* The answers *)

\* The organization becomes the remembered one, or any.
OrgsArrive(r, heard) ==
    /\ r \in wire /\ r.op = "orgs"
    /\ LET known == {m.org : m \in r.memory}
           late == page.adopted # None
       IN IF heard THEN \E o \in IF known = {} THEN Orgs ELSE known :
               Turn([page EXCEPT !.orgs = Orgs, !.org = o, !.late = @ \/ late,
                                 !.torn = @ \/ (o # page.org /\ page.url.proj # None)], wire \ {r})
          ELSE Turn([page EXCEPT !.orgs = {}, !.org = None, !.late = @ \/ late, !.torn = FALSE], wire \ {r})

\* The project becomes the remembered one if it is in the list, or any.
ScopeListArrives(r, heard) ==
    /\ r \in wire /\ r.op = "list"
    /\ LET list == Listing(r.org)
           known == {m.pid : m \in r.memory} \cap list
           shown == [page EXCEPT !.listOf = r.org, !.torn = FALSE, !.late = @ \/ page.adopted # None]
       IN IF heard /\ list # {} THEN \E p \in IF known = {} THEN list ELSE known :
               Turn([shown EXCEPT !.list = list, !.project = p, !.pid = p, !.memory = Remembered(r.org, p, FALSE)], wire \ {r})
          ELSE Turn([shown EXCEPT !.list = {}, !.project = None, !.pid = IF heard THEN None ELSE @], wire \ {r})

\* The look-up of a URL, in two parts: first the organization, ...
AdoptArrives(r, heard) ==
    /\ r \in wire /\ r.op = "adopt"
    /\ IF heard /\ r.who \in db.there
       THEN Turn([page EXCEPT !.orgs = Orgs, !.org = Of(r.who), !.before = Of(r.who)],
                 (wire \ {r}) \cup {[r EXCEPT !.op = "adopt projects", !.org = Of(r.who)]})
       ELSE Leaves(page)

\* ... then its projects, which need not arrive, and the project itself.
AdoptProjectsArrive(r, heard) ==
    /\ r \in wire /\ r.op = "adopt projects"
    /\ Turn([page EXCEPT !.list = IF heard THEN Listing(r.org) ELSE @, !.listOf = IF heard THEN r.org ELSE @,
                         !.project = r.who, !.pid = r.who, !.torn = page.org # r.org, !.memory = Remembered(r.org, r.who, FALSE)], wire \ {r})

-----------------------------------------------------------------------------
(* The switchers *)

Shown == page.at = "shell" /\ ~page.left

\* The choice of a project is left to the page of the organization.
SelectOrganization(o) ==
    /\ Shown /\ o \in page.orgs
    /\ Leaves([page EXCEPT !.org = o, !.project = None, !.pid = None, !.torn = FALSE, !.memory = Remembered(o, None, FALSE)])

\* The URL stays the one it was, and the list may still be another organization's.
SelectProject(p) ==
    /\ Shown /\ page.org # None /\ p \in page.list
    /\ LET torn == page.listOf # page.org
       IN Acts([page EXCEPT !.project = p, !.pid = p, !.torn = torn, !.picked = TRUE, !.memory = Remembered(page.org, p, torn)])

\* The network is remembered with the scope; on the explorer it is in the URL.
SelectNetwork ==
    /\ Shown /\ page.org # None /\ page.project # None
    /\ Show([page EXCEPT !.memory = Remembered(page.org, page.pid, page.torn \/ InFlight({"adopt projects"}))])

-----------------------------------------------------------------------------
(* The routes *)

\* navigate: the side bar and the search go to a section of the project that
\* the frame has, not of the one in the URL; without one, to the organizations.
NavigateTo(tab) ==
    LET href == [proj |-> IF tab = "explorer" THEN None ELSE page.pid, tab |-> tab]
    IN /\ Shown /\ href # page.url
       /\ IF tab # "explorer" /\ page.pid = None THEN Leaves(page) ELSE Acts([page EXCEPT !.url = href])

\* a link of a page, back, forward
FollowHref(u) == Shown /\ u # page.url /\ Acts([page EXCEPT !.url = u])

-----------------------------------------------------------------------------
(* The settings of the project *)

\* typed: the name in the field is not the one of the project it was read for.
SettingsArrive(r, heard) ==
    /\ r \in wire /\ r.op = "settings"
    /\ heard => r.who \in db.there
    /\ Then(IF heard THEN [page EXCEPT !.form = r.who, !.typed = FALSE] ELSE page, r, {})

OnForm == Shown /\ InForm(page)
TypeName == OnForm /\ ~page.typed /\ Show([page EXCEPT !.typed = TRUE])
SaveProject ==
    /\ OnForm /\ page.typed /\ page.busy # "general"
    /\ Call([page EXCEPT !.busy = "general"], [ShellCall("save") EXCEPT !.org = page.org, !.who = page.project])
ProjectSaved(r, heard) ==
    /\ r \in wire /\ r.op = "save"
    /\ heard => r.who \in db.there
    /\ Then(IF ~OnForm THEN page ELSE IF heard THEN [page EXCEPT !.form = r.who, !.typed = @ /\ r.who # page.form, !.busy = "none"]
            ELSE [page EXCEPT !.busy = "none"], r, {})

\* after the confirmation
DeleteProject ==
    /\ OnForm /\ page.form # None /\ page.busy # "delete"
    /\ Call([page EXCEPT !.busy = "delete"], [ShellCall("delete") EXCEPT !.org = page.org, !.who = page.project,
                                               !.memory = Remembered(page.org, page.pid, FALSE)])

\* The frame forgets whichever project it shows by now, and goes home to the id
\* of the deleted one, which it keeps.
ProjectDeleted(r, heard) ==
    /\ r \in wire /\ r.op = "delete"
    /\ LET gone == [page EXCEPT !.list = @ \ {r.who}, !.project = None, !.torn = FALSE, !.picked = TRUE,
                                !.url = [proj |-> (CHOOSE m \in r.memory : TRUE).pid, tab |-> "home"]]
       IN IF heard THEN r.who \notin db.there /\ Turn(gone, wire \ {r})
          ELSE Then([page EXCEPT !.busy = "none"], r, {})

\* The server deletes the project.
ServeDelete(r) ==
    /\ r.op = "delete" /\ r.who \in db.there /\ Of(r.who) = r.org
    /\ db' = [db EXCEPT !.there = @ \ {r.who}]
    /\ UNCHANGED <<page, wire>>

ShellNext ==
    /\ page.at = "shell"
    /\ \/ \E o \in page.orgs : SelectOrganization(o)
       \/ \E p \in page.list : SelectProject(p)
       \/ SelectNetwork \/ TypeName \/ SaveProject \/ DeleteProject
       \/ \E tab \in {"home", "settings", "explorer"} : NavigateTo(tab)
       \/ \E u \in Reachable : FollowHref(u)
       \/ \E r \in wire :
            \/ ServeDelete(r)
            \/ \E heard \in BOOLEAN :
                 \/ OrgsArrive(r, heard) \/ ScopeListArrives(r, heard) \/ AdoptArrives(r, heard) \/ AdoptProjectsArrive(r, heard)
                 \/ SettingsArrive(r, heard) \/ ProjectSaved(r, heard) \/ ProjectDeleted(r, heard)

ShellSpec == ShellInit /\ [][ShellNext]_hostVars

-----------------------------------------------------------------------------
(* Properties *)

ShellTypeOK == page.at = "shell" =>
    /\ page.url \in Href /\ page.org \in Orgs \cup {None} /\ page.orgs \subseteq Orgs
    /\ {page.project, page.pid} \subseteq ProjectIds \cup {None} /\ page.list \subseteq ProjectIds

\* The project the pages are about belongs to the organization they are about,
\* and so does the remembered one, whatever is chosen while answers are on
\* their way.  Two things tear them apart: a look-up cut between its two parts
\* or overtaken by the list of organizations, and a project chosen from the list
\* of the organization before.
ScopeCoherent == page.at = "shell" =>
    /\ page.project # None => Of(page.project) = page.org \/ page.torn \/ InFlight({"adopt projects"})
    /\ \A m \in page.memory : m.pid # None => Of(m.pid) = m.org \/ m.torn

\* Once nothing is on its way, the pages are about the project of the URL,
\* whatever was remembered and whichever URLs went before, unless the user chose
\* another, the look-up was cut, or a list of organizations or of the remembered
\* scope came after it, which is not noticed when the same URL comes back.
ScopeFollowsUrl == page.at = "shell" =>
    LET settled == page.url.proj # None /\ ~page.left /\ ~InFlight({"adopt", "adopt projects"})
    IN settled => page.pid = page.url.proj \/ page.picked \/ page.cut \/ page.late

\* "Project URLs are canonical and self-sufficient: the ID resolves unambiguously
\* through the lookup endpoint and wins over remembered state, so shared links and
\* fresh tabs always land in the right workspace."
UrlWins == page.at = "shell" =>
    LET settled == page.url.proj # None /\ ~page.left /\ wire = {}
    IN settled => page.pid = page.url.proj \/ page.picked
=============================================================================
