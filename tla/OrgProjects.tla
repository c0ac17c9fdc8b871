----------------------------- MODULE OrgProjects -----------------------------
(***************************************************************************)
(* The pages around an organization's projects                             *)
(* (organization-workspace.tsx): the list of projects with the dialog that *)
(* creates one, the search over everything, the menu of organizations, and *)
(* the pages that list and create organizations.                           *)
(*                                                                         *)
(* A page goes on to run until the route it was left for is ready, and     *)
(* every way into a project writes it to the browser's memory, from which  *)
(* the next page learns where the user is (see ProjectShell).              *)
(***************************************************************************)
EXTENDS PageHost

CONSTANT
    Projects     \* projects of the organization

\* The organizations of the user are not told apart: only the menu lists them.
OrgWrites == {"project", "organization"}
\* n tells two creations apart
OrgCall(op) == [op |-> op, n |-> 0, out |-> "sent", rows |-> {}, made |-> {}]

\* memory: the remembered project; opened: the project last gone to, if the
\* user did not go elsewhere since; crossed: the memory was written by an
\* answer after that
OrgMounted(view, new) == [at |-> view, rows |-> {}, loading |-> TRUE, stale |-> TRUE, modal |-> new, busy |-> FALSE,
    menu |-> {}, search |-> "closed", found |-> {}, switcher |-> "closed",
    memory |-> {}, opened |-> {}, crossed |-> FALSE, left |-> FALSE, calls |-> 0]

\* The sign-up leads to the projects with ?new=1, which opens the dialog.
OrgProjectsInit ==
    /\ \/ \E new \in BOOLEAN : page = OrgMounted("orgprojects", new) /\ wire = {OrgCall("list")}
       \/ page = OrgMounted("orglist", FALSE) /\ wire = {OrgCall("mine")}
       \/ page = OrgMounted("orgcreate", FALSE) /\ wire = {}
    /\ \E known \in SUBSET Projects : db = [projects |-> known]

-----------------------------------------------------------------------------
(* Ways into a project *)

\* rememberWorkspace, and the route is asked for
Opens(p, project) == [p EXCEPT !.memory = {project}, !.opened = {project}, !.crossed = FALSE]
Remembers(p, project) == [p EXCEPT !.memory = {project}, !.crossed = p.opened # {}]

GoesElsewhere(p) == [p EXCEPT !.opened = {}, !.crossed = FALSE]

OnProjects == page.at = "orgprojects" /\ ~page.left
Listed == OnProjects /\ ~page.loading /\ ~page.modal /\ page.search = "closed"

\* a row, or the menu of a row
OpenProjectMenu(p) == Listed /\ p \in page.rows /\ page.menu # {p} /\ Show([page EXCEPT !.menu = {p}])
CloseProjectMenu == OnProjects /\ page.menu # {} /\ Show([page EXCEPT !.menu = {}])
OpenProject(p) ==
    /\ Listed /\ p \in page.rows
    /\ Show(Opens([page EXCEPT !.menu = {}], p))

-----------------------------------------------------------------------------
(* The list *)

\* Somebody's first project is remembered as soon as the list arrives, also
\* when another was gone to already.
ProjectListArrives(r, heard) ==
    /\ r \in wire /\ r.op = "list"
    /\ heard => r.out = "ok"
    /\ LET shown == [page EXCEPT !.loading = FALSE, !.rows = IF heard THEN r.rows ELSE @, !.stale = ~heard]
       IN IF heard /\ r.rows # {} THEN \E first \in r.rows : Then(Remembers(shown, first), r, {})
          ELSE Then(shown, r, {})

-----------------------------------------------------------------------------
(* The search, over the tabs of the organization and its projects.  It can  *)
(* be opened with a key at any time, and reads the projects for itself.     *)

\* React cancels the reading when the search or the menu closes.
Forget(op) == {r \in wire : r.op # op}

OpenSearch ==
    /\ OnProjects /\ page.search = "closed"
    /\ Call([page EXCEPT !.search = "open", !.found = {}], OrgCall("search"))
CloseSearch(p) == /\ OnProjects /\ page.search = "open"
                  /\ page' = [p EXCEPT !.search = "closed"]
                  /\ wire' = Forget("search")
                  /\ UNCHANGED db

SearchArrives(r, heard) ==
    /\ r \in wire /\ r.op = "search"
    /\ heard => r.out = "ok"
    /\ Then([page EXCEPT !.found = IF heard THEN r.rows ELSE {}], r, {})

\* go: a tab, all organizations, or a project; Enter takes the first of them
FollowSearch ==
    \/ CloseSearch(GoesElsewhere(page))
    \/ \E p \in page.found : CloseSearch(Opens(page, p))

\* the menu next to the name of the organization
OpenSwitcher ==
    /\ OnProjects /\ ~page.modal /\ page.search = "closed" /\ page.switcher = "closed"
    /\ Call([page EXCEPT !.switcher = "open"], OrgCall("mine"))
CloseSwitcher(p) == /\ OnProjects /\ page.switcher = "open"
                    /\ page' = [p EXCEPT !.switcher = "closed"]
                    /\ wire' = Forget("mine")
                    /\ UNCHANGED db

\* The organizations read into the menu, or onto the page that lists them.
OrganizationsArrive(r, heard) ==
    /\ r \in wire /\ r.op = "mine"
    /\ heard => r.out = "ok"
    /\ Then([page EXCEPT !.loading = @ /\ page.at # "orglist"], r, {})

\* an organization of the list or the menu, the tabs at the side, the settings
GoElsewhere ==
    \/ /\ \/ OnProjects /\ ~page.modal /\ page.search = "closed" /\ page.switcher = "closed" /\ page.opened # {}
          \/ page.at = "orglist" /\ ~page.loading /\ ~page.left
       /\ Show([GoesElsewhere(page) EXCEPT !.left = page.at = "orglist"])
    \/ CloseSwitcher(GoesElsewhere(page))

-----------------------------------------------------------------------------
(* Creating *)

OpenCreate == Listed /\ Show([page EXCEPT !.modal = TRUE])
CloseCreate == OnProjects /\ ~page.loading /\ page.modal /\ Show([page EXCEPT !.modal = FALSE, !.busy = FALSE])

\* Mutant: the form does not look at busy
CreateAlways ==
    /\ \/ OnProjects /\ ~page.loading /\ page.modal
       \/ page.at = "orgcreate" /\ ~page.left
    /\ Call([page EXCEPT !.busy = TRUE], [OrgCall(IF page.at = "orgcreate" THEN "organization" ELSE "project") EXCEPT !.n = page.calls])

\* busy is the dialog's own: closing and opening it again forgets the call.
Create ==
    /\ \/ OnProjects /\ ~page.loading /\ page.modal
       \/ page.at = "orgcreate" /\ ~page.left
    /\ ~page.busy
    /\ Call([page EXCEPT !.busy = TRUE], [OrgCall(IF page.at = "orgcreate" THEN "organization" ELSE "project") EXCEPT !.n = page.calls])

\* The new project comes first in the list and is gone to, even if the page was
\* left meanwhile; whatever dialog is open by then closes.
ProjectCreated(r, heard) ==
    /\ r \in wire /\ r.op = "project"
    /\ heard => r.out = "ok"
    /\ IF ~heard THEN Then([page EXCEPT !.busy = FALSE, !.stale = @ \/ r.out = "ok"], r, {})
       ELSE \E p \in r.made : Then(Opens([page EXCEPT !.rows = @ \cup {p}, !.modal = FALSE, !.busy = FALSE], p), r, {})

OrganizationCreated(r, heard) ==
    /\ r \in wire /\ r.op = "organization"
    /\ heard => r.out = "ok"
    /\ Then([page EXCEPT !.busy = heard, !.left = heard], r, {})

\* The route is ready: the page is gone, and the readings of its effects with it.
LeaveProjects ==
    /\ OnProjects
    /\ page' = [page EXCEPT !.left = TRUE, !.modal = FALSE, !.search = "closed", !.switcher = "closed"]
    /\ wire' = {r \in wire : r.op = "project"}
    /\ UNCHANGED db

-----------------------------------------------------------------------------
(* The server *)

ServeOrgCall(r) ==
    /\ r.op \in {"list", "search", "project", "organization"} /\ r.out = "sent"
    /\ UNCHANGED page
    /\ \/ /\ r.op \in {"list", "search"}
          /\ wire' = (wire \ {r}) \cup {[r EXCEPT !.out = "ok", !.rows = db.projects]}
          /\ UNCHANGED db
       \/ /\ r.op = "organization"
          /\ wire' = (wire \ {r}) \cup {[r EXCEPT !.out = "ok"]}
          /\ UNCHANGED db
       \/ /\ r.op = "project"
          /\ \E p \in Projects \ db.projects :
               /\ db' = [db EXCEPT !.projects = @ \cup {p}]
               /\ wire' = (wire \ {r}) \cup {[r EXCEPT !.out = "ok", !.made = {p}]}
ServeMine(r) ==
    /\ r.op = "mine" /\ r.out = "sent"
    /\ wire' = (wire \ {r}) \cup {[r EXCEPT !.out = "ok"]}
    /\ UNCHANGED <<page, db>>

OrgProjectsNext ==
    /\ page.at \in {"orgprojects", "orglist", "orgcreate"}
    /\ \/ \E p \in page.rows : OpenProjectMenu(p) \/ OpenProject(p)
       \/ CloseProjectMenu \/ OpenSearch \/ CloseSearch(page) \/ FollowSearch
       \/ OpenSwitcher \/ CloseSwitcher(page) \/ GoElsewhere
       \/ OpenCreate \/ CloseCreate \/ Create \/ LeaveProjects
       \/ \E r \in wire :
            \/ ServeOrgCall(r) \/ ServeMine(r)
            \/ \E heard \in BOOLEAN :
                 \/ ProjectListArrives(r, heard) \/ SearchArrives(r, heard) \/ OrganizationsArrive(r, heard)
                 \/ ProjectCreated(r, heard) \/ OrganizationCreated(r, heard)

-----------------------------------------------------------------------------
(* Properties *)

OrgProjectsTypeOK == page.at \in {"orgprojects", "orglist", "orgcreate"} =>
    /\ page.rows \subseteq Projects /\ page.found \subseteq Projects /\ db.projects \subseteq Projects
    /\ Cardinality(page.memory) <= 1 /\ Cardinality(page.opened) <= 1

\* The next page opens the project that was chosen here: whichever way the user
\* went into a project, it is the one in the memory, unless the answer of the
\* first list came after the choice.
OpensWhatItRemembers == page.at = "orgprojects" =>
    (page.opened # {} => page.memory = page.opened \/ page.crossed)

\* The projects on display are those of the organization, also when they were
\* created while a dialog was closed and opened again, unless the list failed
\* or the answer of a creation is on its way or never came.
ProjectsAgree == page.at = "orgprojects" =>
    page.loading \/ page.stale \/ page.left \/ InFlight(OrgWrites) \/ page.rows = db.projects

\* One organization is created at a time.
OneOrganization == page.at = "orgcreate" => Cardinality({r \in wire : r.op = "organization"}) <= (IF page.busy THEN 1 ELSE 0)
=============================================================================
