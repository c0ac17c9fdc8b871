--------------------------- MODULE VirtualEnvPage ---------------------------
(***************************************************************************)
(* The page of a project's virtual networks (VirtualEnvPage of             *)
(* project-pages.tsx) with the workspace of one of them, which it shows    *)
(* instead of the list (EnvironmentWorkspace of environment-workspace.tsx).*)
(*                                                                         *)
(* Three things interact: the list, which is read again and again and from *)
(* which the selected network is taken; the URL, which the browser's own   *)
(* buttons change too; and the workspace, whose component stays mounted    *)
(* for as long as some network is selected, and whose data is cached for   *)
(* five seconds.  What the tabs of the workspace offer is in WorkspaceTabs.*)
(***************************************************************************)
EXTENDS PageHost

CONSTANT
    Envs          \* identifiers of virtual networks

Env == [id : Envs, status : {"preparing", "ready"}]
EnvNamed(E, i) == {e \in E : e.id = i}
EnvIds(E) == {e.id : e \in E}

\* What a workspace asks of the server: "config" and then "slug" save the
\* configuration; "revise" stands for a branch, an activation or a step of the
\* synchronisation, which read the list again afterwards; "touch" for a new
\* credential, a funding or a label, which do not.
Mutations == {"config", "slug", "revise", "touch", "delete"}

\* of: the network a call is about, or the one in the URL when a list was asked
\* for; seen: the URL when the user acted; from: the network whose settings it
\* carries; after: what waits for a list; mine: the workspace that made the
\* call is still mounted
EnvCall(op, of, seen) == [op |-> op, of |-> of, seen |-> seen, from |-> None, after |-> None,
                          out |-> "sent", rows |-> {}, old |-> FALSE, mine |-> TRUE]
EnvList(seen, after) == [EnvCall("list", seen, seen) EXCEPT !.after = after]

\* The workspace component: the network its fields were filled from, the one
\* its data is of; stale: the server has newer data; late: an answer that was
\* overtaken is shown, or none came.
NoWorkspace == [fields |-> None, of |-> None, stale |-> FALSE, late |-> FALSE, busy |-> FALSE]

\* the list has been read once, and the workspace of the network in the URL,
\* if any, is open with its data
EnvsMounted(url, known) == [at |-> "vnet", url |-> url, rows |-> known, stale |-> FALSE, crossed |-> FALSE,
    selected |-> EnvNamed(known, url), loading |-> FALSE, refreshing |-> FALSE,
    ws |-> IF EnvNamed(known, url) = {} THEN NoWorkspace ELSE [NoWorkspace EXCEPT !.fields = url, !.of = url],
    cache |-> [e \in Envs |-> None], calls |-> 0]

\* All the environments and one of them open, or one and the list.
EnvsInit ==
    /\ \/ db = [id : Envs, status : {"ready"}] /\ \E url \in Sought \cap Envs : page = EnvsMounted(url, db)
       \/ db = [id : Sought \cap Envs, status : {"ready"}] /\ page = EnvsMounted(None, db)
    /\ wire = {}

-----------------------------------------------------------------------------
(* What is on the screen *)

Selected(p) == IF p.selected = {} THEN None ELSE (CHOOSE e \in p.selected : TRUE).id
InWorkspace == page.at = "vnet" /\ page.selected # {}
OnEnvList == page.at = "vnet" /\ page.selected = {}

\* the search and the filter only hide rows
EnvironmentRow(e) == OnEnvList /\ e \in page.rows
CanRefreshEnvs == OnEnvList /\ ~page.loading /\ ~page.refreshing

\* Calls whose workspace is gone: their answers still reach the cache.
Forsaken(W) == {IF r.op \in Mutations \cup {"data"} \/ r.after = "mutated"
                THEN [r EXCEPT !.mine = FALSE] ELSE r : r \in W}

\* load of a workspace that is mounted or shows another network: from the cache,
\* if what it holds is not five seconds old, otherwise from the server
LoadWorkspace(p, W) ==
    LET i == Selected(p) IN
    \/ /\ p.cache[i] # None
       /\ page' = [p EXCEPT !.ws.of = i, !.ws.stale = p.cache[i] = "old", !.ws.late = p.cache[i] = "old"]
       /\ wire' = W
    \/ /\ page' = p
       /\ wire' = W \cup {EnvCall("data", i, None)}

\* Mutant: the data is only read when a workspace is mounted
ShowsUnread(p, W) ==
    /\ UNCHANGED db
    /\ IF p.selected = {} THEN page' = [p EXCEPT !.ws = NoWorkspace] /\ wire' = Forsaken(W)
       ELSE IF page.selected = {}
       THEN LoadWorkspace([p EXCEPT !.ws = [NoWorkspace EXCEPT !.fields = Selected(p)]], W)
       ELSE page' = p /\ wire' = W

\* The handler goes on to p, whose selection may be another one.  Only a
\* workspace that was not mounted fills its fields from the network.
Shows(p, W) ==
    /\ UNCHANGED db
    /\ IF p.selected = {} THEN page' = [p EXCEPT !.ws = NoWorkspace] /\ wire' = Forsaken(W)
       ELSE IF page.selected = {}
       THEN LoadWorkspace([p EXCEPT !.ws = [NoWorkspace EXCEPT !.fields = Selected(p)]], W)
       ELSE IF Selected(p) # Selected(page) THEN LoadWorkspace(p, W)
       ELSE page' = p /\ wire' = W

-----------------------------------------------------------------------------
(* The list and the URL *)

\* the effect that reads the list again when the URL names another network
Routed(u) == IF u = page.url THEN {} ELSE {EnvList(u, None)}

RefreshEnvs ==
    /\ CanRefreshEnvs
    /\ Call([page EXCEPT !.refreshing = TRUE], EnvList(page.url, "refreshed"))

\* The network in the URL of the call is selected, or the selection is kept
\* with what the list says of it.
Reselected(r) ==
    IF r.of # None THEN EnvNamed(r.rows, r.of)
    ELSE IF EnvNamed(r.rows, Selected(page)) = {} THEN page.selected
    ELSE EnvNamed(r.rows, Selected(page))

\* the list has answered, or failed if it had not, whoever waits for it
EnvsRead(r) ==
    LET settled == [page EXCEPT !.crossed = r.out # "ok" \/ r.of # page.url,
                        !.refreshing = @ /\ r.after # "refreshed"]
    IN IF r.out = "ok" THEN [settled EXCEPT !.rows = r.rows, !.stale = r.old, !.selected = Reselected(r)]
       ELSE settled

EnvsArrive(r) ==
    /\ r \in wire /\ r.op = "list" /\ r.after \in {None, "refreshed"}
    /\ Shows(EnvsRead(r), wire \ {r})

OpenEnvironment(e) ==
    /\ EnvironmentRow(e) /\ page.calls < MaxCalls
    /\ Shows([page EXCEPT !.selected = {e}, !.url = e.id, !.calls = @ + 1], wire \cup Routed(e.id))

\* Mutant: the list of another URL is not asked for
NavigateSilently(u) ==
    /\ page.at = "vnet" /\ u # page.url /\ page.calls < MaxCalls
    /\ Show([page EXCEPT !.url = u, !.calls = @ + 1])

\* back, forward, or an address typed in
NavigateEnvs(u) ==
    /\ page.at = "vnet" /\ u # page.url /\ page.calls < MaxCalls
    /\ page' = [page EXCEPT !.url = u, !.calls = @ + 1]
    /\ wire' = wire \cup Routed(u)
    /\ UNCHANGED db

\* from the dialog over the list, which may be closed while it waits
CreateEnvironment ==
    /\ OnEnvList /\ ~page.loading
    /\ Call([page EXCEPT !.loading = TRUE], EnvCall("create", None, page.url))

\* createEnvironment reads the list, with the URL it began under, before the
\* new network is opened.
EnvironmentCreated(r, heard) ==
    /\ r \in wire /\ r.op = "create"
    /\ heard => r.out = "ok"
    /\ IF heard
       THEN Then([page EXCEPT !.stale = TRUE], r, {[EnvList(r.seen, "created") EXCEPT !.from = r.of]})
       ELSE Then([page EXCEPT !.loading = FALSE, !.stale = @ \/ r.out = "ok"], r, {})

CreatedListed(r) ==
    /\ r \in wire /\ r.op = "list" /\ r.after = "created"
    /\ Shows([EnvsRead(r) EXCEPT !.url = r.from, !.selected = {[id |-> r.from, status |-> "preparing"]},
                  !.loading = FALSE], (wire \ {r}) \cup Routed(r.from))

BackToEnvs ==
    /\ InWorkspace
    /\ Shows([page EXCEPT !.selected = {}, !.url = None], wire \cup Routed(None))

-----------------------------------------------------------------------------
(* The workspace *)

\* every two seconds while the network is being prepared; bound: one at a time
PollPreparing ==
    /\ InWorkspace /\ \E e \in page.selected : e.status = "preparing"
    /\ ~InFlight({"list"})
    /\ wire' = wire \cup {EnvList(page.url, None)}
    /\ UNCHANGED <<page, db>>

\* Whatever load answers last is shown and cached, whichever network the
\* workspace is showing by then.  After a change it frees the buttons.
DataArrives(r) ==
    /\ r \in wire /\ r.op = "data"
    /\ LET kept == IF r.out = "ok" THEN [page EXCEPT !.cache[r.of] = IF r.old THEN "old" ELSE "fresh"] ELSE page
           free == [kept EXCEPT !.ws.busy = @ /\ r.after # "mutated"]
           late == r.out # "ok" \/ r.old \/ r.of # Selected(page)
           shown == IF r.out = "ok" THEN [free EXCEPT !.ws.of = r.of, !.ws.stale = r.old] ELSE free
       IN Then(IF r.mine THEN [shown EXCEPT !.ws.late = late] ELSE kept, r, {})

\* mutate: the buttons wait for one another, except the ones of the credential
\* and of the deletion
Mutate(op) ==
    /\ InWorkspace /\ op # "slug"
    /\ op \in {"touch", "delete"} \/ ~page.ws.busy
    /\ Call([page EXCEPT !.ws.busy = TRUE],
            [EnvCall(op, Selected(page), page.url) EXCEPT !.from = IF op = "config" THEN page.ws.fields ELSE None])

\* The cache is emptied and the data read again before the buttons are free.
ReadAgain(r) ==
    Then([page EXCEPT !.cache[r.of] = None], r,
         {[EnvCall("data", r.of, None) EXCEPT !.mine = r.mine, !.after = "mutated"]})

MutationFailed(r) ==
    LET p == [page EXCEPT !.stale = @ \/ (r.op = "delete" /\ r.out = "ok")]
    IN Then(IF r.mine THEN [p EXCEPT !.ws.busy = FALSE, !.ws.late = TRUE] ELSE p, r, {})

\* The configuration is two calls; it and a revision wait for the list as well.
Mutated(r, heard) ==
    /\ r \in wire /\ r.op \in Mutations \ {"delete"}
    /\ heard => r.out = "ok"
    /\ CASE ~heard -> MutationFailed(r)
         [] heard /\ r.op = "config" -> Then(page, r, {[r EXCEPT !.op = "slug", !.out = "sent"]})
         [] heard /\ r.op \in {"slug", "revise"} ->
              Then(page, r, {[EnvList(r.seen, "mutated") EXCEPT !.from = r.of, !.mine = r.mine]})
         [] OTHER -> ReadAgain(r)

\* The list is back, and the rest of mutate is to come: it reads the data of
\* the network the change was for.
MutatedListed(r) ==
    /\ r \in wire /\ r.op = "list" /\ r.after = "mutated"
    /\ LET p == EnvsRead(r)
           mine == r.mine /\ p.selected # {}
       IN Shows([p EXCEPT !.cache[r.from] = None],
                (wire \ {r}) \cup {[EnvCall("data", r.from, None) EXCEPT !.mine = mine, !.after = "mutated"]})

\* Mutant: the list is not read again
EnvironmentDeletedUnseen(r, heard) ==
    /\ r \in wire /\ r.op = "delete"
    /\ heard => r.out = "ok"
    /\ IF ~heard THEN MutationFailed(r)
       ELSE Shows([page EXCEPT !.selected = {}, !.url = None, !.cache[r.of] = None], wire \ {r})

\* onDeleted leaves the workspace for the list; that the data of what was
\* deleted is then asked for once more, for nobody, is left out.
EnvironmentDeleted(r, heard) ==
    /\ r \in wire /\ r.op = "delete"
    /\ heard => r.out = "ok"
    /\ IF ~heard THEN MutationFailed(r)
       ELSE Shows([page EXCEPT !.selected = {}, !.url = None, !.cache[r.of] = None, !.stale = TRUE],
                  (wire \ {r}) \cup Routed(None) \cup {EnvList(r.seen, None)})

-----------------------------------------------------------------------------
(* The server.  An answer that is lost, or a call that is refused, is one   *)
(* the page goes on without having heard.                                   *)

\* what a change of network i makes of the answers on their way
EnvsOutdated(W, i, list) ==
    {IF r.out = "ok" /\ ((list /\ r.op = "list") \/ (r.op = "data" /\ r.of = i))
     THEN [r EXCEPT !.old = TRUE] ELSE r : r \in W}

ServeEnvWrite(r) ==
    /\ r.out = "sent" /\ r.op \in Mutations /\ r.of \in EnvIds(db)
    /\ LET list == r.op = "delete"
           mark == page.ws.of = r.of
       IN /\ db' = IF list THEN db \ EnvNamed(db, r.of) ELSE db
          /\ wire' = EnvsOutdated(wire \ {r}, r.of, list) \cup {[r EXCEPT !.out = "ok"]}
          /\ page' = [page EXCEPT !.cache[r.of] = IF @ = None THEN None ELSE "old",
                                 !.ws.stale = @ \/ mark, !.ws.late = @ \/ (mark /\ ~r.mine)]

ServeCreate(r) ==
    /\ r.out = "sent" /\ r.op = "create"
    /\ \E i \in Envs \ EnvIds(db) :
          /\ db' = db \cup {[id |-> i, status |-> "preparing"]}
          /\ wire' = EnvsOutdated(wire \ {r}, i, TRUE) \cup {[r EXCEPT !.out = "ok", !.of = i]}
    /\ UNCHANGED page

ServeEnvRead(r) ==
    /\ r.out = "sent" /\ r.op \in {"list", "data"}
    /\ r.op = "data" => r.of \in EnvIds(db)
    /\ wire' = (wire \ {r}) \cup {[r EXCEPT !.out = "ok", !.rows = IF r.op = "list" THEN db ELSE {}]}
    /\ UNCHANGED <<page, db>>

\* Fork Core has prepared a network.
Prepared(e) ==
    /\ e \in db /\ e.status = "preparing"
    /\ db' = (db \ {e}) \cup {[e EXCEPT !.status = "ready"]}
    /\ wire' = EnvsOutdated(wire, e.id, TRUE)
    /\ page' = [page EXCEPT !.stale = TRUE]

EnvsNext ==
    /\ page.at = "vnet"
    /\ \/ \E e \in page.rows : OpenEnvironment(e)
       \/ \E u \in Sought \cup {None} : NavigateEnvs(u)
       \/ \E op \in Mutations : Mutate(op)
       \/ RefreshEnvs \/ CreateEnvironment \/ BackToEnvs \/ PollPreparing
       \/ \E r \in wire :
            \/ EnvsArrive(r) \/ CreatedListed(r) \/ DataArrives(r) \/ MutatedListed(r)
            \/ \E heard \in BOOLEAN :
                 EnvironmentCreated(r, heard) \/ Mutated(r, heard) \/ EnvironmentDeleted(r, heard)
            \/ ServeEnvWrite(r) \/ ServeCreate(r) \/ ServeEnvRead(r)
       \/ \E e \in db : Prepared(e)

-----------------------------------------------------------------------------
(* Properties *)

EnvsTypeOK == page.at = "vnet" =>
    /\ page.rows \subseteq Env /\ db \subseteq Env /\ page.selected \subseteq Env
    /\ Cardinality(page.selected) <= 1
    /\ page.cache \in [Envs -> {None, "fresh", "old"}]
    /\ page.ws.fields \in Envs \cup {None} /\ page.ws.of \in Envs \cup {None}
    /\ page.selected = {} => page.ws = NoWorkspace

\* The list is what the server holds, unless its last reading crossed a change
\* or the answer to a change never came.
EnvsListAgrees == page.at = "vnet" =>
    page.stale \/ InFlight({"delete", "create"}) \/ page.rows = db

\* A URL that names a network is obeyed, however it got there: once no list is
\* awaited, no other network is open, unless the last list to arrive failed or
\* had been asked for under another URL.  The URL of the list itself is not: load
\* keeps what is selected when no network is named, so that Back to the list
\* leaves the workspace open.
LinksAreFollowed == page.at = "vnet" =>
    (page.url # None /\ ~page.crossed /\ ~InFlight({"list", "create"})
        => Selected(page) \in {None, page.url})

\* Once nothing is awaited, the workspace shows the latest data of the network
\* it is open for, unless the last answer failed or had been overtaken.
WorkspaceIsCurrent == page.at = "vnet" =>
    (InWorkspace /\ ~page.ws.late /\ ~InFlight({"list", "data"} \cup Mutations)
        => page.ws.of = Selected(page) /\ ~page.ws.stale)
=============================================================================
