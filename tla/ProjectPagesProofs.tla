-------------------------- MODULE ProjectPagesProofs --------------------------
(***************************************************************************)
(* The invariants of the pages of a project that follow what runs          *)
(* elsewhere and of the explorer, the proofs that they hold when a page is *)
(* opened and that every step of it keeps them, and the theorems about all *)
(* of these pages.                                                         *)
(***************************************************************************)
EXTENDS ProjectPages, ArgumentFormProofs

-----------------------------------------------------------------------------
(* The virtual networks and the workspace of one of them *)

EnvShape(p) ==
    /\ p.at = "vnet"
    /\ DOMAIN p = {"at", "url", "rows", "stale", "crossed", "selected", "loading", "refreshing", "ws", "cache", "calls"}
    /\ DOMAIN p.ws = {"fields", "of", "stale", "late", "busy"}
    /\ DOMAIN p.cache = Envs
EnvOps == {"list", "create", "data"} \cup Mutations
EnvCallsOf(W) == \A r \in W :
    /\ DOMAIN r = {"op", "of", "seen", "from", "after", "out", "rows", "old", "mine"}
    /\ r.op \in EnvOps

\* A list that was read before a change is marked, and a change that was made
\* but not heard of makes the list on display stale.
ListsAreCurrent(W) == \A r \in W : r.op = "list" /\ r.out = "ok" /\ ~r.old => r.rows = db
ListFollows(p, W) ==
    \/ p.stale \/ p.rows = db
    \/ \E r \in W : r.op \in {"create", "delete"} /\ r.out = "ok"

\* While no list is awaited, the URL is followed, whatever is being created.
UrlFollows(p, W) ==
    p.url = None \/ p.crossed \/ Selected(p) \in {None, p.url} \/ \E r \in W : r.op = "list"

\* What the workspace waits for: its own changes, and its own readings of data.
Awaits(r) == r.mine /\ (r.op \in Mutations \cup {"data"} \/ (r.op = "list" /\ r.after = "mutated"))
DataFollows(p, W) ==
    p.selected = {} \/ p.ws.late \/ (p.ws.of = Selected(p) /\ ~p.ws.stale) \/ \E r \in W : Awaits(r)

EnvsInv ==
    /\ EnvShape(page) /\ EnvCallsOf(wire) /\ ListsAreCurrent(wire) /\ ListFollows(page, wire)
    /\ UrlFollows(page, wire) /\ DataFollows(page, wire)

\* The list, the URL and the workspace are as the runs ask.
LEMMA EnvsHold == EnvsInv => EnvsListAgrees /\ LinksAreFollowed /\ WorkspaceIsCurrent
BY DEF EnvsInv, ListFollows, UrlFollows, DataFollows, Awaits, EnvsListAgrees, LinksAreFollowed,
   WorkspaceIsCurrent, InWorkspace, InFlight

\* Loading the data of the network that is selected fills the workspace, or
\* asks for it.
LEMMA Loads ==
  ASSUME NEW p, NEW W, EnvShape(p), EnvCallsOf(W), LoadWorkspace(p, W)
  PROVE  /\ EnvShape(page') /\ EnvCallsOf(wire') /\ DataFollows(page', wire')
         /\ page'.rows = p.rows /\ page'.stale = p.stale /\ page'.crossed = p.crossed /\ page'.url = p.url
         /\ page'.selected = p.selected /\ W \subseteq wire' /\ \A q \in wire' \ W : q.op = "data"
<1> DEFINE i == Selected(p)
<1>1. CASE wire' = W /\ page' = [p EXCEPT !.ws.of = i, !.ws.stale = p.cache[i] = "old", !.ws.late = p.cache[i] = "old"]
  BY <1>1 DEF EnvShape, DataFollows, Selected
<1>2. CASE page' = p /\ wire' = W \cup {EnvCall("data", i, None)}
  <2>1. Awaits(EnvCall("data", i, None))
    BY DEF Awaits, EnvCall
  <2> QED BY <1>2, <2>1 DEF EnvShape, EnvCallsOf, EnvOps, EnvCall, DataFollows
<1> QED BY <1>1, <1>2 DEF LoadWorkspace

\* Whatever a handler goes on to, the page shows it with a workspace that is
\* gone, waits for its data, has them from the cache, or is as it was.
LEMMA ShowsKeeps ==
  ASSUME NEW p, NEW W, EnvShape(p), EnvCallsOf(W), ListsAreCurrent(W), ListFollows(p, W), UrlFollows(p, W),
         p.selected = {} \/ page.selected = {} \/ Selected(p) # Selected(page) \/ DataFollows(p, W), Shows(p, W)
  PROVE  EnvsInv'
<1>1. db' = db
  BY DEF Shows
<1>2. CASE p.selected = {}
  <2>1. page' = [p EXCEPT !.ws = NoWorkspace] /\ wire' = Forsaken(W)
    BY <1>2 DEF Shows
  <2>2. EnvShape(page') /\ page'.rows = p.rows /\ page'.stale = p.stale /\ page'.crossed = p.crossed /\ page'.url = p.url
        /\ page'.selected = p.selected
    BY <2>1 DEF EnvShape, NoWorkspace
  <2>3. \A q \in wire' : \E r \in W :
          DOMAIN q = DOMAIN r /\ q.op = r.op /\ q.out = r.out /\ q.rows = r.rows /\ q.old = r.old
    BY <2>1 DEF Forsaken, EnvCallsOf
  <2>4. ASSUME NEW r \in W PROVE \E q \in wire' : q.op = r.op /\ q.out = r.out
    <3>1. r \in wire' \/ [r EXCEPT !.mine = FALSE] \in wire'
      BY <2>1 DEF Forsaken
    <3> QED BY <3>1 DEF EnvCallsOf
  <2>5. EnvCallsOf(wire') /\ ListsAreCurrent(wire)'
    BY <1>1, <2>3 DEF EnvCallsOf, ListsAreCurrent
  <2>6. ListFollows(page, wire)' /\ UrlFollows(page, wire)' /\ DataFollows(page, wire)'
    BY <1>1, <1>2, <2>2, <2>4 DEF ListFollows, UrlFollows, DataFollows, Selected
  <2> QED BY <2>2, <2>5, <2>6 DEF EnvsInv
<1>3. CASE p.selected # {}
  <2> DEFINE Fits ==
        /\ EnvShape(page') /\ EnvCallsOf(wire') /\ DataFollows(page', wire') /\ page'.rows = p.rows
        /\ page'.stale = p.stale /\ page'.crossed = p.crossed /\ page'.url = p.url /\ page'.selected = p.selected
        /\ W \subseteq wire' /\ \A q \in wire' \ W : q.op = "data"
  <2>1. Fits
    <3>1. CASE page.selected = {}
      <4> DEFINE o == [p EXCEPT !.ws = [NoWorkspace EXCEPT !.fields = Selected(p)]]
      <4>1. LoadWorkspace(o, W)
        BY <1>3, <3>1 DEF Shows
      <4>2. EnvShape(o)
        BY DEF EnvShape, NoWorkspace
      <4>3. o.rows = p.rows /\ o.stale = p.stale /\ o.crossed = p.crossed /\ o.url = p.url /\ o.selected = p.selected
        BY DEF EnvShape
      <4> HIDE DEF o
      <4> QED BY <4>1, <4>2, <4>3, Loads
    <3>2. CASE page.selected # {} /\ Selected(p) # Selected(page)
      <4>1. LoadWorkspace(p, W)
        BY <1>3, <3>2 DEF Shows
      <4> QED BY <4>1, Loads
    <3>3. CASE page.selected # {} /\ Selected(p) = Selected(page)
      BY <1>3, <3>3 DEF Shows
    <3> QED BY <3>1, <3>2, <3>3
  <2> HIDE DEF Fits
  <2>2. ListsAreCurrent(wire)'
    BY <1>1, <2>1 DEF Fits, ListsAreCurrent
  <2>3. ListFollows(page, wire)' /\ UrlFollows(page, wire)'
    BY <1>1, <2>1 DEF Fits, ListFollows, UrlFollows, Selected
  <2> QED BY <2>1, <2>2, <2>3 DEF Fits, EnvsInv
<1> QED BY <1>2, <1>3


\* What is selected out of the rows with one identifier has that identifier.
LEMMA SelectedIs ==
  ASSUME NEW p, NEW E, NEW i, p.selected = EnvNamed(E, i)
  PROVE  Selected(p) \in {None, i}
<1>1. CASE p.selected # {}
  <2>1. (CHOOSE e \in p.selected : TRUE) \in p.selected
    BY <1>1
  <2> QED BY <1>1, <2>1 DEF Selected, EnvNamed
<1> QED BY <1>1 DEF Selected

\* A list that is read agrees with the server or is known not to, and follows
\* the URL or is known to have been overtaken.
LEMMA ListIsRead ==
  ASSUME EnvsInv, NEW r \in wire, r.op = "list"
  PROVE  /\ EnvShape(EnvsRead(r)) /\ ListFollows(EnvsRead(r), wire \ {r})
         /\ EnvsRead(r).ws = page.ws /\ EnvsRead(r).url = page.url
         /\ \/ EnvsRead(r).url = None \/ EnvsRead(r).crossed
            \/ Selected(EnvsRead(r)) \in {None, EnvsRead(r).url}
<1> DEFINE settled == [page EXCEPT !.crossed = r.out # "ok" \/ r.of # page.url,
                                   !.refreshing = @ /\ r.after # "refreshed"]
           p == EnvsRead(r)
<1> USE DEF EnvsInv
<1>1. /\ EnvShape(settled) /\ settled.ws = page.ws /\ settled.url = page.url /\ settled.rows = page.rows
      /\ settled.stale = page.stale /\ settled.crossed = (r.out # "ok" \/ r.of # page.url)
  BY DEF EnvShape
<1> HIDE DEF settled
<1>2. CASE r.out = "ok"
  <2>1. p = [settled EXCEPT !.rows = r.rows, !.stale = r.old, !.selected = Reselected(r)]
    BY <1>2 DEF EnvsRead, settled
  <2> HIDE DEF p
  <2>2. /\ EnvShape(p) /\ p.ws = page.ws /\ p.url = page.url /\ p.crossed = (r.of # page.url)
        /\ p.rows = r.rows /\ p.stale = r.old /\ p.selected = Reselected(r)
    BY <1>1, <1>2, <2>1 DEF EnvShape
  <2>3. ListFollows(p, wire \ {r})
    BY <1>2, <2>2 DEF ListFollows, ListsAreCurrent
  <2>4. p.url = None \/ p.crossed \/ Selected(p) \in {None, p.url}
    BY <2>2, SelectedIs DEF Reselected
  <2> QED BY <2>2, <2>3, <2>4 DEF p
<1>3. CASE r.out # "ok"
  <2>1. p = settled
    BY <1>3 DEF EnvsRead, settled
  <2>2. ListFollows(settled, wire \ {r})
    BY <1>1 DEF ListFollows
  <2> QED BY <1>1, <1>3, <2>1, <2>2
<1> QED BY <1>2, <1>3

\* The workspace goes on waiting when a list arrives that it does not wait for.
LEMMA StillAwaits ==
  ASSUME EnvsInv, NEW r \in wire, ~Awaits(r), NEW p, p.ws = page.ws
  PROVE  p.selected = {} \/ page.selected = {} \/ Selected(p) # Selected(page) \/ DataFollows(p, wire \ {r})
BY DEF EnvsInv, DataFollows


\* A change that fails, or is not heard of, is known to have been overtaken.
LEMMA MutationFails ==
  ASSUME EnvsInv, NEW r \in wire, r.op \in Mutations, MutationFailed(r)
  PROVE  EnvsInv'
<1> DEFINE p == [page EXCEPT !.stale = @ \/ (r.op = "delete" /\ r.out = "ok")]
<1>1. wire' = wire \ {r} /\ db' = db
  BY DEF MutationFailed, Then
<1>2. page' = IF r.mine THEN [p EXCEPT !.ws.busy = FALSE, !.ws.late = TRUE] ELSE p
  BY DEF MutationFailed, Then
<1>3. /\ EnvShape(p) /\ p.rows = page.rows /\ p.stale = (page.stale \/ (r.op = "delete" /\ r.out = "ok"))
      /\ p.crossed = page.crossed /\ p.url = page.url /\ p.selected = page.selected /\ p.ws = page.ws
  BY DEF EnvsInv, EnvShape
<1> HIDE DEF p
<1>4. /\ EnvShape(page') /\ page'.rows = page.rows /\ page'.stale = p.stale
      /\ page'.crossed = page.crossed /\ page'.url = page.url /\ page'.selected = page.selected
      /\ IF r.mine THEN page'.ws.late ELSE page'.ws = page.ws
  BY <1>2, <1>3 DEF EnvShape
<1>5. r.op # "list" /\ r.op # "create"
  BY DEF Mutations
<1>6. EnvCallsOf(wire') /\ ListsAreCurrent(wire)' /\ ListFollows(page, wire)'
  BY <1>1, <1>3, <1>4, <1>5 DEF EnvsInv, EnvCallsOf, ListsAreCurrent, ListFollows
<1>7. UrlFollows(page, wire)' /\ DataFollows(page, wire)'
  BY <1>1, <1>4, <1>5 DEF EnvsInv, UrlFollows, DataFollows, Selected, Awaits
<1> QED BY <1>4, <1>6, <1>7 DEF EnvsInv


EnvFields == {"op", "of", "seen", "from", "after", "out", "rows", "old", "mine"}
Stands(q, r) == q.op = r.op /\ q.mine = r.mine /\ q.after = r.after /\ (r.out = "ok" => q.out = "ok")

\* Marking answers leaves everything else about them.
LEMMA MarkIs ==
  ASSUME EnvsInv, NEW i, NEW list \in BOOLEAN, NEW W \in SUBSET wire
  PROVE  /\ \A q \in EnvsOutdated(W, i, list) :
               /\ DOMAIN q = EnvFields /\ q.op \in EnvOps
               /\ q.op = "list" /\ q.out = "ok" /\ ~q.old => ~list /\ q \in wire
         /\ \A r \in W : \E q \in EnvsOutdated(W, i, list) : Stands(q, r)
<1> DEFINE V == EnvsOutdated(W, i, list)
           M(r) == IF r.out = "ok" /\ ((list /\ r.op = "list") \/ (r.op = "data" /\ r.of = i))
                   THEN [r EXCEPT !.old = TRUE] ELSE r
<1>1. V = {M(r) : r \in W}
  BY DEF EnvsOutdated
<1> HIDE DEF V
<1>2. ASSUME NEW r \in W
      PROVE  /\ DOMAIN M(r) = EnvFields /\ M(r).op \in EnvOps /\ Stands(M(r), r) /\ M(r).op = r.op /\ M(r).out = r.out
             /\ M(r).op = "list" /\ M(r).out = "ok" /\ ~M(r).old => ~list /\ M(r) \in wire
  BY DEF EnvsInv, EnvCallsOf, EnvFields, Stands
<1> HIDE DEF M
<1> QED BY <1>1, <1>2 DEF V

\* When a call is answered, what the others are waiting for remains.
LEMMA EnvServed ==
  ASSUME EnvsInv, NEW r \in wire, NEW s, DOMAIN s = EnvFields, Stands(s, r), NEW i, NEW list \in BOOLEAN,
         wire' = EnvsOutdated(wire \ {r}, i, list) \cup {s}
  PROVE  /\ EnvCallsOf(wire')
         /\ r.op # "list" /\ (list \/ db' = db) => ListsAreCurrent(wire)'
         /\ \A p \in wire : \E q \in wire' : Stands(q, p)
<1> DEFINE V == EnvsOutdated(wire \ {r}, i, list)
<1>1. /\ \A q \in V : /\ DOMAIN q = EnvFields /\ q.op \in EnvOps
                      /\ q.op = "list" /\ q.out = "ok" /\ ~q.old => ~list /\ q \in wire
      /\ \A p \in wire \ {r} : \E q \in V : Stands(q, p)
  BY MarkIs
<1> HIDE DEF V
<1>2. wire' = V \cup {s}
  BY DEF V
<1>3. EnvCallsOf(wire')
  BY <1>1, <1>2 DEF EnvCallsOf, EnvFields, EnvsInv, Stands
<1>4. \A p \in wire : \E q \in wire' : Stands(q, p)
  BY <1>1, <1>2
<1>5. ASSUME r.op # "list", list \/ db' = db PROVE ListsAreCurrent(wire)'
  <2>1. s.op # "list"
    BY <1>5 DEF Stands
  <2>2. \A q \in wire' : q.op = "list" /\ q.out = "ok" /\ ~q.old => q.rows = db'
    BY <1>1, <1>2, <1>5, <2>1 DEF EnvsInv, ListsAreCurrent
  <2> QED BY <2>2 DEF ListsAreCurrent
<1> QED BY <1>3, <1>4, <1>5

\* What is awaited is awaited still, and what was decided stays decided.
LEMMA StandIns ==
  ASSUME \A p \in wire : \E q \in wire' : Stands(q, p)
  PROVE  /\ (\E r \in wire : Awaits(r)) => \E r \in wire' : Awaits(r)
         /\ (\E r \in wire : r.op = "list") => \E r \in wire' : r.op = "list"
         /\ (\E r \in wire : r.op \in {"create", "delete"} /\ r.out = "ok")
              => \E r \in wire' : r.op \in {"create", "delete"} /\ r.out = "ok"
BY DEF Stands, Awaits


\* The invariant holds when the page is mounted.
LEMMA EnvsStart == EnvsInit => EnvsInv
<1> SUFFICES ASSUME EnvsInit PROVE EnvsInv
  OBVIOUS
<1>1. PICK url : page = EnvsMounted(url, db) /\ wire = {}
  BY DEF EnvsInit
<1>2. EnvShape(page) /\ page.rows = db /\ page.url = url /\ page.selected = EnvNamed(db, url) /\ ~page.stale
  BY <1>1 DEF EnvsMounted, EnvShape, NoWorkspace
<1>3. page.ws = IF EnvNamed(db, url) = {} THEN NoWorkspace ELSE [NoWorkspace EXCEPT !.fields = url, !.of = url]
  BY <1>1 DEF EnvsMounted
<1>4. page.selected = {} \/ (page.ws.of = Selected(page) /\ ~page.ws.stale)
  <2>1. CASE page.selected # {}
    <3>1. (CHOOSE e \in page.selected : TRUE) \in page.selected
      BY <2>1
    <3>2. Selected(page) = url
      BY <1>2, <2>1, <3>1 DEF Selected, EnvNamed
    <3> QED BY <1>2, <1>3, <2>1, <3>2 DEF NoWorkspace
  <2> QED BY <2>1
<1>5. UrlFollows(page, wire)
  BY <1>2, SelectedIs DEF UrlFollows
<1> QED BY <1>1, <1>2, <1>4, <1>5 DEF EnvsInv, EnvCallsOf, ListsAreCurrent, ListFollows, DataFollows

\* Every step keeps the invariant, however the list, the data and the changes
\* of the networks and their answers overtake each other.
LEMMA EnvsStep ==
  ASSUME EnvsInv, EnvsNext
  PROVE  EnvsInv'
<1>1. ASSUME NEW e \in page.rows, OpenEnvironment(e) PROVE EnvsInv'
  <2> DEFINE p == [page EXCEPT !.selected = {e}, !.url = e.id, !.calls = @ + 1]
             W == wire \cup Routed(e.id)
  <2>1. Shows(p, W) /\ page.selected = {}
    BY <1>1 DEF OpenEnvironment, EnvironmentRow, OnEnvList
  <2>2. EnvCallsOf(W) /\ ListsAreCurrent(W)
    BY DEF EnvsInv, EnvCallsOf, EnvOps, ListsAreCurrent, Routed, EnvList, EnvCall
  <2>3. EnvShape(p) /\ p.rows = page.rows /\ p.stale = page.stale /\ p.url = e.id /\ p.selected = {e}
    BY DEF EnvsInv, EnvShape
  <2> HIDE DEF p
  <2>4. ListFollows(p, W)
    BY <2>3 DEF EnvsInv, ListFollows
  <2>5. UrlFollows(p, W)
    <3>1. (CHOOSE x \in p.selected : TRUE) \in p.selected
      BY <2>3
    <3> QED BY <2>3, <3>1 DEF UrlFollows, Selected
  <2> HIDE DEF W
  <2> QED BY <2>1, <2>2, <2>3, <2>4, <2>5, ShowsKeeps DEF EnvsInv
<1>2. ASSUME NEW u \in Sought \cup {None}, NavigateEnvs(u) PROVE EnvsInv'
  BY <1>2 DEF NavigateEnvs, Routed, EnvList, None, EnvCall, EnvsInv, EnvShape, EnvCallsOf,
    EnvOps, Mutations, ListsAreCurrent, ListFollows, UrlFollows, Selected, DataFollows, Awaits
<1>3. ASSUME NEW op \in Mutations, Mutate(op) PROVE EnvsInv'
  <2>1. EnvShape(page)'
    BY <1>3 DEF Mutate, InWorkspace, Call, EnvCall, Selected, None, EnvShape, EnvCallsOf, EnvOps,
      Mutations, EnvsInv
  <2>2. EnvCallsOf(wire)'
    BY <1>3 DEF Mutate, InWorkspace, Call, EnvCall, Selected, None, EnvShape, EnvCallsOf, EnvOps,
      Mutations, EnvsInv
  <2>3. ListsAreCurrent(wire)'
    BY <1>3 DEF Mutate, InWorkspace, Call, EnvCall, Selected, None, EnvShape, EnvCallsOf, EnvOps,
      Mutations, EnvsInv, ListsAreCurrent
  <2>4. ListFollows(page, wire)'
    BY <1>3 DEF Mutate, InWorkspace, Call, EnvCall, Selected, None, EnvShape, EnvCallsOf, EnvOps,
      Mutations, EnvsInv, ListFollows
  <2>5. UrlFollows(page, wire)'
    BY <1>3 DEF Mutate, InWorkspace, Call, EnvCall, Selected, None, EnvShape, EnvCallsOf, EnvOps,
      Mutations, EnvsInv, UrlFollows
  <2>6. DataFollows(page, wire)'
    BY <1>3 DEF Mutate, InWorkspace, Call, EnvCall, Selected, None, EnvShape, EnvCallsOf, EnvOps,
      Mutations, EnvsInv, DataFollows, Awaits
  <2> QED BY <2>1, <2>2, <2>3, <2>4, <2>5, <2>6 DEF EnvsInv
<1>4. ASSUME RefreshEnvs PROVE EnvsInv'
  BY <1>4 DEF RefreshEnvs, CanRefreshEnvs, Call, EnvList, OnEnvList, EnvCall, None, EnvsInv,
    EnvShape, EnvCallsOf, EnvOps, Mutations, ListsAreCurrent, ListFollows, UrlFollows, Selected,
    DataFollows, Awaits
<1>5. ASSUME CreateEnvironment PROVE EnvsInv'
  BY <1>5 DEF CreateEnvironment, OnEnvList, Call, EnvCall, None, EnvsInv, EnvShape, EnvCallsOf,
    EnvOps, Mutations, ListsAreCurrent, ListFollows, UrlFollows, Selected, DataFollows, Awaits
<1>6. ASSUME BackToEnvs PROVE EnvsInv'
  <2> DEFINE p == [page EXCEPT !.selected = {}, !.url = None]
             W == wire \cup Routed(None)
  <2>1. Shows(p, W)
    BY <1>6 DEF BackToEnvs
  <2>2. EnvCallsOf(W) /\ ListsAreCurrent(W)
    BY DEF EnvsInv, EnvCallsOf, EnvOps, ListsAreCurrent, Routed, EnvList, EnvCall
  <2>3. EnvShape(p) /\ p.rows = page.rows /\ p.stale = page.stale /\ p.url = None /\ p.selected = {}
    BY DEF EnvsInv, EnvShape
  <2> HIDE DEF p
  <2>4. ListFollows(p, W) /\ UrlFollows(p, W)
    BY <2>3 DEF EnvsInv, ListFollows, UrlFollows
  <2> HIDE DEF W
  <2> QED BY <2>1, <2>2, <2>3, <2>4, ShowsKeeps DEF EnvsInv
<1>7. ASSUME PollPreparing PROVE EnvsInv'
  BY <1>7 DEF PollPreparing, InWorkspace, InFlight, EnvList, None, EnvCall, EnvsInv, EnvShape,
    EnvCallsOf, EnvOps, Mutations, ListsAreCurrent, ListFollows, UrlFollows, Selected,
    DataFollows, Awaits
<1>8. ASSUME NEW r \in wire, EnvsArrive(r) PROVE EnvsInv'
  <2> DEFINE p == EnvsRead(r)
  <2>1. r.op = "list" /\ ~Awaits(r) /\ Shows(p, wire \ {r})
    BY <1>8 DEF EnvsArrive, Awaits, Mutations, None
  <2>2. EnvShape(page) /\ EnvCallsOf(wire \ {r}) /\ ListsAreCurrent(wire \ {r})
    BY DEF EnvsInv, EnvCallsOf, ListsAreCurrent
  <2>3. EnvShape(p) /\ ListFollows(p, wire \ {r}) /\ UrlFollows(p, wire \ {r}) /\ p.ws = page.ws
    BY <2>1, ListIsRead DEF UrlFollows
  <2> HIDE DEF p
  <2> QED BY <2>1, <2>2, <2>3, StillAwaits, ShowsKeeps
<1>9. ASSUME NEW r \in wire, CreatedListed(r) PROVE EnvsInv'
  <2> DEFINE o == EnvsRead(r)
             p == [o EXCEPT !.url = r.from, !.selected = {[id |-> r.from, status |-> "preparing"]}, !.loading = FALSE]
             W == (wire \ {r}) \cup Routed(r.from)
  <2>1. r.op = "list" /\ ~Awaits(r) /\ Shows(p, W)
    BY <1>9 DEF CreatedListed, Awaits, Mutations
  <2>2. EnvCallsOf(W) /\ ListsAreCurrent(W)
    BY DEF EnvsInv, EnvCallsOf, EnvOps, ListsAreCurrent, Routed, EnvList, EnvCall
  <2>3. EnvShape(o) /\ ListFollows(o, wire \ {r}) /\ o.ws = page.ws
    BY <2>1, ListIsRead
  <2> HIDE DEF o
  <2>4. /\ EnvShape(p) /\ p.ws = page.ws /\ p.rows = o.rows /\ p.stale = o.stale /\ p.url = r.from
        /\ p.selected = {[id |-> r.from, status |-> "preparing"]}
    BY <2>3 DEF EnvShape
  <2> HIDE DEF p
  <2>5. ListFollows(p, W)
    BY <2>3, <2>4 DEF ListFollows
  <2>6. Selected(p) = p.url
    <3>1. (CHOOSE e \in p.selected : TRUE) \in p.selected
      BY <2>4
    <3> QED BY <2>4, <3>1 DEF Selected
  <2>7. UrlFollows(p, W)
    BY <2>6 DEF UrlFollows
  <2>8. p.selected = {} \/ page.selected = {} \/ Selected(p) # Selected(page) \/ DataFollows(p, W)
    <3>1. p.selected = {} \/ page.selected = {} \/ Selected(p) # Selected(page) \/ DataFollows(p, wire \ {r})
      BY <2>1, <2>4, StillAwaits
    <3> QED BY <3>1 DEF DataFollows
  <2> HIDE DEF W
  <2> QED BY <2>1, <2>2, <2>4, <2>5, <2>7, <2>8, ShowsKeeps DEF EnvsInv
<1>10. ASSUME NEW r \in wire, DataArrives(r) PROVE EnvsInv'
  <2> DEFINE kept == IF r.out = "ok" THEN [page EXCEPT !.cache[r.of] = IF r.old THEN "old" ELSE "fresh"] ELSE page
             free == [kept EXCEPT !.ws.busy = @ /\ r.after # "mutated"]
             late == r.out # "ok" \/ r.old \/ r.of # Selected(page)
             shown == IF r.out = "ok" THEN [free EXCEPT !.ws.of = r.of, !.ws.stale = r.old] ELSE free
             Same(p) == /\ EnvShape(p) /\ p.rows = page.rows /\ p.stale = page.stale /\ p.crossed = page.crossed
                        /\ p.url = page.url /\ p.selected = page.selected
  <2>1. /\ r.op = "data" /\ db' = db /\ wire' = wire \ {r}
        /\ page' = IF r.mine THEN [shown EXCEPT !.ws.late = late] ELSE kept
    BY <1>10 DEF DataArrives, Then
  <2>2. Same(kept) /\ kept.ws = page.ws
    BY DEF EnvsInv, EnvShape
  <2> HIDE DEF kept
  <2>3. Same(free)
    BY <2>2 DEF EnvShape
  <2> HIDE DEF free
  <2>4. Same(shown) /\ (r.out = "ok" => shown.ws.of = r.of /\ shown.ws.stale = r.old)
    BY <2>3 DEF EnvShape
  <2> HIDE DEF shown, late
  <2>5. Same(page') /\ IF r.mine THEN /\ page'.ws.late = late
                                      /\ r.out = "ok" => page'.ws.of = r.of /\ page'.ws.stale = r.old
                                 ELSE page'.ws = page.ws
    BY <2>1, <2>2, <2>4 DEF EnvShape
  <2>6. /\ EnvCallsOf(wire') /\ ListsAreCurrent(wire)' /\ ListFollows(page, wire)' /\ UrlFollows(page, wire)'
    BY <2>1, <2>5 DEF EnvsInv, EnvCallsOf, ListsAreCurrent, ListFollows, UrlFollows, Selected
  <2>7. DataFollows(page, wire)'
    <3>1. CASE r.mine
      BY <2>5, <3>1 DEF DataFollows, Selected, late
    <3>2. CASE ~r.mine
      BY <2>1, <2>5, <3>2 DEF EnvsInv, DataFollows, Selected, Awaits
    <3> QED BY <3>1, <3>2
  <2> QED BY <2>5, <2>6, <2>7 DEF EnvsInv
<1>11. ASSUME NEW r \in wire, MutatedListed(r) PROVE EnvsInv'
  <2> DEFINE o == EnvsRead(r)
             p == [o EXCEPT !.cache[r.from] = None]
             mine == r.mine /\ o.selected # {}
             d == [EnvCall("data", r.from, None) EXCEPT !.mine = mine, !.after = "mutated"]
             W == (wire \ {r}) \cup {d}
  <2>1. r.op = "list" /\ r.after = "mutated" /\ Shows(p, W)
    BY <1>11 DEF MutatedListed
  <2>2. EnvCallsOf(W) /\ ListsAreCurrent(W)
    BY DEF EnvsInv, EnvCallsOf, EnvOps, ListsAreCurrent, EnvCall
  <2>3. /\ EnvShape(o) /\ ListFollows(o, wire \ {r}) /\ o.ws = page.ws
        /\ o.url = None \/ o.crossed \/ Selected(o) \in {None, o.url}
    BY <2>1, ListIsRead
  <2> HIDE DEF o
  <2>4. /\ EnvShape(p) /\ p.ws = page.ws /\ p.rows = o.rows /\ p.stale = o.stale /\ p.url = o.url
        /\ p.selected = o.selected /\ p.crossed = o.crossed
    BY <2>3 DEF EnvShape
  <2> HIDE DEF p
  <2>5. ListFollows(p, W)
    BY <2>3, <2>4 DEF ListFollows
  <2>6. Selected(p) = Selected(o)
    BY <2>4 DEF Selected
  <2>7. UrlFollows(p, W)
    BY <2>3, <2>4, <2>6 DEF UrlFollows
  <2>8. p.selected = {} \/ page.selected = {} \/ Selected(p) # Selected(page) \/ DataFollows(p, W)
    <3>1. CASE Awaits(r) /\ o.selected # {}
      <4>1. Awaits(d)
        BY <3>1 DEF Awaits, EnvCall
      <4> QED BY <4>1 DEF DataFollows
    <3>2. CASE ~Awaits(r)
      <4>1. p.selected = {} \/ page.selected = {} \/ Selected(p) # Selected(page) \/ DataFollows(p, wire \ {r})
        BY <2>4, <3>2, StillAwaits
      <4> QED BY <4>1 DEF DataFollows
    <3> QED BY <2>4, <3>1, <3>2
  <2> HIDE DEF W
  <2> QED BY <2>1, <2>2, <2>4, <2>5, <2>7, <2>8, ShowsKeeps DEF EnvsInv
<1>12. ASSUME NEW r \in wire, NEW heard \in BOOLEAN, EnvironmentCreated(r, heard) PROVE EnvsInv'
  <2>1. r.op = "create" /\ db' = db
    BY <1>12 DEF EnvironmentCreated, Then
  <2>2. CASE heard
    <3> DEFINE s == [EnvList(r.seen, "created") EXCEPT !.from = r.of]
    <3>1. page' = [page EXCEPT !.stale = TRUE] /\ wire' = (wire \ {r}) \cup {s}
      BY <1>12, <2>2 DEF EnvironmentCreated, Then
    <3>2. DOMAIN s = EnvFields /\ s.out = "sent" /\ s.op \in EnvOps
      BY DEF EnvList, EnvCall, EnvFields, EnvOps
    <3> HIDE DEF s
    <3>3. /\ EnvShape(page') /\ page'.stale /\ page'.crossed = page.crossed /\ page'.url = page.url
          /\ page'.selected = page.selected /\ page'.ws = page.ws
      BY <3>1 DEF EnvsInv, EnvShape
    <3>4. EnvCallsOf(wire') /\ ListsAreCurrent(wire)' /\ ListFollows(page, wire)'
      BY <2>1, <3>1, <3>2, <3>3 DEF EnvsInv, EnvCallsOf, ListsAreCurrent, ListFollows, EnvFields
    <3>5. ~Awaits(r)
      BY <2>1 DEF Awaits, Mutations
    <3>6. UrlFollows(page, wire)' /\ DataFollows(page, wire)'
      BY <2>1, <3>1, <3>3, <3>5 DEF EnvsInv, UrlFollows, DataFollows, Selected
    <3> QED BY <3>3, <3>4, <3>6 DEF EnvsInv
  <2>3. CASE ~heard
    <3>1. wire' = wire \ {r}
      BY <1>12, <2>3 DEF EnvironmentCreated, Then
    <3>2. /\ EnvShape(page') /\ page'.stale = (page.stale \/ r.out = "ok") /\ page'.crossed = page.crossed
          /\ page'.url = page.url /\ page'.selected = page.selected /\ page'.ws = page.ws /\ page'.rows = page.rows
      BY <1>12, <2>3 DEF EnvironmentCreated, Then, EnvsInv, EnvShape
    <3>3. EnvCallsOf(wire') /\ ListsAreCurrent(wire)' /\ ListFollows(page, wire)'
      BY <2>1, <3>1, <3>2 DEF EnvsInv, EnvCallsOf, ListsAreCurrent, ListFollows
    <3>4. ~Awaits(r)
      BY <2>1 DEF Awaits, Mutations
    <3>5. UrlFollows(page, wire)' /\ DataFollows(page, wire)'
      BY <2>1, <3>1, <3>2, <3>4 DEF EnvsInv, UrlFollows, DataFollows, Selected
    <3> QED BY <3>2, <3>3, <3>5 DEF EnvsInv
  <2> QED BY <2>2, <2>3
<1>13. ASSUME NEW r \in wire, NEW heard \in BOOLEAN, Mutated(r, heard) PROVE EnvsInv'
  <2>1. CASE ~heard
    <3>1. r.op \in Mutations /\ r.op # "delete" /\ MutationFailed(r)
      BY <1>13, <2>1 DEF Mutated
    <3> QED BY <3>1, MutationFails
  <2>2. CASE heard /\ r.op = "config"
    <3> DEFINE s == [r EXCEPT !.op = "slug", !.out = "sent"]
    <3>1. page' = page /\ wire' = (wire \ {r}) \cup {s} /\ db' = db
      BY <1>13, <2>2 DEF Mutated, Then
    <3>2. /\ DOMAIN s = DOMAIN r /\ s.op = "slug" /\ s.mine = r.mine
      BY DEF EnvsInv, EnvCallsOf
    <3>3. Awaits(r) => Awaits(s)
      BY <3>2 DEF Awaits, Mutations
    <3> HIDE DEF s
    <3> QED BY <2>2, <3>1, <3>2, <3>3
        DEF EnvOps, Mutations, EnvsInv, EnvCallsOf, ListsAreCurrent, ListFollows, UrlFollows, DataFollows
  <2>3. CASE heard /\ r.op \in {"slug", "revise"}
    <3> DEFINE s == [EnvList(r.seen, "mutated") EXCEPT !.from = r.of, !.mine = r.mine]
    <3>1. page' = page /\ wire' = (wire \ {r}) \cup {s} /\ db' = db
      BY <1>13, <2>3 DEF Mutated, Then
    <3>2. /\ DOMAIN s = DOMAIN EnvList(r.seen, "mutated") /\ s.op = "list" /\ s.mine = r.mine /\ s.after = "mutated"
          /\ s.out = "sent"
      BY DEF EnvList, EnvCall
    <3>3. Awaits(r) => Awaits(s)
      BY <3>2 DEF Awaits
    <3>4. DOMAIN s = {"op", "of", "seen", "from", "after", "out", "rows", "old", "mine"}
      BY DEF EnvList, EnvCall
    <3> HIDE DEF s
    <3> QED BY <2>3, <3>1, <3>2, <3>3, <3>4
        DEF EnvOps, EnvsInv, EnvCallsOf, ListsAreCurrent, ListFollows, UrlFollows, DataFollows
  <2>4. CASE heard /\ r.op \notin {"config", "slug", "revise"}
    <3> DEFINE s == [EnvCall("data", r.of, None) EXCEPT !.mine = r.mine, !.after = "mutated"]
    <3>1. /\ page' = [page EXCEPT !.cache[r.of] = None] /\ wire' = (wire \ {r}) \cup {s} /\ db' = db
          /\ r.op \in Mutations \ {"delete"}
      BY <1>13, <2>4 DEF Mutated, ReadAgain, Then
    <3>2. /\ DOMAIN s = {"op", "of", "seen", "from", "after", "out", "rows", "old", "mine"} /\ s.op = "data"
          /\ s.mine = r.mine
      BY DEF EnvCall
    <3>3. Awaits(r) => Awaits(s)
      BY <3>2 DEF Awaits
    <3> HIDE DEF s
    <3>4. /\ EnvShape(page') /\ page'.rows = page.rows /\ page'.stale = page.stale /\ page'.crossed = page.crossed
          /\ page'.url = page.url /\ page'.selected = page.selected /\ page'.ws = page.ws
      BY <3>1 DEF EnvsInv, EnvShape
    <3>5. r.op # "list" /\ r.op # "create"
      BY <3>1 DEF Mutations
    <3> QED BY <3>1, <3>2, <3>3, <3>4, <3>5
         DEF EnvsInv, EnvOps, EnvCallsOf, ListsAreCurrent, ListFollows, UrlFollows, DataFollows, Selected
  <2> QED BY <2>1, <2>2, <2>3, <2>4
<1>14. ASSUME NEW r \in wire, NEW heard \in BOOLEAN, EnvironmentDeleted(r, heard) PROVE EnvsInv'
  <2>1. CASE heard
    <3> DEFINE p == [page EXCEPT !.selected = {}, !.url = None, !.cache[r.of] = None, !.stale = TRUE]
               W == (wire \ {r}) \cup Routed(None) \cup {EnvList(r.seen, None)}
    <3>1. Shows(p, W)
      BY <1>14, <2>1 DEF EnvironmentDeleted
    <3>2. EnvCallsOf(W) /\ ListsAreCurrent(W)
      BY DEF EnvsInv, EnvCallsOf, EnvOps, ListsAreCurrent, Routed, EnvList, EnvCall
    <3>3. EnvShape(p) /\ p.stale /\ p.url = None /\ p.selected = {}
      BY DEF EnvsInv, EnvShape
    <3> HIDE DEF p
    <3>4. ListFollows(p, W) /\ UrlFollows(p, W)
      BY <3>3 DEF ListFollows, UrlFollows
    <3> HIDE DEF W
    <3> QED BY <3>1, <3>2, <3>3, <3>4, ShowsKeeps DEF EnvsInv
  <2>2. CASE ~heard
    <3>1. r.op = "delete" /\ MutationFailed(r)
      BY <1>14, <2>2 DEF EnvironmentDeleted
    <3> QED BY <3>1, MutationFails DEF Mutations
  <2> QED BY <2>1, <2>2
<1>15. ASSUME NEW r \in wire, ServeEnvWrite(r) PROVE EnvsInv'
  <2> DEFINE list == r.op = "delete"
             s == [r EXCEPT !.out = "ok"]
  <2>1. /\ db' = IF list THEN db \ EnvNamed(db, r.of) ELSE db
        /\ wire' = EnvsOutdated(wire \ {r}, r.of, list) \cup {s}
        /\ r.op \in Mutations
    BY <1>15 DEF ServeEnvWrite
  <2>2. DOMAIN s = EnvFields /\ Stands(s, r) /\ s.out = "ok" /\ s.op = r.op /\ s.mine = r.mine
    BY DEF EnvsInv, EnvCallsOf, EnvFields, Stands
  <2>3. r.op # "list"
    BY <2>1 DEF Mutations
  <2>4. EnvCallsOf(wire') /\ ListsAreCurrent(wire)' /\ \A p \in wire : \E q \in wire' : Stands(q, p)
    BY <2>1, <2>2, <2>3, EnvServed
  <2>5. /\ EnvShape(page') /\ page'.rows = page.rows /\ page'.stale = page.stale
        /\ page'.crossed = page.crossed /\ page'.url = page.url /\ page'.selected = page.selected
        /\ page'.ws.of = page.ws.of
        /\ page'.ws.stale = (page.ws.stale \/ page.ws.of = r.of)
        /\ page'.ws.late = (page.ws.late \/ (page.ws.of = r.of /\ ~r.mine))
    BY <1>15 DEF ServeEnvWrite, EnvsInv, EnvShape
  <2>6. s \in wire'
    BY <2>1
  <2> HIDE DEF s
  <2>7. ListFollows(page, wire)'
    <3>1. CASE list
      BY <2>2, <2>6, <3>1 DEF ListFollows
    <3>2. CASE ~list
      BY <2>1, <2>4, <2>5, <3>2, StandIns DEF EnvsInv, ListFollows
    <3> QED BY <3>1, <3>2
  <2>8. UrlFollows(page, wire)'
    BY <2>4, <2>5, StandIns DEF EnvsInv, UrlFollows, Selected
  <2>9. DataFollows(page, wire)'
    <3>1. CASE r.mine
      <4>1. Awaits(s)
        BY <2>1, <2>2, <3>1 DEF Awaits
      <4> QED BY <2>6, <4>1 DEF DataFollows
    <3>2. CASE ~r.mine
      BY <2>4, <2>5, <3>2, StandIns DEF EnvsInv, DataFollows, Selected
    <3> QED BY <3>1, <3>2
  <2> QED BY <2>4, <2>5, <2>7, <2>8, <2>9 DEF EnvsInv
<1>16. ASSUME NEW r \in wire, ServeCreate(r) PROVE EnvsInv'
  <2>1. PICK i \in Envs \ EnvIds(db) :
          /\ db' = db \cup {[id |-> i, status |-> "preparing"]}
          /\ wire' = EnvsOutdated(wire \ {r}, i, TRUE) \cup {[r EXCEPT !.out = "ok", !.of = i]}
    BY <1>16 DEF ServeCreate
  <2> DEFINE s == [r EXCEPT !.out = "ok", !.of = i]
  <2>2. page' = page /\ r.op = "create"
    BY <1>16 DEF ServeCreate
  <2>3. DOMAIN s = EnvFields /\ Stands(s, r) /\ s.out = "ok" /\ s.op = "create"
    BY <2>2 DEF EnvsInv, EnvCallsOf, EnvFields, Stands
  <2>4. wire' = EnvsOutdated(wire \ {r}, i, TRUE) \cup {s} /\ s \in wire'
    BY <2>1
  <2> HIDE DEF s
  <2>5. EnvCallsOf(wire') /\ ListsAreCurrent(wire)' /\ \A p \in wire : \E q \in wire' : Stands(q, p)
    BY <2>2, <2>3, <2>4, EnvServed
  <2>6. ListFollows(page, wire)'
    BY <2>3, <2>4 DEF ListFollows
  <2>7. UrlFollows(page, wire)' /\ DataFollows(page, wire)'
    BY <2>2, <2>5, StandIns DEF EnvsInv, UrlFollows, DataFollows, Selected
  <2> QED BY <2>2, <2>5, <2>6, <2>7 DEF EnvsInv
<1>17. ASSUME NEW r \in wire, ServeEnvRead(r) PROVE EnvsInv'
  <2> DEFINE s == [r EXCEPT !.out = "ok", !.rows = IF r.op = "list" THEN db ELSE {}]
  <2>1. page' = page /\ db' = db /\ wire' = (wire \ {r}) \cup {s} /\ r.op \in {"list", "data"}
    BY <1>17 DEF ServeEnvRead
  <2>2. /\ DOMAIN s = EnvFields /\ Stands(s, r) /\ s.op = r.op /\ s.out = "ok" /\ (s.op = "list" => s.rows = db)
    BY DEF EnvsInv, EnvCallsOf, EnvFields, Stands
  <2> HIDE DEF s
  <2>3. EnvCallsOf(wire') /\ ListsAreCurrent(wire)'
    BY <2>1, <2>2 DEF EnvsInv, EnvCallsOf, ListsAreCurrent, EnvFields
  <2>4. \A p \in wire : \E q \in wire' : Stands(q, p)
    BY <2>1, <2>2 DEF Stands
  <2>5. ListFollows(page, wire)' /\ UrlFollows(page, wire)' /\ DataFollows(page, wire)'
    BY <2>1, <2>4, StandIns DEF EnvsInv, ListFollows, UrlFollows, DataFollows, Selected
  <2> QED BY <2>1, <2>3, <2>5 DEF EnvsInv
<1>18. ASSUME NEW e \in db, Prepared(e) PROVE EnvsInv'
  <2>1. page' = [page EXCEPT !.stale = TRUE] /\ wire' = EnvsOutdated(wire, e.id, TRUE)
    BY <1>18 DEF Prepared
  <2>2. /\ \A q \in wire' : /\ DOMAIN q = EnvFields /\ q.op \in EnvOps
                            /\ q.op = "list" /\ q.out = "ok" /\ ~q.old => FALSE
        /\ \A p \in wire : \E q \in wire' : Stands(q, p)
    BY <2>1, MarkIs
  <2>3. /\ EnvShape(page') /\ page'.stale
        /\ page'.crossed = page.crossed /\ page'.url = page.url /\ page'.selected = page.selected /\ page'.ws = page.ws
    BY <2>1 DEF EnvsInv, EnvShape
  <2>4. EnvCallsOf(wire') /\ ListsAreCurrent(wire)' /\ ListFollows(page, wire)'
    BY <2>2, <2>3 DEF EnvCallsOf, ListsAreCurrent, ListFollows, EnvFields
  <2>5. UrlFollows(page, wire)' /\ DataFollows(page, wire)'
    BY <2>2, <2>3, StandIns DEF EnvsInv, UrlFollows, DataFollows, Selected
  <2> QED BY <2>3, <2>4, <2>5 DEF EnvsInv
<1> QED
  BY <1>1, <1>2, <1>3, <1>4, <1>5, <1>6, <1>7, <1>8, <1>9, <1>10, <1>11, <1>12, <1>13, <1>14,
    <1>15, <1>16, <1>17, <1>18 DEF EnvsNext


-----------------------------------------------------------------------------
(* The tabs of the workspace of a virtual network *)

TabsShape(p) ==
    /\ p.at = "tabs"
    /\ DOMAIN p = {"at", "url", "tab", "linked", "stale", "selected", "link", "renaming", "funding", "busy",
                   "freed", "loading", "calls"}
    /\ DOMAIN p.link = {"open", "step", "address"}
    /\ p.busy \in BOOLEAN /\ p.freed \in BOOLEAN

\* No account is without an address: not the server's, nor those that were read.
HasAddresses(L) == \A w \in L : w.address # None
TabCallsOf(W) ==
    \A r \in W :
      /\ DOMAIN r = {"op", "who", "after", "out", "rows", "old"}
      /\ r.op \in TabWrites \cup {"data"}
      /\ r.op = "link" => r.who # None
      /\ r.op \in Unwaiting => r.after = None
      /\ r.op = "data" => r.after \in TabWrites \cup {None} /\ HasAddresses(r.rows)

\* The accounts that were read are the server's unless they are marked, and what
\* was changed but not heard of makes those on display stale.
AccountsAreCurrent(W) == \A r \in W : r.op = "data" /\ r.out = "ok" /\ ~r.old => r.rows = db
LinkedFollow(p, W) ==
    p.stale \/ p.linked = db \/ \E r \in W : r.op \in TabWrites /\ r.out = "ok"

\* The tab and the account are those of the URL.
FollowsUrl(p) ==
    /\ p.selected = IF RouteTab(p.url) = "accounts" THEN At(p.linked, p.url.addr) ELSE {}
    /\ p.tab = "accounts" /\ p.url.addr # None => p.linked = {} \/ p.selected # {}

\* A change is under way until the reading that follows it has answered; those
\* that wait for one another are so alone, unless the buttons were freed early.
Changes(r) == PartOf(r, TabWrites)
Waits(r) == PartOf(r, Waiting)
ChangesAlone(p, W) ==
    /\ p.busy => \E r \in W : Changes(r)
    /\ ~p.freed => /\ \A r, q \in W : Waits(r) /\ Waits(q) => r = q
                   /\ (\E r \in W : Waits(r)) => p.busy

TabsInv ==
    /\ TabsShape(page) /\ TabCallsOf(wire) /\ HasAddresses(page.linked) /\ HasAddresses(db)
    /\ AccountsAreCurrent(wire) /\ LinkedFollow(page, wire) /\ FollowsUrl(page)
    /\ ChangesAlone(page, wire)

\* The list, the URL and the changes are as the runs ask.
LEMMA TabsHold == TabsInv => LinkedAgree /\ AccountFollowsUrl /\ FormsWait
<1> SUFFICES ASSUME TabsInv PROVE LinkedAgree /\ AccountFollowsUrl /\ FormsWait
  OBVIOUS
<1>1. LinkedAgree /\ AccountFollowsUrl
  BY DEF TabsInv, LinkedFollow, FollowsUrl, LinkedAgree, AccountFollowsUrl, InFlight
<1> DEFINE C == {r \in wire : PartOf(r, Waiting)}
<1>2. ~page.freed => Cardinality(C) <= 1
  <2>1. CASE C = {}
    BY <2>1, FS_EmptySet
  <2>2. CASE C # {} /\ ~page.freed
    <3>1. PICK c \in C : TRUE
      BY <2>2
    <3>2. C = {c}
      BY <2>2, <3>1 DEF TabsInv, ChangesAlone, Waits
    <3> HIDE DEF C
    <3>3. Cardinality({c}) = 1
      BY FS_Singleton
    <3> QED BY <3>2, <3>3
  <2> QED BY <2>1, <2>2
<1> HIDE DEF C
<1>3. /\ page.busy => \E r \in wire : PartOf(r, TabWrites)
      /\ ~page.freed => ((\E r \in wire : PartOf(r, Waiting)) => page.busy)
  BY DEF TabsInv, ChangesAlone, Changes, Waits
<1> QED BY <1>1, <1>2, <1>3 DEF FormsWait, C

\* The effects that follow a change bring the page to its URL.
LEMMA SettledFollows ==
  ASSUME NEW p, TabsShape(p), HasAddresses(p.linked)
  PROVE  /\ TabsShape(Settled(p)) /\ FollowsUrl(Settled(p)) /\ Settled(p).linked = p.linked
         /\ Settled(p).stale = p.stale /\ Settled(p).busy = p.busy /\ Settled(p).freed = p.freed
<1> DEFINE t == RouteTab(p.url)
           a == IF t \in {"accounts", "contracts"} THEN p.url.addr ELSE None
           unknown == t = "accounts" /\ p.linked # {} /\ At(p.linked, a) = {}
           s == Settled(p)
<1>1. /\ s = [p EXCEPT !.tab = t, !.url = [tab |-> t, addr |-> IF unknown THEN None ELSE a],
                       !.selected = IF t = "accounts" THEN At(p.linked, a) ELSE {}]
      /\ t # "wallets"
  BY DEF Settled, RouteTab
<1> HIDE DEF s, t
<1>2. /\ TabsShape(s) /\ s.linked = p.linked /\ s.stale = p.stale /\ s.busy = p.busy /\ s.freed = p.freed
      /\ s.tab = t /\ s.url.tab = t /\ s.url.addr = (IF unknown THEN None ELSE a)
      /\ s.selected = IF t = "accounts" THEN At(p.linked, a) ELSE {}
  BY <1>1 DEF TabsShape
<1>3. RouteTab(s.url) = t
  BY <1>1, <1>2 DEF RouteTab
<1>4. unknown => At(p.linked, a) = {} /\ At(p.linked, None) = {}
  BY DEF HasAddresses, At
<1> HIDE DEF unknown
<1>5. FollowsUrl(s)
  <2>1. CASE t = "accounts"
    <3>1. s.selected = At(s.linked, s.url.addr)
      BY <1>2, <1>4, <2>1
    <3>2. s.url.addr # None => s.linked = {} \/ s.selected # {}
      BY <1>2, <2>1 DEF unknown
    <3> QED BY <1>3, <2>1, <3>1, <3>2 DEF FollowsUrl
  <2>2. CASE t # "accounts"
    BY <1>2, <1>3, <2>2 DEF FollowsUrl
  <2> QED BY <2>1, <2>2
<1> QED BY <1>2, <1>5 DEF s

\* The invariant holds when the workspace is mounted.
LEMMA TabsStart == TabsInit => TabsInv
<1> SUFFICES ASSUME TabsInit PROVE TabsInv
  OBVIOUS
<1>1. PICK u \in Typed : page = TabsMounted([tab |-> RouteTab(u), addr |-> u.addr])
  BY DEF TabsInit
<1>2. /\ TabsShape(page) /\ page.linked = {} /\ page.stale /\ page.selected = {} /\ ~page.busy
  BY <1>1 DEF TabsMounted, TabsShape, NoLink
<1>3. HasAddresses(db)
  BY AddressesAssumption DEF TabsInit, HasAddresses
<1>4. /\ wire = {TabCall("data", None, None)} /\ TabCallsOf(wire) /\ AccountsAreCurrent(wire)
      /\ ChangesAlone(page, wire)
  BY <1>2 DEF TabsInit, TabCall, TabCallsOf, AccountsAreCurrent, ChangesAlone, Changes, Waits, PartOf, TabWrites, Waiting, Unwaiting, HasAddresses, None
<1> QED BY <1>2, <1>3, <1>4 DEF TabsInv, HasAddresses, LinkedFollow, FollowsUrl, At


\* What does not touch the URL, the tab, the selection and the accounts.
LEMMA UrlKept ==
  ASSUME FollowsUrl(page), page'.url = page.url, page'.tab = page.tab, page'.selected = page.selected,
         page'.linked = page.linked
  PROVE  FollowsUrl(page)'
BY DEF FollowsUrl

\* A change that begins: while no other that waits is under way, or without waiting.
LEMMA ChangeBegins ==
  ASSUME TabsInv, NEW s, Changes(s), ~page.busy \/ ~Waits(s), wire' = wire \cup {s}, page'.busy,
         page'.freed = page.freed
  PROVE  ChangesAlone(page, wire)'
BY DEF TabsInv, ChangesAlone

\* A change that goes on: with its answer, or with the reading after it.
LEMMA ChangeGoesOn ==
  ASSUME TabsInv, NEW r \in wire, NEW s, Changes(s) <=> Changes(r), Waits(s) <=> Waits(r),
         wire' = (wire \ {r}) \cup {s}, page'.busy = page.busy, page'.freed = page.freed
  PROVE  ChangesAlone(page, wire)'
BY DEF TabsInv, ChangesAlone

\* A change that is over: if it did not wait, the buttons may be free too early.
LEMMA ChangeEnds ==
  ASSUME TabsInv, NEW r \in wire, Changes(r), wire' = wire \ {r}, ~page'.busy,
         page'.freed = ((page.freed \/ PartOf(r, Unwaiting)) /\ \E q \in wire \ {r} : PartOf(q, Waiting))
  PROVE  ChangesAlone(page, wire)'
<1>1. Waits(r) \/ PartOf(r, Unwaiting)
  BY DEF Changes, Waits, PartOf, TabWrites
<1>2. CASE \A q \in wire' : ~Waits(q)
  BY <1>2 DEF ChangesAlone
<1>3. CASE \E q \in wire' : Waits(q)
  <2>1. page'.freed = (page.freed \/ PartOf(r, Unwaiting))
    BY <1>3 DEF Waits
  <2>2. CASE ~page.freed /\ ~PartOf(r, Unwaiting)
    BY <1>1, <1>3, <2>2 DEF TabsInv, ChangesAlone
  <2> QED BY <2>1, <2>2 DEF ChangesAlone
<1> QED BY <1>2, <1>3

\* Marking what was read leaves everything else about it.
LEMMA TabsMarked ==
  ASSUME TabsInv, NEW W \in SUBSET wire
  PROVE  /\ \A q \in TabsOutdated(W) : /\ TabCallsOf({q}) /\ ~(q.op = "data" /\ q.out = "ok" /\ ~q.old)
                                       /\ \E o \in W : Waits(q) <=> Waits(o)
         /\ (\A r, q \in W : Waits(r) /\ Waits(q) => r = q) =>
              \A r, q \in TabsOutdated(W) : Waits(r) /\ Waits(q) => r = q
<1> DEFINE M(r) == IF r.op = "data" /\ r.out = "ok" THEN [r EXCEPT !.old = TRUE] ELSE r
<1>1. TabsOutdated(W) = {M(r) : r \in W}
  BY DEF TabsOutdated
<1>2. ASSUME NEW r \in W
      PROVE  TabCallsOf({M(r)}) /\ ~(M(r).op = "data" /\ M(r).out = "ok" /\ ~M(r).old) /\ (Waits(M(r)) <=> Waits(r))
  BY DEF TabsInv, TabCallsOf, Waits, PartOf, HasAddresses
<1> HIDE DEF M
<1>3. \A q \in TabsOutdated(W) : /\ TabCallsOf({q}) /\ ~(q.op = "data" /\ q.out = "ok" /\ ~q.old)
                                 /\ \E o \in W : Waits(q) <=> Waits(o)
  BY <1>1, <1>2
<1>4. ASSUME \A r, q \in W : Waits(r) /\ Waits(q) => r = q, NEW x \in TabsOutdated(W), NEW y \in TabsOutdated(W),
             Waits(x), Waits(y)
      PROVE  x = y
  <2>1. PICK r \in W : x = M(r)
    BY <1>1
  <2>2. PICK q \in W : y = M(q)
    BY <1>1
  <2>3. Waits(r) /\ Waits(q)
    BY <1>2, <1>4, <2>1, <2>2
  <2>4. r = q
    BY <1>4, <2>3
  <2> QED BY <2>1, <2>2, <2>4
<1> QED BY <1>3, <1>4

\* Every step keeps the invariant, however the tabs, the data and the changes
\* of the accounts are answered.
LEMMA TabsStep ==
  ASSUME TabsInv, TabsNext
  PROVE  TabsInv'
<1>1. ASSUME NEW t \in Tabs, SelectTab(t) PROVE TabsInv'
  <2> DEFINE p == [page EXCEPT !.url = [tab |-> t, addr |-> None], !.renaming = {}, !.link.open = FALSE]
  <2>1. page' = Settled(p) /\ wire' = wire /\ db' = db
    BY <1>1 DEF SelectTab, Show
  <2>2. TabsShape(p) /\ HasAddresses(p.linked) /\ p.linked = page.linked /\ p.stale = page.stale /\ p.busy = page.busy /\ p.freed = page.freed
    BY DEF TabsInv, TabsShape, NoLink
  <2> HIDE DEF p
  <2>3. /\ TabsShape(page)' /\ FollowsUrl(page)' /\ page'.linked = page.linked /\ page'.stale = page.stale
        /\ page'.busy = page.busy /\ page'.freed = page.freed
    BY <2>1, <2>2, SettledFollows
  <2> QED BY <2>1, <2>3 DEF TabsInv, LinkedFollow, AccountsAreCurrent, ChangesAlone
<1>2. ASSUME NEW u \in Typed, NavigateTabs(u) PROVE TabsInv'
  <2> DEFINE p == [page EXCEPT !.url = u]
  <2>1. page' = Settled(p) /\ wire' = wire /\ db' = db
    BY <1>2 DEF NavigateTabs, Show
  <2>2. TabsShape(p) /\ HasAddresses(p.linked) /\ p.linked = page.linked /\ p.stale = page.stale /\ p.busy = page.busy /\ p.freed = page.freed
    BY DEF TabsInv, TabsShape, NoLink
  <2> HIDE DEF p
  <2>3. /\ TabsShape(page)' /\ FollowsUrl(page)' /\ page'.linked = page.linked /\ page'.stale = page.stale
        /\ page'.busy = page.busy /\ page'.freed = page.freed
    BY <2>1, <2>2, SettledFollows
  <2> QED BY <2>1, <2>3 DEF TabsInv, LinkedFollow, AccountsAreCurrent, ChangesAlone
<1>3. ASSUME NEW w \in page.linked, OpenAccount(w) PROVE TabsInv'
  <2> DEFINE p == [page EXCEPT !.url = [tab |-> "accounts", addr |-> w.address]]
  <2>1. page' = Settled(p) /\ wire' = wire /\ db' = db
    BY <1>3 DEF OpenAccount, Show
  <2>2. TabsShape(p) /\ HasAddresses(p.linked) /\ p.linked = page.linked /\ p.stale = page.stale /\ p.busy = page.busy /\ p.freed = page.freed
    BY DEF TabsInv, TabsShape, NoLink
  <2> HIDE DEF p
  <2>3. /\ TabsShape(page)' /\ FollowsUrl(page)' /\ page'.linked = page.linked /\ page'.stale = page.stale
        /\ page'.busy = page.busy /\ page'.freed = page.freed
    BY <2>1, <2>2, SettledFollows
  <2> QED BY <2>1, <2>3 DEF TabsInv, LinkedFollow, AccountsAreCurrent, ChangesAlone
<1>4. ASSUME NEW w \in page.linked, OpenRename(w) PROVE TabsInv'
  BY <1>4 DEF OpenRename, OnTab, Show, NoDialog, InLink, InRename, InFund, TabsInv, TabsShape,
    TabCallsOf, TabWrites, Waiting, Unwaiting, None, HasAddresses, AccountsAreCurrent, LinkedFollow, FollowsUrl,
    RouteTab, At, ChangesAlone, Changes, Waits
<1>5. ASSUME BackToAccounts PROVE TabsInv'
  <2> DEFINE p == [page EXCEPT !.url = [tab |-> "accounts", addr |-> None]]
  <2>1. page' = Settled(p) /\ wire' = wire /\ db' = db
    BY <1>5 DEF BackToAccounts, Show
  <2>2. TabsShape(p) /\ HasAddresses(p.linked) /\ p.linked = page.linked /\ p.stale = page.stale /\ p.busy = page.busy /\ p.freed = page.freed
    BY DEF TabsInv, TabsShape, NoLink
  <2> HIDE DEF p
  <2>3. /\ TabsShape(page)' /\ FollowsUrl(page)' /\ page'.linked = page.linked /\ page'.stale = page.stale
        /\ page'.busy = page.busy /\ page'.freed = page.freed
    BY <2>1, <2>2, SettledFollows
  <2> QED BY <2>1, <2>3 DEF TabsInv, LinkedFollow, AccountsAreCurrent, ChangesAlone
<1>6. ASSUME ReloadData PROVE TabsInv'
  BY <1>6 DEF ReloadData, OnTab, Call, TabCall, None, NoDialog, InLink, InRename, InFund,
    TabsInv, TabsShape, TabCallsOf, TabWrites, Waiting, Unwaiting, HasAddresses, AccountsAreCurrent, LinkedFollow,
    FollowsUrl, RouteTab, At, ChangesAlone, Changes, Waits, PartOf
<1>7. ASSUME OpenLink PROVE TabsInv'
  BY <1>7 DEF OpenLink, OnTab, Show, NoDialog, InLink, InRename, InFund, TabsInv, TabsShape,
    TabCallsOf, TabWrites, Waiting, Unwaiting, None, HasAddresses, AccountsAreCurrent, LinkedFollow, FollowsUrl,
    RouteTab, At, ChangesAlone, Changes, Waits
<1>8. ASSUME LinkStepBack PROVE TabsInv'
  BY <1>8 DEF LinkStepBack, InLink, Show, TabsInv, TabsShape, TabCallsOf, TabWrites, Waiting, Unwaiting, None,
    HasAddresses, AccountsAreCurrent, LinkedFollow, FollowsUrl, RouteTab, At, ChangesAlone,
    Changes, Waits
<1>9. ASSUME CloseLink PROVE TabsInv'
  BY <1>9 DEF CloseLink, InLink, Show, TabsInv, TabsShape, TabCallsOf, TabWrites, Waiting, Unwaiting, None,
    HasAddresses, AccountsAreCurrent, LinkedFollow, FollowsUrl, RouteTab, At, ChangesAlone,
    Changes, Waits
<1>10. ASSUME LinkWallet PROVE TabsInv'
  <2>1. TabsShape(page)'
    BY <1>10 DEF LinkWallet, InLink, None, Call, TabCall, TabsShape, TabCallsOf, TabWrites, Waiting, Unwaiting,
      HasAddresses, TabsInv
  <2>2. TabCallsOf(wire)'
    BY <1>10 DEF LinkWallet, InLink, None, Call, TabCall, TabsShape, TabCallsOf, TabWrites, Waiting, Unwaiting,
      HasAddresses, TabsInv
  <2>3. HasAddresses(page.linked)'
    BY <1>10 DEF LinkWallet, InLink, None, Call, TabCall, TabsShape, TabCallsOf, TabWrites, Waiting, Unwaiting,
      HasAddresses, TabsInv
  <2>4. HasAddresses(db)'
    BY <1>10 DEF LinkWallet, InLink, None, Call, TabCall, TabsShape, TabCallsOf, TabWrites, Waiting, Unwaiting,
      HasAddresses, TabsInv
  <2>5. AccountsAreCurrent(wire)'
    BY <1>10 DEF LinkWallet, InLink, None, Call, TabCall, TabsShape, TabCallsOf, TabWrites, Waiting, Unwaiting,
      HasAddresses, TabsInv, AccountsAreCurrent
  <2>6. LinkedFollow(page, wire)'
    BY <1>10 DEF LinkWallet, InLink, None, Call, TabCall, TabsShape, TabCallsOf, TabWrites, Waiting, Unwaiting,
      HasAddresses, TabsInv, LinkedFollow
  <2>7. FollowsUrl(page)'
    BY <1>10 DEF LinkWallet, InLink, None, Call, TabCall, TabsShape, TabCallsOf, TabWrites, Waiting, Unwaiting,
      HasAddresses, TabsInv, FollowsUrl, RouteTab, At
  <2>8. ChangesAlone(page, wire)'
    <3> DEFINE s == TabCall("link", page.link.address, page.link.step)
    <3>1. /\ wire' = wire \cup {s} /\ page'.busy /\ ~page.busy /\ page'.freed = page.freed
      BY <1>10 DEF LinkWallet, Call, TabsInv, TabsShape
    <3>2. Changes(s)
      BY DEF Changes, Waits, PartOf, TabWrites, Waiting, Unwaiting, TabCall
    <3> HIDE DEF s
    <3> QED BY <3>1, <3>2, ChangeBegins
  <2> QED BY <2>1, <2>2, <2>3, <2>4, <2>5, <2>6, <2>7, <2>8 DEF TabsInv
<1>11. ASSUME NEW a \in Sought \cap Addresses, TypeLinkAddress(a) PROVE TabsInv'
  BY <1>11 DEF TypeLinkAddress, InLink, Show, TabsInv, TabsShape, TabCallsOf, TabWrites, Waiting, Unwaiting, None,
    HasAddresses, AccountsAreCurrent, LinkedFollow, FollowsUrl, RouteTab, At, ChangesAlone,
    Changes, Waits
<1>12. ASSUME CloseRename PROVE TabsInv'
  BY <1>12 DEF CloseRename, InRename, Show, TabsInv, TabsShape, TabCallsOf, TabWrites, Waiting, Unwaiting, None,
    HasAddresses, AccountsAreCurrent, LinkedFollow, FollowsUrl, RouteTab, At, ChangesAlone,
    Changes, Waits
<1>13. ASSUME RenameAccount PROVE TabsInv'
  <2>1. TabsShape(page)'
    BY <1>13 DEF RenameAccount, InRename, Call, TabCall, None, TabsShape, TabCallsOf, TabWrites, Waiting, Unwaiting,
      HasAddresses, TabsInv
  <2>2. TabCallsOf(wire)'
    BY <1>13 DEF RenameAccount, InRename, Call, TabCall, None, TabsShape, TabCallsOf, TabWrites, Waiting, Unwaiting,
      HasAddresses, TabsInv
  <2>3. HasAddresses(page.linked)'
    BY <1>13 DEF RenameAccount, InRename, Call, TabCall, None, TabsShape, TabCallsOf, TabWrites, Waiting, Unwaiting,
      HasAddresses, TabsInv
  <2>4. HasAddresses(db)'
    BY <1>13 DEF RenameAccount, InRename, Call, TabCall, None, TabsShape, TabCallsOf, TabWrites, Waiting, Unwaiting,
      HasAddresses, TabsInv
  <2>5. AccountsAreCurrent(wire)'
    BY <1>13 DEF RenameAccount, InRename, Call, TabCall, None, TabsShape, TabCallsOf, TabWrites, Waiting, Unwaiting,
      HasAddresses, TabsInv, AccountsAreCurrent
  <2>6. LinkedFollow(page, wire)'
    BY <1>13 DEF RenameAccount, InRename, Call, TabCall, None, TabsShape, TabCallsOf, TabWrites, Waiting, Unwaiting,
      HasAddresses, TabsInv, LinkedFollow
  <2>7. FollowsUrl(page)'
    BY <1>13 DEF RenameAccount, InRename, Call, TabCall, None, TabsShape, TabCallsOf, TabWrites, Waiting, Unwaiting,
      HasAddresses, TabsInv, FollowsUrl, RouteTab, At
  <2>8. ChangesAlone(page, wire)'
    <3>1. PICK w \in page.renaming : Call([page EXCEPT !.busy = TRUE], TabCall("label", w.address, None))
      BY <1>13 DEF RenameAccount
    <3> DEFINE s == TabCall("label", w.address, None)
    <3>2. /\ wire' = wire \cup {s} /\ page'.busy /\ ~page.busy /\ page'.freed = page.freed
      BY <1>13, <3>1 DEF RenameAccount, Call, TabsInv, TabsShape
    <3>3. Changes(s)
      BY DEF Changes, Waits, PartOf, TabWrites, Waiting, Unwaiting, TabCall
    <3> HIDE DEF s
    <3> QED BY <3>2, <3>3, ChangeBegins
  <2> QED BY <2>1, <2>2, <2>3, <2>4, <2>5, <2>6, <2>7, <2>8 DEF TabsInv
<1>14. ASSUME OpenFund PROVE TabsInv'
  BY <1>14 DEF OpenFund, OnTab, OnAccount, Show, NoDialog, InLink, InRename, InFund, TabsInv,
    TabsShape, TabCallsOf, TabWrites, Waiting, Unwaiting, None, HasAddresses, AccountsAreCurrent, LinkedFollow,
    FollowsUrl, RouteTab, At, ChangesAlone, Changes, Waits
<1>15. ASSUME CloseFund PROVE TabsInv'
  BY <1>15 DEF CloseFund, InFund, Show, TabsInv, TabsShape, TabCallsOf, TabWrites, Waiting, Unwaiting, None,
    HasAddresses, AccountsAreCurrent, LinkedFollow, FollowsUrl, RouteTab, At, ChangesAlone,
    Changes, Waits
<1>16. ASSUME FundAccount PROVE TabsInv'
  <2>1. TabsShape(page)'
    BY <1>16 DEF FundAccount, InFund, Call, TabCall, None, TabsShape, TabCallsOf, TabWrites, Waiting, Unwaiting,
      HasAddresses, TabsInv
  <2>2. TabCallsOf(wire)'
    BY <1>16 DEF FundAccount, InFund, Call, TabCall, None, TabsShape, TabCallsOf, TabWrites, Waiting, Unwaiting,
      HasAddresses, TabsInv
  <2>3. HasAddresses(page.linked)'
    BY <1>16 DEF FundAccount, InFund, Call, TabCall, None, TabsShape, TabCallsOf, TabWrites, Waiting, Unwaiting,
      HasAddresses, TabsInv
  <2>4. HasAddresses(db)'
    BY <1>16 DEF FundAccount, InFund, Call, TabCall, None, TabsShape, TabCallsOf, TabWrites, Waiting, Unwaiting,
      HasAddresses, TabsInv
  <2>5. AccountsAreCurrent(wire)'
    BY <1>16 DEF FundAccount, InFund, Call, TabCall, None, TabsShape, TabCallsOf, TabWrites, Waiting, Unwaiting,
      HasAddresses, TabsInv, AccountsAreCurrent
  <2>6. LinkedFollow(page, wire)'
    BY <1>16 DEF FundAccount, InFund, Call, TabCall, None, TabsShape, TabCallsOf, TabWrites, Waiting, Unwaiting,
      HasAddresses, TabsInv, LinkedFollow
  <2>7. FollowsUrl(page)'
    BY <1>16 DEF FundAccount, InFund, Call, TabCall, None, TabsShape, TabCallsOf, TabWrites, Waiting, Unwaiting,
      HasAddresses, TabsInv, FollowsUrl, RouteTab, At
  <2>8. ChangesAlone(page, wire)'
    <3>1. PICK a \in page.funding : Call([page EXCEPT !.busy = TRUE], TabCall("fund", a, None))
      BY <1>16 DEF FundAccount
    <3> DEFINE s == TabCall("fund", a, None)
    <3>2. /\ wire' = wire \cup {s} /\ page'.busy /\ ~page.busy /\ page'.freed = page.freed
      BY <1>16, <3>1 DEF FundAccount, Call, TabsInv, TabsShape
    <3>3. Changes(s)
      BY DEF Changes, Waits, PartOf, TabWrites, Waiting, Unwaiting, TabCall
    <3> HIDE DEF s
    <3> QED BY <3>2, <3>3, ChangeBegins
  <2> QED BY <2>1, <2>2, <2>3, <2>4, <2>5, <2>6, <2>7, <2>8 DEF TabsInv
<1>17. ASSUME NEW r \in wire, TabDataArrives(r) PROVE TabsInv'
  <2> DEFINE read == IF r.out = "ok" THEN [page EXCEPT !.linked = r.rows, !.stale = r.old] ELSE page
             done == [read EXCEPT !.loading = FALSE]
             free == IF r.after = None THEN done ELSE Released(done, r)
             closed == CASE r.after = "link" -> [free EXCEPT !.link = NoLink]
                         [] r.after = "fund" -> [free EXCEPT !.funding = {}]
                         [] OTHER -> free
             left == (page.freed \/ PartOf(r, Unwaiting)) /\ \E q \in wire \ {r} : PartOf(q, Waiting)
  <2>1. page' = Settled(closed) /\ wire' = wire \ {r} /\ db' = db /\ r.op = "data"
    BY <1>17 DEF TabDataArrives, Then
  <2>2. /\ TabsShape(read) /\ HasAddresses(read.linked) /\ read.busy = page.busy /\ read.freed = page.freed
        /\ IF r.out = "ok" THEN read.linked = r.rows /\ read.stale = r.old
           ELSE read.linked = page.linked /\ read.stale = page.stale
    BY <2>1 DEF TabsInv, TabsShape, TabCallsOf
  <2> HIDE DEF read
  <2>3. /\ TabsShape(done) /\ done.linked = read.linked /\ done.stale = read.stale
        /\ done.busy = page.busy /\ done.freed = page.freed
    BY <2>2 DEF TabsShape
  <2> HIDE DEF done
  <2>4. left \in BOOLEAN
    OBVIOUS
  <2>5. Released(done, r) = [done EXCEPT !.busy = FALSE, !.freed = left]
    BY <2>3 DEF Released, TabsShape
  <2> HIDE DEF left
  <2>6. /\ TabsShape(free) /\ free.linked = read.linked /\ free.stale = read.stale
        /\ free.busy = (page.busy /\ r.after = None)
        /\ free.freed = IF r.after = None THEN page.freed ELSE left
    BY <2>3, <2>4, <2>5 DEF TabsShape
  <2> HIDE DEF free
  <2>7. /\ TabsShape(closed) /\ closed.linked = read.linked /\ closed.stale = read.stale
        /\ closed.busy = free.busy /\ closed.freed = free.freed
    BY <2>6 DEF TabsShape, NoLink
  <2> HIDE DEF closed
  <2>8. /\ TabsShape(page)' /\ FollowsUrl(page)' /\ page'.linked = read.linked /\ page'.stale = read.stale
        /\ page'.busy = free.busy /\ page'.freed = free.freed
    BY <2>1, <2>2, <2>7, SettledFollows
  <2>9. TabCallsOf(wire') /\ AccountsAreCurrent(wire)' /\ HasAddresses(page.linked)' /\ HasAddresses(db)'
    BY <2>1, <2>2, <2>8 DEF TabsInv, TabCallsOf, AccountsAreCurrent
  <2>10. LinkedFollow(page, wire)'
    BY <2>1, <2>2, <2>8 DEF TabsInv, LinkedFollow, AccountsAreCurrent, TabWrites, Waiting, Unwaiting
  <2>11. ChangesAlone(page, wire)'
    <3>1. CASE r.after = None
      <4>1. ~Changes(r) /\ ~Waits(r)
        BY <2>1, <3>1 DEF Changes, Waits, PartOf, TabWrites, Waiting, Unwaiting, None
      <4>2. page'.busy = page.busy /\ page'.freed = page.freed
        BY <2>6, <2>8, <3>1 DEF TabsInv, TabsShape
      <4> QED BY <2>1, <4>1, <4>2 DEF TabsInv, ChangesAlone
    <3>2. CASE r.after # None
      <4>1. Changes(r)
        BY <2>1, <3>2 DEF TabsInv, TabCallsOf, Changes, PartOf
      <4>2. ~page'.busy /\ page'.freed = left
        BY <2>6, <2>8, <3>2
      <4> QED BY <2>1, <4>1, <4>2, ChangeEnds DEF left
    <3> QED BY <3>1, <3>2
  <2> QED BY <2>8, <2>9, <2>10, <2>11 DEF TabsInv
<1>18. ASSUME NEW r \in wire, ServeTabWrite(r) PROVE TabsInv'
  <2>1. CASE r.op = "link" /\ r.after = "form" /\ wire' = (wire \ {r}) \cup {[r EXCEPT !.out = "virtual"]}
                  /\ page' = page /\ db' = db
    <3> DEFINE s == [r EXCEPT !.out = "virtual"]
    <3>1. TabCallsOf({s}) /\ s.op = "link" /\ (Changes(s) <=> Changes(r)) /\ (Waits(s) <=> Waits(r))
      BY <2>1 DEF TabsInv, TabCallsOf, Changes, Waits, PartOf, TabWrites, Waiting, Unwaiting
    <3>2. r.out = "sent"
      BY <1>18 DEF ServeTabWrite
    <3>3. wire' = (wire \ {r}) \cup {s}
      BY <2>1
    <3> HIDE DEF s
    <3>4. TabCallsOf(wire') /\ AccountsAreCurrent(wire)' /\ LinkedFollow(page, wire)'
      BY <2>1, <3>1, <3>2, <3>3 DEF TabsInv, TabCallsOf, AccountsAreCurrent, LinkedFollow
    <3>5. ChangesAlone(page, wire)'
      BY <2>1, <3>1, <3>3, ChangeGoesOn
    <3> QED BY <2>1, <3>4, <3>5 DEF TabsInv
  <2>2. CASE /\ r.op \in {"label", "fund"} => At(db, r.who) # {}
             /\ db' = CASE r.op = "link" /\ At(db, r.who) = {} -> db \cup {[address |-> r.who, label |-> FALSE]}
                        [] r.op = "label" -> (db \ At(db, r.who)) \cup {[address |-> r.who, label |-> TRUE]}
                        [] OTHER -> db
             /\ wire' = TabsOutdated(wire \ {r}) \cup {[r EXCEPT !.out = "ok"]}
             /\ page' = page
    <3> DEFINE s == [r EXCEPT !.out = "ok"]
               V == TabsOutdated(wire \ {r})
    <3>1. r.op \in TabWrites
      BY <1>18 DEF ServeTabWrite
    <3>2. TabCallsOf({s}) /\ s.op \in TabWrites /\ s.out = "ok" /\ Changes(s) /\ Changes(r)
          /\ (Waits(s) <=> Waits(r))
      BY <3>1 DEF TabsInv, TabCallsOf, Changes, Waits, PartOf, TabWrites, Waiting, Unwaiting
    <3>3. wire' = V \cup {s}
      BY <2>2
    <3>4. /\ \A q \in V : /\ TabCallsOf({q}) /\ ~(q.op = "data" /\ q.out = "ok" /\ ~q.old)
                          /\ \E o \in wire \ {r} : Waits(q) <=> Waits(o)
          /\ (\A o, q \in wire \ {r} : Waits(o) /\ Waits(q) => o = q) =>
               \A o, q \in V : Waits(o) /\ Waits(q) => o = q
      BY TabsMarked
    <3> HIDE DEF s, V
    <3>5. TabCallsOf(wire')
      BY <3>2, <3>3, <3>4 DEF TabCallsOf
    <3>6. AccountsAreCurrent(wire)'
      BY <3>2, <3>3, <3>4 DEF AccountsAreCurrent, TabWrites, Waiting, Unwaiting
    <3>7. LinkedFollow(page, wire)'
      BY <3>2, <3>3 DEF LinkedFollow
    <3>8. HasAddresses(db)'
      <4>1. r.op = "label" => r.who # None
        BY <2>2 DEF TabsInv, HasAddresses, At
      <4>2. r.op = "link" => r.who # None
        BY DEF TabsInv, TabCallsOf
      <4>3. ASSUME r.who # None PROVE HasAddresses(db \cup {[address |-> r.who, label |-> FALSE]})
        BY <4>3 DEF TabsInv, HasAddresses
      <4>4. ASSUME r.who # None PROVE HasAddresses((db \ At(db, r.who)) \cup {[address |-> r.who, label |-> TRUE]})
        BY <4>4 DEF TabsInv, HasAddresses
      <4> QED BY <2>2, <4>1, <4>2, <4>3, <4>4 DEF TabsInv
    <3>9. ChangesAlone(page, wire)'
      <4>1. page.busy => \E q \in wire' : Changes(q)
        BY <3>2, <3>3
      <4>2. ASSUME ~page.freed, NEW o \in wire', NEW q \in wire', Waits(o), Waits(q) PROVE o = q
        <5>1. CASE Waits(r)
          <6>1. \A x \in V : ~Waits(x)
            BY <3>4, <4>2, <5>1 DEF TabsInv, ChangesAlone
          <6> QED BY <3>3, <4>2, <6>1
        <5>2. CASE ~Waits(r)
          <6>1. o \in V /\ q \in V
            BY <3>2, <3>3, <4>2, <5>2
          <6>2. \A x, y \in wire \ {r} : Waits(x) /\ Waits(y) => x = y
            BY <4>2 DEF TabsInv, ChangesAlone
          <6> QED BY <3>4, <4>2, <6>1, <6>2
        <5> QED BY <5>1, <5>2
      <4>3. ASSUME ~page.freed, NEW o \in wire', Waits(o) PROVE page.busy
        <5>1. \E x \in wire : Waits(x)
          BY <3>2, <3>3, <3>4, <4>3
        <5> QED BY <4>3, <5>1 DEF TabsInv, ChangesAlone
      <4> QED BY <2>2, <4>1, <4>2, <4>3 DEF ChangesAlone
    <3> QED BY <2>2, <3>5, <3>6, <3>7, <3>8, <3>9 DEF TabsInv
  <2> QED BY <1>18, <2>1, <2>2 DEF ServeTabWrite
<1>19. ASSUME NEW r \in wire, ServeTabRead(r) PROVE TabsInv'
  <2>1. TabsShape(page)'
    BY <1>19 DEF ServeTabRead, TabsShape, TabCallsOf, TabWrites, Waiting, Unwaiting, None, HasAddresses, TabsInv
  <2>2. TabCallsOf(wire)'
    BY ZenonT(60), <1>19 DEF ServeTabRead, TabsShape, TabCallsOf, TabWrites, Waiting, Unwaiting, None, HasAddresses, TabsInv
  <2>3. HasAddresses(page.linked)'
    BY <1>19 DEF ServeTabRead, TabsShape, TabCallsOf, TabWrites, Waiting, Unwaiting, None, HasAddresses, TabsInv
  <2>4. HasAddresses(db)'
    BY <1>19 DEF ServeTabRead, TabsShape, TabCallsOf, TabWrites, Waiting, Unwaiting, None, HasAddresses, TabsInv
  <2>5. AccountsAreCurrent(wire)'
    BY <1>19 DEF ServeTabRead, TabsShape, TabCallsOf, TabWrites, Waiting, Unwaiting, None, HasAddresses, TabsInv,
      AccountsAreCurrent
  <2>6. LinkedFollow(page, wire)'
    BY <1>19 DEF ServeTabRead, TabsShape, TabCallsOf, TabWrites, Waiting, Unwaiting, None, HasAddresses, TabsInv,
      LinkedFollow
  <2>7. FollowsUrl(page)'
    BY <1>19 DEF ServeTabRead, TabsShape, TabCallsOf, TabWrites, Waiting, Unwaiting, None, HasAddresses, TabsInv,
      FollowsUrl, RouteTab, At
  <2>8. ChangesAlone(page, wire)'
    <3> DEFINE s == [r EXCEPT !.out = "ok", !.rows = db]
    <3>1. wire' = (wire \ {r}) \cup {s} /\ page' = page
      BY <1>19 DEF ServeTabRead
    <3>2. (Changes(s) <=> Changes(r)) /\ (Waits(s) <=> Waits(r))
      BY DEF TabsInv, TabCallsOf, Changes, Waits, PartOf
    <3> HIDE DEF s
    <3> QED BY <3>1, <3>2, ChangeGoesOn
  <2> QED BY <2>1, <2>2, <2>3, <2>4, <2>5, <2>6, <2>7, <2>8 DEF TabsInv
<1>20. ASSUME NEW r \in wire, NEW heard \in BOOLEAN, LinkAnswered(r, heard) PROVE TabsInv'
  <2>0. r.op = "link"
    BY <1>20 DEF LinkAnswered
  <2>1. CASE heard /\ r.out = "virtual"
    <3>1. page' = [Released(page, r) EXCEPT !.link.step = "virtual"] /\ wire' = wire \ {r} /\ db' = db
      BY <1>20, <2>1 DEF LinkAnswered, AccountChanged, Then
    <3>2. /\ TabsShape(page)' /\ page'.url = page.url /\ page'.tab = page.tab /\ page'.selected = page.selected
          /\ page'.linked = page.linked /\ ~page'.busy /\ (page.stale => page'.stale) /\ (r.out = "ok" => page'.stale)
          /\ page'.freed = ((page.freed \/ PartOf(r, Unwaiting)) /\ \E q \in wire \ {r} : PartOf(q, Waiting))
      BY <2>1, <3>1 DEF TabsInv, TabsShape, Released
    <3>3. TabCallsOf(wire') /\ AccountsAreCurrent(wire)' /\ LinkedFollow(page, wire)'
      BY <3>1, <3>2 DEF TabsInv, TabCallsOf, AccountsAreCurrent, LinkedFollow
    <3>4. Changes(r)
      BY <2>0 DEF Changes, Waits, PartOf, TabWrites, Waiting, Unwaiting
    <3>5. ChangesAlone(page, wire)'
      BY <3>1, <3>2, <3>4, ChangeEnds
    <3>6. FollowsUrl(page)'
      BY <3>2, UrlKept DEF TabsInv
    <3> QED BY <3>1, <3>2, <3>3, <3>5, <3>6 DEF TabsInv
  <2>2. CASE heard /\ r.out = "ok"
    <3> DEFINE s == TabCall("data", None, r.op)
               p == page
    <3>1. page' = [p EXCEPT !.loading = TRUE, !.stale = TRUE] /\ wire' = (wire \ {r}) \cup {s} /\ db' = db
      BY <1>20, <2>2 DEF LinkAnswered, AccountChanged, ReadDataAgain, Then
    <3>2. /\ TabsShape(p) /\ p.url = page.url /\ p.tab = page.tab /\ p.selected = page.selected
          /\ p.linked = page.linked /\ p.busy = page.busy /\ p.freed = page.freed
      BY DEF TabsInv, TabsShape
    <3> HIDE DEF p
    <3>3. /\ TabsShape(page)' /\ page'.url = page.url /\ page'.tab = page.tab /\ page'.selected = page.selected
          /\ page'.linked = page.linked /\ page'.busy = page.busy /\ page'.stale
          /\ page'.freed = page.freed
      BY <3>1, <3>2 DEF TabsShape
    <3>4. /\ TabCallsOf({s}) /\ s.op = "data" /\ s.out = "sent" /\ Changes(s) /\ Changes(r)
          /\ (Waits(s) <=> Waits(r))
      BY <2>0 DEF TabCallsOf, TabCall, HasAddresses, Changes, Waits, PartOf, TabWrites, Waiting, Unwaiting
    <3> HIDE DEF s
    <3>5. TabCallsOf(wire') /\ AccountsAreCurrent(wire)'
      BY <3>1, <3>4 DEF TabsInv, TabCallsOf, AccountsAreCurrent
    <3>6. ChangesAlone(page, wire)'
      BY <3>1, <3>3, <3>4, ChangeGoesOn
    <3>7. FollowsUrl(page)'
      BY <3>3, UrlKept DEF TabsInv
    <3> QED BY <3>1, <3>3, <3>5, <3>6, <3>7 DEF TabsInv, LinkedFollow
  <2>3. CASE ~(heard /\ r.out = "virtual") /\ ~(heard /\ r.out = "ok")
    <3>1. page' = [Released(page, r) EXCEPT !.stale = @ \/ r.out = "ok"] /\ wire' = wire \ {r} /\ db' = db
      BY <1>20, <2>3 DEF LinkAnswered, AccountChanged, Then
    <3>2. /\ TabsShape(page)' /\ page'.url = page.url /\ page'.tab = page.tab /\ page'.selected = page.selected
          /\ page'.linked = page.linked /\ ~page'.busy /\ (page.stale => page'.stale) /\ (r.out = "ok" => page'.stale)
          /\ page'.freed = ((page.freed \/ PartOf(r, Unwaiting)) /\ \E q \in wire \ {r} : PartOf(q, Waiting))
      BY <3>1 DEF TabsInv, TabsShape, Released
    <3>3. TabCallsOf(wire') /\ AccountsAreCurrent(wire)' /\ LinkedFollow(page, wire)'
      BY <3>1, <3>2 DEF TabsInv, TabCallsOf, AccountsAreCurrent, LinkedFollow
    <3>4. Changes(r)
      BY <2>0 DEF Changes, Waits, PartOf, TabWrites, Waiting, Unwaiting
    <3>5. ChangesAlone(page, wire)'
      BY <3>1, <3>2, <3>4, ChangeEnds
    <3>6. FollowsUrl(page)'
      BY <3>2, UrlKept DEF TabsInv
    <3> QED BY <3>1, <3>2, <3>3, <3>5, <3>6 DEF TabsInv
  <2> QED BY <2>1, <2>2, <2>3
<1>21. ASSUME NEW r \in wire, NEW heard \in BOOLEAN, AccountChanged(r, heard) PROVE TabsInv'
  <2>0. r.op \in TabWrites \ {"link"}
    BY <1>21 DEF AccountChanged
  <2>1. CASE heard
    <3> DEFINE s == TabCall("data", None, r.op)
               p == IF r.op = "label" THEN [page EXCEPT !.renaming = {}] ELSE page
    <3>1. page' = [p EXCEPT !.loading = TRUE, !.stale = TRUE] /\ wire' = (wire \ {r}) \cup {s} /\ db' = db
      BY <1>21, <2>1 DEF LinkAnswered, AccountChanged, ReadDataAgain, Then
    <3>2. /\ TabsShape(p) /\ p.url = page.url /\ p.tab = page.tab /\ p.selected = page.selected
          /\ p.linked = page.linked /\ p.busy = page.busy /\ p.freed = page.freed
      BY DEF TabsInv, TabsShape
    <3> HIDE DEF p
    <3>3. /\ TabsShape(page)' /\ page'.url = page.url /\ page'.tab = page.tab /\ page'.selected = page.selected
          /\ page'.linked = page.linked /\ page'.busy = page.busy /\ page'.stale
          /\ page'.freed = page.freed
      BY <3>1, <3>2 DEF TabsShape
    <3>4. /\ TabCallsOf({s}) /\ s.op = "data" /\ s.out = "sent" /\ Changes(s) /\ Changes(r)
          /\ (Waits(s) <=> Waits(r))
      <4>1. /\ DOMAIN s = {"op", "who", "after", "out", "rows", "old"} /\ s.op = "data" /\ s.out = "sent"
            /\ s.after = r.op /\ s.rows = {}
        BY DEF TabCall
      <4>2. r.op \in Unwaiting => r.after = None
        BY DEF TabsInv, TabCallsOf
      <4>3. r.op \in TabWrites /\ None \notin TabWrites /\ (Waits(r) <=> r.op \in Waiting)
        BY <2>0, <4>2 DEF TabWrites, Waiting, Unwaiting, Waits, PartOf, None
      <4> QED BY <4>1, <4>3 DEF TabCallsOf, HasAddresses, Changes, Waits, PartOf, TabWrites, Waiting, Unwaiting
    <3> HIDE DEF s
    <3>5. TabCallsOf(wire') /\ AccountsAreCurrent(wire)'
      BY <3>1, <3>4 DEF TabsInv, TabCallsOf, AccountsAreCurrent
    <3>6. ChangesAlone(page, wire)'
      BY <3>1, <3>3, <3>4, ChangeGoesOn
    <3>7. FollowsUrl(page)'
      BY <3>3, UrlKept DEF TabsInv
    <3> QED BY <3>1, <3>3, <3>5, <3>6, <3>7 DEF TabsInv, LinkedFollow
  <2>2. CASE ~heard
    <3>1. page' = [Released(page, r) EXCEPT !.stale = @ \/ r.out = "ok"] /\ wire' = wire \ {r} /\ db' = db
      BY <1>21, <2>2 DEF LinkAnswered, AccountChanged, Then
    <3>2. /\ TabsShape(page)' /\ page'.url = page.url /\ page'.tab = page.tab /\ page'.selected = page.selected
          /\ page'.linked = page.linked /\ ~page'.busy /\ (page.stale => page'.stale) /\ (r.out = "ok" => page'.stale)
          /\ page'.freed = ((page.freed \/ PartOf(r, Unwaiting)) /\ \E q \in wire \ {r} : PartOf(q, Waiting))
      BY <3>1 DEF TabsInv, TabsShape, Released
    <3>3. TabCallsOf(wire') /\ AccountsAreCurrent(wire)' /\ LinkedFollow(page, wire)'
      BY <3>1, <3>2 DEF TabsInv, TabCallsOf, AccountsAreCurrent, LinkedFollow
    <3>4. Changes(r)
      BY <2>0 DEF Changes, Waits, PartOf, TabWrites, Waiting, Unwaiting
    <3>5. ChangesAlone(page, wire)'
      BY <3>1, <3>2, <3>4, ChangeEnds
    <3>6. FollowsUrl(page)'
      BY <3>2, UrlKept DEF TabsInv
    <3> QED BY <3>1, <3>2, <3>3, <3>5, <3>6 DEF TabsInv
  <2> QED BY <2>1, <2>2
<1>22. ASSUME NEW op \in Unwaiting, Configure(op) PROVE TabsInv'
  <2> DEFINE s == TabCall(op, None, None)
             p == [page EXCEPT !.busy = TRUE]
  <2>1. page' = [p EXCEPT !.calls = @ + 1] /\ wire' = wire \cup {s} /\ db' = db
    BY <1>22 DEF Configure, Call
  <2>2. /\ TabCallsOf({s}) /\ s.op = op /\ s.out = "sent" /\ Changes(s) /\ ~Waits(s)
    BY DEF TabCallsOf, TabCall, HasAddresses, Changes, Waits, PartOf, TabWrites, Waiting, Unwaiting, None
  <2> HIDE DEF s
  <2>3. /\ TabsShape(page)' /\ page'.url = page.url /\ page'.tab = page.tab /\ page'.selected = page.selected
        /\ page'.linked = page.linked /\ page'.busy /\ page'.stale = page.stale
        /\ page'.freed = page.freed
    BY <2>1 DEF TabsInv, TabsShape
  <2>4. TabCallsOf(wire') /\ AccountsAreCurrent(wire)'
    BY <2>1, <2>2 DEF TabsInv, TabCallsOf, AccountsAreCurrent
  <2>5. LinkedFollow(page, wire)'
    BY <2>1, <2>3 DEF TabsInv, LinkedFollow
  <2>6. ChangesAlone(page, wire)'
    BY <2>1, <2>2, <2>3, ChangeBegins
  <2>7. FollowsUrl(page)'
    BY <2>3, UrlKept DEF TabsInv
  <2> QED BY <2>1, <2>3, <2>4, <2>5, <2>6, <2>7 DEF TabsInv
<1> QED
  BY <1>1, <1>2, <1>3, <1>4, <1>5, <1>6, <1>7, <1>8, <1>9, <1>10, <1>11, <1>12, <1>13, <1>14,
    <1>15, <1>16, <1>17, <1>18, <1>19, <1>20, <1>21, <1>22 DEF TabsNext


-----------------------------------------------------------------------------
(* The live feed and the figures of the home page *)

FeedShape(p) ==
    /\ p.at = "feed"
    /\ DOMAIN p = {"at", "net", "gen", "ledgers", "transactions", "failed", "live", "calls"}
    /\ p.gen \in Nat

\* A request of this generation is one for this network.
FeedCallsOf(p, W) ==
    \A r \in W :
      /\ DOMAIN r = {"op", "net", "gen", "got", "out"} /\ r.op \in {"sync", "feed"}
      /\ r.gen \in Nat /\ r.gen <= p.gen /\ (r.gen = p.gen => r.net = p.net)

FeedInv ==
    /\ FeedShape(page) /\ FeedCallsOf(page, wire)
    /\ {page.ledgers, page.transactions} \subseteq {None, page.net}

HomeShape(p) == p.at = "home" /\ DOMAIN p = {"at", "scope", "run", "whose", "calls"} /\ p.run \in Nat

\* A request of the effect under way is one for the project that is chosen.
HomeCallsOf(p, W) ==
    \A r \in W :
      /\ DOMAIN r = {"op", "scope", "run", "got", "out"} /\ r.op = "figures"
      /\ r.run \in Nat /\ r.run <= p.run /\ (r.run = p.run => r.scope = p.scope)
FiguresFollow(p, W) == p.scope \in {None, p.whose} \/ \E r \in W : r.run = p.run

HomeInv == HomeShape(page) /\ HomeCallsOf(page, wire) /\ FiguresFollow(page, wire)

\* What is on display is of the network, and of the project.
LEMMA FeedHolds == FeedInv \/ HomeInv => FeedIsOfTheNetwork
BY DEF FeedInv, FeedShape, HomeInv, HomeShape, HomeCallsOf, FiguresFollow, FeedIsOfTheNetwork

\* The invariants hold when the pages are mounted.
LEMMA FeedStart == (FeedInit => FeedInv) /\ (HomeInit => HomeInv)
<1>1. ASSUME NEW n \in FeedNetworks, page = FeedMounted(n), wire = {Refreshes(FeedMounted(n))}
      PROVE  FeedInv
  <2>1. FeedShape(page) /\ page.gen = 0 /\ page.net = n /\ page.ledgers = None /\ page.transactions = None
    BY <1>1 DEF FeedMounted, FeedShape
  <2>2. FeedCallsOf(page, wire)
    BY <1>1, <2>1 DEF FeedMounted, Refreshes, FeedCall, FeedCallsOf
  <2> QED BY <2>1, <2>2 DEF FeedInv
<1>2. ASSUME NEW s \in Sought, page = HomeMounted(s), wire = {HomeLoad(page)}
      PROVE  HomeInv
  <2>1. HomeShape(page) /\ page.run = 0 /\ page.scope = s
    BY <1>2 DEF HomeMounted, HomeShape
  <2>2. HomeCallsOf(page, wire) /\ FiguresFollow(page, wire)
    BY <1>2, <2>1 DEF HomeLoad, HomeCallsOf, FiguresFollow
  <2> QED BY <2>1, <2>2 DEF HomeInv
<1> QED BY <1>1, <1>2 DEF FeedInit, HomeInit

\* Every step of the feed keeps the invariant: an answer for another network is
\* dropped.
LEMMA FeedStep ==
  ASSUME FeedInv, FeedNext
  PROVE  FeedInv'
<1>1. ASSUME NEW n \in FeedNetworks, ShowNetwork(n) PROVE FeedInv'
  BY <1>1 DEF ShowNetwork, FeedMounted, Call, Refreshes, None, FeedCall, FeedInv, FeedShape,
    FeedCallsOf
<1>2. ASSUME PollFeed PROVE FeedInv'
  BY <1>2 DEF PollFeed, Call, Refreshes, FeedCall, FeedInv, FeedShape, FeedCallsOf, None
<1>3. ASSUME ServeFeed PROVE FeedInv'
  BY ZenonT(60), <1>3 DEF ServeFeed, FeedInv, FeedShape, FeedCallsOf, None
<1>4. ASSUME FeedSynced PROVE FeedInv'
  BY <1>4 DEF FeedSynced, Answers, FeedIsCurrent, Then, FeedCall, FeedInv, FeedShape,
    FeedCallsOf, None
<1>5. ASSUME FeedArrives PROVE FeedInv'
  BY <1>5 DEF FeedArrives, Answers, Then, FeedIsCurrent, Fed, FeedInv, FeedShape, FeedCallsOf,
    None
<1>6. ASSUME FeedEvent PROVE FeedInv'
  <2>1. FeedShape(page)'
    BY <1>6 DEF FeedEvent, Show, FeedShape, FeedCallsOf, FeedInv
  <2>2. FeedCallsOf(page, wire)'
    BY <1>6 DEF FeedEvent, Show, FeedShape, FeedCallsOf, FeedInv
  <2>3. ({page.ledgers, page.transactions} \subseteq {None, page.net})'
    BY ZenonT(60), <1>6 DEF FeedEvent, Show, FeedShape, FeedCallsOf, FeedInv, None
  <2> QED BY <2>1, <2>2, <2>3 DEF FeedInv
<1>7. ASSUME FeedLost PROVE FeedInv'
  BY <1>7 DEF FeedLost, Call, FeedCall, FeedInv, FeedShape, FeedCallsOf, None
<1>8. ASSUME DismissFeedError PROVE FeedInv'
  BY <1>8 DEF DismissFeedError, Show, FeedInv, FeedShape, FeedCallsOf, None
<1> QED
  BY <1>1, <1>2, <1>3, <1>4, <1>5, <1>6, <1>7, <1>8 DEF FeedNext

\* Every step of the home page keeps the invariant: figures of another run of
\* its effect are dropped.
LEMMA HomeStep ==
  ASSUME HomeInv, HomeNext
  PROVE  HomeInv'
<1>1. ASSUME NEW s \in Sought \cup {None}, ChangeHome(s) PROVE HomeInv'
  <2> DEFINE p == [page EXCEPT !.scope = s, !.run = @ + 1]
  <2>1. IF s = None THEN page' = p /\ wire' = wire
        ELSE page' = [p EXCEPT !.calls = @ + 1] /\ wire' = wire \cup {HomeLoad(p)}
    BY <1>1 DEF ChangeHome, Show, Call
  <2>2. HomeShape(p) /\ p.scope = s /\ p.run = page.run + 1 /\ p.whose = page.whose
    BY DEF HomeInv, HomeShape
  <2> HIDE DEF p
  <2>3. HomeShape(page') /\ page'.scope = s /\ page'.run = page.run + 1
    BY <2>1, <2>2 DEF HomeShape
  <2> DEFINE r == HomeLoad(p)
  <2>4. r.op = "figures" /\ DOMAIN r = {"op", "scope", "run", "got", "out"} /\ r.run = page.run + 1 /\ r.scope = s
    BY <2>2 DEF HomeLoad
  <2>5. s # None => r \in wire'
    BY <2>1
  <2>6. wire' \subseteq wire \cup {r}
    BY <2>1
  <2> HIDE DEF r
  <2>7. page.run \in Nat /\ \A x \in wire : x.op = "figures" /\ DOMAIN x = DOMAIN r /\ x.run \in Nat /\ x.run <= page.run
    BY <2>4 DEF HomeInv, HomeShape, HomeCallsOf
  <2>8. HomeCallsOf(page', wire')
    BY <2>3, <2>4, <2>6, <2>7 DEF HomeCallsOf
  <2>9. FiguresFollow(page', wire')
    BY <2>3, <2>4, <2>5 DEF FiguresFollow
  <2> QED BY <2>3, <2>8, <2>9 DEF HomeInv
<1>2. ASSUME PollHome PROVE HomeInv'
  BY <1>2 DEF PollHome, None, Call, HomeLoad, HomeInv, HomeShape, HomeCallsOf, FiguresFollow
<1>3. ASSUME FiguresArrive PROVE HomeInv'
  BY <1>3 DEF FiguresArrive, Then, HomeInv, HomeShape, HomeCallsOf, FiguresFollow, None
<1> QED
  BY <1>1, <1>2, <1>3 DEF HomeNext


-----------------------------------------------------------------------------
(* The pages about one account, contract or ledger *)

EntityShape(p) ==
    /\ p.at \in EntityKinds
    /\ DOMAIN p = {"at", "size", "cursor", "past", "shown", "loading", "failed", "tab", "load", "run", "events", "calls"}
    /\ p.size \in Nat \ {0} /\ p.cursor \in Nat /\ p.load \in Nat /\ p.past \in Seq(Nat)

\* A load that is still listened to is of the page and the size that are chosen.
EntityCallsOf(p, W) ==
    \A r \in W :
      \/ /\ r.op = "rows" /\ DOMAIN r = {"op", "load", "shown", "out"}
         /\ r.load \in Nat /\ r.load <= p.load /\ (r.load = p.load => r.shown = <<p.cursor, p.size>>)
      \/ r.op = "events" /\ DOMAIN r = {"op", "run", "out"}

RowsFollow(p, W) ==
    /\ p.loading \/ p.shown \in {<<>>, <<p.cursor, p.size>>}
    /\ p.loading => \E r \in W : r.op = "rows" /\ r.load = p.load

\* The cursors Back returns to, and then the one of the page, begin at the
\* first page and grow.
Way(p) == Append(p.past, p.cursor)
WayGrows(way) == way[1] = 0 /\ \A i \in 2 .. Len(way) : way[i - 1] < way[i]

EntityInv ==
    /\ EntityShape(page) /\ EntityCallsOf(page, wire) /\ RowsFollow(page, wire) /\ WayGrows(Way(page))

\* The rows and the way back are as the runs ask.
LEMMA EntityHolds == EntityInv => PagesAgree
BY DEF EntityInv, EntityShape, RowsFollow, Way, WayGrows, PagesAgree, OnEntity

\* A page that is read is the one that is chosen by then.
LEMMA ReloadsIt ==
  ASSUME EntityInv, NEW p, EntityShape(p), p.load = page.load, WayGrows(Way(p)), Reload(p)
  PROVE  EntityInv'
<1> DEFINE q == [p EXCEPT !.load = @ + 1, !.loading = TRUE,
                          !.failed = IF p.at = "account" THEN FALSE ELSE @]
<1>1. page' = [q EXCEPT !.calls = @ + 1] /\ wire' = wire \cup {PageCall(q)} /\ db' = db
  BY DEF Reload, Call
<1>2. /\ EntityShape(page') /\ page'.load = page.load + 1 /\ page'.loading /\ page'.cursor = p.cursor
      /\ page'.size = p.size /\ page'.past = p.past
      /\ q.load = page.load + 1 /\ q.cursor = p.cursor /\ q.size = p.size
  BY <1>1 DEF EntityShape
<1> HIDE DEF q
<1>3. EntityCallsOf(page', wire') /\ RowsFollow(page', wire')
  <2> DEFINE r == PageCall(q)
  <2>1. /\ r.op = "rows" /\ DOMAIN r = {"op", "load", "shown", "out"} /\ r.load = page'.load
        /\ r.shown = <<page'.cursor, page'.size>>
    BY <1>2 DEF PageCall
  <2>2. wire' = wire \cup {r}
    BY <1>1
  <2> HIDE DEF r
  <2>3. page.load \in Nat /\ \A x \in wire : x.op = "rows" => x.load \in Nat /\ x.load <= page.load
    BY DEF EntityInv, EntityShape, EntityCallsOf
  <2> QED BY <1>2, <2>1, <2>2, <2>3 DEF EntityInv, EntityShape, EntityCallsOf, RowsFollow
<1>4. WayGrows(Way(page'))
  BY <1>2 DEF Way
<1> QED BY <1>2, <1>3, <1>4 DEF EntityInv

\* The first page, of the smallest size, is being read when the page is mounted.
LEMMA EntityStart == EntityInit => EntityInv
<1> SUFFICES ASSUME EntityInit PROVE EntityInv
  OBVIOUS
<1>1. PICK k \in EntityKinds : page = EntityMounted(k) /\ wire = {PageCall(page)}
  BY DEF EntityInit
<1>2. Smallest \in Nat \ {0}
  BY SizesAssumption DEF Smallest
<1>3. EntityShape(page) /\ page.cursor = 0 /\ page.past = <<>> /\ page.loading /\ page.load = 0
  BY <1>1, <1>2 DEF EntityMounted, EntityShape
<1>4. EntityCallsOf(page, wire) /\ RowsFollow(page, wire)
  BY <1>1, <1>3 DEF EntityCallsOf, RowsFollow, PageCall
<1>5. WayGrows(Way(page))
  BY <1>3 DEF Way, WayGrows
<1> QED BY <1>3, <1>4, <1>5 DEF EntityInv

\* Every step keeps the invariant, whatever page is asked for meanwhile.
LEMMA EntityStep ==
  ASSUME EntityInv, EntityNext
  PROVE  EntityInv'
<1>1. ASSUME NEW n \in Sizes, ChangeSize(n) PROVE EntityInv'
  <2> DEFINE p == [page EXCEPT !.size = n]
  <2>1. Reload(p)
    BY <1>1 DEF ChangeSize
  <2>2. EntityShape(p) /\ p.load = page.load /\ Way(p) = Way(page)
    BY SizesAssumption DEF EntityInv, EntityShape, Way
  <2> HIDE DEF p
  <2> QED BY <2>1, <2>2, ReloadsIt DEF EntityInv
<1>2. ASSUME NEW k \in EntityKinds, NEW t \in TabsOf(k), OpenTab(t) PROVE EntityInv'
  <2>1. /\ EntityShape(page)' /\ page'.size = page.size /\ page'.cursor = page.cursor /\ page'.past = page.past
        /\ page'.shown = page.shown /\ page'.loading = page.loading /\ page'.load = page.load
    <3>1. CASE t = "events"
      BY <1>2, <3>1 DEF OpenTab, Call, EntityInv, EntityShape
    <3>2. CASE t # "events"
      BY <1>2, <3>2 DEF OpenTab, Show, EntityInv, EntityShape
    <3> QED BY <3>1, <3>2
  <2> DEFINE e == [op |-> "events", run |-> [page EXCEPT !.tab = t].run + 1, out |-> "sent"]
  <2>2. wire' \in {wire, wire \cup {e}} /\ e.op = "events" /\ DOMAIN e = {"op", "run", "out"}
    BY <1>2 DEF OpenTab, Call, Show
  <2> HIDE DEF e
  <2>3. EntityCallsOf(page', wire') /\ RowsFollow(page', wire')
    BY <2>1, <2>2 DEF EntityInv, EntityCallsOf, RowsFollow
  <2> QED BY <2>1, <2>3 DEF EntityInv, Way
<1>3. ASSUME GoNext PROVE EntityInv'
  <2> DEFINE c == NextCursor(page)
             p == [page EXCEPT !.past = Append(@, page.cursor), !.cursor = c]
  <2>1. Reload(p) /\ ~page.loading /\ c < Total
    BY <1>3 DEF GoNext
  <2>2. page.shown = <<page.cursor, page.size>> /\ c = page.cursor + page.size
    BY <2>1, TotalAssumption DEF EntityInv, RowsFollow, NextCursor
  <2> HIDE DEF c
  <2>3. /\ EntityShape(p) /\ p.load = page.load /\ p.past = Append(page.past, page.cursor) /\ p.cursor = c
        /\ c \in Nat /\ page.cursor < c
    BY <2>2 DEF EntityInv, EntityShape
  <2> HIDE DEF p
  <2>4. WayGrows(Way(p))
    <3> DEFINE old == Way(page)
               new == Way(p)
    <3>1. old \in Seq(Nat) /\ old = p.past /\ new = Append(old, c) /\ old[Len(old)] = page.cursor /\ Len(old) \in Nat \ {0}
      BY <2>3 DEF EntityInv, EntityShape, Way
    <3>2. /\ WayGrows(old) /\ Len(new) = Len(old) + 1 /\ new[Len(old) + 1] = c
          /\ \A i \in 1 .. Len(old) : new[i] = old[i]
      BY <2>3, <3>1 DEF EntityInv
    <3> HIDE DEF old, new
    <3>3. WayGrows(new)
      BY <2>3, <3>1, <3>2 DEF WayGrows
    <3> QED BY <3>3 DEF new
  <2> QED BY <2>1, <2>3, <2>4, ReloadsIt
<1>4. ASSUME GoBack PROVE EntityInv'
  <2> DEFINE n == Len(page.past)
             p == [page EXCEPT !.cursor = page.past[n], !.past = SubSeq(@, 1, n - 1)]
  <2>1. Reload(p) /\ page.past # <<>>
    BY <1>4 DEF GoBack
  <2>2. page.past \in Seq(Nat) /\ n \in Nat \ {0} /\ page.past[n] \in Nat
    BY <2>1 DEF EntityInv, EntityShape
  <2>3. /\ EntityShape(p) /\ p.load = page.load /\ p.past = SubSeq(page.past, 1, n - 1) /\ p.cursor = page.past[n]
    BY <2>2 DEF EntityInv, EntityShape
  <2> HIDE DEF p
  <2>4. WayGrows(Way(p))
    <3> DEFINE old == Way(page)
               new == Way(p)
    <3>1. Len(old) = n + 1 /\ \A i \in 1 .. n : old[i] = page.past[i]
      BY <2>2 DEF EntityInv, EntityShape, Way
    <3>2. Len(new) = n /\ \A i \in 1 .. n : new[i] = page.past[i]
      BY <2>2, <2>3 DEF Way
    <3>3. WayGrows(old)
      BY DEF EntityInv
    <3>4. n \in Nat \ {0}
      BY <2>2
    <3> HIDE DEF old, new, n
    <3>5. new[1] = 0
      BY <3>1, <3>2, <3>3, <3>4 DEF WayGrows
    <3>6. ASSUME NEW i \in 2 .. n PROVE new[i - 1] < new[i]
      <4>1. old[i - 1] < old[i] /\ i \in 1 .. n /\ i - 1 \in 1 .. n
        BY <3>1, <3>3, <3>4 DEF WayGrows
      <4> QED BY <3>1, <3>2, <4>1
    <3>7. WayGrows(new)
      BY <3>2, <3>5, <3>6 DEF WayGrows
    <3> QED BY <3>7 DEF new
  <2> QED BY <2>1, <2>3, <2>4, ReloadsIt
<1>5. ASSUME ServeEntity PROVE EntityInv'
  <2>1. EntityShape(page)'
    BY <1>5 DEF ServeEntity, EntityShape, EntityKinds, EntityCallsOf, EntityInv
  <2>2. EntityCallsOf(page, wire)'
    BY <1>5 DEF ServeEntity, EntityShape, EntityKinds, EntityCallsOf, EntityInv
  <2>3. RowsFollow(page, wire)'
    <3>1. PICK r \in wire, o \in {"ok", "fail"} : wire' = (wire \ {r}) \cup {[r EXCEPT !.out = o]} /\ page' = page
      BY <1>5 DEF ServeEntity
    <3>2. /\ r.op = "rows" => [r EXCEPT !.out = o].op = "rows" /\ [r EXCEPT !.out = o].load = r.load
      BY DEF EntityInv, EntityCallsOf
    <3> QED BY <3>1, <3>2 DEF EntityInv, RowsFollow
  <2>4. WayGrows(Way(page))'
    BY <1>5 DEF ServeEntity, EntityShape, EntityKinds, EntityCallsOf, EntityInv, WayGrows, Way
  <2> QED BY <2>1, <2>2, <2>3, <2>4 DEF EntityInv
<1>6. ASSUME RowsArrive PROVE EntityInv'
  <2>1. EntityShape(page)'
    BY <1>6 DEF RowsArrive, Answers, Then, OnEntity, EntityKinds, EntityShape, EntityCallsOf,
      EntityInv
  <2>2. EntityCallsOf(page, wire)'
    BY <1>6 DEF RowsArrive, Answers, Then, OnEntity, EntityKinds, EntityShape, EntityCallsOf,
      EntityInv
  <2>3. RowsFollow(page, wire)'
    BY ZenonT(60), <1>6 DEF RowsArrive, Answers, Then, OnEntity, EntityKinds, EntityShape, EntityCallsOf,
      EntityInv, RowsFollow
  <2>4. WayGrows(Way(page))'
    BY <1>6 DEF RowsArrive, Answers, Then, OnEntity, EntityKinds, EntityShape, EntityCallsOf,
      EntityInv, WayGrows, Way
  <2> QED BY <2>1, <2>2, <2>3, <2>4 DEF EntityInv
<1>7. ASSUME EventsArrive PROVE EntityInv'
  BY SMTT(30), <1>7 DEF EventsArrive, Answers, Then, OnEntity, EntityKinds, EntityInv, EntityShape,
    EntityCallsOf, RowsFollow, WayGrows, Way
<1> QED
  BY <1>1, <1>2, <1>3, <1>4, <1>5, <1>6, <1>7 DEF EntityNext


-----------------------------------------------------------------------------
(* The graph of a transaction's transfers *)

GraphShape(p) ==
    /\ p.at = "graph"
    /\ DOMAIN p = {"at", "query", "asset", "drawn", "node", "edge", "laying", "calls"}
    /\ p.laying \in Nat

\* The layout that is still listened to is of what the filter leaves.
GraphCallsOf(p, W) ==
    \A r \in W :
      /\ r.op = "layout" /\ DOMAIN r = {"op", "laying", "drawn"}
      /\ r.laying \in Nat /\ r.laying <= p.laying
      /\ r.laying = p.laying => r.drawn = Ends(Displayed(p.asset))
DrawnFollows(p, W) == (\E r \in W : r.laying = p.laying) \/ p.drawn = Ends(Displayed(p.asset))

GraphInv == GraphShape(page) /\ GraphCallsOf(page, wire) /\ DrawnFollows(page, wire)

\* The drawing is of the filter, as the runs ask.
LEMMA GraphHolds == GraphInv => GraphIsOfTheFilter
BY DEF GraphInv, GraphCallsOf, DrawnFollows, GraphIsOfTheFilter

\* The first layout is awaited when the page is mounted.
LEMMA GraphStart == GraphInit => GraphInv
<1> SUFFICES ASSUME GraphInit PROVE GraphInv
  OBVIOUS
<1>1. GraphShape(page) /\ page.laying = 0 /\ page.asset = "all"
  BY DEF GraphInit, GraphMounted, GraphShape
<1>2. GraphCallsOf(page, wire) /\ DrawnFollows(page, wire)
  BY <1>1 DEF GraphInit, Layout, GraphCallsOf, DrawnFollows
<1> QED BY <1>1, <1>2 DEF GraphInv

\* Whatever is drawn anew is laid out anew.
LEMMA DrawsIt ==
  ASSUME GraphInv, NEW p, GraphShape(p), p.laying = page.laying, p.drawn = page.drawn, Draws(p)
  PROVE  GraphInv'
<1>1. CASE <<p.asset, p.edge>> = <<page.asset, page.edge>>
  BY <1>1 DEF Draws, Show, GraphInv, GraphCallsOf, DrawnFollows
<1>2. CASE <<p.asset, p.edge>> # <<page.asset, page.edge>>
  <2> DEFINE q == [p EXCEPT !.laying = @ + 1]
             r == Layout(q)
  <2>1. page' = [q EXCEPT !.calls = @ + 1] /\ wire' = wire \cup {r} /\ db' = db
    BY <1>2 DEF Draws, Call
  <2>2. GraphShape(page') /\ page'.laying = page.laying + 1 /\ page'.asset = p.asset /\ q.laying = page'.laying
        /\ q.asset = p.asset
    BY <2>1 DEF GraphShape
  <2>3. r.op = "layout" /\ DOMAIN r = {"op", "laying", "drawn"} /\ r.laying = page'.laying
        /\ r.drawn = Ends(Displayed(page'.asset))
    BY <2>2 DEF Layout
  <2> HIDE DEF q, r
  <2> QED BY <2>1, <2>2, <2>3 DEF GraphInv, GraphShape, GraphCallsOf, DrawnFollows
<1> QED BY <1>1, <1>2

\* What a search finds changes the choice only.
LEMMA FoundIs ==
  ASSUME NEW p, GraphShape(p), NEW q \in Found(p)
  PROVE  GraphShape(q) /\ q.laying = p.laying /\ q.asset = p.asset /\ q.drawn = p.drawn
BY DEF Found, GraphShape

\* Every step keeps the invariant: a layout that was overtaken is dropped.
LEMMA GraphStep ==
  ASSUME GraphInv, GraphNext
  PROVE  GraphInv'
<1>1. ASSUME NEW a \in {Transfers[e].asset : e \in DOMAIN Transfers} \cup {"all"}, FilterGraph(a) PROVE GraphInv'
  <2> DEFINE p == [page EXCEPT !.asset = a]
  <2>1. Draws(p)
    BY <1>1 DEF FilterGraph
  <2>2. GraphShape(p) /\ p.laying = page.laying /\ p.drawn = page.drawn
    BY DEF GraphInv, GraphShape
  <2> HIDE DEF p
  <2> QED BY <2>1, <2>2, DrawsIt
<1>2. ASSUME NEW Q \in SUBSET Ends(DOMAIN Transfers), SearchGraph(Q) PROVE GraphInv'
  <2> DEFINE o == [page EXCEPT !.query = Q]
  <2>1. PICK p \in Found(o) : Show(p)
    BY <1>2 DEF SearchGraph
  <2>2. GraphShape(o) /\ o.laying = page.laying /\ o.asset = page.asset /\ o.drawn = page.drawn
    BY DEF GraphInv, GraphShape
  <2> HIDE DEF o
  <2>3. GraphShape(p) /\ p.laying = page.laying /\ p.asset = page.asset /\ p.drawn = page.drawn
    BY <2>2, FoundIs
  <2> QED BY <2>1, <2>3 DEF Show, GraphInv, GraphCallsOf, DrawnFollows
<1>3. ASSUME NEW n \in Ends(DOMAIN Transfers), ChooseNode(n) PROVE GraphInv'
  <2> DEFINE p == [page EXCEPT !.node = {n}, !.edge = {}]
  <2>1. Draws(p)
    BY <1>3 DEF ChooseNode
  <2>2. GraphShape(p) /\ p.laying = page.laying /\ p.drawn = page.drawn
    BY DEF GraphInv, GraphShape
  <2> HIDE DEF p
  <2> QED BY <2>1, <2>2, DrawsIt
<1>4. ASSUME NEW e \in DOMAIN Transfers, ChooseEdge(e) PROVE GraphInv'
  <2> DEFINE p == [page EXCEPT !.edge = {e}, !.node = {}]
  <2>1. Draws(p)
    BY <1>4 DEF ChooseEdge
  <2>2. GraphShape(p) /\ p.laying = page.laying /\ p.drawn = page.drawn
    BY DEF GraphInv, GraphShape
  <2> HIDE DEF p
  <2> QED BY <2>1, <2>2, DrawsIt
<1>5. ASSUME LayoutArrives PROVE GraphInv'
  <2>1. PICK r \in wire :
          IF OnGraph /\ r.laying = page.laying
          THEN \E p \in Found([page EXCEPT !.drawn = r.drawn]) : Then(p, r, {})
          ELSE Then(page, r, {})
    BY <1>5 DEF LayoutArrives
  <2>2. CASE r.laying # page.laying
    BY <2>1, <2>2 DEF Then, GraphInv, GraphCallsOf, DrawnFollows
  <2>3. CASE r.laying = page.laying
    <3> DEFINE o == [page EXCEPT !.drawn = r.drawn]
    <3>1. PICK p \in Found(o) : Then(p, r, {})
      BY <2>1, <2>3 DEF OnGraph, GraphInv, GraphShape
    <3>2. GraphShape(o) /\ o.laying = page.laying /\ o.asset = page.asset /\ o.drawn = r.drawn
      BY DEF GraphInv, GraphShape
    <3> HIDE DEF o
    <3>3. GraphShape(p) /\ p.laying = page.laying /\ p.asset = page.asset /\ p.drawn = Ends(Displayed(p.asset))
      BY <2>3, <3>2, FoundIs DEF GraphInv, GraphCallsOf
    <3> QED BY <3>1, <3>3 DEF Then, GraphInv, GraphCallsOf, DrawnFollows
  <2> QED BY <2>2, <2>3
<1>6. ASSUME ChooseNothing PROVE GraphInv'
  <2> DEFINE p == [page EXCEPT !.node = {}, !.edge = {}]
  <2>1. Draws(p)
    BY <1>6 DEF ChooseNothing
  <2>2. GraphShape(p) /\ p.laying = page.laying /\ p.drawn = page.drawn
    BY DEF GraphInv, GraphShape
  <2> HIDE DEF p
  <2> QED BY <2>1, <2>2, DrawsIt
<1>7. ASSUME ArrowInGraph PROVE GraphInv'
  BY <1>7 DEF ArrowInGraph, OnGraph, Show, GraphInv, GraphShape, GraphCallsOf, DrawnFollows
<1> QED
  BY <1>1, <1>2, <1>3, <1>4, <1>5, <1>6, <1>7 DEF GraphNext


-----------------------------------------------------------------------------
(* The search field of the explorer *)

\* The page of a suggestion is left to itself.
SearchShape(p) ==
    \/ p.at = "opened"
    \/ /\ p.at = "search"
       /\ DOMAIN p = {"at", "net", "query", "found", "of", "open", "loading", "failed", "active", "timer", "asks", "calls"}
       /\ p.asks \in Nat

\* The look-up that is still listened to is of the query in the field.
SearchCallsOf(p, W) ==
    \A r \in W :
      /\ r.op = "suggest" /\ DOMAIN r = {"op", "of", "asks", "found", "out"}
      /\ p.at = "search" =>
           r.asks \in Nat /\ r.asks <= p.asks /\ (r.asks = p.asks => r.of = <<p.net, p.query>>)
SearchFollows(p, W) ==
    p.at = "search" =>
      /\ p.loading => p.timer \/ \E r \in W : r.asks = p.asks
      /\ p.timer \/ (\E r \in W : r.asks = p.asks) \/ p.of = <<p.net, p.query>>

SearchInv == SearchShape(page) /\ SearchCallsOf(page, wire) /\ SearchFollows(page, wire)

\* Searches come to rest, as the runs ask.
LEMMA SearchHolds == SearchInv => SearchComesToRest
BY DEF SearchInv, SearchCallsOf, SearchFollows, SearchComesToRest

\* Nothing is in the field when it is mounted.
LEMMA SearchStart == SearchInit => SearchInv
<1> SUFFICES ASSUME SearchInit PROVE SearchInv
  OBVIOUS
<1>1. SearchShape(page) /\ page.net = "mainnet" /\ page.query = Empty /\ page.of = <<"mainnet", Empty>> /\ ~page.loading
  BY DEF SearchInit, SearchMounted, SearchShape
<1> QED BY <1>1 DEF SearchInit, SearchInv, SearchCallsOf, SearchFollows

\* Another query is asked for when the timer is over, or there is none.
LEMMA AsksIt ==
  ASSUME SearchInv, NEW p, SearchShape(p), p.at = "search", p.asks = page.asks, page.at = "search",
         NEW q, SearchShape(q), q.at = "search", q.net = Asks(p).net, q.query = Asks(p).query, q.of = Asks(p).of,
         q.loading = Asks(p).loading, q.timer = Asks(p).timer, q.asks = Asks(p).asks,
         page' = q, wire' = wire
  PROVE  SearchInv'
<1>1. CASE p.query = Empty
  <2>1. /\ q.asks = page.asks + 1 /\ ~q.loading /\ q.of = <<q.net, q.query>>
    BY <1>1 DEF Asks, SearchShape
  <2> QED BY <2>1 DEF SearchInv, SearchShape, SearchCallsOf, SearchFollows
<1>2. CASE p.query # Empty
  <2>1. q.asks = page.asks + 1 /\ q.timer
    BY <1>2 DEF Asks, SearchShape
  <2> QED BY <2>1 DEF SearchInv, SearchShape, SearchCallsOf, SearchFollows
<1> QED BY <1>1, <1>2

\* Every step keeps the invariant: a look-up that was overtaken is dropped.
LEMMA SearchStep ==
  ASSUME SearchInv, SearchNext
  PROVE  SearchInv'
<1>1. ASSUME NEW q \in Queries, TypeQuery(q) PROVE SearchInv'
  <2> DEFINE p == [page EXCEPT !.query = q, !.open = TRUE]
             n == [Asks(p) EXCEPT !.calls = @ + 1]
  <2>1. page' = n /\ wire' = wire /\ page.at = "search"
    BY <1>1 DEF TypeQuery, OnSearch, Show, Steered
  <2>2. SearchShape(p) /\ p.at = "search" /\ p.asks = page.asks
    BY <2>1 DEF SearchInv, SearchShape
  <2> HIDE DEF p
  <2>3. SearchShape(Asks(p)) /\ Asks(p).at = "search"
    BY <2>2 DEF Asks, SearchShape
  <2>4. /\ SearchShape(n) /\ n.at = "search" /\ n.net = Asks(p).net /\ n.query = Asks(p).query /\ n.of = Asks(p).of
        /\ n.loading = Asks(p).loading /\ n.timer = Asks(p).timer /\ n.asks = Asks(p).asks
    BY <2>3 DEF SearchShape
  <2> HIDE DEF n
  <2> QED BY <2>1, <2>2, <2>4, AsksIt
<1>2. ASSUME NEW n \in FeedNetworks, SearchOther(n) PROVE SearchInv'
  <2> DEFINE p == [page EXCEPT !.net = n]
             q == [Asks(p) EXCEPT !.calls = @ + 1]
  <2>1. page' = q /\ wire' = wire /\ page.at = "search"
    BY <1>2 DEF SearchOther, OnSearch, Show, Steered
  <2>2. SearchShape(p) /\ p.at = "search" /\ p.asks = page.asks
    BY <2>1 DEF SearchInv, SearchShape
  <2> HIDE DEF p
  <2>3. SearchShape(Asks(p)) /\ Asks(p).at = "search"
    BY <2>2 DEF Asks, SearchShape
  <2>4. /\ SearchShape(q) /\ q.at = "search" /\ q.net = Asks(p).net /\ q.query = Asks(p).query /\ q.of = Asks(p).of
        /\ q.loading = Asks(p).loading /\ q.timer = Asks(p).timer /\ q.asks = Asks(p).asks
    BY <2>3 DEF SearchShape
  <2> HIDE DEF q
  <2> QED BY <2>1, <2>2, <2>4, AsksIt
<1>3. ASSUME NEW i \in 0 .. MaxFound - 1, MoveInSearch(i) PROVE SearchInv'
  BY <1>3 DEF MoveInSearch, OnSearch, Empty, Show, SearchInv, SearchShape, SearchCallsOf,
    SearchFollows
<1>4. ASSUME ClearQuery PROVE SearchInv'
  <2> DEFINE p == [page EXCEPT !.query = Empty]
             q == Asks(p)
  <2>1. page' = q /\ wire' = wire /\ page.at = "search"
    BY <1>4 DEF ClearQuery, OnSearch, Show, Steered
  <2>2. SearchShape(p) /\ p.at = "search" /\ p.asks = page.asks
    BY <2>1 DEF SearchInv, SearchShape
  <2> HIDE DEF p
  <2>3. SearchShape(Asks(p)) /\ Asks(p).at = "search"
    BY <2>2 DEF Asks, SearchShape
  <2>4. /\ SearchShape(q) /\ q.at = "search" /\ q.net = Asks(p).net /\ q.query = Asks(p).query /\ q.of = Asks(p).of
        /\ q.loading = Asks(p).loading /\ q.timer = Asks(p).timer /\ q.asks = Asks(p).asks
    BY <2>3 DEF SearchShape
  <2> HIDE DEF q
  <2> QED BY <2>1, <2>2, <2>4, AsksIt
<1>5. ASSUME LookUp PROVE SearchInv'
  <2> DEFINE r == [op |-> "suggest", of |-> <<page.net, page.query>>, asks |-> page.asks, found |-> 0, out |-> "sent"]
  <2>1. /\ page.at = "search" /\ wire' = wire \cup {r}
        /\ page' = [page EXCEPT !.timer = FALSE, !.loading = TRUE, !.failed = FALSE]
    BY <1>5 DEF LookUp, OnSearch, SearchInv, SearchShape
  <2>2. /\ SearchShape(page') /\ page'.at = "search" /\ page'.net = page.net /\ page'.query = page.query
        /\ page'.asks = page.asks
    BY <2>1 DEF SearchInv, SearchShape
  <2>3. /\ r.op = "suggest" /\ DOMAIN r = {"op", "of", "asks", "found", "out"} /\ r.asks = page.asks
        /\ r.of = <<page.net, page.query>> /\ r \in wire'
    BY <2>1
  <2> HIDE DEF r
  <2>4. SearchCallsOf(page', wire')
    BY <2>1, <2>2, <2>3 DEF SearchInv, SearchCallsOf, SearchShape
  <2>5. SearchFollows(page', wire')
    BY <2>2, <2>3 DEF SearchFollows
  <2> QED BY <2>2, <2>4, <2>5 DEF SearchInv
<1>6. ASSUME ServeLookUp PROVE SearchInv'
  <2>1. SearchShape(page)'
    BY <1>6 DEF ServeLookUp, SearchShape, SearchCallsOf, SearchInv
  <2>2. SearchCallsOf(page, wire)'
    BY ZenonT(60), <1>6 DEF ServeLookUp, SearchShape, SearchCallsOf, SearchInv
  <2>3. SearchFollows(page, wire)'
    <3>1. PICK r \in wire, o \in {"ok", "fail"}, k \in 0 .. MaxFound :
            wire' = (wire \ {r}) \cup {[r EXCEPT !.out = o, !.found = k]} /\ page' = page
      BY <1>6 DEF ServeLookUp
    <3>2. [r EXCEPT !.out = o, !.found = k].asks = r.asks
      BY DEF SearchInv, SearchCallsOf
    <3> QED BY <3>1, <3>2 DEF SearchInv, SearchFollows
  <2> QED BY <2>1, <2>2, <2>3 DEF SearchInv
<1>7. ASSUME LookUpArrives PROVE SearchInv'
  BY <1>7 DEF LookUpArrives, Answers, Then, OnSearch, SearchInv, SearchShape, SearchCallsOf,
    SearchFollows
<1>8. ASSUME CloseSearchPanel PROVE SearchInv'
  BY <1>8 DEF CloseSearchPanel, OnSearch, Show, SearchInv, SearchShape, SearchCallsOf,
    SearchFollows
<1>9. ASSUME OpenSearchPanel PROVE SearchInv'
  BY <1>9 DEF OpenSearchPanel, OnSearch, Show, SearchInv, SearchShape, SearchCallsOf,
    SearchFollows
<1>10. ASSUME EnterSearch PROVE SearchInv'
  BY <1>10 DEF EnterSearch, OnSearch, Show, SearchInv, SearchShape, SearchCallsOf, SearchFollows
<1> QED
  BY <1>1, <1>2, <1>3, <1>4, <1>5, <1>6, <1>7, <1>8, <1>9, <1>10 DEF SearchNext


-----------------------------------------------------------------------------
(* The workbench *)

Doc == [id : Nat, body : Bodies, response : Methods \cup {None}, asked : Methods \cup {None}]
RpcShape(p) ==
    /\ p.at = "rpc"
    /\ DOMAIN p = {"at", "view", "documents", "chosen", "running", "made", "calls"}
    /\ p.documents \in Seq(Doc) /\ p.made \in Nat /\ p.running \in BOOLEAN
RpcCallsOf(W) == \A r \in W : r.op = "rpc" /\ DOMAIN r = {"op", "document", "method", "out"} /\ r.method \in Methods

\* One request runs at a time: the documents it was run from have asked for it,
\* and every other document has the answer to what it asked for.
RunsAlone(p, W) == (p.running <=> W # {}) /\ \A r, q \in W : r = q
AnswersFind(p, W) ==
    /\ \A r \in W : r.document \in Nat /\ r.document <= p.made
    /\ \A k \in DOMAIN p.documents :
         LET d == p.documents[k] IN
         /\ d.id <= p.made
         /\ \A r \in W : r.document = d.id => d.asked = r.method
         /\ (\A r \in W : r.document # d.id) => d.response = d.asked

RpcInv == RpcShape(page) /\ RpcCallsOf(wire) /\ RunsAlone(page, wire) /\ AnswersFind(page, wire)

\* The documents that are kept, as a set.
LEMMA DocumentsAre ==
  ASSUME RpcShape(page)
  PROVE  \A d \in Documents : \E k \in DOMAIN page.documents : d = page.documents[k]
BY DEF RpcShape, Documents, ToSet

\* Answers find their documents, as the runs ask.
LEMMA RpcHolds == RpcInv => AnswersFindTheirDocument
<1> SUFFICES ASSUME RpcInv PROVE AnswersFindTheirDocument
  OBVIOUS
<1> DEFINE running == {r \in wire : r.op = "rpc"}
<1>1. running = wire
  BY DEF RpcInv, RpcCallsOf
<1>2. Cardinality(wire) = IF page.running THEN 1 ELSE 0
  <2>1. CASE wire = {}
    BY <2>1, FS_EmptySet DEF RpcInv, RunsAlone
  <2>2. CASE wire # {}
    <3>1. PICK r \in wire : TRUE
      BY <2>2
    <3>2. wire = {r} /\ page.running
      BY <3>1 DEF RpcInv, RunsAlone
    <3>3. Cardinality({r}) = 1
      BY FS_Singleton
    <3> QED BY <3>2, <3>3
  <2> QED BY <2>1, <2>2
<1>3. \A d \in Documents : (~\E r \in wire : r.document = d.id) => d.response = d.asked
  BY DocumentsAre DEF RpcInv, AnswersFind
<1> QED BY <1>1, <1>2, <1>3 DEF AnswersFindTheirDocument

\* The workbench begins without a document.
LEMMA RpcStart == RpcInit => RpcInv
BY DEF RpcInit, RpcMounted, RpcInv, RpcShape, RpcCallsOf, RunsAlone, AnswersFind


\* A document that is patched has the new values, and the others it had.
Patched(d, i, patch) == [f \in DOMAIN d |-> IF d.id = i /\ f \in DOMAIN patch THEN patch[f] ELSE d[f]]

\* Patching the body leaves the request and the response.
LEMMA PatchBody ==
  ASSUME NEW d \in Doc, NEW i, NEW b \in Bodies
  PROVE  /\ Patched(d, i, [body |-> b]) \in Doc
         /\ Patched(d, i, [body |-> b]).id = d.id
         /\ Patched(d, i, [body |-> b]).asked = d.asked
         /\ Patched(d, i, [body |-> b]).response = d.response
<1>1. DOMAIN d = {"id", "body", "response", "asked"} /\ DOMAIN [body |-> b] = {"body"} /\ [body |-> b]["body"] = b
  BY DEF Doc
<1>2. Patched(d, i, [body |-> b]) = [id |-> d.id, body |-> IF d.id = i THEN b ELSE d.body,
                                     response |-> d.response, asked |-> d.asked]
  BY <1>1 DEF Patched
<1> QED BY <1>2 DEF Doc

\* Patching the request leaves the response.
LEMMA PatchAsked ==
  ASSUME NEW d \in Doc, NEW i, NEW m \in Methods
  PROVE  /\ Patched(d, i, [asked |-> m]) \in Doc
         /\ Patched(d, i, [asked |-> m]).id = d.id
         /\ Patched(d, i, [asked |-> m]).asked = IF d.id = i THEN m ELSE d.asked
         /\ Patched(d, i, [asked |-> m]).response = d.response
<1>1. DOMAIN d = {"id", "body", "response", "asked"} /\ DOMAIN [asked |-> m] = {"asked"} /\ [asked |-> m]["asked"] = m
  BY DEF Doc
<1>2. Patched(d, i, [asked |-> m]) = [id |-> d.id, body |-> d.body, response |-> d.response,
                                      asked |-> IF d.id = i THEN m ELSE d.asked]
  BY <1>1 DEF Patched
<1> QED BY <1>2 DEF Doc

\* Patching the response leaves the request.
LEMMA PatchResponse ==
  ASSUME NEW d \in Doc, NEW i, NEW m \in Methods
  PROVE  /\ Patched(d, i, [response |-> m]) \in Doc
         /\ Patched(d, i, [response |-> m]).id = d.id
         /\ Patched(d, i, [response |-> m]).asked = d.asked
         /\ Patched(d, i, [response |-> m]).response = IF d.id = i THEN m ELSE d.response
<1>1. /\ DOMAIN d = {"id", "body", "response", "asked"}
      /\ DOMAIN [response |-> m] = {"response"} /\ [response |-> m]["response"] = m
  BY DEF Doc
<1>2. Patched(d, i, [response |-> m]) = [id |-> d.id, body |-> d.body, asked |-> d.asked,
                                         response |-> IF d.id = i THEN m ELSE d.response]
  BY <1>1 DEF Patched
<1> QED BY <1>2 DEF Doc

\* Patching the documents leaves the page as it is.
LEMMA UpdateIs ==
  ASSUME NEW p, RpcShape(p), NEW i, NEW patch, \A d \in Doc : Patched(d, i, patch) \in Doc
  PROVE  LET q == Update(p, i, patch) IN
         /\ RpcShape(q) /\ q.made = p.made /\ q.running = p.running
         /\ DOMAIN q.documents = DOMAIN p.documents
         /\ \A k \in DOMAIN p.documents : p.documents[k] \in Doc /\ q.documents[k] = Patched(p.documents[k], i, patch)
<1> DEFINE ds == [k \in DOMAIN p.documents |-> Patched(p.documents[k], i, patch)]
           q == Update(p, i, patch)
<1>1. q = [p EXCEPT !.documents = ds]
  BY DEF Update, Patched
<1>2. p.documents \in Seq(Doc)
  BY DEF RpcShape
<1>3. ds \in Seq(Doc) /\ DOMAIN ds = DOMAIN p.documents
  <2>1. DOMAIN p.documents = 1 .. Len(p.documents) /\ Len(p.documents) \in Nat
    BY <1>2
  <2>2. ds \in [1 .. Len(p.documents) -> Doc]
    BY <1>2, <2>1
  <2> QED BY <2>1, <2>2
<1>4. \A k \in DOMAIN p.documents : p.documents[k] \in Doc /\ ds[k] = Patched(p.documents[k], i, patch)
  BY <1>2
<1> HIDE DEF ds, q
<1>5. RpcShape(q) /\ q.made = p.made /\ q.running = p.running /\ q.documents = ds
  BY <1>1, <1>3 DEF RpcShape
<1> QED BY <1>3, <1>4, <1>5 DEF q

\* Every step keeps the invariant, whichever document is open when the answer
\* arrives.
LEMMA RpcStep ==
  ASSUME RpcInv, RpcNext
  PROVE  RpcInv'
<1>1. ASSUME NEW m \in Methods \cup {"empty"}, AddDocument(m) PROVE RpcInv'
  <2> DEFINE new == Document(page.made + 1, m)
             all == <<new>> \o page.documents
             n == IF Len(all) < MaxDocuments THEN Len(all) ELSE MaxDocuments
             kept == SubSeq(all, 1, n)
  <2>1. page' = [page EXCEPT !.documents = kept, !.chosen = page.made + 1, !.made = @ + 1, !.view = "request"]
        /\ wire' = wire /\ db' = db
    BY <1>1 DEF AddDocument, Show
  <2>2. page.documents \in Seq(Doc) /\ page.made \in Nat
    BY DEF RpcInv, RpcShape
  <2>3. new \in Doc /\ new.id = page.made + 1 /\ new.response = None /\ new.asked = None
    BY <2>2 DEF Document, Doc, Bodies
  <2> HIDE DEF new
  <2>4. /\ all \in Seq(Doc) /\ Len(all) = Len(page.documents) + 1 /\ all[1] = new
        /\ \A k \in 2 .. Len(all) : all[k] = page.documents[k - 1] /\ k - 1 \in DOMAIN page.documents
    BY <2>2, <2>3
  <2> HIDE DEF all
  <2>5. n \in Nat /\ n <= Len(all)
    BY <2>2, <2>4, MaxDocumentsAssumption
  <2> HIDE DEF n
  <2>6. kept \in Seq(Doc) /\ DOMAIN kept = 1 .. n /\ \A k \in 1 .. n : kept[k] = all[k]
    BY <2>4, <2>5
  <2> HIDE DEF kept
  <2>7. /\ RpcShape(page)' /\ page'.made = page.made + 1 /\ page'.running = page.running /\ page'.documents = kept
    BY <2>1, <2>2, <2>6 DEF RpcInv, RpcShape
  <2>8. RpcCallsOf(wire)' /\ RunsAlone(page, wire)'
    BY <2>1, <2>7 DEF RpcInv, RpcCallsOf, RunsAlone
  <2>9. AnswersFind(page, wire)'
    <3>1. \A r \in wire' : r.document \in Nat /\ r.document <= page.made
      BY <2>1 DEF RpcInv, AnswersFind
    <3>2. \A r \in wire' : r.document <= page'.made
      BY <2>2, <2>7, <3>1
    <3>3. ASSUME NEW k \in 1 .. n
          PROVE  LET d == kept[k] IN
                 /\ d.id <= page'.made
                 /\ \A r \in wire' : r.document = d.id => d.asked = r.method
                 /\ (\A r \in wire' : r.document # d.id) => d.response = d.asked
      <4>1. CASE k = 1
        BY <2>2, <2>3, <2>4, <2>6, <2>7, <3>1, <4>1
      <4>2. CASE k # 1
        <5>1. k \in 2 .. Len(all) /\ kept[k] = all[k]
          BY <2>4, <2>5, <2>6, <4>2
        <5>2. kept[k] = page.documents[k - 1] /\ k - 1 \in DOMAIN page.documents
          BY ONLY <2>4, <5>1
        <5>3. page.documents[k - 1] \in Doc
          <6>1. page.documents \in [DOMAIN page.documents -> Doc]
            BY <2>2
          <6> QED BY <5>2, <6>1
        <5>4. page.documents[k - 1].id \in Nat
          BY <5>3 DEF Doc
        <5>5. /\ page.documents[k - 1].id <= page.made
              /\ \A r \in wire : r.document = page.documents[k - 1].id => page.documents[k - 1].asked = r.method
              /\ (\A r \in wire : r.document # page.documents[k - 1].id)
                   => page.documents[k - 1].response = page.documents[k - 1].asked
          BY <5>2 DEF RpcInv, AnswersFind
        <5> QED BY <2>1, <2>2, <2>7, <5>2, <5>4, <5>5
      <4> QED BY <4>1, <4>2
    <3> QED BY <2>6, <2>7, <3>1, <3>2, <3>3 DEF AnswersFind
  <2> QED BY <2>7, <2>8, <2>9 DEF RpcInv
<1>2. ASSUME NEW b \in Bodies, EditBody(b) PROVE RpcInv'
  <2>1. PICK d \in Documents : Show(Update(page, d.id, [body |-> b]))
    BY <1>2 DEF EditBody
  <2>2. RpcShape(page) /\ \A e \in Doc : Patched(e, d.id, [body |-> b]) \in Doc
    BY PatchBody DEF RpcInv
  <2> DEFINE q == Update(page, d.id, [body |-> b])
  <2>3. /\ RpcShape(q) /\ q.made = page.made /\ q.running = page.running
        /\ DOMAIN q.documents = DOMAIN page.documents
        /\ \A k \in DOMAIN page.documents :
             page.documents[k] \in Doc /\ q.documents[k] = Patched(page.documents[k], d.id, [body |-> b])
    BY <2>2, UpdateIs
  <2>4. page' = q /\ wire' = wire
    BY <2>1 DEF Show
  <2> HIDE DEF q
  <2>5. \A k \in DOMAIN page.documents :
          /\ q.documents[k].id = page.documents[k].id /\ q.documents[k].asked = page.documents[k].asked
          /\ q.documents[k].response = page.documents[k].response
    BY <2>3, PatchBody
  <2> QED BY <2>3, <2>4, <2>5 DEF RpcInv, RpcCallsOf, RunsAlone, AnswersFind
<1>3. ASSUME NEW i \in 1 .. MaxDocuments + 1, OpenDocument(i) PROVE RpcInv'
  <2>1. page' = [page EXCEPT !.chosen = i, !.view = "request"] /\ wire' = wire
    BY <1>3 DEF OpenDocument, Show
  <2>2. RpcShape(page)' /\ page'.documents = page.documents /\ page'.made = page.made /\ page'.running = page.running
    BY <2>1 DEF RpcInv, RpcShape
  <2> QED BY <2>1, <2>2 DEF RpcInv, RpcCallsOf, RunsAlone, AnswersFind
<1>4. ASSUME RunRequest PROVE RpcInv'
  <2>1. PICK d \in Documents :
          /\ d.body \in Methods /\ ~page.running
          /\ Call([Update(page, d.id, [asked |-> d.body]) EXCEPT !.running = TRUE],
                  [op |-> "rpc", document |-> d.id, method |-> d.body, out |-> "sent"])
    BY <1>4 DEF RunRequest
  <2> DEFINE q == Update(page, d.id, [asked |-> d.body])
             s == [op |-> "rpc", document |-> d.id, method |-> d.body, out |-> "sent"]
  <2>2. RpcShape(page) /\ \A e \in Doc : Patched(e, d.id, [asked |-> d.body]) \in Doc
    BY <2>1, PatchAsked DEF RpcInv, Bodies
  <2>3. /\ RpcShape(q) /\ q.made = page.made
        /\ DOMAIN q.documents = DOMAIN page.documents
        /\ \A k \in DOMAIN page.documents :
             page.documents[k] \in Doc /\ q.documents[k] = Patched(page.documents[k], d.id, [asked |-> d.body])
    BY <2>2, UpdateIs
  <2>4. page' = [q EXCEPT !.running = TRUE, !.calls = @ + 1] /\ wire' = wire \cup {s}
    BY <2>1 DEF Call
  <2> HIDE DEF q
  <2>5. \A k \in DOMAIN page.documents :
          /\ q.documents[k].id = page.documents[k].id /\ q.documents[k].response = page.documents[k].response
          /\ q.documents[k].asked = IF page.documents[k].id = d.id THEN d.body ELSE page.documents[k].asked
    BY <2>1, <2>3, PatchAsked DEF Bodies
  <2>6. RpcShape(page)' /\ page'.made = page.made /\ page'.running /\ page'.documents = q.documents
    BY <2>3, <2>4 DEF RpcShape
  <2>7. PICK j \in DOMAIN page.documents : d = page.documents[j]
    BY <2>2, DocumentsAre
  <2>8. d.id \in Nat /\ d.id <= page.made
    BY <2>3, <2>7 DEF RpcInv, AnswersFind, Doc
  <2>9. /\ s.op = "rpc" /\ DOMAIN s = {"op", "document", "method", "out"} /\ s.method = d.body /\ s.document = d.id
    OBVIOUS
  <2> HIDE DEF s
  <2>10. wire = {} /\ wire' = {s}
    BY <2>1, <2>4 DEF RpcInv, RunsAlone
  <2>11. RpcCallsOf(wire)' /\ RunsAlone(page, wire)'
    BY <2>1, <2>6, <2>9, <2>10 DEF RpcCallsOf, RunsAlone
  <2>12. AnswersFind(page, wire)'
    <3>1. \A k \in DOMAIN page.documents :
            page.documents[k].id <= page.made /\ page.documents[k].response = page.documents[k].asked
      BY <2>10 DEF RpcInv, AnswersFind
    <3> QED BY <2>3, <2>5, <2>6, <2>8, <2>9, <2>10, <3>1 DEF AnswersFind
  <2> QED BY <2>6, <2>11, <2>12 DEF RpcInv
<1>5. ASSUME ServeRpc PROVE RpcInv'
  <2>1. PICK r \in wire, o \in {"ok", "fail"} : wire' = (wire \ {r}) \cup {[r EXCEPT !.out = o]} /\ page' = page
    BY <1>5 DEF ServeRpc
  <2> DEFINE s == [r EXCEPT !.out = o]
  <2>2. s.op = "rpc" /\ DOMAIN s = {"op", "document", "method", "out"} /\ s.method = r.method /\ s.document = r.document
        /\ s.method \in Methods
    BY DEF RpcInv, RpcCallsOf
  <2> HIDE DEF s
  <2>3. wire = {r} /\ wire' = {s}
    BY <2>1 DEF RpcInv, RunsAlone, s
  <2>4. RpcCallsOf(wire)' /\ RunsAlone(page, wire)'
    BY <2>1, <2>2, <2>3 DEF RpcInv, RpcCallsOf, RunsAlone
  <2>5. AnswersFind(page, wire)'
    BY <2>1, <2>2, <2>3 DEF RpcInv, AnswersFind
  <2> QED BY <2>1, <2>4, <2>5 DEF RpcInv
<1>6. ASSUME RpcArrives PROVE RpcInv'
  <2>1. PICK r \in wire : Then([Update(page, r.document, [response |-> r.method]) EXCEPT !.running = FALSE], r, {})
    BY <1>6 DEF RpcArrives, Answers
  <2> DEFINE q == Update(page, r.document, [response |-> r.method])
  <2>2. RpcShape(page) /\ r.method \in Methods /\ \A e \in Doc : Patched(e, r.document, [response |-> r.method]) \in Doc
    BY PatchResponse DEF RpcInv, RpcCallsOf, Bodies
  <2>3. /\ RpcShape(q) /\ q.made = page.made
        /\ DOMAIN q.documents = DOMAIN page.documents
        /\ \A k \in DOMAIN page.documents :
             /\ page.documents[k] \in Doc
             /\ q.documents[k] = Patched(page.documents[k], r.document, [response |-> r.method])
    BY <2>2, UpdateIs
  <2>4. page' = [q EXCEPT !.running = FALSE] /\ wire' = wire \ {r}
    BY <2>1 DEF Then
  <2> HIDE DEF q
  <2>5. \A k \in DOMAIN page.documents :
          /\ q.documents[k].id = page.documents[k].id /\ q.documents[k].asked = page.documents[k].asked
          /\ q.documents[k].response = IF page.documents[k].id = r.document THEN r.method ELSE page.documents[k].response
    BY <2>2, <2>3, PatchResponse DEF Bodies
  <2>6. RpcShape(page)' /\ page'.made = page.made /\ ~page'.running /\ page'.documents = q.documents
    BY <2>3, <2>4 DEF RpcShape
  <2>7. wire = {r} /\ wire' = {}
    BY <2>4 DEF RpcInv, RunsAlone
  <2>8. AnswersFind(page, wire)'
    <3>1. \A k \in DOMAIN page.documents :
            /\ page.documents[k].id <= page.made
            /\ page.documents[k].id = r.document => page.documents[k].asked = r.method
            /\ page.documents[k].id # r.document => page.documents[k].response = page.documents[k].asked
      BY <2>7 DEF RpcInv, AnswersFind
    <3> QED BY <2>3, <2>5, <2>6, <2>7, <3>1 DEF AnswersFind
  <2> QED BY <2>6, <2>7, <2>8 DEF RpcInv, RpcCallsOf, RunsAlone
<1>7. ASSUME ShowExamples PROVE RpcInv'
  BY <1>7 DEF ShowExamples, OnRpc, Show, RpcInv, RpcShape, Doc, Bodies, None, RpcCallsOf,
    RunsAlone, AnswersFind
<1>8. ASSUME ShowCalls PROVE RpcInv'
  BY <1>8 DEF ShowCalls, OnRpc, Show, RpcInv, RpcShape, Doc, Bodies, None, RpcCallsOf, RunsAlone,
    AnswersFind
<1> QED
  BY <1>1, <1>2, <1>3, <1>4, <1>5, <1>6, <1>7, <1>8 DEF RpcNext


-----------------------------------------------------------------------------
(* The inputs of a simulation *)

FormFields == {"at", "mode", "net", "forked", "loaded", "env", "target", "fn", "source", "args", "suggested",
    "seq", "seqLoading", "entries", "entry", "spec", "specLoading", "params", "cache", "loading", "calls"}
FormShape(p) ==
    /\ p.at = "form" /\ DOMAIN p = FormFields
    /\ p.seqLoading \in BOOLEAN /\ p.specLoading \in BOOLEAN /\ p.loading \in BOOLEAN
FormCalls(W) ==
    \A r \in W : r.op \in Reading \cup {"load", "simulate", "repair"} /\ DOMAIN r = {"op", "of", "net", "env", "seq", "params"}

\* Each of the readings: what was read, and what is being read, is of the inputs.
SequenceAgrees(p, W) ==
    /\ \A r \in W : r.op = "sequence" =>
         r.net = RequestNetwork(p) /\ r.env = ReadEnvironment(p) /\ p.source /\ p.mode # "ledger"
    /\ \A r, q \in W : r.op = "sequence" /\ q.op = "sequence" => r = q
    /\ p.seqLoading <=> \E r \in W : r.op = "sequence"
    /\ p.seq # {} => p.seq = {Where(p)} /\ p.source /\ p.mode # "ledger"
EntriesAgree(p, W) ==
    /\ \A r \in W : r.op = "entries" =>
         r.of = p.target /\ r.net = RequestNetwork(p) /\ r.env = ReadEnvironment(p)
    /\ p.entries # {} /\ ~(\E r \in W : r.op = "entries") =>
         p.entries = {[of |-> p.target, net |-> RequestNetwork(p), env |-> ReadEnvironment(p)]}
SpecMatches(p) == p.spec # NoSpec => p.spec.of = p.target /\ p.spec.net = RequestNetwork(p)
SpecAgrees(p, W) ==
    /\ \A r \in W : r.op = "spec" => r.of = p.target /\ r.net = RequestNetwork(p)
    /\ \A r, q \in W : r.op = "spec" /\ q.op = "spec" => r = q
    /\ p.specLoading <=> \E r \in W : r.op = "spec"
    /\ p.specLoading => ConfirmedTarget(p) /\ SpecCached(p) = {}
    /\ p.spec # NoSpec => ConfirmedTarget(p)
    /\ SpecMatches(p)
ParamsAgree(p) == p.params # None => p.params = p.target

\* What is sent agreed with the inputs when it was, and one request is sent at a time.
SentAgrees(p, W) ==
    /\ \A r \in W : r.op = "simulate" =>
         /\ r.seq # {} => r.seq = {[net |-> r.net, env |-> r.env]}
         /\ r.params # None => r.params = r.of
    /\ \A r, q \in W : r.op \in {"simulate", "repair"} /\ q.op \in {"simulate", "repair"} => r = q
    /\ p.loading <=> \E r \in W : r.op \in {"simulate", "repair"}

FormAgrees(p, W) ==
    /\ FormShape(p) /\ FormCalls(W)
    /\ SequenceAgrees(p, W) /\ EntriesAgree(p, W) /\ SpecAgrees(p, W)
    /\ ParamsAgree(p) /\ SentAgrees(p, W)
FormInv == FormAgrees(page, wire)

\* What the runs ask of the form.
LEMMA FormHolds == FormInv => InputsAgree /\ NobodyWaitsInVain /\ RequestsAgree
<1> SUFFICES ASSUME FormInv PROVE InputsAgree /\ NobodyWaitsInVain /\ RequestsAgree
  OBVIOUS
<1>1. InputsAgree
  BY DEF FormInv, FormAgrees, SequenceAgrees, EntriesAgree, SpecAgrees, SpecMatches, ParamsAgree, InputsAgree, InFlight
<1>2. NobodyWaitsInVain
  BY DEF FormInv, FormAgrees, FormShape, SequenceAgrees, SpecAgrees, SentAgrees, NobodyWaitsInVain, InFlight
<1>3. RequestsAgree
  BY DEF FormInv, FormAgrees, SentAgrees, RequestsAgree
<1> QED BY <1>1, <1>2, <1>3

\* The inputs, and what an effect leaves alone of the calls.
SameInputs(p, q) ==
    /\ q.mode = p.mode /\ q.net = p.net /\ q.forked = p.forked /\ q.loaded = p.loaded /\ q.env = p.env
    /\ q.target = p.target /\ q.fn = p.fn /\ q.source = p.source /\ q.args = p.args /\ q.cache = p.cache
    /\ q.loading = p.loading
OnlyOf(W, V, op) == \A r : r.op # op => (r \in V <=> r \in W)

\* A page with the same inputs reads the same ledger, network and contract.
LEMMA SameReading ==
  ASSUME NEW p, NEW q, SameInputs(p, q)
  PROVE  /\ RequestNetwork(q) = RequestNetwork(p) /\ ReadEnvironment(q) = ReadEnvironment(p) /\ Where(q) = Where(p)
         /\ SpecCached(q) = SpecCached(p)
         /\ q.suggested = p.suggested => (ConfirmedTarget(q) <=> ConfirmedTarget(p))
BY DEF SameInputs, RequestNetwork, ReadEnvironment, Where, SpecCached, ConfirmedTarget

\* A call of the form has what it is made with, and nothing is carried yet.
LEMMA FormCallIs ==
  ASSUME NEW op, NEW of, NEW net, NEW env, NEW r, r = FormCall(op, of, net, env)
  PROVE  /\ r.op = op /\ r.of = of /\ r.net = net /\ r.env = env
         /\ DOMAIN r = {"op", "of", "net", "env", "seq", "params"}
BY DEF FormCall

\* The effects, one by one: the first looks the target up.
LEMMA LookupTargetDoes ==
  ASSUME NEW old, NEW p, NEW W, FormShape(p), FormCalls(W)
  PROVE  LET t == LookupTarget(old, p, W) IN
         /\ FormShape(t.page) /\ FormCalls(t.wire) /\ SameInputs(p, t.page) /\ OnlyOf(W, t.wire, "target")
         /\ t.page.seq = p.seq /\ t.page.seqLoading = p.seqLoading /\ t.page.entries = p.entries
         /\ t.page.spec = p.spec /\ t.page.specLoading = p.specLoading /\ t.page.params = p.params
         /\ IF <<old.target, RequestNetwork(old)>> = <<p.target, RequestNetwork(p)>>
            THEN t.page.suggested = p.suggested ELSE t.page.suggested = None
<1> DEFINE t == LookupTarget(old, p, W)
           n == [p EXCEPT !.suggested = None]
           more == IF p.target = None THEN {} ELSE {FormCall("target", p.target, RequestNetwork(p), None)}
<1>1. CASE <<old.target, RequestNetwork(old)>> = <<p.target, RequestNetwork(p)>>
  <2>1. t.page = p /\ t.wire = W
    BY <1>1 DEF LookupTarget
  <2> HIDE DEF t
  <2> QED BY <1>1, <2>1 DEF SameInputs, OnlyOf, t
<1>2. CASE <<old.target, RequestNetwork(old)>> # <<p.target, RequestNetwork(p)>>
  <2>1. t.page = n /\ t.wire = Disown(W, "target") \cup more
    BY <1>2 DEF LookupTarget
  <2>2. \A r \in more : r.op = "target" /\ DOMAIN r = {"op", "of", "net", "env", "seq", "params"}
    BY FormCallIs
  <2> HIDE DEF t, more
  <2>3. FormCalls(t.wire) /\ OnlyOf(W, t.wire, "target")
    BY <2>1, <2>2 DEF FormCalls, OnlyOf, Disown, Reading
  <2>4. /\ FormShape(n) /\ SameInputs(p, n) /\ n.suggested = None /\ n.seq = p.seq /\ n.seqLoading = p.seqLoading
        /\ n.entries = p.entries /\ n.spec = p.spec /\ n.specLoading = p.specLoading /\ n.params = p.params
    BY DEF FormShape, FormFields, SameInputs
  <2> HIDE DEF n
  <2> QED BY <1>2, <2>1, <2>3, <2>4 DEF t
<1> QED BY <1>1, <1>2

\* The second reads the sequence number of the source, if its inputs changed.
LEMMA ReadSequenceDoes ==
  ASSUME NEW old, NEW p, NEW W, FormShape(p), FormCalls(W),
         SequenceInputs(old) = SequenceInputs(p) => SequenceAgrees(p, W)
  PROVE  LET t == ReadSequence(old, [page |-> p, wire |-> W]) IN
         /\ FormShape(t.page) /\ FormCalls(t.wire) /\ SameInputs(p, t.page) /\ OnlyOf(W, t.wire, "sequence")
         /\ SequenceAgrees(t.page, t.wire) /\ t.page.suggested = p.suggested /\ t.page.entries = p.entries
         /\ t.page.spec = p.spec /\ t.page.specLoading = p.specLoading /\ t.page.params = p.params
<1> DEFINE t == ReadSequence(old, [page |-> p, wire |-> W])
           none == p.args = "raw" \/ p.mode = "ledger" \/ ~p.source
           n == [p EXCEPT !.seq = {}, !.seqLoading = ~none]
           more == IF none THEN {} ELSE {FormRead(p, "sequence", None)}
<1>1. CASE SequenceInputs(old) = SequenceInputs(p)
  <2>1. t.page = p /\ t.wire = W
    BY <1>1 DEF ReadSequence
  <2> HIDE DEF t
  <2> QED BY <1>1, <2>1 DEF SameInputs, OnlyOf, t
<1>2. CASE SequenceInputs(old) # SequenceInputs(p)
  <2>1. t.page = n /\ t.wire = Disown(W, "sequence") \cup more
    BY <1>2 DEF ReadSequence
  <2>2. /\ \A r \in more : /\ r.op = "sequence" /\ DOMAIN r = {"op", "of", "net", "env", "seq", "params"}
                           /\ r.net = RequestNetwork(p) /\ r.env = ReadEnvironment(p) /\ ~none
        /\ \A r, q \in more : r = q
        /\ ~none => \E r \in more : r.op = "sequence"
    BY FormCallIs DEF FormRead
  <2>3. /\ FormShape(n) /\ SameInputs(p, n) /\ n.seq = {} /\ (n.seqLoading <=> ~none) /\ n.suggested = p.suggested
        /\ n.entries = p.entries /\ n.spec = p.spec /\ n.specLoading = p.specLoading /\ n.params = p.params
    BY DEF FormShape, FormFields, SameInputs
  <2>4. ~none => p.source /\ p.mode # "ledger"
    OBVIOUS
  <2> HIDE DEF t, more, none, n
  <2>5. FormCalls(t.wire) /\ OnlyOf(W, t.wire, "sequence")
    BY <2>1, <2>2 DEF FormCalls, OnlyOf, Disown, Reading
  <2>6. \A r \in t.wire : r.op = "sequence" <=> r \in more
    BY <2>1, <2>2 DEF Disown
  <2>7. /\ RequestNetwork(n) = RequestNetwork(p) /\ ReadEnvironment(n) = ReadEnvironment(p)
        /\ n.source = p.source /\ n.mode = p.mode
    BY <2>3, SameReading DEF SameInputs
  <2>8. SequenceAgrees(n, t.wire)
    BY <2>1, <2>2, <2>3, <2>4, <2>6, <2>7 DEF SequenceAgrees
  <2> QED BY <2>1, <2>3, <2>5, <2>8 DEF t
<1> QED BY <1>1, <1>2

\* The third reads the entry points of the target.
LEMMA ReadEntriesDoes ==
  ASSUME NEW old, NEW p, NEW W, FormShape(p), FormCalls(W),
         EntriesInputs(old) = EntriesInputs(p) => EntriesAgree(p, W)
  PROVE  LET t == ReadEntries(old, [page |-> p, wire |-> W]) IN
         /\ FormShape(t.page) /\ FormCalls(t.wire) /\ SameInputs(p, t.page) /\ OnlyOf(W, t.wire, "entries")
         /\ EntriesAgree(t.page, t.wire) /\ t.page.suggested = p.suggested
         /\ t.page.seq = p.seq /\ t.page.seqLoading = p.seqLoading
         /\ t.page.spec = p.spec /\ t.page.specLoading = p.specLoading /\ t.page.params = p.params
<1> DEFINE t == ReadEntries(old, [page |-> p, wire |-> W])
           n == IF p.target = None THEN [p EXCEPT !.entries = {}, !.entry = None] ELSE p
           more == IF p.target = None THEN {} ELSE {FormRead(p, "entries", p.target)}
<1>1. CASE EntriesInputs(old) = EntriesInputs(p)
  <2>1. t.page = p /\ t.wire = W
    BY <1>1 DEF ReadEntries
  <2> HIDE DEF t
  <2> QED BY <1>1, <2>1 DEF SameInputs, OnlyOf, t
<1>2. CASE EntriesInputs(old) # EntriesInputs(p)
  <2>1. t.page = n /\ t.wire = Disown(W, "entries") \cup more
    BY <1>2 DEF ReadEntries
  <2>2. /\ \A r \in more : /\ r.op = "entries" /\ DOMAIN r = {"op", "of", "net", "env", "seq", "params"}
                           /\ r.of = p.target /\ r.net = RequestNetwork(p) /\ r.env = ReadEnvironment(p)
        /\ p.target # None => \E r \in more : r.op = "entries"
    BY FormCallIs DEF FormRead
  <2>3. /\ FormShape(n) /\ SameInputs(p, n) /\ n.suggested = p.suggested /\ (p.target = None => n.entries = {})
        /\ n.seq = p.seq /\ n.seqLoading = p.seqLoading
        /\ n.spec = p.spec /\ n.specLoading = p.specLoading /\ n.params = p.params
    BY DEF FormShape, FormFields, SameInputs
  <2> HIDE DEF t, more, n
  <2>4. FormCalls(t.wire) /\ OnlyOf(W, t.wire, "entries")
    BY <2>1, <2>2 DEF FormCalls, OnlyOf, Disown, Reading
  <2>5. \A r \in t.wire : r.op = "entries" <=> r \in more
    BY <2>1, <2>2 DEF Disown
  <2>6. RequestNetwork(n) = RequestNetwork(p) /\ ReadEnvironment(n) = ReadEnvironment(p) /\ n.target = p.target
    BY <2>3, SameReading DEF SameInputs
  <2>7. EntriesAgree(n, t.wire)
    BY <2>1, <2>2, <2>3, <2>5, <2>6 DEF EntriesAgree
  <2> QED BY <2>1, <2>3, <2>4, <2>7 DEF t
<1> QED BY <1>1, <1>2

\* The fourth reads the specification of the confirmed target, or takes it from
\* the cache.
LEMMA ReadSpecDoes ==
  ASSUME NEW old, NEW p, NEW W, NEW again \in BOOLEAN, FormShape(p), FormCalls(W),
         SpecInputs(old) = SpecInputs(p) /\ ~again => SpecAgrees(p, W) /\ ParamsAgree(p),
         ConfirmedTarget(p) => SpecMatches(p) /\ ParamsAgree(p) /\ (SpecCached(p) # {} => ~p.specLoading)
  PROVE  LET t == ReadSpec(old, [page |-> p, wire |-> W], again) IN
         /\ FormShape(t.page) /\ FormCalls(t.wire) /\ SameInputs(p, t.page) /\ OnlyOf(W, t.wire, "spec")
         /\ SpecAgrees(t.page, t.wire) /\ ParamsAgree(t.page) /\ t.page.suggested = p.suggested
         /\ t.page.seq = p.seq /\ t.page.seqLoading = p.seqLoading /\ t.page.entries = p.entries
<1> DEFINE t == ReadSpec(old, [page |-> p, wire |-> W], again)
           others == Disown(W, "spec")
<1>1. CASE SpecInputs(old) = SpecInputs(p) /\ ~again
  <2>1. t.page = p /\ t.wire = W
    BY <1>1 DEF ReadSpec
  <2> HIDE DEF t
  <2> QED BY <1>1, <2>1 DEF SameInputs, OnlyOf, t
<1>2. FormCalls(others) /\ OnlyOf(W, others, "spec") /\ \A r \in others : r.op # "spec"
  BY DEF FormCalls, OnlyOf, Disown
<1>3. CASE ~(SpecInputs(old) = SpecInputs(p) /\ ~again) /\ ~ConfirmedTarget(p)
  <2> DEFINE n == SpecForgotten(p)
  <2>1. t.page = n /\ t.wire = others
    BY <1>3 DEF ReadSpec
  <2>2. /\ FormShape(n) /\ SameInputs(p, n) /\ n.suggested = p.suggested /\ n.seq = p.seq
        /\ n.seqLoading = p.seqLoading /\ n.entries = p.entries
        /\ n.spec = NoSpec /\ ~n.specLoading /\ n.params = None
    BY DEF SpecForgotten, FormShape, FormFields, SameInputs
  <2> HIDE DEF t, n, others
  <2>3. SpecAgrees(n, others) /\ ParamsAgree(n)
    BY <1>2, <2>2 DEF SpecAgrees, SpecMatches, ParamsAgree
  <2> QED BY <1>2, <2>1, <2>2, <2>3 DEF t
<1>4. CASE ~(SpecInputs(old) = SpecInputs(p) /\ ~again) /\ ConfirmedTarget(p) /\ SpecCached(p) # {}
  <2> DEFINE c == CHOOSE x \in SpecCached(p) : TRUE
             n == [p EXCEPT !.spec = c]
  <2>1. t.page = n /\ t.wire = others
    BY <1>4 DEF ReadSpec
  <2>2. /\ FormShape(n) /\ SameInputs(p, n) /\ n.suggested = p.suggested /\ n.seq = p.seq
        /\ n.seqLoading = p.seqLoading /\ n.entries = p.entries
        /\ n.spec = c /\ n.specLoading = p.specLoading /\ n.params = p.params
    BY DEF FormShape, FormFields, SameInputs
  <2>3. c \in SpecCached(p)
    BY <1>4
  <2> HIDE DEF t, n, others, c
  <2>4. c.net = RequestNetwork(p) /\ c.of = p.target
    BY <2>3 DEF SpecCached
  <2>5. RequestNetwork(n) = RequestNetwork(p) /\ n.target = p.target /\ ConfirmedTarget(n)
    BY <1>4, <2>2, SameReading DEF SameInputs
  <2>6. SpecAgrees(n, others) /\ ParamsAgree(n)
    BY <1>2, <1>4, <2>2, <2>4, <2>5 DEF SpecAgrees, SpecMatches, ParamsAgree
  <2> QED BY <1>2, <2>1, <2>2, <2>6 DEF t
<1>5. CASE ~(SpecInputs(old) = SpecInputs(p) /\ ~again) /\ ConfirmedTarget(p) /\ SpecCached(p) = {}
  <2> DEFINE c == FormRead(p, "spec", p.target)
             n == [p EXCEPT !.specLoading = TRUE]
  <2>1. t.page = n /\ t.wire = others \cup {c}
    BY <1>5 DEF ReadSpec
  <2>2. /\ FormShape(n) /\ SameInputs(p, n) /\ n.suggested = p.suggested /\ n.seq = p.seq
        /\ n.seqLoading = p.seqLoading /\ n.entries = p.entries
        /\ n.spec = p.spec /\ n.specLoading /\ n.params = p.params
    BY DEF FormShape, FormFields, SameInputs
  <2>3. /\ c.op = "spec" /\ c.of = p.target /\ c.net = RequestNetwork(p)
        /\ DOMAIN c = {"op", "of", "net", "env", "seq", "params"}
    BY FormCallIs DEF FormRead
  <2> HIDE DEF t, n, others, c
  <2>4. FormCalls(t.wire) /\ OnlyOf(W, t.wire, "spec")
    BY <1>2, <2>1, <2>3 DEF FormCalls, OnlyOf, Reading
  <2>5. /\ RequestNetwork(n) = RequestNetwork(p) /\ n.target = p.target /\ ConfirmedTarget(n)
        /\ SpecCached(n) = {}
    BY <1>5, <2>2, SameReading DEF SameInputs
  <2>6. SpecAgrees(n, t.wire) /\ ParamsAgree(n)
    BY <1>2, <1>5, <2>1, <2>2, <2>3, <2>5 DEF SpecAgrees, SpecMatches, ParamsAgree
  <2> QED BY <2>1, <2>2, <2>4, <2>6 DEF t
<1> QED BY <1>1, <1>3, <1>4, <1>5

\* The last fills the arguments in for the function that is chosen.
LEMMA DefaultParamsDoes ==
  ASSUME NEW p, NEW W, FormShape(p), SpecMatches(p), ParamsAgree(p)
  PROVE  LET t == DefaultParams([page |-> p, wire |-> W]) IN
         /\ FormShape(t.page) /\ t.wire = W /\ SameInputs(p, t.page) /\ ParamsAgree(t.page)
         /\ t.page.suggested = p.suggested /\ t.page.seq = p.seq /\ t.page.seqLoading = p.seqLoading
         /\ t.page.entries = p.entries /\ t.page.spec = p.spec /\ t.page.specLoading = p.specLoading
<1> DEFINE t == DefaultParams([page |-> p, wire |-> W])
           n == [p EXCEPT !.params = p.spec.of]
<1>1. CASE SelectedFunction(p) /\ p.params = None
  <2>1. t.page = n /\ t.wire = W
    BY <1>1 DEF DefaultParams
  <2>2. /\ FormShape(n) /\ SameInputs(p, n) /\ n.suggested = p.suggested /\ n.seq = p.seq /\ n.seqLoading = p.seqLoading
        /\ n.entries = p.entries /\ n.spec = p.spec /\ n.specLoading = p.specLoading /\ n.params = p.spec.of
    BY DEF FormShape, FormFields, SameInputs
  <2>3. p.spec # NoSpec
    BY <1>1 DEF SelectedFunction, NoSpec, Functionality
  <2>4. ParamsAgree(n)
    BY <2>2, <2>3 DEF SpecMatches, ParamsAgree, SameInputs
  <2> HIDE DEF t, n
  <2> QED BY <2>1, <2>2, <2>4 DEF t
<1>2. CASE ~(SelectedFunction(p) /\ p.params = None)
  <2>1. t.page = p /\ t.wire = W
    BY <1>2 DEF DefaultParams
  <2> HIDE DEF t
  <2> QED BY <2>1 DEF SameInputs, t
<1> QED BY <1>1, <1>2

\* All effects: what is read agrees with the inputs, whatever they have become.
LEMMA EffectsAgree ==
  ASSUME NEW old, NEW p, NEW W, NEW again \in BOOLEAN, FormShape(p), FormCalls(W), SentAgrees(p, W),
         SequenceInputs(old) = SequenceInputs(p) => SequenceAgrees(p, W),
         EntriesInputs(old) = EntriesInputs(p) => EntriesAgree(p, W),
         SpecInputs(old) = SpecInputs(p) /\ ~again => SpecAgrees(p, W) /\ ParamsAgree(p),
         <<old.target, RequestNetwork(old)>> = <<p.target, RequestNetwork(p)>> /\ ConfirmedTarget(p) =>
           SpecMatches(p) /\ ParamsAgree(p) /\ (SpecCached(p) # {} => ~p.specLoading)
  PROVE  FormAgrees(Effects(old, p, W, again).page, Effects(old, p, W, again).wire)
<1> DEFINE s1 == LookupTarget(old, p, W)
           s2 == ReadSequence(old, s1)
           s3 == ReadEntries(old, s2)
           s4 == ReadSpec(old, s3, again)
           s5 == DefaultParams(s4)
           same == <<old.target, RequestNetwork(old)>> = <<p.target, RequestNetwork(p)>>
<1>1. Effects(old, p, W, again) = s5
  BY DEF Effects
<1>2. /\ s1 = [page |-> s1.page, wire |-> s1.wire] /\ s2 = [page |-> s2.page, wire |-> s2.wire]
      /\ s3 = [page |-> s3.page, wire |-> s3.wire] /\ s4 = [page |-> s4.page, wire |-> s4.wire]
  <2>1. s1 = [page |-> s1.page, wire |-> s1.wire]
    BY DEF LookupTarget
  <2> HIDE DEF s1
  <2>2. s2 = [page |-> s2.page, wire |-> s2.wire]
    BY <2>1 DEF ReadSequence
  <2> HIDE DEF s2
  <2>3. s3 = [page |-> s3.page, wire |-> s3.wire]
    BY <2>2 DEF ReadEntries
  <2> HIDE DEF s3
  <2>4. s4 = [page |-> s4.page, wire |-> s4.wire]
    BY <2>3 DEF ReadSpec
  <2> HIDE DEF s4
  <2> QED BY <2>1, <2>2, <2>3, <2>4
<1> DEFINE p1 == s1.page  W1 == s1.wire  p2 == s2.page  W2 == s2.wire
           p3 == s3.page  W3 == s3.wire  p4 == s4.page  W4 == s4.wire
<1>3. /\ FormShape(p1) /\ FormCalls(W1) /\ SameInputs(p, p1) /\ OnlyOf(W, W1, "target")
      /\ p1.seq = p.seq /\ p1.seqLoading = p.seqLoading /\ p1.entries = p.entries
      /\ p1.spec = p.spec /\ p1.specLoading = p.specLoading /\ p1.params = p.params
      /\ IF same THEN p1.suggested = p.suggested ELSE p1.suggested = None
  BY LookupTargetDoes
<1> HIDE DEF s1, same
<1>4. SequenceInputs(old) = SequenceInputs(p1) => SequenceAgrees(p1, W1)
  BY <1>3, SameReading DEF SequenceInputs, SequenceAgrees, OnlyOf, SameInputs
<1>5. /\ FormShape(p2) /\ FormCalls(W2) /\ SameInputs(p1, p2) /\ OnlyOf(W1, W2, "sequence")
      /\ SequenceAgrees(p2, W2) /\ p2.suggested = p1.suggested /\ p2.entries = p1.entries
      /\ p2.spec = p1.spec /\ p2.specLoading = p1.specLoading /\ p2.params = p1.params
  BY <1>2, <1>3, <1>4, ReadSequenceDoes
<1> HIDE DEF s2
<1>6. SameInputs(p, p2) /\ (\A r \in W2 : r.op \notin {"target", "sequence"} => r \in W)
      /\ (\A r \in W : r.op \notin {"target", "sequence"} => r \in W2)
  BY <1>3, <1>5 DEF SameInputs, OnlyOf
<1>7. EntriesInputs(old) = EntriesInputs(p2) => EntriesAgree(p2, W2)
  BY <1>3, <1>5, <1>6, SameReading DEF EntriesInputs, EntriesAgree, SameInputs
<1>8. /\ FormShape(p3) /\ FormCalls(W3) /\ SameInputs(p2, p3) /\ OnlyOf(W2, W3, "entries")
      /\ EntriesAgree(p3, W3) /\ p3.suggested = p2.suggested
      /\ p3.seq = p2.seq /\ p3.seqLoading = p2.seqLoading
      /\ p3.spec = p2.spec /\ p3.specLoading = p2.specLoading /\ p3.params = p2.params
  BY <1>2, <1>5, <1>7, ReadEntriesDoes
<1> HIDE DEF s3
<1>9. SameInputs(p, p3) /\ (\A r \in W3 : r.op \notin {"target", "sequence", "entries"} => r \in W)
      /\ (\A r \in W : r.op \notin {"target", "sequence", "entries"} => r \in W3)
  BY <1>6, <1>8 DEF SameInputs, OnlyOf
<1>10. /\ p3.spec = p.spec /\ p3.specLoading = p.specLoading /\ p3.params = p.params
       /\ IF same THEN p3.suggested = p.suggested ELSE p3.suggested = None
       /\ RequestNetwork(p3) = RequestNetwork(p) /\ SpecCached(p3) = SpecCached(p) /\ p3.target = p.target
       /\ p3.env = p.env /\ p3.mode = p.mode
       /\ p3.suggested = p.suggested => (ConfirmedTarget(p3) <=> ConfirmedTarget(p))
  BY <1>3, <1>5, <1>8, <1>9, SameReading DEF SameInputs
<1>11. ConfirmedTarget(p3) => same /\ ConfirmedTarget(p)
  BY <1>10 DEF ConfirmedTarget
<1>12. ConfirmedTarget(p3) => SpecMatches(p3) /\ ParamsAgree(p3) /\ (SpecCached(p3) # {} => ~p3.specLoading)
  BY <1>10, <1>11 DEF same, SpecMatches, ParamsAgree
<1>13. SpecInputs(old) = SpecInputs(p3) /\ ~again => SpecAgrees(p3, W3) /\ ParamsAgree(p3)
  <2> SUFFICES ASSUME SpecInputs(old) = SpecInputs(p3), ~again PROVE SpecAgrees(p3, W3) /\ ParamsAgree(p3)
    OBVIOUS
  <2>1. /\ old.target = p.target /\ RequestNetwork(old) = RequestNetwork(p) /\ old.env = p.env /\ old.mode = p.mode
        /\ ConfirmedTarget(old) = ConfirmedTarget(p3)
    BY <1>10 DEF SpecInputs
  <2>2. same
    BY <2>1 DEF same
  <2>3. p3.suggested = p.suggested /\ ConfirmedTarget(p3) = ConfirmedTarget(p)
    BY <1>10, <2>2 DEF ConfirmedTarget
  <2>4. SpecInputs(old) = SpecInputs(p)
    BY <2>1, <2>3 DEF SpecInputs
  <2>5. SpecAgrees(p, W) /\ ParamsAgree(p)
    BY <2>4
  <2> QED BY <1>9, <1>10, <2>3, <2>5 DEF SpecAgrees, SpecMatches, ParamsAgree
<1>14. /\ FormShape(p4) /\ FormCalls(W4) /\ SameInputs(p3, p4) /\ OnlyOf(W3, W4, "spec")
       /\ SpecAgrees(p4, W4) /\ ParamsAgree(p4) /\ p4.suggested = p3.suggested
       /\ p4.seq = p3.seq /\ p4.seqLoading = p3.seqLoading /\ p4.entries = p3.entries
  BY <1>2, <1>8, <1>12, <1>13, ReadSpecDoes
<1> HIDE DEF s4
<1> DEFINE q == s5.page
<1>15. /\ FormShape(q) /\ s5.wire = W4 /\ SameInputs(p4, q) /\ ParamsAgree(q)
       /\ q.suggested = p4.suggested /\ q.seq = p4.seq /\ q.seqLoading = p4.seqLoading
       /\ q.entries = p4.entries /\ q.spec = p4.spec /\ q.specLoading = p4.specLoading
  <2>1. SpecMatches(p4)
    BY <1>14 DEF SpecAgrees
  <2> QED BY <1>2, <1>14, <2>1, DefaultParamsDoes
<1> HIDE DEF s5
<1>16. SpecAgrees(q, W4)
  <2>1. /\ RequestNetwork(q) = RequestNetwork(p4) /\ SpecCached(q) = SpecCached(p4) /\ q.target = p4.target
        /\ ConfirmedTarget(q) <=> ConfirmedTarget(p4)
    BY <1>15, SameReading DEF SameInputs
  <2> QED BY <1>14, <1>15, <2>1 DEF SpecAgrees, SpecMatches
<1>17. SameInputs(p2, q) /\ SameInputs(p3, q) /\ SameInputs(p, q)
  BY <1>6, <1>8, <1>9, <1>14, <1>15 DEF SameInputs
<1>18. EntriesAgree(q, W4)
  <2>1. RequestNetwork(q) = RequestNetwork(p3) /\ ReadEnvironment(q) = ReadEnvironment(p3) /\ q.target = p3.target
    BY <1>17, SameReading DEF SameInputs
  <2>2. q.entries = p3.entries /\ \A r : r.op = "entries" => (r \in W4 <=> r \in W3)
    BY <1>14, <1>15 DEF OnlyOf
  <2> QED BY <1>8, <2>1, <2>2 DEF EntriesAgree
<1>19. SequenceAgrees(q, W4)
  <2>1. /\ RequestNetwork(q) = RequestNetwork(p2) /\ ReadEnvironment(q) = ReadEnvironment(p2) /\ Where(q) = Where(p2)
        /\ q.source = p2.source /\ q.mode = p2.mode
    BY <1>17, SameReading DEF SameInputs
  <2>2. /\ q.seq = p2.seq /\ q.seqLoading = p2.seqLoading
        /\ \A r : r.op = "sequence" => (r \in W4 <=> r \in W2)
    BY <1>8, <1>14, <1>15 DEF OnlyOf
  <2> QED BY <1>5, <2>1, <2>2 DEF SequenceAgrees
<1>20. SentAgrees(q, W4)
  <2>1. \A r : r.op \in {"simulate", "repair"} => (r \in W4 <=> r \in W)
    BY <1>9, <1>14 DEF OnlyOf
  <2>2. q.loading = p.loading
    BY <1>17 DEF SameInputs
  <2> QED BY <2>1, <2>2 DEF SentAgrees
<1> QED BY <1>1, <1>14, <1>15, <1>16, <1>18, <1>19, <1>20 DEF FormAgrees

\* So a handler keeps the invariant if what it made of the page is right but for
\* what the effects read again.
LEMMA ChangedAgrees ==
  ASSUME FormInv, NEW p, NEW W, Changed(p, W), FormShape(p), FormCalls(W), SentAgrees(p, W),
         SequenceInputs(page) = SequenceInputs(p) => SequenceAgrees(p, W),
         EntriesInputs(page) = EntriesInputs(p) => EntriesAgree(p, W),
         SpecInputs(page) = SpecInputs(p) => SpecAgrees(p, W) /\ ParamsAgree(p),
         <<page.target, RequestNetwork(page)>> = <<p.target, RequestNetwork(p)>> /\ ConfirmedTarget(p) =>
           SpecMatches(p) /\ ParamsAgree(p) /\ (SpecCached(p) # {} => ~p.specLoading)
  PROVE  FormInv'
<1>2. page' = Effects(page, p, W, FALSE).page /\ wire' = Effects(page, p, W, FALSE).wire
  BY DEF Changed
<1>3. FormAgrees(Effects(page, p, W, FALSE).page, Effects(page, p, W, FALSE).wire)
  BY EffectsAgree
<1> QED BY <1>2, <1>3 DEF FormInv

\* An input changes, and nothing else but what is dropped with it.
LEMMA InputChanges ==
  ASSUME FormInv, NEW p, Changed(p, wire), FormShape(p),
         p.seq = page.seq, p.seqLoading = page.seqLoading, p.entries = page.entries,
         p.suggested = page.suggested, p.cache = page.cache, p.specLoading = page.specLoading,
         p.spec = page.spec \/ (p.spec = NoSpec /\ p.target # page.target),
         p.params = page.params \/ p.params = None, p.loading = page.loading
  PROVE  FormInv'
<1>1. FormCalls(wire) /\ SentAgrees(p, wire)
  BY DEF FormInv, FormAgrees, SentAgrees
<1>2. SequenceInputs(page) = SequenceInputs(p) => SequenceAgrees(p, wire)
  BY DEF FormInv, FormAgrees, SequenceInputs, SequenceAgrees, Where, ReadEnvironment
<1>3. EntriesInputs(page) = EntriesInputs(p) => EntriesAgree(p, wire)
  BY DEF FormInv, FormAgrees, EntriesInputs, EntriesAgree, ReadEnvironment
<1>4. SpecInputs(page) = SpecInputs(p) => SpecAgrees(p, wire) /\ ParamsAgree(p)
  <2> SUFFICES ASSUME SpecInputs(page) = SpecInputs(p) PROVE SpecAgrees(p, wire) /\ ParamsAgree(p)
    OBVIOUS
  <2>1. p.target = page.target /\ RequestNetwork(p) = RequestNetwork(page)
    BY DEF SpecInputs
  <2>2. SpecCached(p) = SpecCached(page) /\ (ConfirmedTarget(p) <=> ConfirmedTarget(page)) /\ p.spec = page.spec
    BY <2>1 DEF SpecCached, ConfirmedTarget
  <2> QED BY <2>1, <2>2 DEF FormInv, FormAgrees, SpecAgrees, SpecMatches, ParamsAgree
<1>5. <<page.target, RequestNetwork(page)>> = <<p.target, RequestNetwork(p)>> /\ ConfirmedTarget(p) =>
        SpecMatches(p) /\ ParamsAgree(p) /\ (SpecCached(p) # {} => ~p.specLoading)
  <2> SUFFICES ASSUME <<page.target, RequestNetwork(page)>> = <<p.target, RequestNetwork(p)>>
               PROVE  SpecMatches(p) /\ ParamsAgree(p) /\ (SpecCached(p) # {} => ~p.specLoading)
    OBVIOUS
  <2>1. SpecCached(p) = SpecCached(page) /\ p.spec = page.spec /\ p.target = page.target
    BY DEF SpecCached
  <2> QED BY <2>1 DEF FormInv, FormAgrees, SpecAgrees, SpecMatches, ParamsAgree
<1> QED BY <1>1, <1>2, <1>3, <1>4, <1>5, ChangedAgrees

\* The link that leads here has been read, and what it asks for is being read.
LEMMA FormStart == FormInit => FormInv
<1> SUFFICES ASSUME FormInit PROVE FormInv
  OBVIOUS
<1>1. PICK mode \in {"latest", "ledger", "environment"}, net \in Networks, forked \in {CHOOSE n \in Networks : TRUE},
           target \in (Sought \cap Contracts) \cup {None}, fn \in Functions \cup {None} :
        LET p == FormMounted([mode |-> mode, net |-> net, forked |-> forked, target |-> target, fn |-> fn])
            s == Effects([p EXCEPT !.target = None, !.mode = "unmounted"], p, {FormCall("load", None, net, None)}, FALSE)
        IN page = s.page /\ wire = s.wire /\ db = {}
  BY DEF FormInit
<1> DEFINE p == FormMounted([mode |-> mode, net |-> net, forked |-> forked, target |-> target, fn |-> fn])
           W == {FormCall("load", None, net, None)}
           old == [p EXCEPT !.target = None, !.mode = "unmounted"]
<1>2. page = Effects(old, p, W, FALSE).page /\ wire = Effects(old, p, W, FALSE).wire
  BY <1>1
<1>3. \A r \in W : r.op = "load" /\ DOMAIN r = {"op", "of", "net", "env", "seq", "params"}
  BY FormCallIs
<1>4. /\ FormShape(p) /\ p.seq = {} /\ ~p.seqLoading /\ p.entries = {} /\ p.spec = NoSpec /\ ~p.specLoading
      /\ p.params = None /\ p.cache = {} /\ ~p.loading
  BY DEF FormMounted, FormShape, FormFields
<1> HIDE DEF p, W, old
<1>5. FormCalls(W) /\ SentAgrees(p, W) /\ SequenceAgrees(p, W) /\ EntriesAgree(p, W)
  BY <1>3, <1>4 DEF FormCalls, SentAgrees, SequenceAgrees, EntriesAgree, FormShape
<1>6. SpecAgrees(p, W) /\ ParamsAgree(p) /\ SpecMatches(p)
  BY <1>3, <1>4 DEF SpecAgrees, SpecMatches, ParamsAgree, FormShape
<1>7. FormAgrees(Effects(old, p, W, FALSE).page, Effects(old, p, W, FALSE).wire)
  BY <1>4, <1>5, <1>6, EffectsAgree
<1> QED BY <1>2, <1>7 DEF FormInv

\* What changes no input, and nothing that was read or is sent.
LEMMA StaysAgreed ==
  ASSUME FormInv, FormShape(page'), SameInputs(page, page'), page'.seq = page.seq,
         page'.seqLoading = page.seqLoading, page'.entries = page.entries, page'.suggested = page.suggested,
         page'.specLoading = page.specLoading, page'.spec = page.spec, page'.params = page.params, wire' = wire
  PROVE  FormInv'
<1> DEFINE p == page'
<1>1. /\ RequestNetwork(p) = RequestNetwork(page) /\ ReadEnvironment(p) = ReadEnvironment(page)
      /\ Where(p) = Where(page) /\ SpecCached(p) = SpecCached(page) /\ ConfirmedTarget(p) = ConfirmedTarget(page)
      /\ p.target = page.target /\ p.source = page.source /\ p.mode = page.mode /\ p.loading = page.loading
  BY SameReading DEF SameInputs, ConfirmedTarget
<1> HIDE DEF p
<1>2. FormAgrees(p, wire)
  BY <1>1 DEF FormInv, FormAgrees, SequenceAgrees, EntriesAgree, SpecAgrees, SpecMatches, ParamsAgree, SentAgrees, p
<1> QED BY <1>2 DEF FormInv, p

\* A request is sent with what the form says.
LEMMA RequestIsSent ==
  ASSUME FormInv, NEW c, c.op \in {"simulate", "repair"}, DOMAIN c = {"op", "of", "net", "env", "seq", "params"},
         c.of = page.target, c.net = RequestNetwork(page), c.env = ReadEnvironment(page), c.seq = page.seq,
         c.params = page.params, ~page.loading,
         page' = [[page EXCEPT !.loading = TRUE] EXCEPT !.calls = @ + 1], wire' = wire \cup {c}
  PROVE  FormInv'
<1> DEFINE p == page'
<1>1. /\ FormShape(p) /\ p.seq = page.seq /\ p.seqLoading = page.seqLoading
      /\ p.entries = page.entries /\ p.suggested = page.suggested /\ p.specLoading = page.specLoading
      /\ p.spec = page.spec /\ p.params = page.params /\ p.loading
      /\ p.mode = page.mode /\ p.net = page.net /\ p.forked = page.forked /\ p.loaded = page.loaded
      /\ p.env = page.env /\ p.target = page.target /\ p.source = page.source /\ p.cache = page.cache
  BY DEF FormInv, FormAgrees, FormShape, FormFields
<1> HIDE DEF p
<1>2. /\ RequestNetwork(p) = RequestNetwork(page) /\ ReadEnvironment(p) = ReadEnvironment(page)
      /\ Where(p) = Where(page) /\ SpecCached(p) = SpecCached(page) /\ (ConfirmedTarget(p) <=> ConfirmedTarget(page))
  BY <1>1 DEF RequestNetwork, ReadEnvironment, Where, SpecCached, ConfirmedTarget
<1>3. FormCalls(wire') /\ \A op \in Reading : \A r : r.op = op => (r \in wire' <=> r \in wire)
  BY DEF FormInv, FormAgrees, FormCalls, Reading
<1>4. SequenceAgrees(p, wire') /\ EntriesAgree(p, wire')
  BY <1>1, <1>2, <1>3 DEF FormInv, FormAgrees, SequenceAgrees, EntriesAgree, Reading
<1>5. SpecAgrees(p, wire') /\ ParamsAgree(p)
  BY <1>1, <1>2, <1>3 DEF FormInv, FormAgrees, SpecAgrees, SpecMatches, ParamsAgree, Reading
<1>6. SentAgrees(p, wire')
  <2>1. c.seq # {} => c.seq = {[net |-> c.net, env |-> c.env]}
    BY DEF FormInv, FormAgrees, SequenceAgrees, Where
  <2>2. c.params # None => c.params = c.of
    BY DEF FormInv, FormAgrees, ParamsAgree
  <2>3. \A r \in wire : r.op \notin {"simulate", "repair"}
    BY DEF FormInv, FormAgrees, SentAgrees
  <2> QED BY <1>1, <2>1, <2>2, <2>3 DEF SentAgrees
<1> QED BY <1>1, <1>3, <1>4, <1>5, <1>6 DEF FormInv, FormAgrees, p

\* Every step keeps the invariant, whatever is typed between a call and its
\* answer.
LEMMA FormStep ==
  ASSUME FormInv, FormNext
  PROVE  FormInv'
<1>1. ASSUME NEW m \in {"latest", "ledger", "environment"}, ChooseMode(m) PROVE FormInv'
  <2> DEFINE p == [page EXCEPT !.mode = m, !.calls = @ + 1]
  <2>1. Changed(p, wire)
    BY <1>1 DEF ChooseMode, Enter
  <2>2. /\ FormShape(p) /\ p.seq = page.seq /\ p.seqLoading = page.seqLoading /\ p.entries = page.entries
        /\ p.suggested = page.suggested /\ p.cache = page.cache /\ p.specLoading = page.specLoading
        /\ p.loading = page.loading /\ p.spec = page.spec /\ p.params = page.params
    BY DEF FormInv, FormAgrees, FormShape, FormFields
  <2> HIDE DEF p
  <2> QED BY <2>1, <2>2, InputChanges
<1>2. ASSUME NEW n \in Networks, ChooseNetwork(n) PROVE FormInv'
  <2> DEFINE p == [page EXCEPT !.net = n, !.calls = @ + 1]
  <2>1. Changed(p, wire)
    BY <1>2 DEF ChooseNetwork, Enter
  <2>2. /\ FormShape(p) /\ p.seq = page.seq /\ p.seqLoading = page.seqLoading /\ p.entries = page.entries
        /\ p.suggested = page.suggested /\ p.cache = page.cache /\ p.specLoading = page.specLoading
        /\ p.loading = page.loading /\ p.spec = page.spec /\ p.params = page.params
    BY DEF FormInv, FormAgrees, FormShape, FormFields
  <2> HIDE DEF p
  <2> QED BY <2>1, <2>2, InputChanges
<1>3. ASSUME NEW a \in {"decoded", "raw"}, ChooseArguments(a) PROVE FormInv'
  <2> DEFINE p == [page EXCEPT !.args = a, !.calls = @ + 1]
  <2>1. Changed(p, wire)
    BY <1>3 DEF ChooseArguments, Enter
  <2>2. /\ FormShape(p) /\ p.seq = page.seq /\ p.seqLoading = page.seqLoading /\ p.entries = page.entries
        /\ p.suggested = page.suggested /\ p.cache = page.cache /\ p.specLoading = page.specLoading
        /\ p.loading = page.loading /\ p.spec = page.spec /\ p.params = page.params
    BY DEF FormInv, FormAgrees, FormShape, FormFields
  <2> HIDE DEF p
  <2> QED BY <2>1, <2>2, InputChanges
<1>4. ASSUME NEW c \in Contracts \cup {None}, EnterTarget(c) PROVE FormInv'
  <2> DEFINE p == [page EXCEPT !.target = c, !.calls = @ + 1]
  <2>1. Changed(p, wire)
    BY <1>4 DEF EnterTarget, Enter
  <2>2. /\ FormShape(p) /\ p.seq = page.seq /\ p.seqLoading = page.seqLoading /\ p.entries = page.entries
        /\ p.suggested = page.suggested /\ p.cache = page.cache /\ p.specLoading = page.specLoading
        /\ p.loading = page.loading /\ p.spec = page.spec /\ p.params = page.params
    BY DEF FormInv, FormAgrees, FormShape, FormFields
  <2> HIDE DEF p
  <2> QED BY <2>1, <2>2, InputChanges
<1>5. ASSUME EnterSource PROVE FormInv'
  <2> DEFINE p == [page EXCEPT !.source = TRUE, !.calls = @ + 1]
  <2>1. Changed(p, wire)
    BY <1>5 DEF EnterSource, Enter
  <2>2. /\ FormShape(p) /\ p.seq = page.seq /\ p.seqLoading = page.seqLoading /\ p.entries = page.entries
        /\ p.suggested = page.suggested /\ p.cache = page.cache /\ p.specLoading = page.specLoading
        /\ p.loading = page.loading /\ p.spec = page.spec /\ p.params = page.params
    BY DEF FormInv, FormAgrees, FormShape, FormFields
  <2> HIDE DEF p
  <2> QED BY <2>1, <2>2, InputChanges
<1>6. ASSUME ResetForm PROVE FormInv'
  <2> DEFINE p == [page EXCEPT !.target = None, !.fn = None, !.params = None, !.spec = NoSpec, !.calls = @ + 1]
  <2>1. Changed(p, wire) /\ page.target # None
    BY <1>6 DEF ResetForm, Enter
  <2>2. /\ FormShape(p) /\ p.seq = page.seq /\ p.seqLoading = page.seqLoading /\ p.entries = page.entries
        /\ p.suggested = page.suggested /\ p.cache = page.cache /\ p.specLoading = page.specLoading
        /\ p.loading = page.loading
        /\ p.spec = NoSpec /\ p.target # page.target /\ p.params = None
    BY <2>1 DEF FormInv, FormAgrees, FormShape, FormFields
  <2> HIDE DEF p
  <2> QED BY <2>1, <2>2, InputChanges
<1>7. ASSUME OpenFunctions PROVE FormInv'
  <2>1. ConfirmedTarget(page)
    BY <1>7 DEF OpenFunctions
  <2>2. CASE SpecCached(page) # {}
    <3> DEFINE c == CHOOSE x \in SpecCached(page) : TRUE
               p == [page EXCEPT !.spec = c]
    <3>1. Changed(p, wire)
      BY <1>7, <2>2 DEF OpenFunctions
    <3>2. c \in SpecCached(page)
      BY <2>2
    <3> HIDE DEF c
    <3>3. /\ FormShape(p) /\ SameInputs(page, p) /\ p.seq = page.seq /\ p.seqLoading = page.seqLoading
          /\ p.entries = page.entries /\ p.suggested = page.suggested /\ p.specLoading = page.specLoading
          /\ p.spec = c /\ p.params = page.params
      BY DEF FormInv, FormAgrees, FormShape, FormFields, SameInputs
    <3> HIDE DEF p
    <3>4. /\ RequestNetwork(p) = RequestNetwork(page) /\ ReadEnvironment(p) = ReadEnvironment(page)
          /\ Where(p) = Where(page) /\ SpecCached(p) = SpecCached(page) /\ ConfirmedTarget(p)
          /\ p.target = page.target /\ p.source = page.source /\ p.mode = page.mode /\ p.loading = page.loading
      BY <2>1, <3>3, SameReading DEF SameInputs
    <3>5. c.of = p.target /\ c.net = RequestNetwork(p)
      BY <3>2, <3>4 DEF SpecCached
    <3>6. FormCalls(wire) /\ SentAgrees(p, wire) /\ SequenceAgrees(p, wire) /\ EntriesAgree(p, wire)
      BY <3>3, <3>4 DEF FormInv, FormAgrees, SentAgrees, SequenceAgrees, EntriesAgree
    <3>7. SpecAgrees(p, wire) /\ ParamsAgree(p) /\ SpecMatches(p) /\ ~p.specLoading
      BY <2>2, <3>3, <3>4, <3>5 DEF FormInv, FormAgrees, SpecAgrees, SpecMatches, ParamsAgree
    <3> QED BY <3>1, <3>3, <3>6, <3>7, ChangedAgrees
  <2>3. CASE SpecCached(page) = {}
    <3> DEFINE p == [page EXCEPT !.spec = NoSpec, !.calls = @ + 1]
    <3>1. page' = Effects(page, p, wire, TRUE).page /\ wire' = Effects(page, p, wire, TRUE).wire
      BY <1>7, <2>3 DEF OpenFunctions
    <3>2. /\ FormShape(p) /\ SameInputs(page, p) /\ p.seq = page.seq /\ p.seqLoading = page.seqLoading
          /\ p.entries = page.entries /\ p.suggested = page.suggested /\ p.specLoading = page.specLoading
          /\ p.spec = NoSpec /\ p.params = page.params
      BY DEF FormInv, FormAgrees, FormShape, FormFields, SameInputs
    <3> HIDE DEF p
    <3>3. /\ RequestNetwork(p) = RequestNetwork(page) /\ ReadEnvironment(p) = ReadEnvironment(page)
          /\ Where(p) = Where(page) /\ SpecCached(p) = {}
          /\ p.target = page.target /\ p.source = page.source /\ p.mode = page.mode /\ p.loading = page.loading
      BY <2>3, <3>2, SameReading DEF SameInputs
    <3>4. FormCalls(wire) /\ SentAgrees(p, wire) /\ SequenceAgrees(p, wire) /\ EntriesAgree(p, wire)
      BY <3>2, <3>3 DEF FormInv, FormAgrees, SentAgrees, SequenceAgrees, EntriesAgree
    <3>5. SpecMatches(p) /\ ParamsAgree(p)
      BY <3>2, <3>3 DEF FormInv, FormAgrees, SpecMatches, ParamsAgree
    <3>6. FormAgrees(Effects(page, p, wire, TRUE).page, Effects(page, p, wire, TRUE).wire)
      BY <3>2, <3>3, <3>4, <3>5, EffectsAgree
    <3> QED BY <3>1, <3>6 DEF FormInv
  <2> QED BY <2>2, <2>3
<1>8. ASSUME ChooseEntry PROVE FormInv'
  <2>1. PICK e \in page.entries : page' = [page EXCEPT !.entry = e.of] /\ wire' = wire
    BY <1>8 DEF ChooseEntry, Show
  <2>2. /\ FormShape(page') /\ SameInputs(page, page') /\ page'.seq = page.seq /\ page'.seqLoading = page.seqLoading
        /\ page'.entries = page.entries /\ page'.suggested = page.suggested /\ page'.specLoading = page.specLoading
        /\ page'.spec = page.spec /\ page'.params = page.params
    BY <2>1 DEF FormInv, FormAgrees, FormShape, FormFields, SameInputs
  <2> QED BY <2>1, <2>2, StaysAgreed
<1>9. ASSUME NEW f \in Functions, ChooseFunction(f) PROVE FormInv'
  <2> DEFINE p == [page EXCEPT !.fn = f, !.params = None]
  <2>1. Changed(p, wire)
    BY <1>9 DEF ChooseFunction, Enter
  <2>2. /\ FormShape(p) /\ p.seq = page.seq /\ p.seqLoading = page.seqLoading /\ p.entries = page.entries
        /\ p.suggested = page.suggested /\ p.cache = page.cache /\ p.specLoading = page.specLoading
        /\ p.loading = page.loading
        /\ p.spec = page.spec /\ p.params = None
    BY DEF FormInv, FormAgrees, FormShape, FormFields
  <2> HIDE DEF p
  <2> QED BY <2>1, <2>2, InputChanges
<1>10. ASSUME NEW given \in Filled, Simulate(given) PROVE FormInv'
  <2> DEFINE p == [page EXCEPT !.loading = TRUE]
             c == Request(page, "simulate")
  <2>1. page' = [p EXCEPT !.calls = @ + 1] /\ wire' = wire \cup {c} /\ ~page.loading
    BY <1>10 DEF Simulate, CanSimulate, Call
  <2>2. /\ c.op = "simulate" /\ DOMAIN c = {"op", "of", "net", "env", "seq", "params"} /\ c.of = page.target
        /\ c.net = RequestNetwork(page) /\ c.env = ReadEnvironment(page) /\ c.seq = page.seq /\ c.params = page.params
    BY DEF Request, FormRead, FormCall
  <2> HIDE DEF c
  <2> QED BY <2>1, <2>2, RequestIsSent
<1>11. ASSUME NEW given \in Filled, RepairCoverage(given) PROVE FormInv'
  <2> DEFINE p == [page EXCEPT !.loading = TRUE]
             c == Request(page, "repair")
  <2>1. page' = [p EXCEPT !.calls = @ + 1] /\ wire' = wire \cup {c} /\ ~page.loading
    BY <1>11 DEF RepairCoverage, CanRepair, Call
  <2>2. /\ c.op = "repair" /\ DOMAIN c = {"op", "of", "net", "env", "seq", "params"} /\ c.of = page.target
        /\ c.net = RequestNetwork(page) /\ c.env = ReadEnvironment(page) /\ c.seq = page.seq /\ c.params = page.params
    BY DEF Request, FormRead, FormCall
  <2> HIDE DEF c
  <2> QED BY <2>1, <2>2, RequestIsSent
<1>12. ASSUME NEW r \in wire, FormSettled(r) PROVE FormInv'
  <2>1. r.op \in {"simulate", "repair"} /\ page' = [page EXCEPT !.loading = FALSE] /\ wire' = wire \ {r}
    BY <1>12 DEF FormSettled, Then
  <2> DEFINE p == page'
  <2>2. /\ FormShape(p) /\ p.seq = page.seq /\ p.seqLoading = page.seqLoading
        /\ p.entries = page.entries /\ p.suggested = page.suggested /\ p.specLoading = page.specLoading
        /\ p.spec = page.spec /\ p.params = page.params /\ ~p.loading
        /\ p.mode = page.mode /\ p.net = page.net /\ p.forked = page.forked /\ p.loaded = page.loaded
        /\ p.env = page.env /\ p.target = page.target /\ p.source = page.source /\ p.cache = page.cache
    BY <2>1 DEF FormInv, FormAgrees, FormShape, FormFields
  <2> HIDE DEF p
  <2>3. /\ RequestNetwork(p) = RequestNetwork(page) /\ ReadEnvironment(p) = ReadEnvironment(page)
        /\ Where(p) = Where(page) /\ SpecCached(p) = SpecCached(page) /\ (ConfirmedTarget(p) <=> ConfirmedTarget(page))
    BY <2>2 DEF RequestNetwork, ReadEnvironment, Where, SpecCached, ConfirmedTarget
  <2>4. FormCalls(wire') /\ \A op \in Reading : \A q : q.op = op => (q \in wire' <=> q \in wire)
    BY <2>1 DEF FormInv, FormAgrees, FormCalls, Reading
  <2>5. SequenceAgrees(p, wire') /\ EntriesAgree(p, wire')
    BY <2>2, <2>3, <2>4 DEF FormInv, FormAgrees, SequenceAgrees, EntriesAgree, Reading
  <2>6. SpecAgrees(p, wire') /\ ParamsAgree(p)
    BY <2>2, <2>3, <2>4 DEF FormInv, FormAgrees, SpecAgrees, SpecMatches, ParamsAgree, Reading
  <2>7. SentAgrees(p, wire')
    BY <2>1, <2>2 DEF FormInv, FormAgrees, SentAgrees
  <2> QED BY <2>2, <2>4, <2>5, <2>6, <2>7 DEF FormInv, FormAgrees, p
<1>13. ASSUME NEW r \in wire, NEW ok \in BOOLEAN, FormAnswers(r, ok) PROVE FormInv'
  <2> DEFINE p == Answered(r, ok)
             W == wire \ {r}
  <2>1. Changed(p, W) /\ r.op \in {"target", "sequence", "entries"}
    BY <1>13 DEF FormAnswers, Reading
  <2>2. FormShape(page) /\ FormCalls(W) /\ SentAgrees(page, W)
    BY <2>1 DEF FormInv, FormAgrees, FormCalls, SentAgrees
  <2>3. CASE r.op = "target"
    <3> DEFINE n == [page EXCEPT !.suggested = IF ok THEN r.of ELSE None]
    <3>1. p = n
      BY <2>3 DEF Answered
    <3>2. /\ FormShape(n) /\ SameInputs(page, n) /\ n.seq = page.seq /\ n.seqLoading = page.seqLoading
          /\ n.entries = page.entries /\ n.spec = page.spec /\ n.specLoading = page.specLoading
          /\ n.params = page.params
      BY <2>2 DEF FormShape, FormFields, SameInputs
    <3> HIDE DEF n, p
    <3>3. /\ RequestNetwork(n) = RequestNetwork(page) /\ ReadEnvironment(n) = ReadEnvironment(page)
          /\ Where(n) = Where(page) /\ SpecCached(n) = SpecCached(page)
          /\ n.target = page.target /\ n.source = page.source /\ n.mode = page.mode /\ n.loading = page.loading
      BY <3>2, SameReading DEF SameInputs
    <3>4. SentAgrees(n, W) /\ SequenceAgrees(n, W) /\ EntriesAgree(n, W)
      BY <2>2, <2>3, <3>2, <3>3 DEF FormInv, FormAgrees, SentAgrees, SequenceAgrees, EntriesAgree
    <3>5. SpecMatches(n) /\ ParamsAgree(n) /\ (SpecCached(n) # {} => ~n.specLoading)
      BY <3>2, <3>3 DEF FormInv, FormAgrees, SpecAgrees, SpecMatches, ParamsAgree
    <3>6. ASSUME SpecInputs(page) = SpecInputs(n) PROVE SpecAgrees(n, W)
      <4>1. ConfirmedTarget(n) <=> ConfirmedTarget(page)
        BY <3>6 DEF SpecInputs, ConfirmedTarget
      <4> QED BY <2>3, <3>2, <3>3, <3>5, <4>1 DEF FormInv, FormAgrees, SpecAgrees
    <3> HIDE DEF W
    <3> QED BY <2>1, <2>2, <3>1, <3>2, <3>4, <3>5, <3>6, ChangedAgrees
  <2>4. CASE r.op = "sequence"
    <3> DEFINE n == [page EXCEPT !.seq = IF ok THEN {[net |-> r.net, env |-> r.env]} ELSE {}, !.seqLoading = FALSE]
    <3>1. p = n
      BY <2>4 DEF Answered
    <3>2. /\ FormShape(n) /\ SameInputs(page, n) /\ n.seq = (IF ok THEN {[net |-> r.net, env |-> r.env]} ELSE {})
          /\ ~n.seqLoading /\ n.suggested = page.suggested
          /\ n.entries = page.entries /\ n.spec = page.spec /\ n.specLoading = page.specLoading
          /\ n.params = page.params
      BY <2>2 DEF FormShape, FormFields, SameInputs
    <3> HIDE DEF n, p
    <3>3. /\ RequestNetwork(n) = RequestNetwork(page) /\ ReadEnvironment(n) = ReadEnvironment(page)
          /\ Where(n) = Where(page) /\ SpecCached(n) = SpecCached(page) /\ (ConfirmedTarget(n) <=> ConfirmedTarget(page))
          /\ n.target = page.target /\ n.source = page.source /\ n.mode = page.mode /\ n.loading = page.loading
      BY <3>2, SameReading DEF SameInputs
    <3>4. SentAgrees(n, W) /\ EntriesAgree(n, W)
      BY <2>2, <2>4, <3>2, <3>3 DEF FormInv, FormAgrees, SentAgrees, EntriesAgree
    <3>5. SequenceAgrees(n, W)
      <4>1. /\ r.net = RequestNetwork(n) /\ r.env = ReadEnvironment(n) /\ n.source /\ n.mode # "ledger"
            /\ \A q \in W : q.op # "sequence"
        BY <2>4, <3>3 DEF FormInv, FormAgrees, SequenceAgrees
      <4> QED BY <3>2, <4>1 DEF SequenceAgrees, Where
    <3>6. SpecAgrees(n, W) /\ SpecMatches(n) /\ ParamsAgree(n) /\ (SpecCached(n) # {} => ~n.specLoading)
      BY <2>4, <3>2, <3>3 DEF FormInv, FormAgrees, SpecAgrees, SpecMatches, ParamsAgree
    <3> HIDE DEF W
    <3> QED BY <2>1, <2>2, <3>1, <3>2, <3>4, <3>5, <3>6, ChangedAgrees
  <2>5. CASE r.op = "entries"
    <3> DEFINE e == [of |-> r.of, net |-> r.net, env |-> r.env]
               n == IF ok THEN [page EXCEPT !.entries = {e}, !.entry = r.of] ELSE [page EXCEPT !.entries = {}]
    <3>1. p = n
      BY <2>5 DEF Answered
    <3>2. /\ FormShape(n) /\ SameInputs(page, n) /\ n.entries = (IF ok THEN {e} ELSE {})
          /\ n.seqLoading = page.seqLoading /\ n.seq = page.seq /\ n.suggested = page.suggested
          /\ n.spec = page.spec /\ n.specLoading = page.specLoading /\ n.params = page.params
      BY <2>2 DEF FormShape, FormFields, SameInputs
    <3> HIDE DEF n, p
    <3>3. /\ RequestNetwork(n) = RequestNetwork(page) /\ ReadEnvironment(n) = ReadEnvironment(page)
          /\ Where(n) = Where(page) /\ SpecCached(n) = SpecCached(page) /\ (ConfirmedTarget(n) <=> ConfirmedTarget(page))
          /\ n.target = page.target /\ n.source = page.source /\ n.mode = page.mode /\ n.loading = page.loading
      BY <3>2, SameReading DEF SameInputs
    <3>4. SentAgrees(n, W) /\ SequenceAgrees(n, W)
      BY <2>2, <2>5, <3>2, <3>3 DEF FormInv, FormAgrees, SentAgrees, SequenceAgrees
    <3>5. EntriesAgree(n, W)
      <4>1. \A q \in wire : q.op = "entries" =>
              q.of = n.target /\ q.net = RequestNetwork(n) /\ q.env = ReadEnvironment(n)
        BY <3>3 DEF FormInv, FormAgrees, EntriesAgree
      <4>2. e = [of |-> n.target, net |-> RequestNetwork(n), env |-> ReadEnvironment(n)]
        BY <2>5, <4>1
      <4> HIDE DEF e
      <4> QED BY <3>2, <4>1, <4>2 DEF EntriesAgree
    <3>6. SpecAgrees(n, W) /\ SpecMatches(n) /\ ParamsAgree(n) /\ (SpecCached(n) # {} => ~n.specLoading)
      BY <2>5, <3>2, <3>3 DEF FormInv, FormAgrees, SpecAgrees, SpecMatches, ParamsAgree
    <3> HIDE DEF W
    <3> QED BY <2>1, <2>2, <3>1, <3>2, <3>4, <3>5, <3>6, ChangedAgrees
  <2> QED BY <2>1, <2>3, <2>4, <2>5
<1>14. ASSUME NEW r \in wire, NEW ok \in BOOLEAN, FormLoaded(r, ok) PROVE FormInv'
  <2> DEFINE p == IF ok THEN [page EXCEPT !.loaded = TRUE, !.env = IF @ = None THEN Fork ELSE @] ELSE page
             W == wire \ {r}
  <2>1. Changed(p, W) /\ r.op = "load"
    BY <1>14 DEF FormLoaded
  <2>2. /\ FormShape(p) /\ p.seq = page.seq /\ p.seqLoading = page.seqLoading /\ p.entries = page.entries
        /\ p.suggested = page.suggested /\ p.cache = page.cache /\ p.specLoading = page.specLoading
        /\ p.loading = page.loading /\ p.spec = page.spec /\ p.params = page.params
    BY DEF FormInv, FormAgrees, FormShape, FormFields
  <2>3. FormCalls(W) /\ SentAgrees(p, W)
    BY <2>1, <2>2 DEF FormInv, FormAgrees, FormCalls, SentAgrees
  <2> HIDE DEF p
  <2>4. SequenceInputs(page) = SequenceInputs(p) => SequenceAgrees(p, W)
    BY <2>1, <2>2 DEF FormInv, FormAgrees, SequenceInputs, SequenceAgrees, Where, ReadEnvironment
  <2>5. EntriesInputs(page) = EntriesInputs(p) => EntriesAgree(p, W)
    BY <2>1, <2>2 DEF FormInv, FormAgrees, EntriesInputs, EntriesAgree, ReadEnvironment
  <2>6. ASSUME SpecInputs(page) = SpecInputs(p) PROVE SpecAgrees(p, W) /\ ParamsAgree(p)
    <3>1. p.target = page.target /\ RequestNetwork(p) = RequestNetwork(page)
      BY <2>6 DEF SpecInputs
    <3>2. SpecCached(p) = SpecCached(page) /\ (ConfirmedTarget(p) <=> ConfirmedTarget(page))
      BY <2>2, <3>1 DEF SpecCached, ConfirmedTarget
    <3> QED BY <2>1, <2>2, <3>1, <3>2 DEF FormInv, FormAgrees, SpecAgrees, SpecMatches, ParamsAgree
  <2>7. ASSUME <<page.target, RequestNetwork(page)>> = <<p.target, RequestNetwork(p)>>
        PROVE  SpecMatches(p) /\ ParamsAgree(p) /\ (SpecCached(p) # {} => ~p.specLoading)
    <3>1. SpecCached(p) = SpecCached(page) /\ p.target = page.target
      BY <2>2, <2>7 DEF SpecCached
    <3> QED BY <2>2, <2>7, <3>1 DEF FormInv, FormAgrees, SpecAgrees, SpecMatches, ParamsAgree
  <2> HIDE DEF W
  <2> QED BY <2>1, <2>2, <2>3, <2>4, <2>5, <2>6, <2>7, ChangedAgrees
<1>15. ASSUME NEW r \in wire, NEW ok \in BOOLEAN, NEW fns \in {{}, Functions}, SpecArrives(r, ok, fns) PROVE FormInv'
  <2> DEFINE read == Functionality(r.of, r.net, r.env, fns)
             free == [page EXCEPT !.specLoading = FALSE]
             p == IF ok THEN [free EXCEPT !.spec = read, !.cache = @ \cup {read}] ELSE [free EXCEPT !.spec = NoSpec]
             W == wire \ {r}
  <2>1. Changed(p, W) /\ r.op = "spec"
    BY <1>15 DEF SpecArrives
  <2>2. /\ FormShape(p) /\ p.seq = page.seq /\ p.seqLoading = page.seqLoading /\ p.entries = page.entries
        /\ p.suggested = page.suggested /\ ~p.specLoading /\ p.loading = page.loading
        /\ p.spec = (IF ok THEN read ELSE NoSpec) /\ p.params = page.params
        /\ p.mode = page.mode /\ p.net = page.net /\ p.forked = page.forked /\ p.loaded = page.loaded
        /\ p.env = page.env /\ p.target = page.target /\ p.source = page.source
    BY DEF FormInv, FormAgrees, FormShape, FormFields
  <2>3. read.of = r.of /\ read.net = r.net
    BY DEF Functionality
  <2> HIDE DEF p, free, read
  <2>4. /\ RequestNetwork(p) = RequestNetwork(page) /\ ReadEnvironment(p) = ReadEnvironment(page)
        /\ Where(p) = Where(page) /\ (ConfirmedTarget(p) <=> ConfirmedTarget(page))
    BY <2>2 DEF RequestNetwork, ReadEnvironment, Where, ConfirmedTarget
  <2>5. FormCalls(W) /\ SentAgrees(p, W) /\ SequenceAgrees(p, W) /\ EntriesAgree(p, W)
    BY <2>1, <2>2, <2>4 DEF FormInv, FormAgrees, FormCalls, SentAgrees, SequenceAgrees, EntriesAgree
  <2>6. /\ r.of = page.target /\ r.net = RequestNetwork(page) /\ ConfirmedTarget(page)
        /\ \A q \in W : q.op # "spec"
    BY <2>1 DEF FormInv, FormAgrees, SpecAgrees
  <2>7. SpecMatches(p) /\ ParamsAgree(p)
    BY <2>2, <2>3, <2>4, <2>6 DEF SpecMatches, ParamsAgree, FormInv, FormAgrees
  <2>8. SpecAgrees(p, W)
    BY <2>2, <2>4, <2>6, <2>7 DEF SpecAgrees
  <2> HIDE DEF W
  <2> QED BY <2>1, <2>2, <2>5, <2>7, <2>8, ChangedAgrees
<1> QED
  BY <1>1, <1>2, <1>3, <1>4, <1>5, <1>6, <1>7, <1>8, <1>9, <1>10, <1>11, <1>12, <1>13, <1>14,
    <1>15 DEF FormNext


-----------------------------------------------------------------------------
(* What becomes of a simulation *)

ClickedFor == {"simulate", "repair", "cancel"}
LoopOps == {"poll", "final"}
RunsShape(p) ==
    /\ p.at = "runs"
    /\ DOMAIN p = {"at", "editor", "rows", "shown", "job", "gen", "loading", "refreshing", "crossed", "cancelled", "calls"}
    /\ p.gen \in Nat
    /\ p.shown = {} \/ \E x \in p.shown : p.shown = {x}
RunsStored(d) == d \in [Runs \cup {Job} -> {None, "active", "ended", "cancelled"}]

\* What is on display, listed and polled is known to the server.
KnownTo(d) == {x \in Runs \cup {Job} : x = Job \/ d[x] # None}
RunCallsOf(p, W, d) ==
    /\ p.rows \subseteq KnownTo(d) /\ (p.shown # {} => Shown(p).run \in KnownTo(d))
    /\ \A r \in W :
         /\ r.op \in ClickedFor \cup LoopOps \cup {"list", "open", "analysis"}
         /\ DOMAIN r = {"op", "of", "by", "gen", "path", "out", "status", "rows"}
         /\ r.gen \in Nat /\ r.gen <= p.gen
         /\ r.op \in ClickedFor => r.by = r.op
         /\ r.op \in LoopOps => r.by \in ClickedFor
         /\ r.op \in LoopOps \cup {"cancel", "open"} \/ (r.op \in ClickedFor /\ r.out = "ok") => r.of \in KnownTo(d)
         /\ r.op \in LoopOps \/ (r.op \in ClickedFor /\ r.out = "ok") =>
              /\ r.by = "simulate" => r.of # Job
              /\ r.by = "repair" => r.of = Job
         /\ r.op = "cancel" => p.shown # {}
         /\ r.op = "list" => r.rows \subseteq KnownTo(d) /\ r.by # "repair"

\* What the last click began is one call, and then one loop, of what is on display.
Current(p, W) == {r \in W : r.op \in ClickedFor \cup LoopOps /\ r.gen = p.gen}
OneIsCurrent(p, W) ==
    /\ \A r, q \in Current(p, W) : r = q
    /\ \A r \in Current(p, W) : r.op \in LoopOps => p.crossed \/ Shown(p).run = r.of

\* A run whose cancellation was accepted is cancelled; a loop that polls it was
\* begun by the cancellation, or belongs to an earlier click.
CancelledAre(p, W, d) ==
    /\ \A x \in p.cancelled : x \in Runs /\ d[x] = "cancelled"
    /\ \A r \in W :
         /\ r.op = "cancel" /\ r.out = "ok" /\ r.of # Job => d[r.of] = "cancelled"
         /\ r.op \in LoopOps /\ r.by = "cancel" /\ r.of # Job =>
              d[r.of] = "cancelled" /\ (r.out = "ok" => r.status # "active")
    /\ \A r \in Current(p, W) :
         r.by = "simulate" /\ (r.op = "simulate" => r.out = "ok") =>
           r.of \notin p.cancelled /\ \A q \in W : q.op = "cancel" => q.of # r.of
    /\ Shown(p).run \in p.cancelled /\ ~p.crossed => Shown(p).status # "active"

BusyWith(p, W) ==
    p.loading => \E r \in W : r.op \in {"simulate", "repair", "open", "analysis"} \/ r.by \in {"simulate", "repair"}

RunsInv ==
    /\ RunsShape(page) /\ RunsStored(db) /\ RunCallsOf(page, wire, db)
    /\ OneIsCurrent(page, wire) /\ CancelledAre(page, wire, db) /\ BusyWith(page, wire)

\* There is one display at most.
LEMMA ShownIs ==
  ASSUME NEW p, NEW x, NEW s, p.shown = {[run |-> x, status |-> s]}
  PROVE  Shown(p) = [run |-> x, status |-> s] /\ p.shown # {}
BY DEF Shown

\* Showing another run leaves the rest of the page.
LEMMA DisplaysIs ==
  ASSUME NEW p, RunsShape(p), NEW x, NEW s
  PROVE  LET q == Displays(p, x, s) IN
         /\ RunsShape(q) /\ Shown(q).run = x /\ Shown(q).status = s /\ q.shown # {}
         /\ q.gen = p.gen /\ q.rows = p.rows /\ q.loading = p.loading /\ q.crossed = p.crossed
         /\ q.cancelled = p.cancelled
<1> DEFINE q == Displays(p, x, s)
<1>1. q = [p EXCEPT !.shown = {[run |-> x, status |-> s]}]
  BY DEF Displays
<1> HIDE DEF q
<1>2. q.shown = {[run |-> x, status |-> s]}
  BY <1>1 DEF RunsShape
<1>3. /\ RunsShape(q) /\ q.gen = p.gen /\ q.rows = p.rows /\ q.loading = p.loading /\ q.crossed = p.crossed
      /\ q.cancelled = p.cancelled
  BY <1>1, <1>2 DEF RunsShape
<1>4. Shown(q) = [run |-> x, status |-> s] /\ q.shown # {}
  BY <1>2, ShownIs
<1> QED BY <1>3, <1>4 DEF q

\* What the runs ask.
LEMMA RunsHold == RunsInv => OneLoopPolls /\ CancelledStaysSo /\ BusyForACause
<1> SUFFICES ASSUME RunsInv PROVE OneLoopPolls /\ CancelledStaysSo /\ BusyForACause
  OBVIOUS
<1>1. Loops \subseteq Current(page, wire)
  BY DEF Loops, Current, LoopOps, ClickedFor
<1>2. ASSUME NEW r \in Loops PROVE Loops = {r} /\ (page.crossed \/ Shown(page).run = r.of)
  <2>1. r.op \in LoopOps
    BY DEF Loops, LoopOps
  <2> QED BY <1>1, <2>1 DEF RunsInv, OneIsCurrent
<1>3. CancelledStaysSo
  BY DEF RunsInv, CancelledAre, CancelledStaysSo
<1>4. BusyForACause
  BY DEF RunsInv, BusyWith, BusyForACause, InFlight
<1> QED BY <1>2, <1>3, <1>4 DEF OneLoopPolls

\* No run is known, and none polled, when the page is mounted.
LEMMA RunsStart == RunsInit => RunsInv
<1> SUFFICES ASSUME RunsInit PROVE RunsInv
  OBVIOUS
<1>1. PICK new \in BOOLEAN : page = RunsMounted(new)
  BY DEF RunsInit
<1>2. RunsShape(page) /\ page.shown = {} /\ page.rows = {} /\ page.cancelled = {} /\ ~page.loading
  BY <1>1 DEF RunsMounted, RunsShape
<1>3. RunsStored(db)
  BY DEF RunsInit, RunsStored
<1>4. ASSUME NEW r \in wire
      PROVE  /\ r.op = "list" /\ DOMAIN r = {"op", "of", "by", "gen", "path", "out", "status", "rows"} /\ r.gen = 0
             /\ r.rows = {} /\ r.out = "sent" /\ r.by # "repair"
  BY DEF RunsInit, RunCall, None
<1>5. RunCallsOf(page, wire, db)
  BY <1>2, <1>4 DEF RunCallsOf, RunsShape, ClickedFor, LoopOps
<1>6. Current(page, wire) = {}
  BY <1>4 DEF Current, ClickedFor, LoopOps
<1>7. OneIsCurrent(page, wire)
  BY <1>6 DEF OneIsCurrent
<1>8. CancelledAre(page, wire, db)
  BY <1>2, <1>4, <1>6 DEF CancelledAre, LoopOps
<1> QED BY <1>2, <1>3, <1>5, <1>7, <1>8 DEF RunsInv, BusyWith

\* A call or a loop is answered, and followed by one at most, of the same click.
FollowsFrom(r, s) ==
    /\ s.op \in LoopOps \cup {"list"}
    /\ DOMAIN s = {"op", "of", "by", "gen", "path", "out", "status", "rows"}
    /\ s.gen \in Nat /\ s.gen <= r.gen
    /\ s.op = "list" => s.rows = {} /\ s.by # "repair"
    /\ s.op \in LoopOps =>
         /\ s.gen = r.gen /\ s.by = r.by /\ s.of = r.of /\ s.out # "ok"
         /\ r.op \in LoopOps \/ (r.op \in ClickedFor /\ r.out = "ok")
AnswersTo(p, r, more, W) ==
    /\ RunsShape(p) /\ p.gen = page.gen /\ p.rows = page.rows
    /\ (p.shown # {} => Shown(p).run \in KnownTo(db)) /\ (page.shown # {} => p.shown # {})
    /\ (\A s \in more : FollowsFrom(r, s)) /\ (\A s, q \in more : s = q)
    /\ \A x \in p.cancelled : x \in page.cancelled \/ (r.op = "cancel" /\ r.out = "ok" /\ x = r.of /\ x \in Runs)
    /\ \A q \in Current(p, W) : q.op \in LoopOps => p.crossed \/ Shown(p).run = q.of
    /\ Shown(p).run \in p.cancelled /\ ~p.crossed => Shown(p).status # "active"
    /\ p.loading => page.loading /\ \/ /\ r.op \notin {"simulate", "repair", "open", "analysis"}
                                       /\ r.by \notin {"simulate", "repair"}
                                    \/ \E s \in more : s.by \in {"simulate", "repair"}

\* Taking such an answer keeps the invariant.
LEMMA RunAnswered ==
  ASSUME RunsInv, NEW r \in wire, NEW more, NEW p, page' = p, wire' = (wire \ {r}) \cup more, db' = db,
         AnswersTo(p, r, more, wire')
  PROVE  RunsInv'
<1> USE DEF AnswersTo
<1>1. RunCallsOf(p, wire', db)
  <2>1. ASSUME NEW s \in more
        PROVE  /\ s.op \in LoopOps \cup {"list"} /\ s.gen <= p.gen
               /\ s.op \in LoopOps => s.by \in ClickedFor /\ s.of \in KnownTo(db)
                    /\ (s.by = "simulate" => s.of # Job) /\ (s.by = "repair" => s.of = Job)
    BY DEF RunsInv, RunCallsOf, RunsShape, FollowsFrom, LoopOps, ClickedFor
  <2> QED BY <2>1 DEF RunsInv, RunCallsOf, FollowsFrom, LoopOps, ClickedFor
<1>2. \A s \in Current(p, wire') : s \in Current(page, wire) \ {r} \/ (s \in more /\ s.op \in LoopOps /\ r \in Current(page, wire))
  BY DEF Current, FollowsFrom, LoopOps, ClickedFor
<1>3. OneIsCurrent(p, wire')
  BY <1>2 DEF RunsInv, OneIsCurrent
<1>4. CancelledAre(p, wire', db)
  <2>1. \A x \in p.cancelled : x \in Runs /\ db[x] = "cancelled"
    BY RunsAssumption DEF RunsInv, CancelledAre
  <2>2. ASSUME NEW s \in wire'
        PROVE  /\ s.op = "cancel" /\ s.out = "ok" /\ s.of # Job => db[s.of] = "cancelled"
               /\ s.op \in LoopOps /\ s.by = "cancel" /\ s.of # Job =>
                    db[s.of] = "cancelled" /\ (s.out = "ok" => s.status # "active")
    <3>1. CASE s \in wire
      BY <3>1 DEF RunsInv, CancelledAre
    <3>2. CASE s \in more
      BY <3>2 DEF RunsInv, RunCallsOf, CancelledAre, FollowsFrom, LoopOps, ClickedFor
    <3> QED BY <3>1, <3>2
  <2>3. ASSUME NEW s \in Current(p, wire'), s.by = "simulate", s.op = "simulate" => s.out = "ok"
        PROVE  s.of \notin p.cancelled /\ \A q \in wire' : q.op = "cancel" => q.of # s.of
    <3>1. PICK t \in Current(page, wire) : t.by = "simulate" /\ (t.op = "simulate" => t.out = "ok") /\ t.of = s.of
      <4>1. CASE s \in Current(page, wire)
        BY <2>3, <4>1
      <4>2. CASE s \in more /\ s.op \in LoopOps /\ r \in Current(page, wire)
        <5>1. /\ r.by = s.by /\ r.of = s.of
              /\ r.op \in LoopOps \/ r.out = "ok"
          BY <4>2 DEF FollowsFrom
        <5> QED BY <2>3, <4>2, <5>1 DEF LoopOps
      <4> QED BY <1>2, <2>3, <4>1, <4>2
    <3>2. t.of \notin page.cancelled /\ \A q \in wire : q.op = "cancel" => q.of # t.of
      BY <3>1 DEF RunsInv, CancelledAre
    <3> QED BY <3>1, <3>2 DEF FollowsFrom, LoopOps
  <2> QED BY <2>1, <2>2, <2>3 DEF CancelledAre
<1>5. BusyWith(p, wire')
  BY DEF RunsInv, BusyWith
<1> QED BY <1>1, <1>3, <1>4, <1>5 DEF RunsInv

\* The list is read again when a loop is over.
LEMMA RunsListFollows ==
  ASSUME RunsInv, NEW r \in wire, r.op \in LoopOps, r.of # Job
  PROVE  LET s == RunCall("list", None, r.by, 0) IN FollowsFrom(r, s) /\ s.by = r.by /\ s.op = "list"
<1>1. r.by # "repair" /\ r.gen \in Nat
  BY DEF RunsInv, RunCallsOf
<1> QED BY <1>1 DEF RunCall, FollowsFrom, LoopOps

\* A run that is queued is polled from then on.
LEMMA PollingFollows ==
  ASSUME RunsInv, NEW r \in wire, r.op \in ClickedFor, r.out = "ok", NEW path
  PROVE  /\ FollowsFrom(r, Polling(r, r.of)) /\ Polling(r, r.of).by = r.by
         /\ FollowsFrom(r, [Polling(r, r.of) EXCEPT !.path = path])
         /\ [Polling(r, r.of) EXCEPT !.path = path].by = r.by
         /\ [Polling(r, r.of) EXCEPT !.path = path].of = r.of
<1>1. r.gen \in Nat
  BY DEF RunsInv, RunCallsOf
<1>2. ASSUME NEW s, s = Polling(r, r.of) \/ s = [Polling(r, r.of) EXCEPT !.path = path]
      PROVE  FollowsFrom(r, s) /\ s.by = r.by /\ s.of = r.of
  <2>1. /\ s.op = "poll" /\ s.by = r.by /\ s.of = r.of /\ s.gen = r.gen /\ s.out = "wait"
        /\ DOMAIN s = {"op", "of", "by", "gen", "path", "out", "status", "rows"}
    BY <1>2 DEF RunCall, Polling
  <2> QED BY <1>1, <2>1 DEF FollowsFrom, LoopOps
<1> QED BY <1>2

\* A loop that ends changes no display but what p has changed.
LEMMA LoopEnding ==
  ASSUME RunsInv, NEW r \in wire, r.op \in LoopOps, NEW p, LoopEnds(p, r),
         RunsShape(p), p.gen = page.gen, p.rows = page.rows, p.cancelled = page.cancelled, p.loading = page.loading,
         p.shown # {} => Shown(p).run \in KnownTo(db), page.shown # {} => p.shown # {},
         \A q \in Current(page, wire) \ {r} : q.op \in LoopOps => p.crossed \/ Shown(p).run = q.of,
         Shown(p).run \in p.cancelled /\ ~p.crossed => Shown(p).status # "active"
  PROVE  RunsInv'
<1>1. CASE r.of # Job
  <2> DEFINE s == RunCall("list", None, r.by, 0)
  <2>1. page' = p /\ wire' = (wire \ {r}) \cup {s} /\ db' = db
    BY <1>1 DEF LoopEnds, Then
  <2>2. FollowsFrom(r, s) /\ s.by = r.by /\ s.op = "list"
    BY <1>1, RunsListFollows
  <2> HIDE DEF s
  <2>3. \A q \in Current(p, wire') : q \in Current(page, wire) \ {r}
    BY <2>1, <2>2 DEF Current, LoopOps, ClickedFor
  <2>4. p.loading => page.loading /\ \/ /\ r.op \notin {"simulate", "repair", "open", "analysis"}
                                         /\ r.by \notin {"simulate", "repair"}
                                      \/ \E q \in {s} : q.by \in {"simulate", "repair"}
    BY <2>2 DEF LoopOps
  <2>5. (\A q \in {s} : FollowsFrom(r, q)) /\ \A q, t \in {s} : q = t
    BY <2>2
  <2>6. \A q \in Current(p, wire') : q.op \in LoopOps => p.crossed \/ Shown(p).run = q.of
    BY <2>3
  <2>7. AnswersTo(p, r, {s}, wire')
    BY <2>4, <2>5, <2>6 DEF AnswersTo
  <2> QED BY <2>1, <2>7, RunAnswered
<1>2. CASE r.of = Job
  <2> DEFINE n == [p EXCEPT !.loading = @ /\ r.by # "repair"]
  <2>1. page' = n /\ wire' = (wire \ {r}) \cup {} /\ db' = db
    BY <1>2 DEF LoopEnds, Then
  <2>2. /\ RunsShape(n) /\ n.gen = p.gen /\ n.rows = p.rows /\ n.cancelled = p.cancelled /\ n.shown = p.shown
        /\ n.crossed = p.crossed /\ (n.loading => p.loading /\ r.by # "repair")
    BY DEF RunsShape
  <2> HIDE DEF n
  <2>3. Shown(n) = Shown(p)
    BY <2>2 DEF Shown
  <2>4. r.by # "simulate"
    BY <1>2 DEF RunsInv, RunCallsOf
  <2>5. \A q \in Current(n, wire') : q \in Current(page, wire) \ {r}
    BY <2>1, <2>2 DEF Current
  <2>6. n.loading => page.loading /\ \/ /\ r.op \notin {"simulate", "repair", "open", "analysis"}
                                         /\ r.by \notin {"simulate", "repair"}
                                      \/ \E q \in {} : q.by \in {"simulate", "repair"}
    BY <2>2, <2>4 DEF LoopOps
  <2>7. \A q \in Current(n, wire') : q.op \in LoopOps => n.crossed \/ Shown(n).run = q.of
    BY <2>2, <2>3, <2>5
  <2>8. /\ n.shown # {} => Shown(n).run \in KnownTo(db)
        /\ page.shown # {} => n.shown # {}
        /\ Shown(n).run \in n.cancelled /\ ~n.crossed => Shown(n).status # "active"
    BY <2>2, <2>3
  <2>9. \A x \in n.cancelled : x \in page.cancelled
    BY <2>2
  <2>10. (\A q \in {} : FollowsFrom(r, q)) /\ \A q, t \in {} : q = t
    OBVIOUS
  <2>11. n.gen = page.gen /\ n.rows = page.rows
    BY <2>2
  <2>12. AnswersTo(n, r, {}, wire')
    BY <2>2, <2>6, <2>7, <2>8, <2>9, <2>10, <2>11 DEF AnswersTo
  <2> QED BY <2>1, <2>12, RunAnswered
<1> QED BY <1>1, <1>2

\* What is on display while nothing answers.
LEMMA DisplayNow ==
  ASSUME RunsInv
  PROVE  /\ RunsShape(page) /\ (page.shown # {} => Shown(page).run \in KnownTo(db))
         /\ \A q \in Current(page, wire) : q.op \in LoopOps => page.crossed \/ Shown(page).run = q.of
         /\ Shown(page).run \in page.cancelled /\ ~page.crossed => Shown(page).status # "active"
BY DEF RunsInv, RunCallsOf, OneIsCurrent, CancelledAre

\* A loop of the last click reads nothing but the end of a run that is cancelled.
LEMMA ReadsTheEnd ==
  ASSUME RunsInv, NEW r \in wire, r.op \in LoopOps, r.gen = page.gen, r.out = "ok"
  PROVE  /\ r.of \in page.cancelled => r.status # "active"
         /\ r.of \in KnownTo(db) /\ r \in Current(page, wire)
         /\ \A q \in Current(page, wire) : q = r
<1>1. r \in Current(page, wire) /\ r.of \in KnownTo(db) /\ r.by \in ClickedFor
  BY DEF Current, RunsInv, RunCallsOf
<1>2. \A q \in Current(page, wire) : q = r
  BY <1>1 DEF RunsInv, OneIsCurrent
<1>3. ASSUME r.of \in page.cancelled PROVE r.status # "active"
  <2>1. r.of # Job
    BY <1>3, RunsAssumption DEF RunsInv, CancelledAre
  <2>2. r.by # "repair" /\ r.by # "simulate"
    BY <1>1, <1>3, <2>1 DEF RunsInv, RunCallsOf, CancelledAre, LoopOps
  <2> QED BY <1>1, <2>1, <2>2 DEF RunsInv, CancelledAre, ClickedFor
<1> QED BY <1>1, <1>2, <1>3

\* Every step keeps the invariant, however polls, refreshes, cancellations and
\* openings and their answers interleave.
LEMMA RunsStep ==
  ASSUME RunsInv, RunsNext
  PROVE  RunsInv'
<1>1. ASSUME NewSimulation PROVE RunsInv'
  BY <1>1, RunsAssumption DEF NewSimulation, OnRunList, Show, RunsInv, RunsShape, RunsStored,
    Job, None, RunCallsOf, KnownTo, Shown, ClickedFor, LoopOps, OneIsCurrent, Current,
    CancelledAre, BusyWith
<1>2. ASSUME ExitEditor PROVE RunsInv'
  BY <1>2, RunsAssumption DEF ExitEditor, InEditor, Show, RunsInv, RunsShape, RunsStored, Job,
    None, RunCallsOf, KnownTo, Shown, ClickedFor, LoopOps, OneIsCurrent, Current, CancelledAre,
    BusyWith
<1>3. ASSUME RefreshRuns PROVE RunsInv'
  BY <1>3, RunsAssumption DEF RefreshRuns, CanRefreshRuns, Call, RunCall, None, OnRunList,
    RunsInv, RunsShape, RunsStored, Job, RunCallsOf, KnownTo, Shown, ClickedFor, LoopOps,
    OneIsCurrent, Current, CancelledAre, BusyWith
<1>4. ASSUME RefreshStatus PROVE RunsInv'
  BY <1>4, RunsAssumption DEF RefreshStatus, InEditor, Shown, Call, RunCall, None, RunsInv,
    RunsShape, RunsStored, Job, RunCallsOf, KnownTo, ClickedFor, LoopOps, OneIsCurrent, Current,
    CancelledAre, BusyWith
<1>5. ASSUME CancelRun PROVE RunsInv'
  <2>1. RunsShape(page)'
    BY <1>5, RunsAssumption DEF CancelRun, CanCancel, NextGeneration, Call, RunCall, Shown,
      InEditor, Terminal, None, RunsShape, RunsStored, Job, RunsInv
  <2>2. RunsStored(db)'
    BY <1>5, RunsAssumption DEF CancelRun, CanCancel, NextGeneration, Call, RunCall, Shown,
      InEditor, Terminal, None, RunsShape, RunsStored, Job, RunsInv
  <2>3. RunCallsOf(page, wire, db)'
    BY <1>5, RunsAssumption DEF CancelRun, CanCancel, NextGeneration, Call, RunCall, Shown,
      InEditor, Terminal, None, RunsShape, RunsStored, Job, RunsInv, RunCallsOf, KnownTo,
      ClickedFor, LoopOps
  <2>4. OneIsCurrent(page, wire)'
    <3> DEFINE p == NextGeneration(page)
               c == RunCall("cancel", Shown(page).run, "cancel", p.gen)
    <3>1. wire' = wire \cup {c} /\ page' = [p EXCEPT !.calls = @ + 1]
      BY <1>5 DEF CancelRun, Call
    <3>2. p.gen = page.gen + 1 /\ page'.gen = p.gen /\ c.op = "cancel"
      BY <3>1 DEF RunsInv, RunsShape, NextGeneration, RunCall
    <3> HIDE DEF c, p
    <3>3. \A r \in wire : r.gen \in Nat /\ r.gen <= page.gen /\ page.gen \in Nat
      BY DEF RunsInv, RunsShape, RunCallsOf
    <3>4. \A r \in Current(page, wire)' : r = c
      BY <3>1, <3>2, <3>3 DEF Current
    <3> QED BY <3>2, <3>4 DEF OneIsCurrent, LoopOps
  <2>5. CancelledAre(page, wire, db)'
    BY <1>5, RunsAssumption DEF CancelRun, CanCancel, NextGeneration, Call, RunCall, Shown,
      InEditor, Terminal, None, RunsInv, RunsShape, RunsStored, Job, RunCallsOf, KnownTo,
      ClickedFor, LoopOps, OneIsCurrent, Current, CancelledAre, BusyWith
  <2>6. BusyWith(page, wire)'
    BY <1>5, RunsAssumption DEF CancelRun, CanCancel, NextGeneration, Call, RunCall, Shown,
      InEditor, Terminal, None, RunsShape, RunsStored, Job, RunsInv, BusyWith
  <2> QED BY <2>1, <2>2, <2>3, <2>4, <2>5, <2>6 DEF RunsInv
<1>6. ASSUME AnalyzeRun PROVE RunsInv'
  <2>1. RunsShape(page)'
    BY <1>6, RunsAssumption DEF AnalyzeRun, CanAnalyze, Call, RunCall, Shown, None, InEditor,
      RunsShape, RunsStored, Job, RunsInv
  <2>2. RunsStored(db)'
    BY <1>6, RunsAssumption DEF AnalyzeRun, CanAnalyze, Call, RunCall, Shown, None, InEditor,
      RunsShape, RunsStored, Job, RunsInv
  <2>3. RunCallsOf(page, wire, db)'
    BY <1>6, RunsAssumption DEF AnalyzeRun, CanAnalyze, Call, RunCall, Shown, None, InEditor,
      RunsShape, RunsStored, Job, RunsInv, RunCallsOf, KnownTo, ClickedFor, LoopOps
  <2>4. OneIsCurrent(page, wire)'
    BY <1>6, RunsAssumption DEF AnalyzeRun, CanAnalyze, Call, RunCall, Shown, None, InEditor,
      RunsShape, RunsStored, Job, RunsInv, OneIsCurrent, Current, LoopOps, ClickedFor
  <2>5. CancelledAre(page, wire, db)'
    BY <1>6, RunsAssumption DEF AnalyzeRun, CanAnalyze, Call, RunCall, Shown, None, InEditor,
      RunsShape, RunsStored, Job, RunsInv, CancelledAre, LoopOps, Current, ClickedFor
  <2>6. BusyWith(page, wire)'
    BY ZenonT(60), <1>6, RunsAssumption DEF AnalyzeRun, CanAnalyze, Call, RunCall, Shown, None, InEditor,
      RunsInv, RunsShape, RunsStored, Job, RunCallsOf, KnownTo, ClickedFor, LoopOps,
      OneIsCurrent, Current, CancelledAre, BusyWith
  <2> QED BY <2>1, <2>2, <2>3, <2>4, <2>5, <2>6 DEF RunsInv
<1>7. ASSUME NEW op \in {"simulate", "repair"}, StartRun(op) PROVE RunsInv'
  <2>1. RunsShape(page)'
    BY <1>7, RunsAssumption DEF StartRun, InEditor, NextGeneration, Call, RunCall, None,
      RunsShape, RunsStored, Job, RunsInv
  <2>2. RunsStored(db)'
    BY <1>7, RunsAssumption DEF StartRun, InEditor, NextGeneration, Call, RunCall, None,
      RunsShape, RunsStored, Job, RunsInv
  <2>3. RunCallsOf(page, wire, db)'
    BY <1>7, RunsAssumption DEF StartRun, InEditor, NextGeneration, Call, RunCall, None,
      RunsShape, RunsStored, Job, RunsInv, RunCallsOf, KnownTo, Shown, ClickedFor, LoopOps
  <2>4. OneIsCurrent(page, wire)'
    <3> DEFINE p == NextGeneration([page EXCEPT !.loading = TRUE, !.job = FALSE])
               c == RunCall(op, None, op, p.gen)
    <3>1. wire' = wire \cup {c} /\ page' = [p EXCEPT !.calls = @ + 1]
      BY <1>7 DEF StartRun, Call
    <3>2. p.gen = page.gen + 1 /\ page'.gen = p.gen /\ c.op = op
      BY <3>1 DEF RunsInv, RunsShape, NextGeneration, RunCall
    <3> HIDE DEF c, p
    <3>3. \A r \in wire : r.gen \in Nat /\ r.gen <= page.gen /\ page.gen \in Nat
      BY DEF RunsInv, RunsShape, RunCallsOf
    <3>4. \A r \in Current(page, wire)' : r = c
      BY <3>1, <3>2, <3>3 DEF Current
    <3> QED BY <1>7, <3>2, <3>4 DEF OneIsCurrent, LoopOps
  <2>5. CancelledAre(page, wire, db)'
    BY <1>7, RunsAssumption DEF StartRun, InEditor, NextGeneration, Call, RunCall, None, RunsInv,
      RunsShape, RunsStored, Job, RunCallsOf, KnownTo, Shown, ClickedFor, LoopOps, OneIsCurrent,
      Current, CancelledAre, BusyWith
  <2>6. BusyWith(page, wire)'
    <3>1. \E g : RunCall(op, None, op, g) \in wire'
      BY <1>7 DEF StartRun, Call
    <3>2. \A g : RunCall(op, None, op, g).op = op
      BY DEF RunCall
    <3> QED BY <1>7, <3>1, <3>2 DEF BusyWith
  <2> QED BY <2>1, <2>2, <2>3, <2>4, <2>5, <2>6 DEF RunsInv
<1>8. ASSUME NEW x \in Runs, OpenRun(x) PROVE RunsInv'
  <2>1. RunsShape(page)'
    BY <1>8, RunsAssumption DEF OpenRun, VisibleRun, Call, RunCall, None, OnRunList, RunsShape,
      RunsStored, Job, RunsInv
  <2>2. RunsStored(db)'
    BY <1>8, RunsAssumption DEF OpenRun, VisibleRun, Call, RunCall, None, OnRunList, RunsShape,
      RunsStored, Job, RunsInv
  <2>3. RunCallsOf(page, wire, db)'
    BY <1>8, RunsAssumption DEF OpenRun, VisibleRun, Call, RunCall, None, OnRunList, RunsShape,
      RunsStored, Job, RunsInv, RunCallsOf, KnownTo, Shown, ClickedFor, LoopOps
  <2>4. OneIsCurrent(page, wire)'
    BY <1>8, RunsAssumption DEF OpenRun, VisibleRun, Call, RunCall, None, OnRunList, RunsShape,
      RunsStored, Job, RunsInv, OneIsCurrent, Current, LoopOps, Shown, ClickedFor
  <2>5. CancelledAre(page, wire, db)'
    BY <1>8, RunsAssumption DEF OpenRun, VisibleRun, Call, RunCall, None, OnRunList, RunsShape,
      RunsStored, Job, RunsInv, CancelledAre, LoopOps, Current, Shown, ClickedFor
  <2>6. BusyWith(page, wire)'
    <3>1. RunCall("open", x, None, 0) \in wire' /\ RunCall("open", x, None, 0).op = "open"
      BY <1>8 DEF OpenRun, Call, RunCall
    <3> QED BY <3>1 DEF BusyWith
  <2> QED BY <2>1, <2>2, <2>3, <2>4, <2>5, <2>6 DEF RunsInv
<1>9. ASSUME NEW x \in Runs \cup {Job}, RunEnds(x) PROVE RunsInv'
  BY <1>9, RunsAssumption DEF RunEnds, RunsInv, RunsShape, RunsStored, Job, None, RunCallsOf,
    KnownTo, Shown, ClickedFor, LoopOps, OneIsCurrent, Current, CancelledAre, BusyWith
<1>10. ASSUME NEW r \in wire, PollLost(r) PROVE RunsInv'
  <2>1. RunsShape(page)'
    BY <1>10, RunsAssumption DEF PollLost, Then, RunsShape, RunsStored, Job, None, RunsInv
  <2>2. RunsStored(db)'
    BY <1>10, RunsAssumption DEF PollLost, Then, RunsShape, RunsStored, Job, None, RunsInv
  <2>3. RunCallsOf(page, wire, db)'
    BY <1>10, RunsAssumption DEF PollLost, Then, RunsShape, RunsStored, Job, None, RunsInv,
      RunCallsOf, KnownTo, Shown, ClickedFor, LoopOps
  <2>4. OneIsCurrent(page, wire)'
    BY <1>10, RunsAssumption DEF PollLost, Then, RunsShape, RunsStored, Job, None, RunsInv,
      OneIsCurrent, Current, LoopOps, Shown, ClickedFor
  <2>5. CancelledAre(page, wire, db)'
    BY <1>10, RunsAssumption DEF PollLost, Then, RunsShape, RunsStored, Job, None, RunsInv,
      CancelledAre, LoopOps, Current, Shown, ClickedFor
  <2>6. BusyWith(page, wire)'
    BY <1>10, RunsAssumption DEF PollLost, Then, RunsShape, RunsStored, Job, None, RunsInv,
      BusyWith
  <2> QED BY <2>1, <2>2, <2>3, <2>4, <2>5, <2>6 DEF RunsInv
<1>11. ASSUME NEW r \in wire, PollAnswered(r) PROVE RunsInv'
  <2>1. r.op = "poll" /\ r.out = "ok" /\ r.op \in LoopOps
    BY <1>11 DEF PollAnswered, LoopOps
  <2>2. CASE r.gen # page.gen
    <3>1. LoopEnds(page, r)
      BY <1>11, <2>2 DEF PollAnswered
    <3> QED BY <2>1, <3>1, DisplayNow, LoopEnding
  <2>3. CASE r.gen = page.gen
    <3> DEFINE shown == Displays(page, r.of, r.status)
               read == [shown EXCEPT !.crossed = @ /\ r.path]
    <3>1. /\ RunsShape(shown) /\ Shown(shown).run = r.of /\ Shown(shown).status = r.status /\ shown.shown # {}
          /\ shown.gen = page.gen /\ shown.rows = page.rows /\ shown.loading = page.loading
          /\ shown.cancelled = page.cancelled
      BY DisplaysIs DEF RunsInv
    <3> HIDE DEF shown
    <3>2. /\ RunsShape(read) /\ read.shown = shown.shown
          /\ read.gen = page.gen /\ read.rows = page.rows /\ read.loading = page.loading
          /\ read.cancelled = page.cancelled
      BY <3>1 DEF RunsShape
    <3>3. /\ r.gen = page.gen /\ r.path /\ r.status \in Terminal => Then(page, r, {[r EXCEPT !.op = "final", !.out = "sent"]})
          /\ ~r.path /\ r.status \in Terminal => LoopEnds(read, r)
          /\ r.status \notin Terminal => Then(read, r, {[r EXCEPT !.out = "wait", !.status = None]})
      BY <1>11, <2>3 DEF PollAnswered, shown
    <3> HIDE DEF read
    <3>4. Shown(read).run = r.of /\ Shown(read).status = r.status
      BY <3>1, <3>2 DEF Shown
    <3>5. /\ r.of \in page.cancelled => r.status # "active"
          /\ r.of \in KnownTo(db) /\ r \in Current(page, wire) /\ \A q \in Current(page, wire) : q = r
      BY <2>1, <2>3, ReadsTheEnd
    <3>6. DOMAIN r = {"op", "of", "by", "gen", "path", "out", "status", "rows"} /\ r.gen \in Nat
      BY DEF RunsInv, RunCallsOf
    <3>7. CASE r.path /\ r.status \in Terminal
      <4> DEFINE s == [r EXCEPT !.op = "final", !.out = "sent"]
      <4>1. page' = page /\ wire' = (wire \ {r}) \cup {s} /\ db' = db
        BY <2>3, <3>3, <3>7 DEF Then
      <4>2. FollowsFrom(r, s) /\ s.by = r.by /\ s.of = r.of
        BY <2>1, <3>6 DEF FollowsFrom, LoopOps
      <4> HIDE DEF s
      <4>3. \A q \in Current(page, wire') : q.op \in LoopOps => page.crossed \/ Shown(page).run = q.of
        BY <2>1, <3>5, <4>1, <4>2, DisplayNow DEF Current
      <4>4. page.loading => page.loading /\ \/ /\ r.op \notin {"simulate", "repair", "open", "analysis"}
                                                /\ r.by \notin {"simulate", "repair"}
                                             \/ \E q \in {s} : q.by \in {"simulate", "repair"}
        BY <2>1, <4>2 DEF LoopOps
      <4>5. AnswersTo(page, r, {s}, wire')
        BY <4>2, <4>3, <4>4, DisplayNow DEF AnswersTo
      <4> QED BY <4>1, <4>5, RunAnswered
    <3>8. CASE ~r.path /\ r.status \in Terminal
      <4>1. LoopEnds(read, r)
        BY <3>3, <3>8
      <4>2. \A q \in Current(page, wire) \ {r} : FALSE
        BY <3>5
      <4> QED BY <2>1, <3>1, <3>2, <3>4, <3>5, <4>1, <4>2, LoopEnding
    <3>9. CASE r.status \notin Terminal
      <4> DEFINE s == [r EXCEPT !.out = "wait", !.status = None]
      <4>1. page' = read /\ wire' = (wire \ {r}) \cup {s} /\ db' = db
        BY <3>3, <3>9 DEF Then
      <4>2. FollowsFrom(r, s) /\ s.by = r.by /\ s.of = r.of
        BY <2>1, <3>6 DEF FollowsFrom, LoopOps
      <4> HIDE DEF s
      <4>3. \A q \in Current(read, wire') : q = s
        BY <3>2, <3>5, <4>1 DEF Current
      <4>4. read.loading => page.loading /\ \/ /\ r.op \notin {"simulate", "repair", "open", "analysis"}
                                                /\ r.by \notin {"simulate", "repair"}
                                             \/ \E q \in {s} : q.by \in {"simulate", "repair"}
        BY <2>1, <3>2, <4>2 DEF LoopOps
      <4>5. \A q \in Current(read, wire') : q.op \in LoopOps => read.crossed \/ Shown(read).run = q.of
        BY <3>4, <4>2, <4>3
      <4>6. (\A q \in {s} : FollowsFrom(r, q)) /\ \A q, t \in {s} : q = t
        BY <4>2
      <4>7. Shown(read).run \in read.cancelled => Shown(read).status # "active"
        BY <3>2, <3>4, <3>5
      <4>8. AnswersTo(read, r, {s}, wire')
        BY <3>1, <3>2, <3>4, <3>5, <4>4, <4>5, <4>6, <4>7 DEF AnswersTo
      <4> QED BY <4>1, <4>8, RunAnswered
    <3> QED BY <3>7, <3>8, <3>9
  <2> QED BY <2>2, <2>3
<1>12. ASSUME NEW r \in wire, RunCompleted(r) PROVE RunsInv'
  <2>1. r.op = "final" /\ r.out = "ok" /\ r.op \in LoopOps
    BY <1>12 DEF RunCompleted, LoopOps
  <2>2. CASE r.gen # page.gen
    <3>1. LoopEnds(page, r)
      BY <1>12, <2>2 DEF RunCompleted
    <3> QED BY <2>1, <3>1, DisplayNow, LoopEnding
  <2>3. CASE r.gen = page.gen
    <3> DEFINE shown == Displays(page, r.of, r.status)
               read == [shown EXCEPT !.crossed = FALSE]
    <3>1. /\ RunsShape(shown) /\ Shown(shown).run = r.of /\ Shown(shown).status = r.status /\ shown.shown # {}
          /\ shown.gen = page.gen /\ shown.rows = page.rows /\ shown.loading = page.loading
          /\ shown.cancelled = page.cancelled
      BY DisplaysIs DEF RunsInv
    <3>2. LoopEnds(read, r)
      BY <1>12, <2>3 DEF RunCompleted
    <3> HIDE DEF shown
    <3>3. /\ RunsShape(read) /\ read.shown = shown.shown
          /\ read.gen = page.gen /\ read.rows = page.rows /\ read.loading = page.loading
          /\ read.cancelled = page.cancelled
      BY <3>1 DEF RunsShape
    <3> HIDE DEF read
    <3>4. Shown(read).run = r.of /\ Shown(read).status = r.status
      BY <3>1, <3>3 DEF Shown
    <3>5. /\ r.of \in page.cancelled => r.status # "active"
          /\ r.of \in KnownTo(db) /\ \A q \in Current(page, wire) \ {r} : FALSE
      BY <2>1, <2>3, ReadsTheEnd
    <3> QED BY <2>1, <3>1, <3>2, <3>3, <3>4, <3>5, LoopEnding
  <2> QED BY <2>2, <2>3
<1>13. ASSUME NEW r \in wire, AnalysisAccepted(r) PROVE RunsInv'
  BY <1>13, RunsAssumption DEF AnalysisAccepted, Then, RunsInv, RunsShape, RunsStored, Job, None,
    RunCallsOf, KnownTo, Shown, ClickedFor, LoopOps, OneIsCurrent, Current, CancelledAre, BusyWith
<1>14. ASSUME NEW r \in wire, ServeRun(r) PROVE RunsInv'
  <2>1. PICK x \in IF r.op = "simulate" THEN {y \in Runs : db[y] = None} ELSE IF r.op = "repair" THEN {Job} ELSE {r.of} :
          /\ r.op = "cancel" => db[x] = "active"
          /\ db' = [db EXCEPT ![x] = IF r.op = "cancel" THEN "cancelled" ELSE "active"]
          /\ wire' = (wire \ {r}) \cup {[r EXCEPT !.out = "ok", !.of = x]}
    BY <1>14 DEF ServeRun
  <2> DEFINE s == [r EXCEPT !.out = "ok", !.of = x]
  <2>2. r.op \in ClickedFor /\ r.out = "sent" /\ page' = page
    BY <1>14 DEF ServeRun, ClickedFor
  <2>3. /\ s.op = r.op /\ s.of = x /\ s.by = r.op /\ s.gen = r.gen /\ s.out = "ok"
        /\ DOMAIN s = {"op", "of", "by", "gen", "path", "out", "status", "rows"} /\ r.gen \in Nat
    BY <2>2 DEF RunsInv, RunCallsOf
  <2> HIDE DEF s
  <2>4. /\ r.op = "simulate" => x \in Runs /\ db[x] = None /\ x # Job
        /\ r.op = "repair" => x = Job
        /\ r.op = "cancel" => x = r.of /\ x \in KnownTo(db) /\ db[x] = "active"
    BY <2>1, RunsAssumption DEF RunsInv, RunCallsOf
  <2>5. x \in Runs \cup {Job}
    BY <2>2, <2>4 DEF KnownTo, ClickedFor
  <2>6. /\ RunsStored(db')
        /\ db'[x] = IF r.op = "cancel" THEN "cancelled" ELSE "active"
        /\ \A y \in Runs \cup {Job} : y # x => db'[y] = db[y]
    BY <2>1, <2>5 DEF RunsInv, RunsStored
  <2>7. KnownTo(db) \subseteq KnownTo(db') /\ x \in KnownTo(db')
    BY <2>5, <2>6 DEF KnownTo, None
  <2>8. wire' = (wire \ {r}) \cup {s}
    BY <2>1 DEF s
  <2>9. RunCallsOf(page, wire', db')
    BY <2>2, <2>3, <2>4, <2>7, <2>8 DEF RunsInv, RunCallsOf, LoopOps, ClickedFor
  <2>10. /\ s \in Current(page, wire') => r \in Current(page, wire)
         /\ \A q \in Current(page, wire') : q = s \/ q \in Current(page, wire) \ {r}
    BY <2>2, <2>3, <2>8 DEF Current
  <2>11. OneIsCurrent(page, wire')
    BY <2>2, <2>3, <2>10 DEF RunsInv, OneIsCurrent, ClickedFor, LoopOps
  <2>12. CancelledAre(page, wire', db')
    <3>1. \A y : y \in Runs /\ db[y] = "cancelled" => db'[y] = "cancelled"
      BY <2>4, <2>6, RunsAssumption, <2>2 DEF ClickedFor, None
    <3>2. \A y \in page.cancelled : y \in Runs /\ db'[y] = "cancelled"
      BY <3>1 DEF RunsInv, CancelledAre
    <3>3. ASSUME NEW q \in wire'
          PROVE  /\ q.op = "cancel" /\ q.out = "ok" /\ q.of # Job => db'[q.of] = "cancelled"
                 /\ q.op \in LoopOps /\ q.by = "cancel" /\ q.of # Job =>
                      db'[q.of] = "cancelled" /\ (q.out = "ok" => q.status # "active")
      <4>1. CASE q = s
        BY <2>2, <2>3, <2>6, <4>1 DEF LoopOps, ClickedFor
      <4>2. CASE q \in wire
        <5>1. q.op \in LoopOps \cup {"cancel"} => q.of \in KnownTo(db)
          BY <4>2 DEF RunsInv, RunCallsOf
        <5>2. q.op \in LoopOps \cup {"cancel"} /\ q.of # Job => q.of \in Runs
          BY <5>1 DEF KnownTo
        <5> QED BY <3>1, <4>2, <5>2 DEF RunsInv, CancelledAre
      <4> QED BY <2>8, <4>1, <4>2
    <3>4. ASSUME NEW q \in Current(page, wire'), q.by = "simulate", q.op = "simulate" => q.out = "ok"
          PROVE  q.of \notin page.cancelled /\ \A t \in wire' : t.op = "cancel" => t.of # q.of
      <4>1. CASE q = s
        <5>1. r.op = "simulate" /\ q.of = x
          BY <2>3, <3>4, <4>1
        <5>2. \A t \in wire : t.op = "cancel" => t.of \in KnownTo(db) /\ t.of # x
          BY <2>4, <5>1 DEF RunsInv, RunCallsOf, KnownTo
        <5>3. x \notin page.cancelled
          BY <2>4, <5>1 DEF RunsInv, CancelledAre, None
        <5> QED BY <2>3, <2>8, <5>1, <5>2, <5>3
      <4>2. CASE q \in Current(page, wire)
        <5>1. q.of \notin page.cancelled /\ \A t \in wire : t.op = "cancel" => t.of # q.of
          BY <3>4, <4>2 DEF RunsInv, CancelledAre
        <5> QED BY <2>3, <2>4, <2>8, <5>1
      <4> QED BY <2>10, <4>1, <4>2
    <3> QED BY <3>2, <3>3, <3>4 DEF RunsInv, CancelledAre
  <2>13. BusyWith(page, wire')
    BY <2>2, <2>3, <2>8 DEF RunsInv, BusyWith, ClickedFor, RunCallsOf
  <2> QED BY <2>2, <2>6, <2>9, <2>11, <2>12, <2>13 DEF RunsInv
<1>15. ASSUME NEW r \in wire, ServeRunRead(r) PROVE RunsInv'
  <2> DEFINE s == IF r.op = "list" THEN [r EXCEPT !.out = "ok", !.rows = {x \in Runs : db[x] # None}]
                  ELSE [r EXCEPT !.out = "ok", !.status = db[r.of]]
  <2>1. /\ r.out = "sent" /\ r.op \in {"list", "poll", "final", "open"}
        /\ page' = page /\ db' = db /\ wire' = (wire \ {r}) \cup {s}
    BY <1>15 DEF ServeRunRead
  <2>2. /\ s.op = r.op /\ s.of = r.of /\ s.by = r.by /\ s.gen = r.gen /\ s.out = "ok"
        /\ DOMAIN s = {"op", "of", "by", "gen", "path", "out", "status", "rows"}
        /\ r.op = "list" => s.rows \subseteq KnownTo(db) /\ s.by # "repair"
        /\ r.op # "list" => s.status = db[r.of] /\ s.rows = r.rows
    BY DEF RunsInv, RunCallsOf, KnownTo
  <2> HIDE DEF s
  <2>3. RunCallsOf(page, wire', db)
    BY <2>1, <2>2 DEF RunsInv, RunCallsOf, LoopOps, ClickedFor
  <2>4. /\ s \in Current(page, wire') => r \in Current(page, wire)
        /\ \A q \in Current(page, wire') : q = s \/ q \in Current(page, wire) \ {r}
    BY <2>1, <2>2 DEF Current
  <2>5. OneIsCurrent(page, wire')
    BY <2>2, <2>4 DEF RunsInv, OneIsCurrent
  <2>6. CancelledAre(page, wire', db)
    <3>1. ASSUME NEW q \in wire'
          PROVE  /\ q.op = "cancel" /\ q.out = "ok" /\ q.of # Job => db[q.of] = "cancelled"
                 /\ q.op \in LoopOps /\ q.by = "cancel" /\ q.of # Job =>
                      db[q.of] = "cancelled" /\ (q.out = "ok" => q.status # "active")
      <4>1. CASE q = s
        BY <2>1, <2>2, <4>1 DEF RunsInv, CancelledAre, LoopOps
      <4>2. CASE q \in wire
        BY <4>2 DEF RunsInv, CancelledAre
      <4> QED BY <2>1, <4>1, <4>2
    <3>2. ASSUME NEW q \in Current(page, wire'), q.by = "simulate", q.op = "simulate" => q.out = "ok"
          PROVE  q.of \notin page.cancelled /\ \A t \in wire' : t.op = "cancel" => t.of # q.of
      <4>1. PICK o \in Current(page, wire) : o.by = "simulate" /\ (o.op = "simulate" => o.out = "ok") /\ o.of = q.of
        BY <2>1, <2>2, <2>4, <3>2
      <4>2. o.of \notin page.cancelled /\ \A t \in wire : t.op = "cancel" => t.of # o.of
        BY <4>1 DEF RunsInv, CancelledAre
      <4> QED BY <2>1, <2>2, <4>1, <4>2
    <3> QED BY <3>1, <3>2 DEF RunsInv, CancelledAre
  <2>7. BusyWith(page, wire')
    BY <2>1, <2>2 DEF RunsInv, BusyWith
  <2> QED BY <2>1, <2>3, <2>5, <2>6, <2>7 DEF RunsInv
<1>16. ASSUME NEW r \in wire, NEW yes \in BOOLEAN, RunsListed(r, yes) PROVE RunsInv'
  <2>1. RunsShape(page)'
    BY <1>16, RunsAssumption DEF RunsListed, Then, RunsShape, RunsStored, Job, None, RunsInv
  <2>2. RunsStored(db)'
    BY <1>16, RunsAssumption DEF RunsListed, Then, RunsShape, RunsStored, Job, None, RunsInv
  <2>3. RunCallsOf(page, wire, db)'
    BY <1>16, RunsAssumption DEF RunsListed, Then, RunsShape, RunsStored, Job, None, RunsInv,
      RunCallsOf, KnownTo, Shown, ClickedFor, LoopOps
  <2>4. OneIsCurrent(page, wire)'
    BY <1>16, RunsAssumption DEF RunsListed, Then, RunsShape, RunsStored, Job, None, RunsInv,
      OneIsCurrent, Current, LoopOps, Shown, ClickedFor
  <2>5. CancelledAre(page, wire, db)'
    BY <1>16, RunsAssumption DEF RunsListed, Then, RunsShape, RunsStored, Job, None, RunsInv,
      CancelledAre, LoopOps, Current, Shown, ClickedFor
  <2>6. BusyWith(page, wire)'
    <3>1. /\ r.op = "list" /\ wire' = wire \ {r}
          /\ page'.loading => page.loading /\ r.by # "simulate"
      BY <1>16 DEF RunsListed, Then, RunsInv, RunsShape
    <3>2. r.by # "repair"
      BY <3>1 DEF RunsInv, RunCallsOf
    <3> QED BY <3>1, <3>2 DEF RunsInv, BusyWith
  <2> QED BY <2>1, <2>2, <2>3, <2>4, <2>5, <2>6 DEF RunsInv
<1>17. ASSUME NEW r \in wire, NEW yes \in BOOLEAN, RepairQueued(r, yes) PROVE RunsInv'
  <2>1. r.op = "repair" /\ (yes => r.out = "ok")
    BY <1>17 DEF RepairQueued
  <2>2. CASE ~yes
    <3> DEFINE p == [page EXCEPT !.loading = FALSE]
    <3>1. page' = p /\ wire' = (wire \ {r}) \cup {} /\ db' = db
      BY <1>17, <2>2 DEF RepairQueued, Then
    <3>2. /\ RunsShape(p) /\ p.gen = page.gen /\ p.rows = page.rows /\ p.cancelled = page.cancelled
          /\ p.shown = page.shown /\ p.crossed = page.crossed /\ ~p.loading
      BY DEF RunsInv, RunsShape
    <3> HIDE DEF p
    <3>3. Shown(p) = Shown(page) /\ \A q \in Current(p, wire') : q \in Current(page, wire)
      BY <3>1, <3>2 DEF Shown, Current
    <3>4. AnswersTo(p, r, {}, wire')
      BY <3>2, <3>3, DisplayNow DEF AnswersTo
    <3> QED BY <3>1, <3>4, RunAnswered
  <2>3. CASE yes
    <3> DEFINE shown == Displays(page, Job, "active")
               p == [shown EXCEPT !.job = TRUE, !.crossed = r.gen # page.gen]
               s == Polling(r, Job)
    <3>1. page' = p /\ wire' = (wire \ {r}) \cup {s} /\ db' = db
      BY <1>17, <2>3 DEF RepairQueued, Then
    <3>2. /\ RunsShape(shown) /\ Shown(shown).run = Job /\ shown.shown # {}
          /\ shown.gen = page.gen /\ shown.rows = page.rows /\ shown.loading = page.loading
          /\ shown.cancelled = page.cancelled
      BY DisplaysIs DEF RunsInv
    <3> HIDE DEF shown
    <3>3. /\ RunsShape(p) /\ p.shown = shown.shown /\ p.gen = page.gen /\ p.rows = page.rows
          /\ p.loading = page.loading /\ p.cancelled = page.cancelled /\ p.crossed = (r.gen # page.gen)
      BY <3>2 DEF RunsShape
    <3> HIDE DEF p
    <3>4. Shown(p).run = Job
      BY <3>2, <3>3 DEF Shown
    <3>5. r.by = r.op /\ r.of \in KnownTo(db) /\ r.of = Job /\ r.op \in ClickedFor
      BY <2>1, <2>3 DEF RunsInv, RunCallsOf, ClickedFor
    <3>6. FollowsFrom(r, s) /\ s.by = r.by
      BY <2>1, <2>3, <3>5, PollingFollows
    <3> HIDE DEF s
    <3>7. ASSUME r.gen = page.gen PROVE r \in Current(page, wire) /\ \A q \in Current(page, wire) : q = r
      BY <3>5, <3>7 DEF Current, RunsInv, OneIsCurrent
    <3>8. \A q \in Current(p, wire') : q.op \in LoopOps => p.crossed \/ Shown(p).run = q.of
      BY <3>1, <3>3, <3>4, <3>5, <3>6, <3>7 DEF Current, FollowsFrom
    <3>9. Shown(p).run \in p.cancelled => p.crossed
      BY <2>1, <2>3, <3>3, <3>4, <3>5, <3>7, RunsAssumption DEF RunsInv, CancelledAre
    <3>10. (\A q \in {s} : FollowsFrom(r, q)) /\ (\A q, t \in {s} : q = t) /\ \E q \in {s} : q.by \in {"simulate", "repair"}
      BY <2>1, <3>5, <3>6
    <3>11. /\ p.shown # {} => Shown(p).run \in KnownTo(db)
           /\ page.shown # {} => p.shown # {}
      BY <3>2, <3>3, <3>4, <3>5
    <3>12. AnswersTo(p, r, {s}, wire')
      BY <3>3, <3>8, <3>9, <3>10, <3>11 DEF AnswersTo
    <3> QED BY <3>1, <3>12, RunAnswered
  <2> QED BY <2>2, <2>3
<1>18. ASSUME NEW r \in wire, NEW yes \in BOOLEAN, CancelAccepted(r, yes) PROVE RunsInv'
  <2>1. r.op = "cancel" /\ (yes => r.out = "ok")
    BY <1>18 DEF CancelAccepted
  <2>2. r.by = "cancel" /\ r.of \in KnownTo(db) /\ page.shown # {} /\ r.op \in ClickedFor
    BY <2>1 DEF RunsInv, RunCallsOf, ClickedFor
  <2>3. CASE ~yes
    <3>1. page' = page /\ wire' = (wire \ {r}) \cup {} /\ db' = db
      BY <1>18, <2>3 DEF CancelAccepted, Then
    <3>2. \A q \in Current(page, wire') : q \in Current(page, wire)
      BY <3>1 DEF Current
    <3>3. AnswersTo(page, r, {}, wire')
      BY <2>1, <2>2, <3>2, DisplayNow DEF AnswersTo
    <3> QED BY <3>1, <3>3, RunAnswered
  <2>4. CASE yes
    <3> DEFINE p == [page EXCEPT !.cancelled = @ \cup ({r.of} \cap Runs), !.crossed = @ \/ Shown(page).run # r.of]
               n == IF r.of = Job THEN p ELSE Displays(p, Shown(p).run, "cancelling")
               s == Polling(r, r.of)
    <3>1. page' = n /\ wire' = (wire \ {r}) \cup {s} /\ db' = db
      BY <1>18, <2>4 DEF CancelAccepted, Then
    <3>2. /\ RunsShape(p) /\ p.shown = page.shown /\ p.gen = page.gen /\ p.rows = page.rows /\ p.loading = page.loading
          /\ p.cancelled = page.cancelled \cup ({r.of} \cap Runs)
          /\ (page.crossed \/ Shown(page).run # r.of => p.crossed) /\ (~p.crossed => ~page.crossed)
      BY DEF RunsInv, RunsShape
    <3> HIDE DEF p
    <3>3. Shown(p) = Shown(page)
      BY <3>2 DEF Shown
    <3>4. /\ RunsShape(n) /\ n.shown # {} /\ n.gen = page.gen /\ n.rows = page.rows /\ n.loading = page.loading
          /\ n.crossed = p.crossed /\ n.cancelled = p.cancelled /\ Shown(n).run = Shown(page).run
          /\ IF r.of = Job THEN Shown(n).status = Shown(page).status ELSE Shown(n).status = "cancelling"
      BY <2>2, <3>2, <3>3, DisplaysIs
    <3> HIDE DEF n
    <3>5. FollowsFrom(r, s) /\ s.by = r.by
      BY <2>1, <2>2, <2>4, PollingFollows
    <3> HIDE DEF s
    <3>6. \A q \in Current(n, wire') : q.op \in LoopOps => n.crossed \/ Shown(n).run = q.of
      BY <3>1, <3>2, <3>4, <3>5, DisplayNow DEF Current, FollowsFrom
    <3>7. Shown(n).run \in n.cancelled /\ ~n.crossed => Shown(n).status # "active"
      BY <3>2, <3>4, DisplayNow, RunsAssumption
    <3>8. (\A q \in {s} : FollowsFrom(r, q)) /\ (\A q, t \in {s} : q = t)
      BY <3>5
    <3>9. n.shown # {} => Shown(n).run \in KnownTo(db)
      BY <2>2, <3>4, DisplayNow
    <3>10. \A x \in n.cancelled : x \in page.cancelled \/ (r.op = "cancel" /\ r.out = "ok" /\ x = r.of /\ x \in Runs)
      BY <2>1, <2>4, <3>2, <3>4
    <3>11. r.op \notin {"simulate", "repair", "open", "analysis"} /\ r.by \notin {"simulate", "repair"}
      BY <2>1, <2>2
    <3>12. AnswersTo(n, r, {s}, wire')
      BY <3>4, <3>6, <3>7, <3>8, <3>9, <3>10, <3>11 DEF AnswersTo
    <3> QED BY <3>1, <3>12, RunAnswered
  <2> QED BY <2>3, <2>4
<1>19. ASSUME NEW r \in wire, NEW yes \in BOOLEAN, PollAgain(r, yes) PROVE RunsInv'
  <2>1. RunsShape(page)'
    BY <1>19, RunsAssumption DEF PollAgain, Then, LoopEnds, Job, RunCall, None, RunsShape,
      RunsStored, RunsInv
  <2>2. RunsStored(db)'
    BY <1>19, RunsAssumption DEF PollAgain, Then, LoopEnds, Job, RunCall, None, RunsShape,
      RunsStored, RunsInv
  <2>3. RunCallsOf(page, wire, db)'
    BY <1>19, RunsAssumption DEF PollAgain, Then, LoopEnds, Job, RunCall, None, RunsShape,
      RunsStored, RunsInv, RunCallsOf, KnownTo, Shown, ClickedFor, LoopOps
  <2>4. OneIsCurrent(page, wire)'
    BY <1>19, RunsAssumption DEF PollAgain, Then, LoopEnds, Job, RunCall, None, RunsInv,
      RunsShape, RunsStored, RunCallsOf, KnownTo, Shown, ClickedFor, LoopOps, OneIsCurrent,
      Current, CancelledAre, BusyWith
  <2>5. CancelledAre(page, wire, db)'
    BY <1>19, RunsAssumption DEF PollAgain, Then, LoopEnds, Job, RunCall, None, RunsInv,
      RunsShape, RunsStored, RunCallsOf, KnownTo, Shown, ClickedFor, LoopOps, OneIsCurrent,
      Current, CancelledAre, BusyWith
  <2>6. BusyWith(page, wire)'
    <3>1. CASE r.gen = page.gen /\ yes
      <4>1. page' = page /\ wire' = (wire \ {r}) \cup {[r EXCEPT !.out = "sent"]} /\ r.op = "poll"
        BY <1>19, <3>1 DEF PollAgain, Then
      <4>2. [r EXCEPT !.out = "sent"].by = r.by
        BY DEF RunsInv, RunCallsOf
      <4> QED BY <4>1, <4>2 DEF RunsInv, BusyWith
    <3>2. CASE ~(r.gen = page.gen /\ yes)
      <4>1. LoopEnds(page, r) /\ r.op \in LoopOps
        BY <1>19, <3>2 DEF PollAgain, LoopOps
      <4>2. RunsInv'
        BY <4>1, DisplayNow, LoopEnding
      <4> QED BY <4>2 DEF RunsInv
    <3> QED BY <3>1, <3>2
  <2> QED BY <2>1, <2>2, <2>3, <2>4, <2>5, <2>6 DEF RunsInv
<1>20. ASSUME NEW r \in wire, NEW yes \in BOOLEAN, RunOpened(r, yes) PROVE RunsInv'
  <2>1. RunsShape(page)'
    BY <1>20, RunsAssumption DEF RunOpened, Then, Displays, RunsShape, RunsStored, Job, None,
      RunsInv
  <2>2. RunsStored(db)'
    BY <1>20, RunsAssumption DEF RunOpened, Then, Displays, RunsShape, RunsStored, Job, None,
      RunsInv
  <2>3. RunCallsOf(page, wire, db)'
    <3> DEFINE free == [page EXCEPT !.loading = FALSE]
               p == IF yes THEN [Displays(free, r.of, r.status) EXCEPT !.crossed = TRUE] ELSE free
    <3>1. page' = p /\ wire' = wire \ {r} /\ db' = db /\ r.op = "open"
      BY <1>20 DEF RunOpened, Then
    <3>2. RunsShape(free) /\ free.gen = page.gen /\ free.rows = page.rows /\ free.shown = page.shown
      BY DEF RunsInv, RunsShape
    <3> HIDE DEF free
    <3>3. ASSUME yes
          PROVE  RunsShape(p) /\ p.gen = page.gen /\ p.rows = page.rows /\ p.shown # {} /\ Shown(p).run = r.of
      <4> DEFINE q == Displays(free, r.of, r.status)
      <4>1. RunsShape(q) /\ Shown(q).run = r.of /\ q.shown # {} /\ q.gen = page.gen /\ q.rows = page.rows
        BY <3>2, DisplaysIs
      <4> HIDE DEF q
      <4>2. p = [q EXCEPT !.crossed = TRUE]
        BY <3>3 DEF q
      <4> HIDE DEF p
      <4>3. RunsShape(p) /\ p.gen = page.gen /\ p.rows = page.rows /\ p.shown = q.shown
        BY <4>1, <4>2 DEF RunsShape
      <4> QED BY <4>1, <4>3 DEF Shown
    <3>4. ASSUME ~yes
          PROVE  p.gen = page.gen /\ p.rows = page.rows /\ p.shown = page.shown /\ Shown(p) = Shown(page)
      <4>1. p = free
        BY <3>4
      <4> HIDE DEF p
      <4>2. p.gen = page.gen /\ p.rows = page.rows /\ p.shown = page.shown
        BY ONLY <3>2, <4>1
      <4> QED BY ONLY <4>2 DEF Shown
    <3> HIDE DEF p
    <3>5. r.of \in KnownTo(db)
      BY <3>1 DEF RunsInv, RunCallsOf
    <3> QED BY <3>1, <3>3, <3>4, <3>5 DEF RunsInv, RunCallsOf
  <2>4. OneIsCurrent(page, wire)'
    BY <1>20, RunsAssumption DEF RunOpened, Then, Displays, RunsShape, RunsStored, Job, None,
      RunsInv, OneIsCurrent, Current, LoopOps, Shown, ClickedFor
  <2>5. CancelledAre(page, wire, db)'
    BY <1>20, RunsAssumption DEF RunOpened, Then, Displays, RunsShape, RunsStored, Job, None,
      RunsInv, CancelledAre, LoopOps, Current, Shown, ClickedFor
  <2>6. BusyWith(page, wire)'
    BY <1>20, RunsAssumption DEF RunOpened, Then, Displays, RunsShape, RunsStored, Job, None,
      RunsInv, BusyWith
  <2> QED BY <2>1, <2>2, <2>3, <2>4, <2>5, <2>6 DEF RunsInv
<1>21. ASSUME NEW r \in wire, NEW yes \in BOOLEAN, NEW path \in BOOLEAN, RunQueued(r, yes, path) PROVE RunsInv'
  <2>1. r.op = "simulate" /\ (yes => r.out = "ok")
    BY <1>21 DEF RunQueued
  <2>2. CASE ~yes
    <3> DEFINE p == [page EXCEPT !.loading = FALSE]
    <3>1. page' = p /\ wire' = (wire \ {r}) \cup {} /\ db' = db
      BY <1>21, <2>2 DEF RunQueued, Then
    <3>2. /\ RunsShape(p) /\ p.gen = page.gen /\ p.rows = page.rows /\ p.cancelled = page.cancelled
          /\ p.shown = page.shown /\ p.crossed = page.crossed /\ ~p.loading
      BY DEF RunsInv, RunsShape
    <3> HIDE DEF p
    <3>3. Shown(p) = Shown(page) /\ \A q \in Current(p, wire') : q \in Current(page, wire)
      BY <3>1, <3>2 DEF Shown, Current
    <3>4. AnswersTo(p, r, {}, wire')
      BY <3>2, <3>3, DisplayNow DEF AnswersTo
    <3> QED BY <3>1, <3>4, RunAnswered
  <2>3. CASE yes
    <3> DEFINE shown == Displays(page, r.of, "active")
               p == [shown EXCEPT !.job = FALSE, !.crossed = r.gen # page.gen]
               s == [Polling(r, r.of) EXCEPT !.path = path]
    <3>1. page' = p /\ wire' = (wire \ {r}) \cup {s} /\ db' = db
      BY <1>21, <2>3 DEF RunQueued, Then
    <3>2. /\ RunsShape(shown) /\ Shown(shown).run = r.of /\ shown.shown # {}
          /\ shown.gen = page.gen /\ shown.rows = page.rows /\ shown.loading = page.loading
          /\ shown.cancelled = page.cancelled
      BY DisplaysIs DEF RunsInv
    <3> HIDE DEF shown
    <3>3. /\ RunsShape(p) /\ p.shown = shown.shown /\ p.gen = page.gen /\ p.rows = page.rows
          /\ p.loading = page.loading /\ p.cancelled = page.cancelled /\ p.crossed = (r.gen # page.gen)
      BY <3>2 DEF RunsShape
    <3> HIDE DEF p
    <3>4. Shown(p).run = r.of
      BY <3>2, <3>3 DEF Shown
    <3>5. r.by = r.op /\ r.of \in KnownTo(db) /\ r.of = r.of /\ r.op \in ClickedFor
      BY <2>1, <2>3 DEF RunsInv, RunCallsOf, ClickedFor
    <3>6. FollowsFrom(r, s) /\ s.by = r.by
      BY <2>1, <2>3, <3>5, PollingFollows
    <3> HIDE DEF s
    <3>7. ASSUME r.gen = page.gen PROVE r \in Current(page, wire) /\ \A q \in Current(page, wire) : q = r
      BY <3>5, <3>7 DEF Current, RunsInv, OneIsCurrent
    <3>8. \A q \in Current(p, wire') : q.op \in LoopOps => p.crossed \/ Shown(p).run = q.of
      BY <3>1, <3>3, <3>4, <3>5, <3>6, <3>7 DEF Current, FollowsFrom
    <3>9. Shown(p).run \in p.cancelled => p.crossed
      BY <2>1, <2>3, <3>3, <3>4, <3>5, <3>7, RunsAssumption DEF RunsInv, CancelledAre
    <3>10. (\A q \in {s} : FollowsFrom(r, q)) /\ (\A q, t \in {s} : q = t) /\ \E q \in {s} : q.by \in {"simulate", "repair"}
      BY <2>1, <3>5, <3>6
    <3>11. /\ p.shown # {} => Shown(p).run \in KnownTo(db)
           /\ page.shown # {} => p.shown # {}
      BY <3>2, <3>3, <3>4, <3>5
    <3>12. AnswersTo(p, r, {s}, wire')
      BY <3>3, <3>8, <3>9, <3>10, <3>11 DEF AnswersTo
    <3> QED BY <3>1, <3>12, RunAnswered
  <2> QED BY <2>2, <2>3
<1> QED
  BY <1>1, <1>2, <1>3, <1>4, <1>5, <1>6, <1>7, <1>8, <1>9, <1>10, <1>11, <1>12, <1>13, <1>14,
    <1>15, <1>16, <1>17, <1>18, <1>19, <1>20, <1>21 DEF RunsNext


-----------------------------------------------------------------------------
(* The debugger *)

DebugShape(p) ==
    /\ p.at = "debug"
    /\ DOMAIN p = {"at", "analysis", "debugger", "trace", "timeline", "next", "current", "starting", "crossed", "calls"}
    /\ p.timeline \in Seq(Nat) /\ p.next \in Nat /\ p.trace \in BOOLEAN
DebugCallsOf(W) ==
    \A r \in W :
      /\ r.op \in {"get", "start", "trace"}
      /\ DOMAIN r = {"op", "starting", "cursor", "append", "out", "analysis", "debugger"}
      /\ r.cursor \in Nat /\ (r.op = "trace" => r.append \/ r.cursor = 0)

\* Who says that the debugger is being started has a call on its way that says so.
StartIsAsked(p, W) == p.starting => \E r \in W : r.op = "start"

\* Unless two pages were read at a time: one page of the trace is read at a time,
\* it is the next one or the first, and the timeline is as long as it says.
OnePageIsRead(p, W) ==
    ~p.crossed =>
      /\ \A r, q \in W : r.op = "trace" /\ q.op = "trace" => r = q
      /\ \A r \in W : r.op = "trace" /\ r.append => p.trace /\ r.cursor = p.next /\ p.next < Events
TimelineBegins(p) ==
    ~p.crossed =>
      /\ \A i \in 1 .. Len(p.timeline) : p.timeline[i] = i - 1
      /\ p.trace => p.next = Len(p.timeline) /\ p.next <= Events

DebugInv ==
    /\ DebugShape(page) /\ DebugCallsOf(wire) /\ StartIsAsked(page, wire)
    /\ OnePageIsRead(page, wire) /\ TimelineBegins(page)

\* The timeline is a prefix, and starting ends, as the runs ask.
LEMMA DebugHolds == DebugInv => TimelineIsAPrefix /\ StartingEnds
<1> SUFFICES ASSUME DebugInv PROVE TimelineIsAPrefix /\ StartingEnds
  OBVIOUS
<1>1. StartingEnds
  BY DEF DebugInv, StartIsAsked, StartingEnds, InFlight
<1>2. ~page.crossed => page.timeline = [i \in 1 .. Len(page.timeline) |-> i - 1]
  BY DEF DebugInv, DebugShape, TimelineBegins
<1>3. ~page.crossed /\ page.trace => page.next = Len(page.timeline)
  BY DEF DebugInv, TimelineBegins
<1> QED BY <1>1, <1>2, <1>3 DEF TimelineIsAPrefix

\* Nothing has been read when the debugger is mounted.
LEMMA DebugStart == DebugInit => DebugInv
<1> SUFFICES ASSUME DebugInit PROVE DebugInv
  OBVIOUS
<1>1. page = DebugMounted /\ wire = {DebugCall("get")}
  BY DEF DebugInit
<1>2. DebugShape(page) /\ ~page.starting /\ page.timeline = <<>> /\ ~page.trace
  BY <1>1, EventsAssumption DEF DebugMounted, DebugShape
<1>3. \A r \in wire : r = DebugCall("get")
  BY <1>1
<1>4. DebugCallsOf(wire) /\ \A r \in wire : r.op = "get"
  BY <1>3 DEF DebugCall, DebugCallsOf
<1> QED BY <1>2, <1>4 DEF DebugInv, StartIsAsked, OnePageIsRead, TimelineBegins

\* The debugger is read with a call of its own.
LEMMA GotIs ==
  ASSUME NEW p
  PROVE  DebugCallsOf({Got(p)}) /\ \A q \in {Got(p)} : q.op = "get"
<1>2. ASSUME NEW q, q = Got(p)
      PROVE  /\ q.op = "get" /\ q.cursor \in Nat
             /\ DOMAIN q = {"op", "starting", "cursor", "append", "out", "analysis", "debugger"}
  BY <1>2 DEF Got, DebugCall
<1> QED BY <1>2 DEF DebugCallsOf

\* Its effect reads the debugger at most.
LEMMA EffectIs ==
  ASSUME NEW p
  PROVE  DebugCallsOf(Effect(p)) /\ \A q \in Effect(p) : q.op = "get"
BY GotIs DEF Effect, DebugCallsOf

\* Starting is the only call of its kind.
LEMMA StartIs == DebugCallsOf({DebugCall("start")}) /\ \A q \in {DebugCall("start")} : q.op = "start"
BY DEF DebugCall, DebugCallsOf

\* A page of the timeline is asked for from a cursor on.
LEMMA TraceIs ==
  ASSUME NEW cursor \in Nat, NEW append \in BOOLEAN, append \/ cursor = 0
  PROVE  /\ DebugCallsOf({TraceCall(cursor, append)})
         /\ \A q \in {TraceCall(cursor, append)} : q.op = "trace" /\ q.cursor = cursor /\ q.append = append
<1>1. ASSUME NEW q, q = TraceCall(cursor, append)
      PROVE  /\ q.op = "trace" /\ q.cursor = cursor /\ q.append = append
             /\ DOMAIN q = {"op", "starting", "cursor", "append", "out", "analysis", "debugger"}
  BY <1>1 DEF TraceCall, DebugCall
<1> QED BY <1>1 DEF DebugCallsOf

\* What leaves the timeline alone and asks for no page of it keeps the invariant.
LEMMA TimelineStays ==
  ASSUME DebugInv, NEW p, DebugShape(p), p.timeline = page.timeline, p.next = page.next, p.trace = page.trace,
         p.crossed = page.crossed, NEW r, NEW more, DebugCallsOf(more), \A q \in more : q.op # "trace",
         page' = p, wire' = (wire \ {r}) \cup more, StartIsAsked(p, wire')
  PROVE  DebugInv'
<1>1. DebugCallsOf(wire')
  BY DEF DebugInv, DebugCallsOf
<1>2. OnePageIsRead(p, wire')
  BY DEF DebugInv, OnePageIsRead
<1>3. TimelineBegins(p)
  BY DEF DebugInv, TimelineBegins
<1> QED BY <1>1, <1>2, <1>3 DEF DebugInv

\* Every step keeps the invariant, whether the debugger is polled, refreshed or
\* read page by page.
LEMMA DebugStep ==
  ASSUME DebugInv, DebugNext
  PROVE  DebugInv'
<1>1. ASSUME RefreshDebugger PROVE DebugInv'
  BY <1>1 DEF RefreshDebugger, InDebugger, Call, Got, DebugCall, None, DebugInv, DebugShape,
    DebugCallsOf, StartIsAsked, OnePageIsRead, TimelineBegins
<1>2. ASSUME PollDebugger PROVE DebugInv'
  BY <1>2 DEF PollDebugger, InDebugger, Over, InFlight, Got, DebugCall, None, DebugInv,
    DebugShape, DebugCallsOf, StartIsAsked, OnePageIsRead, TimelineBegins
<1>3. ASSUME LoadMore PROVE DebugInv'
  <2> DEFINE p == MarkCrossed(page)
             c == TraceCall(page.next, TRUE)
  <2>1. /\ page.trace /\ page.next # Events /\ page' = [p EXCEPT !.calls = @ + 1] /\ wire' = wire \cup {c}
    BY <1>3 DEF LoadMore, Call
  <2>2. page.next \in Nat
    BY DEF DebugInv, DebugShape
  <2>3. DebugCallsOf({c}) /\ c.op = "trace" /\ c.cursor = page.next /\ c.append
    BY <2>2, TraceIs
  <2> HIDE DEF c
  <2>4. /\ DebugShape(page') /\ page'.timeline = page.timeline /\ page'.next = page.next /\ page'.trace = page.trace
        /\ page'.starting = page.starting
        /\ ~page'.crossed => ~page.crossed /\ ~\E r \in wire : r.op = "trace"
    BY <2>1 DEF DebugInv, DebugShape, MarkCrossed, InFlight
  <2>5. DebugCallsOf(wire') /\ StartIsAsked(page', wire')
    BY <2>1, <2>3, <2>4 DEF DebugInv, DebugCallsOf, StartIsAsked
  <2>6. TimelineBegins(page')
    BY <2>4 DEF DebugInv, TimelineBegins
  <2>7. ~page.crossed => page.next < Events
    BY <2>1, <2>2, EventsAssumption DEF DebugInv, TimelineBegins
  <2>8. OnePageIsRead(page', wire')
    BY <2>1, <2>3, <2>4, <2>7 DEF OnePageIsRead
  <2> QED BY <2>4, <2>5, <2>6, <2>8 DEF DebugInv
<1>4. ASSUME DebuggerReady PROVE DebugInv'
  BY <1>4 DEF DebuggerReady, DebugInv, DebugShape, DebugCallsOf, StartIsAsked, OnePageIsRead,
    TimelineBegins
<1>5. ASSUME NEW target \in {Into, OverCalls, Out, Continue}, Move(target) PROVE DebugInv'
  BY <1>5 DEF Move, InDebugger, Show, DebugInv, DebugShape, DebugCallsOf, StartIsAsked,
    OnePageIsRead, TimelineBegins
<1>6. ASSUME NEW i \in Positions, SelectEvent(i) PROVE DebugInv'
  BY <1>6 DEF SelectEvent, InDebugger, Show, DebugInv, DebugShape, DebugCallsOf, StartIsAsked,
    OnePageIsRead, TimelineBegins
<1>7. ASSUME NEW s \in {"succeeded", "failed"}, Analysed(s) PROVE DebugInv'
  BY <1>7 DEF Analysed, DebugInv, DebugShape, DebugCallsOf, StartIsAsked, OnePageIsRead,
    TimelineBegins
<1>8. ASSUME NEW r \in wire, DebuggerRead(r) PROVE DebugInv'
  <2> DEFINE p == [page EXCEPT !.analysis = r.analysis, !.debugger = r.debugger]
             start == r.analysis = "succeeded" /\ r.debugger = None /\ ~r.starting
  <2>1. r.op = "get"
    BY <1>8 DEF DebuggerRead
  <2>2. /\ DebugShape(p) /\ p.timeline = page.timeline /\ p.next = page.next /\ p.trace = page.trace
        /\ p.crossed = page.crossed /\ p.starting = page.starting
    BY DEF DebugInv, DebugShape
  <2>3. /\ start => Then(Starting(p, TRUE), r, {DebugCall("start")} \cup Effect(Starting(p, TRUE)))
        /\ ~start /\ r.debugger = "succeeded" => Then(MarkCrossed(p), r, {TraceCall(0, FALSE)})
        /\ ~start /\ r.debugger # "succeeded" => Then(p, r, {})
    BY <1>8 DEF DebuggerRead
  <2> HIDE DEF p, start
  <2>4. CASE start
    <3> DEFINE n == Starting(p, TRUE)
               more == {DebugCall("start")} \cup Effect(n)
    <3>1. page' = n /\ wire' = (wire \ {r}) \cup more
      BY <2>3, <2>4 DEF Then
    <3>2. DebugCallsOf(more) /\ (\A q \in more : q.op # "trace") /\ \E q \in more : q.op = "start"
      BY EffectIs, StartIs DEF DebugCallsOf
    <3> HIDE DEF more
    <3>3. /\ DebugShape(n) /\ n.timeline = page.timeline /\ n.next = page.next /\ n.trace = page.trace
          /\ n.crossed = page.crossed
      BY <2>2 DEF DebugShape, Starting
    <3> QED BY <3>1, <3>2, <3>3, TimelineStays DEF StartIsAsked
  <2>5. CASE ~start /\ r.debugger = "succeeded"
    <3> DEFINE c == TraceCall(0, FALSE)
               n == MarkCrossed(p)
    <3>1. page' = n /\ wire' = (wire \ {r}) \cup {c}
      BY <2>3, <2>5 DEF Then
    <3>2. DebugCallsOf({c}) /\ c.op = "trace" /\ ~c.append
      BY TraceIs
    <3> HIDE DEF c
    <3>3. /\ DebugShape(n) /\ n.timeline = page.timeline /\ n.next = page.next /\ n.trace = page.trace
          /\ n.starting = page.starting
          /\ ~n.crossed => ~page.crossed /\ ~\E q \in wire : q.op = "trace"
      BY <2>2 DEF DebugShape, MarkCrossed, InFlight
    <3> HIDE DEF n
    <3>4. DebugCallsOf(wire') /\ StartIsAsked(n, wire')
      BY <2>1, <3>1, <3>2, <3>3 DEF DebugInv, DebugCallsOf, StartIsAsked
    <3>5. TimelineBegins(n)
      BY <3>3 DEF DebugInv, TimelineBegins
    <3>6. OnePageIsRead(n, wire')
      BY <3>1, <3>2, <3>3 DEF OnePageIsRead
    <3> QED BY <3>1, <3>3, <3>4, <3>5, <3>6 DEF DebugInv
  <2>6. CASE ~start /\ r.debugger # "succeeded"
    <3>1. page' = p /\ wire' = (wire \ {r}) \cup {}
      BY <2>3, <2>6 DEF Then
    <3>2. StartIsAsked(p, wire')
      BY <2>1, <2>2, <3>1 DEF DebugInv, StartIsAsked
    <3>3. DebugCallsOf({}) /\ \A q \in {} : q.op # "trace"
      BY DEF DebugCallsOf
    <3> QED BY <2>2, <3>1, <3>2, <3>3, TimelineStays
  <2> QED BY <2>4, <2>5, <2>6
<1>9. ASSUME NEW r \in wire, DebuggerStarted(r) PROVE DebugInv'
  <2> DEFINE p == Starting(page, FALSE)
             more == Effect(p)
  <2>1. page' = p /\ wire' = (wire \ {r}) \cup more
    BY <1>9 DEF DebuggerStarted, Then
  <2>2. DebugCallsOf(more) /\ \A q \in more : q.op = "get"
    BY EffectIs
  <2> HIDE DEF more
  <2>3. /\ DebugShape(p) /\ p.timeline = page.timeline /\ p.next = page.next /\ p.trace = page.trace
        /\ p.crossed = page.crossed /\ ~p.starting
    BY DEF DebugInv, DebugShape, Starting
  <2> QED BY <2>1, <2>2, <2>3, TimelineStays DEF StartIsAsked
<1>10. ASSUME NEW r \in wire, DebuggerLost(r) PROVE DebugInv'
  <2> DEFINE p == IF r.append THEN page ELSE Starting(page, FALSE)
             more == IF r.append THEN {} ELSE Effect(Starting(page, FALSE))
  <2>1. page' = p /\ wire' = (wire \ {r}) \cup more /\ r.op # "start"
    BY <1>10 DEF DebuggerLost, Then
  <2>2. DebugCallsOf(more) /\ \A q \in more : q.op = "get"
    BY EffectIs DEF DebugCallsOf
  <2> HIDE DEF more
  <2>3. /\ DebugShape(p) /\ p.timeline = page.timeline /\ p.next = page.next /\ p.trace = page.trace
        /\ p.crossed = page.crossed /\ (p.starting => page.starting)
    BY DEF DebugInv, DebugShape, Starting
  <2>4. StartIsAsked(p, wire')
    BY <2>1, <2>3 DEF DebugInv, StartIsAsked
  <2> QED BY <2>1, <2>2, <2>3, <2>4, TimelineStays
<1>11. ASSUME NEW r \in wire, TraceArrives(r) PROVE DebugInv'
  <2> DEFINE now == TimelineWith(r)
             next == NextAfter(r.cursor)
  <2>1. /\ r.op = "trace" /\ wire' = wire \ {r}
        /\ page' = [page EXCEPT !.trace = TRUE, !.timeline = now, !.next = next,
                                !.crossed = @ /\ (r.append \/ \E q \in wire \ {r} : q.op = "trace")]
    BY <1>11 DEF TraceArrives, Then
  <2>2. r.cursor \in Nat /\ (r.append \/ r.cursor = 0) /\ page.timeline \in Seq(Nat)
    BY <2>1 DEF DebugInv, DebugCallsOf, DebugShape
  <2>3. /\ r.cursor \in Positions <=> r.cursor < Events
        /\ r.cursor + 1 \in Positions <=> r.cursor + 1 < Events
    BY <2>2, EventsAssumption DEF Positions
  <2>4. next \in Nat /\ (r.cursor < Events => next = r.cursor + 1)
    BY <2>2, <2>3, EventsAssumption DEF NextAfter
  <2>5. now \in Seq(Nat)
    BY <2>2 DEF TimelineWith, PageAt
  <2> HIDE DEF now, next
  <2>6. /\ DebugShape(page') /\ page'.timeline = now /\ page'.next = next /\ page'.trace
        /\ page'.starting = page.starting
        /\ page'.crossed = (page.crossed /\ (r.append \/ \E q \in wire \ {r} : q.op = "trace"))
    BY <2>1, <2>4, <2>5 DEF DebugInv, DebugShape
  <2>7. DebugCallsOf(wire') /\ StartIsAsked(page', wire')
    BY <2>1, <2>6 DEF DebugInv, DebugCallsOf, StartIsAsked
  <2>8. ~page'.crossed => \A q \in wire' : q.op # "trace"
    BY <2>1, <2>6 DEF DebugInv, OnePageIsRead
  <2>9. OnePageIsRead(page', wire')
    BY <2>8 DEF OnePageIsRead
  <2>10. TimelineBegins(page')
    <3>1. CASE ~r.append
      <4>1. now = <<0>> /\ r.cursor = 0
        BY <2>2, <2>3, <3>1, EventsAssumption DEF now, TimelineWith, PageAt
      <4>2. next = 1 /\ 1 <= Events
        BY <2>4, <4>1, EventsAssumption
      <4>3. Len(now) = 1 /\ now[1] = 0
        BY <4>1
      <4> QED BY <2>6, <4>2, <4>3 DEF TimelineBegins
    <3>2. CASE r.append /\ ~page.crossed
      <4>1. /\ r.cursor = Len(page.timeline) /\ r.cursor < Events
            /\ \A i \in 1 .. Len(page.timeline) : page.timeline[i] = i - 1
        BY <2>1, <3>2 DEF DebugInv, OnePageIsRead, TimelineBegins
      <4>2. now = page.timeline \o <<r.cursor>>
        BY <2>3, <3>2, <4>1 DEF now, TimelineWith, PageAt
      <4>3. /\ Len(now) = Len(page.timeline) + 1
            /\ \A i \in 1 .. Len(page.timeline) : now[i] = page.timeline[i]
            /\ now[Len(page.timeline) + 1] = r.cursor
        BY <2>2, <4>2
      <4>4. \A i \in 1 .. Len(now) : now[i] = i - 1
        <5>1. Len(page.timeline) \in Nat
          BY <2>2
        <5>2. ASSUME NEW i \in 1 .. Len(now) PROVE now[i] = i - 1
          <6>1. i \in 1 .. Len(page.timeline) \/ i = Len(page.timeline) + 1
            BY <4>3, <5>1
          <6> QED BY <4>1, <4>3, <5>1, <6>1
        <5> QED BY <5>2
      <4>5. next = Len(now) /\ next <= Events
        BY <2>2, <2>4, <4>1, <4>3, EventsAssumption
      <4> QED BY <2>6, <4>4, <4>5 DEF TimelineBegins
    <3>3. CASE r.append /\ page.crossed
      BY <2>6, <3>3 DEF TimelineBegins
    <3> QED BY <3>1, <3>2, <3>3
  <2> QED BY <2>6, <2>7, <2>9, <2>10 DEF DebugInv
<1>12. ASSUME NEW r \in wire, ServeDebugger(r) PROVE DebugInv'
  <2> DEFINE s == IF r.op = "get" THEN [r EXCEPT !.out = "ok", !.analysis = db.analysis, !.debugger = db.debugger]
                  ELSE [r EXCEPT !.out = "ok"]
  <2>1. page' = page /\ wire' = (wire \ {r}) \cup {s}
    BY <1>12 DEF ServeDebugger
  <2>2. /\ DOMAIN s = {"op", "starting", "cursor", "append", "out", "analysis", "debugger"}
        /\ s.op = r.op /\ s.cursor = r.cursor /\ s.append = r.append
    BY DEF DebugInv, DebugCallsOf
  <2> HIDE DEF s
  <2>3. DebugCallsOf(wire') /\ StartIsAsked(page, wire')
    BY <2>1, <2>2 DEF DebugInv, DebugCallsOf, StartIsAsked
  <2>4. OnePageIsRead(page, wire')
    BY <2>1, <2>2 DEF DebugInv, OnePageIsRead
  <2> QED BY <2>1, <2>3, <2>4 DEF DebugInv
<1> QED
  BY <1>1, <1>2, <1>3, <1>4, <1>5, <1>6, <1>7, <1>8, <1>9, <1>10, <1>11, <1>12 DEF DebugNext


-----------------------------------------------------------------------------
(* Historical replay: one of four pages is mounted *)

ReplayFields == {"op", "range", "picked", "after", "out", "status", "most"}

\* What is looked for, found and selected is of the ledgers that are chosen, but for
\* the contract of the URL.
WhenShape(p) ==
    /\ p.at = "when"
    /\ DOMAIN p = {"at", "named", "covered", "range", "queried", "window", "picked", "looking", "busy", "calls"}
WhenCalls(p, W) ==
    \A r \in W :
      /\ r.op \in {"coverage", "targets", "watch"} /\ DOMAIN r = ReplayFields
      /\ r.op = "coverage" => ~p.covered /\ p.range = None /\ p.window = None /\ p.picked \subseteq FromUrl(p.named)
      /\ r.op = "targets" => r.range = p.range
      /\ r.op = "watch" => \A x \in r.picked : x.range = r.range \/ x \in FromUrl(p.named)
OfTheChosen(p) ==
    /\ p.window \in {None, p.range}
    /\ \A x \in p.picked : x.range = p.range \/ x \in FromUrl(p.named)
WhenInv == WhenShape(page) /\ WhenCalls(page, wire) /\ OfTheChosen(page)

\* The form of an exact replay only creates one.
ExactInv == page.at = "exact" /\ \A r \in wire : r.op = "create"

\* A replay that is shown as active is asked for.
ReplayShape(p, W) ==
    /\ p.at = "replay" /\ DOMAIN p = {"at", "status", "lost", "busy", "calls"}
    /\ \A r \in W : r.op \in {"replay", "cancel", "analysis", "promote"} /\ DOMAIN r = ReplayFields
AskedFor(p, W) == p.status \in ActiveStatuses => p.lost \/ \E r \in W : r.op = "replay"
ReplayInv == ReplayShape(page, wire) /\ AskedFor(page, wire)

\* A timeline is read by one call at a time, page by page, and never shrinks.
TimelineShape(p, d) ==
    /\ p.at = "timeline"
    /\ DOMAIN p = {"at", "status", "events", "playhead", "playing", "lost", "busy", "calls"}
    /\ p.events \in Nat /\ p.playhead \in Nat /\ p.playhead <= LastEvent(p)
    /\ DOMAIN d = {"clipped", "known", "timeline", "replay"} /\ d.known \in Nat /\ p.events <= d.known
    /\ p.status = "ready" => d.timeline = "ready" /\ p.events = d.known
TimelineCalls(p, W, d) ==
    /\ \A r \in W :
         /\ r.op \in {"load", "fork"} /\ DOMAIN r = ReplayFields /\ r.after \in Nat
         /\ r.op = "fork" => r.after < d.known
         /\ r.op = "load" => r.after <= d.known
         /\ r.op = "load" /\ r.out = "ok" =>
              /\ r.most \in Nat /\ r.after <= r.most /\ r.most <= r.after + 1 /\ r.most <= d.known
              /\ r.most = r.after => p.events <= r.most /\ (r.status = "ready" => d.timeline = "ready" /\ r.most = d.known)
    /\ \A r, q \in W : r.op = "load" /\ q.op = "load" => r = q
TimelineInv == TimelineShape(page, db) /\ TimelineCalls(page, wire, db)

ReplaysInv == WhenInv \/ ExactInv \/ ReplayInv \/ TimelineInv

\* What the runs ask of these pages.
LEMMA ReplaysHold == ReplaysInv => WatchesWhatWasFound /\ ActiveIsPolled /\ ReadyIsComplete
<1>1. WhenInv => WatchesWhatWasFound /\ ActiveIsPolled /\ ReadyIsComplete
  BY DEF WhenInv, WhenShape, WhenCalls, OfTheChosen, WatchesWhatWasFound, ActiveIsPolled, ReadyIsComplete
<1>2. ExactInv => WatchesWhatWasFound /\ ActiveIsPolled /\ ReadyIsComplete
  BY DEF ExactInv, WatchesWhatWasFound, ActiveIsPolled, ReadyIsComplete
<1>3. ReplayInv => WatchesWhatWasFound /\ ActiveIsPolled /\ ReadyIsComplete
  BY DEF ReplayInv, ReplayShape, AskedFor, WatchesWhatWasFound, ActiveIsPolled, ReadyIsComplete, InFlight
<1>4. TimelineInv => WatchesWhatWasFound /\ ActiveIsPolled /\ ReadyIsComplete
  BY DEF TimelineInv, TimelineShape, TimelineCalls, WatchesWhatWasFound, ActiveIsPolled, ReadyIsComplete
<1> QED BY <1>1, <1>2, <1>3, <1>4 DEF ReplaysInv

\* A call of these pages carries nothing before it is answered.
LEMMA ReplayCallIs ==
  ASSUME NEW op, NEW r, r = ReplayCall(op)
  PROVE  /\ r.op = op /\ DOMAIN r = ReplayFields /\ r.range = None /\ r.picked = {} /\ r.after = 0
         /\ r.out = "sent" /\ r.status = None /\ r.most = 0
BY DEF ReplayCall, ReplayFields

\* Every page begins with the call it needs.
LEMMA ReplaysStart == ReplaysInit => ReplaysInv
<1> SUFFICES ASSUME ReplaysInit PROVE ReplaysInv
  OBVIOUS
<1>1. PICK u \in ReplayRoutes : Mounting(ReplayRoute(u))
  BY DEF ReplaysInit
<1>2. DOMAIN db = {"clipped", "known", "timeline", "replay"} /\ db.known = 0
  BY DEF ReplaysInit
<1>3. ReplayRoute(u) \in {"when", "exact", "replay", "timeline"}
  BY DEF ReplayRoute
<1>4. CASE ReplayRoute(u) = "when"
  <2>1. PICK t \in (Sought \cap Targets) \cup {None} :
          page = WhenMounted(t) /\ \A r \in wire : r = ReplayCall("coverage")
    BY <1>1, <1>4 DEF Mounting
  <2>2. \A r \in wire : r.op = "coverage" /\ DOMAIN r = ReplayFields
    BY <2>1, ReplayCallIs
  <2> QED BY <2>1, <2>2 DEF WhenMounted, ReplaysInv, WhenInv, WhenShape, WhenCalls, OfTheChosen
<1>5. CASE ReplayRoute(u) = "exact"
  <2>1. page \in {ExactMounted(m) : m \in {"transaction", "window"}} /\ wire = {}
    BY <1>1, <1>5 DEF Mounting
  <2> QED BY <2>1 DEF ExactMounted, ReplaysInv, ExactInv
<1>6. CASE ReplayRoute(u) = "replay"
  <2>1. page = ReplayMounted /\ \A r \in wire : r = ReplayCall("replay")
    BY <1>1, <1>6 DEF Mounting
  <2>2. \A r \in wire : r.op = "replay" /\ DOMAIN r = ReplayFields
    BY <2>1, ReplayCallIs
  <2> QED BY <2>1, <2>2 DEF ReplayMounted, ReplaysInv, ReplayInv, ReplayShape, AskedFor, ActiveStatuses, None
<1>7. CASE ReplayRoute(u) = "timeline"
  <2>1. page = TimelineMounted /\ wire = {ReplayCall("load")}
    BY <1>1, <1>7 DEF Mounting
  <2>2. \A r \in wire : r.op = "load" /\ DOMAIN r = ReplayFields /\ r.after = 0 /\ r.out = "sent"
    BY <2>1, ReplayCallIs
  <2>3. TimelineShape(page, db)
    BY <1>2, <2>1 DEF TimelineMounted, TimelineShape, LastEvent, None
  <2>4. TimelineCalls(page, wire, db)
    BY <1>2, <2>1, <2>2 DEF TimelineCalls
  <2> QED BY <2>3, <2>4 DEF ReplaysInv, TimelineInv
<1> QED BY <1>3, <1>4, <1>5, <1>6, <1>7

\* The steps of each page.
WhenActs ==
    \/ \E range \in {"all", "some"} : ChoosePeriod(range)
    \/ SearchTargets \/ Watch
    \/ \E t \in Targets : ToggleTarget(t)
    \/ \E r \in wire : Created(r)
    \/ \E r \in wire, yes \in BOOLEAN : Covered(r, yes)
    \/ \E r \in wire, yes \in BOOLEAN : TargetsFound(r, yes)
ReplayActs ==
    \/ CancelReplay \/ Promote \/ ReplayEnds
    \/ \E traces, named : AnalyzeReplay(traces, named)
    \/ \E r \in wire : ReplayCancelled(r)
    \/ \E r \in wire : Created(r)
    \/ \E r \in wire : ServeReplay(r)
    \/ \E r \in wire, yes \in BOOLEAN : ReplayArrives(r, yes)
TimelineActs ==
    \/ \E i \in {0, LastEvent(page)} : MovePlayhead(i)
    \/ \E i \in 0 .. Interactions - 1 : SelectInteraction(i)
    \/ PlayOrPause \/ PlayheadMoves \/ PlayingEnds \/ ForkTimeline \/ Indexed \/ IndexReady
    \/ \E r \in wire : Created(r)
    \/ \E r \in wire : ServeReplay(r)
    \/ \E r \in wire, yes \in BOOLEAN : TimelineArrives(r, yes)
ExactActs ==
    \/ \E m \in {"transaction", "window"} : ChooseReplayMode(m)
    \/ \E filled : SubmitReplay(filled)
    \/ \E r \in wire : Created(r)

\* Every step of the choice of a period keeps its invariant.
LEMMA WhenStep ==
  ASSUME WhenInv, WhenActs
  PROVE  WhenInv'
<1>1. ASSUME NEW range \in {"all", "some"}, ChoosePeriod(range) PROVE WhenInv'
  <2>1. WhenShape(page)'
    BY <1>1 DEF ChoosePeriod, InWhen, Ranged, None, Show, Look, ReplayCall, WhenShape, WhenCalls,
      ReplayFields, WhenInv
  <2>2. WhenCalls(page, wire)'
    <3> DEFINE p == [page EXCEPT !.window = None, !.picked = {}, !.calls = @ + 1]
               n == [p EXCEPT !.range = range]
               c == [ReplayCall("targets") EXCEPT !.range = n.range]
    <3>0. page.covered /\ \A r \in wire : r.op # "coverage"
      BY <1>1 DEF ChoosePeriod, WhenInv, WhenCalls
    <3>1. WhenShape(p) /\ p.range = page.range /\ p.window = None /\ p.picked = {} /\ p.named = page.named
      BY DEF WhenInv, WhenShape
    <3>2. Ranged(p, range)
      BY <1>1 DEF ChoosePeriod
    <3> HIDE DEF p
    <3>3. CASE range = page.range
      <4>1. page' = p /\ wire' = wire
        BY <3>1, <3>2, <3>3 DEF Ranged, Show
      <4> QED BY <3>0, <3>1, <4>1 DEF WhenInv, WhenCalls
    <3>4. CASE range # page.range
      <4>1. page' = [n EXCEPT !.looking = TRUE] /\ wire' = {r \in wire : r.op # "targets"} \cup {c}
        BY <3>2, <3>4 DEF Ranged, Look
      <4>2. /\ n.range = range /\ page'.range = range /\ page'.window = None /\ page'.picked = {}
            /\ page'.named = page.named
        BY <3>1, <4>1 DEF WhenShape
      <4> HIDE DEF n
      <4>3. c.op = "targets" /\ DOMAIN c = ReplayFields /\ c.range = range
        BY <4>2 DEF ReplayCall, ReplayFields
      <4> HIDE DEF c
      <4> QED BY <3>0, <4>1, <4>2, <4>3 DEF WhenInv, WhenCalls
    <3> QED BY <3>1, <3>3, <3>4
  <2>3. OfTheChosen(page)'
    BY <1>1 DEF ChoosePeriod, InWhen, Ranged, None, Show, Look, ReplayCall, WhenShape, WhenCalls,
      ReplayFields, WhenInv, OfTheChosen
  <2> QED BY <2>1, <2>2, <2>3 DEF WhenInv
<1>2. ASSUME SearchTargets PROVE WhenInv'
  BY <1>2 DEF SearchTargets, InWhen, None, Look, ReplayCall, WhenInv, WhenShape, WhenCalls,
    ReplayFields, OfTheChosen
<1>3. ASSUME Watch PROVE WhenInv'
  BY ZenonT(60), <1>3 DEF Watch, CanWatch, Call, ReplayCall, InWhen, None, WhenInv, WhenShape, WhenCalls,
    ReplayFields, OfTheChosen
<1>4. ASSUME NEW t \in Targets, ToggleTarget(t) PROVE WhenInv'
  BY <1>4 DEF ToggleTarget, InWhen, None, Show, WhenInv, WhenShape, WhenCalls, ReplayFields,
    OfTheChosen
<1>5. ASSUME NEW r \in wire, Created(r) PROVE WhenInv'
  BY <1>5 DEF Created, Then, WhenInv, WhenShape, WhenCalls, ReplayFields, None, OfTheChosen
<1>6. ASSUME NEW r \in wire, NEW yes \in BOOLEAN, Covered(r, yes) PROVE WhenInv'
  <2>1. WhenShape(page)'
    BY <1>6 DEF Covered, Then, ReplayCall, None, WhenShape, WhenCalls, ReplayFields, WhenInv
  <2>2. WhenCalls(page, wire)'
    <3>1. r.op = "coverage" /\ page.window = None /\ page.picked \subseteq FromUrl(page.named)
      BY <1>6 DEF Covered, WhenInv, WhenCalls
    <3>2. CASE ~yes
      <4>1. page' = page /\ wire' = wire \ {r}
        BY <1>6, <3>2 DEF Covered, Then
      <4> QED BY <4>1 DEF WhenInv, WhenCalls
    <3>3. CASE yes
      <4>1. PICK x \in Periods :
              /\ page' = [page EXCEPT !.covered = TRUE, !.range = db.clipped[x], !.looking = TRUE]
              /\ wire' = {[ReplayCall("targets") EXCEPT !.range = db.clipped[x]]}
        BY <1>6, <3>3 DEF Covered
      <4> DEFINE c == [ReplayCall("targets") EXCEPT !.range = db.clipped[x]]
      <4>2. c.op = "targets" /\ DOMAIN c = ReplayFields /\ c.range = db.clipped[x]
        BY DEF ReplayCall, ReplayFields
      <4>3. wire' = {c}
        BY <4>1
      <4> HIDE DEF c
      <4>4. page'.range = db.clipped[x]
        BY <4>1 DEF WhenInv, WhenShape
      <4> QED BY <4>2, <4>3, <4>4 DEF WhenCalls
    <3> QED BY <3>2, <3>3
  <2>3. OfTheChosen(page)'
    BY <1>6 DEF Covered, Then, ReplayCall, None, WhenShape, WhenCalls, ReplayFields, WhenInv,
      OfTheChosen
  <2> QED BY <2>1, <2>2, <2>3 DEF WhenInv
<1>7. ASSUME NEW r \in wire, NEW yes \in BOOLEAN, TargetsFound(r, yes) PROVE WhenInv'
  BY <1>7 DEF TargetsFound, Then, WhenInv, WhenShape, WhenCalls, ReplayFields, None, OfTheChosen
<1> QED
  BY <1>1, <1>2, <1>3, <1>4, <1>5, <1>6, <1>7 DEF WhenActs

\* Every step of the page of a running replay keeps its invariant: it is polled
\* as long as it is active.
LEMMA ReplayStep ==
  ASSUME ReplayInv, ReplayActs
  PROVE  ReplayInv'
<1>1. ASSUME CancelReplay PROVE ReplayInv'
  BY <1>1 DEF CancelReplay, InReplay, ActiveStatuses, Call, ReplayCall, None, ReplayInv,
    ReplayShape, ReplayFields, AskedFor
<1>2. ASSUME Promote PROVE ReplayInv'
  BY <1>2 DEF Promote, InReplay, Call, ReplayCall, None, ReplayInv, ReplayShape, ReplayFields,
    AskedFor, ActiveStatuses
<1>3. ASSUME NEW traces, NEW named, AnalyzeReplay(traces, named) PROVE ReplayInv'
  BY <1>3 DEF AnalyzeReplay, CanAnalyzeReplay, Call, ReplayCall, InReplay, None, ReplayInv,
    ReplayShape, ReplayFields, AskedFor, ActiveStatuses
<1>4. ASSUME NEW r \in wire, ReplayCancelled(r) PROVE ReplayInv'
  BY <1>4 DEF ReplayCancelled, Then, ReplayInv, ReplayShape, ReplayFields, AskedFor,
    ActiveStatuses
<1>5. ASSUME NEW r \in wire, Created(r) PROVE ReplayInv'
  BY <1>5 DEF Created, Then, ReplayInv, ReplayShape, ReplayFields, AskedFor, ActiveStatuses
<1>6. ASSUME NEW r \in wire, ServeReplay(r) PROVE ReplayInv'
  <2>1. ReplayShape(page, wire)'
    BY <1>6 DEF ServeReplay, ReplayShape, ReplayFields, AskedFor, ActiveStatuses, ReplayInv
  <2>2. AskedFor(page, wire)'
    <3>1. page' = page /\ \E s : s.op = r.op /\ wire' = (wire \ {r}) \cup {s}
      <4> DEFINE s == [r EXCEPT !.out = "ok", !.status = IF r.op = "load" THEN db.timeline ELSE db.replay,
                                !.most = IF r.op # "load" THEN 0 ELSE IF db.known > r.after THEN r.after + 1 ELSE r.after]
      <4>1. page' = page /\ wire' = (wire \ {r}) \cup {s}
        BY <1>6 DEF ServeReplay
      <4>2. s.op = r.op
        BY DEF ReplayInv, ReplayShape, ReplayFields
      <4> QED BY <4>1, <4>2
    <3> QED BY <3>1 DEF ReplayInv, AskedFor
  <2> QED BY <2>1, <2>2 DEF ReplayInv
<1>7. ASSUME NEW r \in wire, NEW yes \in BOOLEAN, ReplayArrives(r, yes) PROVE ReplayInv'
  <2>1. ReplayShape(page, wire)'
    BY <1>7 DEF ReplayArrives, Then, PollsReplay, ActiveStatuses, ReplayCall, None, ReplayShape,
      ReplayFields, AskedFor, ReplayInv
  <2>2. AskedFor(page, wire)'
    <3>1. CASE yes
      <4> DEFINE p == [page EXCEPT !.status = r.status]
      <4>1. page' = p /\ wire' = (wire \ {r}) \cup PollsReplay(p)
        BY <1>7, <3>1 DEF ReplayArrives, Then
      <4> HIDE DEF p
      <4>2. p.status \in ActiveStatuses => ReplayCall("replay") \in wire'
        BY <4>1 DEF PollsReplay
      <4>3. ReplayCall("replay").op = "replay"
        BY ReplayCallIs
      <4> QED BY <4>1, <4>2, <4>3 DEF AskedFor
    <3>2. CASE ~yes
      <4>1. page' = [page EXCEPT !.lost = TRUE]
        BY <1>7, <3>2 DEF ReplayArrives, Then
      <4> QED BY <4>1 DEF ReplayInv, ReplayShape, AskedFor
    <3> QED BY <3>1, <3>2
  <2> QED BY <2>1, <2>2 DEF ReplayInv
<1>8. ASSUME ReplayEnds PROVE ReplayInv'
  BY <1>8 DEF ReplayEnds, ReplayInv, ReplayShape, ReplayFields, AskedFor, ActiveStatuses
<1> QED
  BY <1>1, <1>2, <1>3, <1>4, <1>5, <1>6, <1>7, <1>8 DEF ReplayActs

\* Every step of the timeline keeps its invariant, in however many pages the
\* interactions come.
LEMMA TimelineStep ==
  ASSUME TimelineInv, TimelineActs
  PROVE  TimelineInv'
<1>1. ASSUME NEW i \in {0, LastEvent(page)}, MovePlayhead(i) PROVE TimelineInv'
  BY <1>1 DEF MovePlayhead, InTimeline, Show, None, TimelineInv, TimelineShape, LastEvent,
    TimelineCalls, ReplayFields
<1>2. ASSUME NEW i \in 0 .. Interactions - 1, SelectInteraction(i) PROVE TimelineInv'
  BY <1>2 DEF SelectInteraction, InTimeline, Show, None, TimelineInv, TimelineShape, LastEvent,
    TimelineCalls, ReplayFields
<1>3. ASSUME PlayOrPause PROVE TimelineInv'
  BY <1>3 DEF PlayOrPause, InTimeline, Show, None, TimelineInv, TimelineShape, LastEvent,
    TimelineCalls, ReplayFields
<1>4. ASSUME PlayheadMoves PROVE TimelineInv'
  BY <1>4 DEF PlayheadMoves, InTimeline, LastEvent, Show, None, TimelineInv, TimelineShape,
    TimelineCalls, ReplayFields
<1>5. ASSUME PlayingEnds PROVE TimelineInv'
  BY <1>5 DEF PlayingEnds, InTimeline, LastEvent, Show, None, TimelineInv, TimelineShape,
    TimelineCalls, ReplayFields
<1>6. ASSUME ForkTimeline PROVE TimelineInv'
  BY <1>6 DEF ForkTimeline, CanForkTimeline, Call, ReplayCall, InTimeline, None, TimelineInv,
    TimelineShape, LastEvent, TimelineCalls, ReplayFields
<1>7. ASSUME NEW r \in wire, Created(r) PROVE TimelineInv'
  BY <1>7 DEF Created, Then, TimelineInv, TimelineShape, LastEvent, TimelineCalls, ReplayFields
<1>8. ASSUME NEW r \in wire, ServeReplay(r) PROVE TimelineInv'
  <2>1. TimelineShape(page, db)'
    BY <1>8 DEF ServeReplay, TimelineShape, LastEvent, TimelineCalls, ReplayFields, TimelineInv
  <2>2. TimelineCalls(page, wire, db)'
    <3> DEFINE most == IF db.known > r.after THEN r.after + 1 ELSE r.after
               s == [r EXCEPT !.out = "ok", !.status = IF r.op = "load" THEN db.timeline ELSE db.replay,
                              !.most = IF r.op # "load" THEN 0 ELSE IF db.known > r.after THEN r.after + 1 ELSE r.after]
    <3>1. r.op = "load" /\ r.out = "sent" /\ page' = page /\ db' = db /\ wire' = (wire \ {r}) \cup {s}
      BY <1>8 DEF ServeReplay, TimelineInv, TimelineCalls
    <3>2. r.after \in Nat /\ r.after <= db.known /\ db.known \in Nat /\ page.events <= db.known /\ page.events \in Nat
      BY <3>1 DEF TimelineInv, TimelineShape, TimelineCalls
    <3>3. s.op = "load" /\ DOMAIN s = ReplayFields /\ s.after = r.after /\ s.status = db.timeline /\ s.most = most
      BY <3>1 DEF TimelineInv, TimelineCalls, ReplayFields
    <3> HIDE DEF s
    <3>4. /\ most \in Nat /\ r.after <= most /\ most <= r.after + 1 /\ most <= db.known
          /\ most = r.after => page.events <= most /\ most = db.known
      BY <3>2
    <3> HIDE DEF most
    <3>5. ASSUME NEW q \in wire'
          PROVE  /\ q.op \in {"load", "fork"} /\ DOMAIN q = ReplayFields /\ q.after \in Nat
                 /\ q.op = "fork" => q.after < db.known
                 /\ q.op = "load" => q.after <= db.known
                 /\ q.op = "load" /\ q.out = "ok" =>
                      /\ q.most \in Nat /\ q.after <= q.most /\ q.most <= q.after + 1 /\ q.most <= db.known
                      /\ q.most = q.after =>
                           page.events <= q.most /\ (q.status = "ready" => db.timeline = "ready" /\ q.most = db.known)
      <4>1. CASE q = s
        BY <3>2, <3>3, <3>4, <4>1
      <4>2. CASE q \in wire
        BY <4>2 DEF TimelineInv, TimelineCalls
      <4> QED BY <3>1, <4>1, <4>2
    <3>6. \A q, t \in wire' : q.op = "load" /\ t.op = "load" => q = t
      BY <3>1, <3>3 DEF TimelineInv, TimelineCalls
    <3> QED BY <3>1, <3>5, <3>6 DEF TimelineCalls
  <2> QED BY <2>1, <2>2 DEF TimelineInv
<1>9. ASSUME NEW r \in wire, NEW yes \in BOOLEAN, TimelineArrives(r, yes) PROVE TimelineInv'
  <2>1. r.op = "load" /\ (yes => r.out = "ok")
    BY <1>9 DEF TimelineArrives
  <2>2. \A q \in wire : q.op = "load" => q = r
    BY <2>1 DEF TimelineInv, TimelineCalls
  <2>3. /\ ~yes => Then([page EXCEPT !.lost = TRUE], r, {})
        /\ yes /\ MoreFollow(r) => Then(page, r, {[ReplayCall("load") EXCEPT !.after = r.after + 1]})
        /\ yes /\ ~MoreFollow(r) => Then([page EXCEPT !.status = r.status, !.events = r.most], r,
                                         IF r.status \in LoadingStatuses THEN {ReplayCall("load")} ELSE {})
    BY <1>9 DEF TimelineArrives
  <2>4. CASE ~yes
    <3>1. page' = [page EXCEPT !.lost = TRUE] /\ wire' = wire \ {r} /\ db' = db
      BY <2>3, <2>4 DEF Then
    <3> QED BY <3>1 DEF TimelineInv, TimelineShape, TimelineCalls, LastEvent
  <2>5. r.after \in Nat /\ db.known \in Nat /\ page.events \in Nat /\ page.playhead \in Nat
    BY DEF TimelineInv, TimelineShape, TimelineCalls
  <2>6. CASE yes /\ MoreFollow(r)
    <3> DEFINE c == [ReplayCall("load") EXCEPT !.after = r.after + 1]
    <3>1. page' = page /\ wire' = (wire \ {r}) \cup {c} /\ db' = db
      BY <2>3, <2>6 DEF Then
    <3>2. c.op = "load" /\ DOMAIN c = ReplayFields /\ c.after = r.after + 1 /\ c.out = "sent"
      BY DEF ReplayCall, ReplayFields
    <3> HIDE DEF c
    <3>3. r.after + 1 <= db.known /\ r.after + 1 \in Nat
      BY <2>1, <2>5, <2>6 DEF TimelineInv, TimelineCalls, MoreFollow
    <3>4. TimelineCalls(page, wire', db)
      BY <2>2, <3>1, <3>2, <3>3 DEF TimelineInv, TimelineCalls
    <3> QED BY <3>1, <3>4 DEF TimelineInv
  <2>7. CASE yes /\ ~MoreFollow(r)
    <3> DEFINE more == IF r.status \in LoadingStatuses THEN {ReplayCall("load")} ELSE {}
    <3>1. page' = [page EXCEPT !.status = r.status, !.events = r.most] /\ wire' = (wire \ {r}) \cup more /\ db' = db
      BY <2>3, <2>7 DEF Then
    <3>2. \A q \in more : q.op = "load" /\ DOMAIN q = ReplayFields /\ q.after = 0 /\ q.out = "sent"
      BY ReplayCallIs
    <3>3. \A q, t \in more : q = t
      OBVIOUS
    <3> HIDE DEF more
    <3>4. /\ r.most \in Nat /\ r.most <= db.known /\ page.events <= r.most
          /\ r.status = "ready" => db.timeline = "ready" /\ r.most = db.known
      <4>1. r.most = r.after
        BY <2>1, <2>5, <2>7 DEF TimelineInv, TimelineCalls, MoreFollow
      <4> QED BY <2>1, <2>7, <4>1 DEF TimelineInv, TimelineCalls
    <3>5. /\ page'.at = "timeline" /\ page'.events = r.most /\ page'.status = r.status /\ page'.playhead = page.playhead
          /\ DOMAIN page' = DOMAIN page
      BY <3>1 DEF TimelineInv, TimelineShape
    <3>6. LastEvent(page) <= LastEvent(page') /\ LastEvent(page) \in Nat /\ LastEvent(page') \in Nat
      BY <2>5, <3>4, <3>5 DEF LastEvent
    <3>7. page.playhead <= LastEvent(page')
      BY <2>5, <3>6 DEF TimelineInv, TimelineShape
    <3>8. TimelineShape(page', db)
      BY <3>4, <3>5, <3>7 DEF TimelineInv, TimelineShape
    <3>9. \A q \in wire' : q \in more \/ (q \in wire /\ q.op = "fork")
      BY <2>1, <2>2, <3>1 DEF TimelineInv, TimelineCalls
    <3>10. TimelineCalls(page', wire', db)
      <4>1. \A q \in wire : q.op = "fork" => DOMAIN q = ReplayFields /\ q.after \in Nat /\ q.after < db.known
        BY DEF TimelineInv, TimelineCalls
      <4>2. \A q, t \in wire' : q.op = "load" /\ t.op = "load" => q = t
        BY <3>2, <3>3, <3>9
      <4> QED BY <2>5, <3>2, <3>9, <4>1, <4>2 DEF TimelineCalls
    <3> QED BY <3>1, <3>8, <3>10 DEF TimelineInv
  <2> QED BY <2>4, <2>6, <2>7
<1>10. ASSUME Indexed PROVE TimelineInv'
  BY <1>10 DEF Indexed, TimelineInv, TimelineShape, LastEvent, TimelineCalls, ReplayFields
<1>11. ASSUME IndexReady PROVE TimelineInv'
  BY <1>11 DEF IndexReady, TimelineInv, TimelineShape, LastEvent, TimelineCalls, ReplayFields
<1> QED
  BY <1>1, <1>2, <1>3, <1>4, <1>5, <1>6, <1>7, <1>8, <1>9, <1>10, <1>11 DEF TimelineActs

\* Every step of the form of an exact replay keeps its invariant.
LEMMA ExactStep ==
  ASSUME ExactInv, ExactActs
  PROVE  ExactInv'
<1>1. ASSUME NEW m \in {"transaction", "window"}, ChooseReplayMode(m) PROVE ExactInv'
  BY <1>1 DEF ChooseReplayMode, InExact, Show, ExactInv
<1>2. ASSUME NEW filled, SubmitReplay(filled) PROVE ExactInv'
  BY <1>2 DEF SubmitReplay, CanReplay, Call, ReplayCall, InExact, None, ExactInv
<1>3. ASSUME NEW r \in wire, Created(r) PROVE ExactInv'
  BY <1>3 DEF Created, Then, ExactInv
<1> QED
  BY <1>1, <1>2, <1>3 DEF ExactActs

\* Of what the pages share, the mounted one takes its own steps.
LEMMA ReplaysStep ==
  ASSUME ReplaysInv, ReplaysNext
  PROVE  ReplaysInv'
<1>1. CASE WhenInv
  <2>1. page.at = "when" /\ \A r \in wire : r.op \in {"coverage", "targets", "watch"}
    BY <1>1 DEF WhenInv, WhenShape, WhenCalls
  <2>2. WhenActs
    BY <2>1 DEF ReplaysNext, WhenActs, CancelReplay, Promote, ChooseReplayMode, SubmitReplay, CanReplay, InExact,
      AnalyzeReplay, CanAnalyzeReplay, InReplay, SelectInteraction, PlayOrPause, PlayheadMoves, PlayingEnds,
      ForkTimeline, CanForkTimeline, InTimeline, ReplayCancelled, ServeReplay, ReplayArrives, TimelineArrives
  <2> QED BY <1>1, <2>2, WhenStep DEF ReplaysInv
<1>2. CASE ReplayInv
  <2>1. page.at = "replay" /\ \A r \in wire : r.op \in {"replay", "cancel", "analysis", "promote"}
    BY <1>2 DEF ReplayInv, ReplayShape
  <2>2. ReplayActs
    BY <2>1 DEF ReplaysNext, ReplayActs, ChoosePeriod, SearchTargets, ToggleTarget, Watch, CanWatch, InWhen,
      ChooseReplayMode, SubmitReplay, CanReplay, InExact, SelectInteraction, PlayOrPause, PlayheadMoves,
      PlayingEnds, ForkTimeline, CanForkTimeline, InTimeline, Covered, TargetsFound, TimelineArrives
  <2> QED BY <1>2, <2>2, ReplayStep DEF ReplaysInv
<1>3. CASE TimelineInv
  <2>1. page.at = "timeline" /\ \A r \in wire : r.op \in {"load", "fork"}
    BY <1>3 DEF TimelineInv, TimelineShape, TimelineCalls
  <2>2. TimelineActs
    BY <2>1 DEF ReplaysNext, TimelineActs, ChoosePeriod, SearchTargets, ToggleTarget, Watch, CanWatch, InWhen,
      ChooseReplayMode, SubmitReplay, CanReplay, InExact, CancelReplay, Promote, AnalyzeReplay, CanAnalyzeReplay,
      InReplay, ReplayCancelled, ReplayArrives, Covered, TargetsFound
  <2> QED BY <1>3, <2>2, TimelineStep DEF ReplaysInv
<1>4. CASE ExactInv
  <2>1. page.at = "exact" /\ \A r \in wire : r.op = "create"
    BY <1>4 DEF ExactInv
  <2>2. ExactActs
    BY <2>1 DEF ReplaysNext, ExactActs, ChoosePeriod, SearchTargets, ToggleTarget, Watch, CanWatch, InWhen,
      CancelReplay, Promote, AnalyzeReplay, CanAnalyzeReplay, InReplay, SelectInteraction, PlayOrPause,
      PlayheadMoves, PlayingEnds, ForkTimeline, CanForkTimeline, InTimeline, ReplayCancelled, ServeReplay,
      ReplayArrives, TimelineArrives, Covered, TargetsFound
  <2> QED BY <1>4, <2>2, ExactStep DEF ReplaysInv
<1> QED BY <1>1, <1>2, <1>3, <1>4 DEF ReplaysInv

-----------------------------------------------------------------------------
(* Sums over finite sets *)

\* The recursion of Sums has a solution.
LEMMA SumsExist ==
  ASSUME NEW f, IsFiniteSet(DOMAIN f)
  PROVE  \E g : g = [S \in SUBSET DOMAIN f |-> IF S = {} THEN 0 ELSE f[One(S)] + g[S \ {One(S)}]]
<1> DEFINE Small(n) == {S \in SUBSET DOMAIN f : Cardinality(S) <= n}
           Solves(g, n) == g = [S \in Small(n) |-> IF S = {} THEN 0 ELSE f[One(S)] + g[S \ {One(S)}]]
           N == {n \in Nat : \E g : Solves(g, n)}
<1>1. \A S \in SUBSET DOMAIN f : Cardinality(S) \in Nat /\ IsFiniteSet(S)
  BY FS_Subset, FS_CardinalityType
<1>2. \A S \in SUBSET DOMAIN f :
        S # {} => One(S) \in S /\ Cardinality(S \ {One(S)}) = Cardinality(S) - 1
  BY <1>1, FS_RemoveElement DEF One
<1>3. 0 \in N
  <2> DEFINE g == [S \in Small(0) |-> 0]
  <2>1. \A S \in Small(0) : S = {}
    BY <1>1, FS_EmptySet
  <2>2. Solves(g, 0)
    BY <2>1
  <2> QED
    BY <2>2
<1>4. ASSUME NEW n \in Nat, n \in N PROVE n + 1 \in N
  <2>1. PICK g : Solves(g, n)
    BY <1>4
  <2> DEFINE h == [S \in Small(n + 1) |-> IF S = {} THEN 0 ELSE f[One(S)] + g[S \ {One(S)}]]
  <2>2. \A S \in Small(n) : g[S] = IF S = {} THEN 0 ELSE f[One(S)] + g[S \ {One(S)}]
    BY <2>1
  <2>3. \A S \in Small(n) : S \in Small(n + 1)
    BY <1>1
  <2>4. \A S \in Small(n + 1) : S # {} => S \ {One(S)} \in Small(n)
    BY <1>1, <1>2
  <2> HIDE DEF Small
  <2>5. \A S \in Small(n) : h[S] = g[S]
    BY <2>2, <2>3
  <2>6. Solves(h, n + 1)
    BY <2>4, <2>5
  <2> HIDE DEF h, Solves
  <2>7. \E k : Solves(k, n + 1)
    BY <2>6
  <2> QED
    BY <2>7
<1> HIDE DEF N
<1>5. Nat \subseteq N
  BY <1>3, <1>4, Induction
<1>6. Cardinality(DOMAIN f) \in N
  BY <1>1, <1>5
<1>7. Small(Cardinality(DOMAIN f)) = SUBSET DOMAIN f
  BY FS_Subset
<1> QED
  BY <1>6, <1>7 DEF N

\* The value of a sum: nothing for the empty set, else one member and the rest.
LEMMA SumsOfRest ==
  ASSUME NEW f, IsFiniteSet(DOMAIN f)
  PROVE  Sums(f) = [S \in SUBSET DOMAIN f |-> IF S = {} THEN 0 ELSE f[One(S)] + Sums(f)[S \ {One(S)}]]
BY SumsExist DEF Sums

\* Finitely many integers.
Summands(f) == IsFiniteSet(DOMAIN f) /\ \A x \in DOMAIN f : f[x] \in Int

\* The sums of integers are integers.
LEMMA SumsType ==
  ASSUME NEW f, Summands(f)
  PROVE  \A S \in SUBSET DOMAIN f : Sums(f)[S] \in Int
<1> DEFINE N == {n \in Nat : \A S \in SUBSET DOMAIN f : Cardinality(S) = n => Sums(f)[S] \in Int}
<1>1. \A S \in SUBSET DOMAIN f : Cardinality(S) \in Nat /\ IsFiniteSet(S)
  BY FS_Subset, FS_CardinalityType DEF Summands
<1>2. \A S \in SUBSET DOMAIN f :
        S # {} => One(S) \in S /\ Cardinality(S \ {One(S)}) = Cardinality(S) - 1
  BY <1>1, FS_RemoveElement DEF One
<1>3. \A S \in SUBSET DOMAIN f : Sums(f)[S] = IF S = {} THEN 0 ELSE f[One(S)] + Sums(f)[S \ {One(S)}]
  BY SumsOfRest DEF Summands
<1>4. 0 \in N
  BY <1>1, <1>3, FS_EmptySet
<1>5. ASSUME NEW n \in Nat, n \in N PROVE n + 1 \in N
  <2> SUFFICES ASSUME NEW S \in SUBSET DOMAIN f, Cardinality(S) = n + 1 PROVE Sums(f)[S] \in Int
    OBVIOUS
  <2>1. CASE S = {}
    BY <2>1, <1>3
  <2>2. CASE S # {}
    <3>1. S \ {One(S)} \in SUBSET DOMAIN f
      OBVIOUS
    <3>2. Cardinality(S \ {One(S)}) = (n + 1) - 1
      BY <1>2, <2>2
    <3>3. Cardinality(S \ {One(S)}) = n
      BY <3>2
    <3>4. Sums(f)[S \ {One(S)}] \in Int
      BY <1>5, <3>1, <3>3
    <3>5. Sums(f)[S] = f[One(S)] + Sums(f)[S \ {One(S)}]
      BY <1>3, <2>2
    <3> QED
      BY <1>2, <2>2, <3>4, <3>5 DEF Summands
  <2> QED
    BY <2>1, <2>2
<1> HIDE DEF N
<1>6. Nat \subseteq N
  BY <1>4, <1>5, Induction
<1> QED
  BY <1>1, <1>6 DEF N

\* Whichever member is taken first, the sum is the same.
LEMMA SumsTake ==
  ASSUME NEW f, Summands(f)
  PROVE  \A S \in SUBSET DOMAIN f : \A x \in S : Sums(f)[S] = f[x] + Sums(f)[S \ {x}]
<1> DEFINE Taken(S) == \A x \in S : Sums(f)[S] = f[x] + Sums(f)[S \ {x}]
           N == {n \in Nat : \A S \in SUBSET DOMAIN f : Cardinality(S) = n => Taken(S)}
<1>1. \A S \in SUBSET DOMAIN f : Cardinality(S) \in Nat /\ IsFiniteSet(S)
  BY FS_Subset, FS_CardinalityType DEF Summands
<1>2. \A S \in SUBSET DOMAIN f : S # {} => One(S) \in S
  BY DEF One
<1>3. ASSUME NEW S \in SUBSET DOMAIN f, NEW x \in S PROVE Cardinality(S \ {x}) = Cardinality(S) - 1
  <2>1. IsFiniteSet(S)
    BY <1>1
  <2> QED
    BY ONLY <2>1, x \in S, FS_RemoveElement
<1>4. \A S \in SUBSET DOMAIN f : Sums(f)[S] = IF S = {} THEN 0 ELSE f[One(S)] + Sums(f)[S \ {One(S)}]
  BY SumsOfRest DEF Summands
<1>5. \A S \in SUBSET DOMAIN f : Sums(f)[S] \in Int
  BY SumsType
<1>6. 0 \in N
  BY <1>1, FS_EmptySet
<1>7. ASSUME NEW n \in Nat, n \in N PROVE n + 1 \in N
  <2> SUFFICES ASSUME NEW S \in SUBSET DOMAIN f, Cardinality(S) = n + 1, NEW x \in S
               PROVE  Sums(f)[S] = f[x] + Sums(f)[S \ {x}]
    OBVIOUS
  <2> DEFINE c == One(S)
  <2>1. c \in S /\ Sums(f)[S] = f[c] + Sums(f)[S \ {c}]
    BY <1>2, <1>4
  <2> HIDE DEF c
  <2>2. CASE x = c
    BY <2>1, <2>2
  <2>3. CASE x # c
    <3>1. Cardinality(S \ {c}) = n /\ Cardinality(S \ {x}) = n
      BY <1>3, <2>1
    <3>2. Taken(S \ {c}) /\ Taken(S \ {x})
      BY <1>7, <3>1, S \ {c} \in SUBSET DOMAIN f, S \ {x} \in SUBSET DOMAIN f
    <3>3. Sums(f)[S \ {c}] = f[x] + Sums(f)[(S \ {c}) \ {x}]
      BY <2>1, <2>3, <3>2
    <3>4. Sums(f)[S \ {x}] = f[c] + Sums(f)[(S \ {x}) \ {c}]
      BY <2>1, <2>3, <3>2
    <3>5. (S \ {c}) \ {x} = (S \ {x}) \ {c}
      OBVIOUS
    <3> DEFINE r == Sums(f)[(S \ {x}) \ {c}]
    <3>6. f[x] \in Int /\ f[c] \in Int /\ r \in Int
      BY <1>5, <2>1, (S \ {x}) \ {c} \in SUBSET DOMAIN f DEF Summands
    <3>7. Sums(f)[S] = f[c] + (f[x] + r)
      BY <2>1, <3>3, <3>5
    <3>8. Sums(f)[S \ {x}] = f[c] + r
      BY <3>4
    <3> HIDE DEF r
    <3>9. f[c] + (f[x] + r) = f[x] + (f[c] + r)
      BY <3>6
    <3> QED
      BY <3>7, <3>8, <3>9
  <2> QED
    BY <2>2, <2>3
<1> HIDE DEF N
<1>8. Nat \subseteq N
  BY <1>6, <1>7, Induction
<1> HIDE DEF Taken
<1>9. ASSUME NEW S \in SUBSET DOMAIN f, NEW x \in S PROVE Sums(f)[S] = f[x] + Sums(f)[S \ {x}]
  <2>1. Cardinality(S) \in N
    BY <1>1, <1>8
  <2>2. \A R \in SUBSET DOMAIN f : Cardinality(R) = Cardinality(S) => Taken(R)
    BY ONLY <2>1 DEF N
  <2>3. Taken(S)
    BY ONLY <2>2, S \in SUBSET DOMAIN f
  <2> QED
    BY ONLY <2>3, x \in S DEF Taken
<1> QED
  BY ONLY <1>9, ZenonT(20)

\* The sum over a set depends on the members of the set only.
LEMMA SumsAgree ==
  ASSUME NEW f, NEW g, DOMAIN f = DOMAIN g, IsFiniteSet(DOMAIN f)
  PROVE  \A S \in SUBSET DOMAIN f : (\A x \in S : f[x] = g[x]) => Sums(f)[S] = Sums(g)[S]
<1> DEFINE Agree(S) == (\A x \in S : f[x] = g[x]) => Sums(f)[S] = Sums(g)[S]
           N == {n \in Nat : \A S \in SUBSET DOMAIN f : Cardinality(S) = n => Agree(S)}
<1>1. \A S \in SUBSET DOMAIN f : Cardinality(S) \in Nat /\ IsFiniteSet(S)
  BY FS_Subset, FS_CardinalityType
<1>2. \A S \in SUBSET DOMAIN f :
        S # {} => One(S) \in S /\ Cardinality(S \ {One(S)}) = Cardinality(S) - 1
  BY <1>1, FS_RemoveElement DEF One
<1>3. \A S \in SUBSET DOMAIN f :
        /\ Sums(f)[S] = IF S = {} THEN 0 ELSE f[One(S)] + Sums(f)[S \ {One(S)}]
        /\ Sums(g)[S] = IF S = {} THEN 0 ELSE g[One(S)] + Sums(g)[S \ {One(S)}]
  BY SumsOfRest
<1>4. 0 \in N
  BY <1>1, <1>3, FS_EmptySet
<1>5. ASSUME NEW n \in Nat, n \in N PROVE n + 1 \in N
  <2> SUFFICES ASSUME NEW S \in SUBSET DOMAIN f, Cardinality(S) = n + 1, \A x \in S : f[x] = g[x]
               PROVE  Sums(f)[S] = Sums(g)[S]
    OBVIOUS
  <2>1. CASE S = {}
    BY <2>1, <1>3
  <2>2. CASE S # {}
    <3>1. S \ {One(S)} \in SUBSET DOMAIN f
      OBVIOUS
    <3>2. Cardinality(S \ {One(S)}) = (n + 1) - 1
      BY <1>2, <2>2
    <3>3. Cardinality(S \ {One(S)}) = n
      BY <3>2
    <3>4. Sums(f)[S \ {One(S)}] = Sums(g)[S \ {One(S)}]
      BY <1>5, <3>1, <3>3
    <3> QED
      BY <1>2, <1>3, <2>2, <3>4
  <2> QED
    BY <2>1, <2>2
<1> HIDE DEF N
<1>6. Nat \subseteq N
  BY <1>4, <1>5, Induction
<1> QED
  BY <1>1, <1>6 DEF N

\* The sum of nothing but zeros is zero.
LEMMA SumsOfZeros ==
  ASSUME NEW f, IsFiniteSet(DOMAIN f), \A x \in DOMAIN f : f[x] = 0
  PROVE  Sums(f)[DOMAIN f] = 0
<1> DEFINE N == {n \in Nat : \A S \in SUBSET DOMAIN f : Cardinality(S) = n => Sums(f)[S] = 0}
<1>1. \A S \in SUBSET DOMAIN f : Cardinality(S) \in Nat /\ IsFiniteSet(S)
  BY FS_Subset, FS_CardinalityType
<1>2. \A S \in SUBSET DOMAIN f :
        S # {} => One(S) \in S /\ Cardinality(S \ {One(S)}) = Cardinality(S) - 1
  BY <1>1, FS_RemoveElement DEF One
<1>3. \A S \in SUBSET DOMAIN f : Sums(f)[S] = IF S = {} THEN 0 ELSE f[One(S)] + Sums(f)[S \ {One(S)}]
  BY SumsOfRest
<1>4. 0 \in N
  BY <1>1, <1>3, FS_EmptySet
<1>5. ASSUME NEW n \in Nat, n \in N PROVE n + 1 \in N
  <2> SUFFICES ASSUME NEW S \in SUBSET DOMAIN f, Cardinality(S) = n + 1 PROVE Sums(f)[S] = 0
    OBVIOUS
  <2>1. CASE S = {}
    BY <2>1, <1>3
  <2>2. CASE S # {}
    <3>1. S \ {One(S)} \in SUBSET DOMAIN f
      OBVIOUS
    <3>2. Cardinality(S \ {One(S)}) = (n + 1) - 1
      BY <1>2, <2>2
    <3>3. Cardinality(S \ {One(S)}) = n
      BY <3>2
    <3>4. Sums(f)[S \ {One(S)}] = 0
      BY <1>5, <3>1, <3>3
    <3>5. Sums(f)[S] = f[One(S)] + Sums(f)[S \ {One(S)}]
      BY <1>3, <2>2
    <3>6. f[One(S)] = 0
      BY <1>2, <2>2
    <3> QED
      BY <3>4, <3>5, <3>6
  <2> QED
    BY <2>1, <2>2
<1> HIDE DEF N
<1>6. Nat \subseteq N
  BY <1>4, <1>5, Induction
<1> QED
  BY <1>1, <1>6 DEF N

\* The value of h changes by d, and no other.
DiffersAt(f, g, h, d) ==
    /\ DOMAIN g = DOMAIN f /\ h \in DOMAIN f /\ d \in Int
    /\ \A x \in DOMAIN f : g[x] = f[x] + (IF x = h THEN d ELSE 0)

\* Then the sum changes by d as well.
LEMMA SumsChange ==
  ASSUME NEW f, NEW g, NEW h, NEW d, Summands(f), DiffersAt(f, g, h, d)
  PROVE  Summands(g) /\ Sums(g)[DOMAIN g] = Sums(f)[DOMAIN f] + d
<1> DEFINE D == DOMAIN f
           Rest == D \ {h}
<1>1. /\ DOMAIN g = D /\ h \in D /\ d \in Int /\ IsFiniteSet(D)
      /\ \A x \in D : f[x] \in Int
      /\ \A x \in D : g[x] = f[x] + (IF x = h THEN d ELSE 0)
  BY DEF Summands, DiffersAt
<1>2. Summands(g)
  BY <1>1 DEF Summands
<1>3. \A x \in Rest : f[x] = g[x]
  BY <1>1
<1>4. Rest \in SUBSET D /\ D \in SUBSET D
  OBVIOUS
<1>5. Sums(f)[Rest] = Sums(g)[Rest]
  BY <1>1, <1>3, <1>4, SumsAgree
<1>6. Sums(f)[D] = f[h] + Sums(f)[Rest]
  BY <1>1, <1>4, SumsTake
<1>7. Sums(g)[D] = g[h] + Sums(g)[Rest]
  BY <1>1, <1>2, <1>4, SumsTake
<1>8. Sums(f)[Rest] \in Int
  BY <1>4, SumsType
<1>9. g[h] = f[h] + d /\ f[h] \in Int /\ d \in Int
  BY <1>1
<1> HIDE DEF D, Rest
<1>10. Sums(g)[D] = Sums(f)[D] + d
  BY <1>5, <1>6, <1>7, <1>8, <1>9
<1> QED
  BY <1>1, <1>2, <1>10 DEF D

-----------------------------------------------------------------------------
(* Decimals *)

\* The powers of ten solve their recursion.
LEMMA TensExist == \E f : f = [n \in 0..MostPlaces |-> IF n = 0 THEN 1 ELSE 10 * f[n - 1]]
<1> DEFINE Solves(f, m) == f = [n \in 0..m |-> IF n = 0 THEN 1 ELSE 10 * f[n - 1]]
           N == {m \in Nat : \E f : Solves(f, m)}
<1>1. 0 \in N
  <2> DEFINE f == [n \in 0..0 |-> 1]
  <2>1. Solves(f, 0)
    OBVIOUS
  <2> QED
    BY <2>1
<1>2. ASSUME NEW m \in Nat, m \in N PROVE m + 1 \in N
  <2>1. PICK f : Solves(f, m)
    BY <1>2
  <2> DEFINE g == [n \in 0..(m + 1) |-> IF n = 0 THEN 1 ELSE 10 * f[n - 1]]
  <2>2. \A n \in 0..m : f[n] = IF n = 0 THEN 1 ELSE 10 * f[n - 1]
    BY <2>1
  <2>3. \A n \in 0..m : g[n] = f[n]
    BY <2>2
  <2>4. \A n \in 0..(m + 1) : n # 0 => n - 1 \in 0..m
    OBVIOUS
  <2>5. Solves(g, m + 1)
    BY <2>3, <2>4
  <2> HIDE DEF g, Solves
  <2>6. \E k : Solves(k, m + 1)
    BY <2>5
  <2> QED
    BY <2>6
<1> HIDE DEF N
<1>3. Nat \subseteq N
  BY <1>1, <1>2, Induction
<1> QED
  BY <1>3, TransferSumsAssumption DEF N

\* They are integers, and the power of a sum is the product of the powers.
LEMMA TensLaw ==
  /\ \A n \in 0..MostPlaces : Tens[n] \in Int
  /\ \A m, n \in 0..MostPlaces : m + n <= MostPlaces => Tens[m] * Tens[n] = Tens[m + n]
<1>1. Tens = [n \in 0..MostPlaces |-> IF n = 0 THEN 1 ELSE 10 * Tens[n - 1]]
  BY TensExist DEF Tens
<1>2. /\ \A n \in 0..MostPlaces : n # 0 => Tens[n] = 10 * Tens[n - 1]
      /\ Tens[0] = 1
  BY <1>1, TransferSumsAssumption
<1>3. \A n \in 0..MostPlaces : Tens[n] \in Int
  <2> DEFINE N == {n \in Nat : n <= MostPlaces => Tens[n] \in Int}
  <2>1. 0 \in N
    BY <1>2
  <2>2. ASSUME NEW n \in Nat, n \in N PROVE n + 1 \in N
    <3> SUFFICES ASSUME n + 1 <= MostPlaces PROVE Tens[n + 1] \in Int
      OBVIOUS
    <3>1. n + 1 \in 0..MostPlaces /\ n <= MostPlaces /\ (n + 1) - 1 = n
      BY TransferSumsAssumption
    <3>2. Tens[n + 1] = 10 * Tens[n] /\ Tens[n] \in Int
      BY <1>2, <2>2, <3>1
    <3> QED
      BY <3>2
  <2> HIDE DEF N
  <2>3. Nat \subseteq N
    BY <2>1, <2>2, Induction
  <2> QED
    BY <2>3, TransferSumsAssumption DEF N
<1>4. \A m, n \in 0..MostPlaces : m + n <= MostPlaces => Tens[m] * Tens[n] = Tens[m + n]
  <2> DEFINE Law(m) == \A n \in 0..MostPlaces : m + n <= MostPlaces => Tens[m] * Tens[n] = Tens[m + n]
             N == {m \in Nat : m <= MostPlaces => Law(m)}
  <2>1. 0 \in N
    BY <1>2, <1>3, TransferSumsAssumption
  <2>2. ASSUME NEW m \in Nat, m \in N PROVE m + 1 \in N
    <3> SUFFICES ASSUME NEW n \in 0..MostPlaces, (m + 1) + n <= MostPlaces
                 PROVE  Tens[m + 1] * Tens[n] = Tens[(m + 1) + n]
      OBVIOUS
    <3>1. /\ m \in 0..MostPlaces /\ m + 1 \in 0..MostPlaces /\ (m + 1) - 1 = m
          /\ m + n \in 0..MostPlaces /\ (m + 1) + n \in 0..MostPlaces /\ ((m + 1) + n) - 1 = m + n
      BY TransferSumsAssumption
    <3>2. Tens[m] * Tens[n] = Tens[m + n]
      BY <2>2, <3>1
    <3>3. Tens[m + 1] = 10 * Tens[m]
      BY <1>2, <3>1
    <3>4. Tens[(m + 1) + n] = 10 * Tens[m + n]
      BY <1>2, <3>1
    <3>5. Tens[m] \in Int /\ Tens[n] \in Int
      BY <1>3, <3>1
    <3>6. \A a, b \in Int : (10 * a) * b = 10 * (a * b)
      OBVIOUS
    <3> QED
      BY <3>2, <3>3, <3>4, <3>5, <3>6
  <2> HIDE DEF N
  <2>3. Nat \subseteq N
    BY <2>1, <2>2, Induction
  <2> QED
    BY <2>3, TransferSumsAssumption DEF N
<1> QED
  BY <1>3, <1>4

\* The decimals that an amount, and a sum of amounts, can be.
Exacts == [value : Int, scale : 0..MostPlaces]

LEMMA DecimalType == ASSUME NEW t \in Amounts \cup {<<Malformed>>} PROVE Decimal(t) \in Exacts
<1>1. CASE t = <<Malformed>>
  BY <1>1, TransferSumsAssumption DEF Decimal, Exacts, Zero
<1>2. CASE t # <<Malformed>>
  <2>1. t[1] \in Int /\ t[2] \in 0..MostPlaces
    BY <1>2, TransferSumsAssumption
  <2> QED
    BY <1>2, <2>1 DEF Decimal, Exacts
<1> QED
  BY <1>1, <1>2

LEMMA UnitsType == ASSUME NEW x \in Exacts PROVE Units(x) \in Int
<1>1. x.value \in Int /\ MostPlaces - x.scale \in 0..MostPlaces
  BY TransferSumsAssumption DEF Exacts
<1>2. Tens[MostPlaces - x.scale] \in Int
  BY <1>1, TensLaw
<1> QED
  BY <1>1, <1>2 DEF Units

\* A decimal with its sign turned, as a sender's is, is worth the opposite.
LEMMA UnitsOfSigned ==
  ASSUME NEW x \in Exacts, NEW sign \in {-1, 1}
  PROVE  /\ [x EXCEPT !.value = sign * @] \in Exacts
         /\ Units([x EXCEPT !.value = sign * @]) = sign * Units(x)
<1> DEFINE y == [x EXCEPT !.value = sign * @]
<1>1. y \in Exacts /\ y.value = sign * x.value /\ y.scale = x.scale
  BY DEF Exacts
<1>2. x.value \in Int /\ MostPlaces - x.scale \in 0..MostPlaces
  BY TransferSumsAssumption DEF Exacts
<1>3. Tens[MostPlaces - x.scale] \in Int
  BY <1>2, TensLaw
<1>4. \A a, b \in Int : (sign * a) * b = sign * (a * b)
  OBVIOUS
<1> HIDE DEF y
<1>5. Units(y) = sign * Units(x)
  BY <1>1, <1>2, <1>3, <1>4 DEF Units
<1> QED
  BY <1>1, <1>5 DEF y

\* However many places the two have, Add adds what they are worth.
LEMMA UnitsOfAdd ==
  ASSUME NEW x \in Exacts, NEW y \in Exacts
  PROVE  Add(x, y) \in Exacts /\ Units(Add(x, y)) = Units(x) + Units(y)
<1> DEFINE s == Larger(x.scale, y.scale)
           p == s - x.scale
           q == s - y.scale
           r == MostPlaces - s
<1>1. /\ x.value \in Int /\ y.value \in Int
      /\ x.scale \in 0..MostPlaces /\ y.scale \in 0..MostPlaces
  BY DEF Exacts
<1>2. /\ s \in 0..MostPlaces /\ p \in 0..MostPlaces /\ q \in 0..MostPlaces /\ r \in 0..MostPlaces
      /\ p + r = MostPlaces - x.scale /\ q + r = MostPlaces - y.scale
      /\ p + r <= MostPlaces /\ q + r <= MostPlaces
  BY <1>1, TransferSumsAssumption DEF Larger
<1>3. /\ Add(x, y).scale = s
      /\ Add(x, y).value = x.value * Tens[p] + y.value * Tens[q]
      /\ Add(x, y) = [scale |-> s, value |-> x.value * Tens[p] + y.value * Tens[q]]
  BY DEF Add
<1> HIDE DEF s, p, q, r
<1>4. Tens[p] \in Int /\ Tens[q] \in Int /\ Tens[r] \in Int
  BY <1>2, TensLaw
<1>5. Tens[p] * Tens[r] = Tens[p + r] /\ Tens[q] * Tens[r] = Tens[q + r]
  BY <1>2, TensLaw
<1>6. Add(x, y) \in Exacts
  BY <1>1, <1>2, <1>3, <1>4 DEF Exacts
<1>7. \A a, b, c, d, e \in Int : (a * c + b * d) * e = a * (c * e) + b * (d * e)
  OBVIOUS
<1>8. (x.value * Tens[p] + y.value * Tens[q]) * Tens[r]
        = x.value * (Tens[p] * Tens[r]) + y.value * (Tens[q] * Tens[r])
  BY <1>1, <1>4, <1>7
<1>9. Units(Add(x, y)) = (x.value * Tens[p] + y.value * Tens[q]) * Tens[r]
  BY <1>3 DEF Units, r
<1>10. Units(x) = x.value * Tens[p + r] /\ Units(y) = y.value * Tens[q + r]
  BY <1>2 DEF Units
<1> QED
  BY <1>5, <1>6, <1>8, <1>9, <1>10

-----------------------------------------------------------------------------
(* The balances *)

\* A balance that has been entered is a decimal that amounts can add up to.
Entered(b) == \A k \in DOMAIN b : b[k] \in Exacts

LEMMA NetType == ASSUME NEW b, Entered(b), NEW k PROVE Net(b, k) \in Int
BY UnitsType DEF Net, Entered

\* One transfer changes the balance of one holder in one asset, by its amount.
LEMMA ApplyMoves ==
  ASSUME NEW b, Entered(b), NEW e \in Edges, NEW h, NEW sign \in {-1, 1}
  PROVE  /\ Entered(Apply(b, e, h, sign))
         /\ \A k : Net(Apply(b, e, h, sign), k)
                    = Net(b, k) + (IF k = <<h, e.asset>> THEN sign * Units(Decimal(e.amount)) ELSE 0)
<1> DEFINE key == <<h, e.asset>>
           old == IF key \in DOMAIN b THEN b[key] ELSE Zero
           amount == Decimal(e.amount)
           signed == [amount EXCEPT !.value = sign * @]
           after == Apply(b, e, h, sign)
<1>1. amount \in Exacts
  BY DecimalType DEF Edges
<1>2. signed \in Exacts /\ Units(signed) = sign * Units(amount)
  BY <1>1, UnitsOfSigned
<1>3. Zero \in Exacts /\ Units(Zero) = 0
  <2>1. Zero \in Exacts
    BY TransferSumsAssumption DEF Zero, Exacts
  <2>2. Tens[MostPlaces - 0] \in Int
    BY TensLaw, TransferSumsAssumption
  <2>3. Zero.value = 0 /\ Zero.scale = 0
    BY DEF Zero
  <2> QED
    BY <2>1, <2>2, <2>3 DEF Units
<1>4. old \in Exacts /\ Units(old) = Net(b, key)
  BY <1>3 DEF Entered, Net
<1>5. Add(old, signed) \in Exacts /\ Units(Add(old, signed)) = Units(old) + Units(signed)
  BY <1>2, <1>4, UnitsOfAdd
<1>6. after = [k \in DOMAIN b \cup {key} |-> IF k = key THEN Add(old, signed) ELSE b[k]]
  BY DEF Apply
<1> HIDE DEF key, old, amount, signed, after
<1>7. Entered(after)
  BY <1>5, <1>6 DEF Entered
<1>8. ASSUME NEW k
      PROVE  Net(after, k) = Net(b, k) + (IF k = key THEN sign * Units(amount) ELSE 0)
  <2>1. CASE k = key
    <3>1. Net(after, k) = Units(Add(old, signed))
      BY <2>1, <1>6 DEF Net
    <3> QED
      BY <2>1, <3>1, <1>2, <1>4, <1>5
  <2>2. CASE k # key
    <3>1. Net(after, k) = Net(b, k)
      BY <2>2, <1>6 DEF Net
    <3>2. Net(b, k) \in Int
      BY NetType
    <3> QED
      BY <2>2, <3>1, <3>2
  <2> QED
    BY <2>1, <2>2
<1> QED
  BY <1>7, <1>8 DEF key, amount, after

\* The balances after each transfer solve their recursion.
LEMMA BalancesExist ==
  ASSUME NEW flow, NEW n \in Nat
  PROVE  \E f : f = [i \in 0..n |->
           IF i = 0 THEN [k \in {} |-> Zero]
           ELSE Apply(Apply(f[i - 1], flow[i], flow[i].from, -1), flow[i], flow[i].to, 1)]
<1> DEFINE Both(b, i) == Apply(Apply(b, flow[i], flow[i].from, -1), flow[i], flow[i].to, 1)
           Solves(f, m) == f = [i \in 0..m |-> IF i = 0 THEN [k \in {} |-> Zero] ELSE Both(f[i - 1], i)]
           N == {m \in Nat : \E f : Solves(f, m)}
<1> HIDE DEF Both
<1>1. 0 \in N
  <2> DEFINE f == [i \in 0..0 |-> [k \in {} |-> Zero]]
  <2>1. Solves(f, 0)
    OBVIOUS
  <2> QED
    BY <2>1
<1>2. ASSUME NEW m \in Nat, m \in N PROVE m + 1 \in N
  <2>1. PICK f : Solves(f, m)
    BY <1>2
  <2> DEFINE g == [i \in 0..(m + 1) |-> IF i = 0 THEN [k \in {} |-> Zero] ELSE Both(f[i - 1], i)]
  <2>2. \A i \in 0..m : f[i] = IF i = 0 THEN [k \in {} |-> Zero] ELSE Both(f[i - 1], i)
    BY <2>1
  <2>3. \A i \in 0..m : g[i] = f[i]
    BY <2>2
  <2>4. \A i \in 0..(m + 1) : i # 0 => i - 1 \in 0..m
    OBVIOUS
  <2>5. Solves(g, m + 1)
    BY <2>3, <2>4
  <2> HIDE DEF g, Solves
  <2>6. \E k : Solves(k, m + 1)
    BY <2>5
  <2> QED
    BY <2>6
<1> HIDE DEF N
<1>3. Nat \subseteq N
  BY <1>1, <1>2, Induction
<1> QED
  BY <1>3 DEF N, Both

LEMMA BalancesOfRest ==
  ASSUME NEW flow, Len(flow) \in Nat
  PROVE  /\ Balances(flow)[0] = [k \in {} |-> Zero]
         /\ \A i \in 1..Len(flow) : Balances(flow)[i] =
              Apply(Apply(Balances(flow)[i - 1], flow[i], flow[i].from, -1), flow[i], flow[i].to, 1)
<1> DEFINE Both(b, i) == Apply(Apply(b, flow[i], flow[i].from, -1), flow[i], flow[i].to, 1)
<1>1. Balances(flow) = [i \in 0..Len(flow) |->
        IF i = 0 THEN [k \in {} |-> Zero] ELSE Both(Balances(flow)[i - 1], i)]
  BY BalancesExist DEF Balances
<1> HIDE DEF Both
<1>2. /\ Balances(flow)[0] = [k \in {} |-> Zero]
      /\ \A i \in 1..Len(flow) : Balances(flow)[i] = Both(Balances(flow)[i - 1], i)
  BY <1>1
<1> QED
  BY <1>2 DEF Both

\* The members of S that are no later than j.
Till(S, j) == {i \in S : i <= j}

\* The sum over the members of S up to j is that of those before j, and of j.
LEMMA SumsUpTo ==
  ASSUME NEW L \in Nat, NEW f, Summands(f), DOMAIN f = 1..L, NEW S \in SUBSET (1..L), NEW j \in 1..L
  PROVE  /\ j \in S => Sums(f)[Till(S, j)] = Sums(f)[Till(S, j - 1)] + f[j]
         /\ j \notin S => Sums(f)[Till(S, j)] = Sums(f)[Till(S, j - 1)]
<1> DEFINE old == Till(S, j - 1)
           new == Till(S, j)
<1>1. old \in SUBSET DOMAIN f /\ new \in SUBSET DOMAIN f
  BY DEF Till
<1>2. j \in S => j \in new /\ new \ {j} = old
  <2>1. \A i \in S : (i <= j /\ i # j) <=> i <= j - 1
    OBVIOUS
  <2>2. \A i \in new \ {j} : i \in old
    BY <2>1 DEF Till
  <2>3. \A i \in old : i \in new \ {j}
    BY <2>1 DEF Till
  <2>4. j \in S => j \in new
    BY DEF Till
  <2> HIDE DEF old, new
  <2> QED
    BY <2>2, <2>3, <2>4
<1>3. j \notin S => new = old
  <2>1. j \notin S => \A i \in S : i <= j <=> i <= j - 1
    OBVIOUS
  <2> QED
    BY <2>1 DEF Till
<1> HIDE DEF old, new
<1>4. Sums(f)[old] \in Int /\ f[j] \in Int
  BY <1>1, SumsType DEF Summands
<1>5. ASSUME j \in S PROVE Sums(f)[new] = Sums(f)[old] + f[j]
  <2>1. Sums(f)[new] = f[j] + Sums(f)[new \ {j}]
    <3>1. \A x \in new : Sums(f)[new] = f[x] + Sums(f)[new \ {x}]
      BY ONLY <1>1, SumsTake, Summands(f)
    <3>2. j \in new
      BY <1>2, <1>5
    <3> QED
      BY ONLY <3>1, <3>2
  <2>2. Sums(f)[new] = f[j] + Sums(f)[old]
    BY <1>2, <1>5, <2>1
  <2> QED
    BY <1>4, <2>2
<1>6. ASSUME j \notin S PROVE Sums(f)[new] = Sums(f)[old]
  BY <1>3, <1>6
<1> QED
  BY <1>5, <1>6 DEF old, new

\* One transfer, of the sender and then of the receiver.
LEMMA TransferMoves ==
  ASSUME NEW b, Entered(b), NEW e \in Edges
  PROVE  LET after == Apply(Apply(b, e, e.from, -1), e, e.to, 1)
             u == Units(Decimal(e.amount))
         IN /\ Entered(after)
            /\ \A k : Net(after, k) = Net(b, k) - (IF k = <<e.from, e.asset>> THEN u ELSE 0)
                                               + (IF k = <<e.to, e.asset>> THEN u ELSE 0)
<1> DEFINE sent == Apply(b, e, e.from, -1)
           after == Apply(sent, e, e.to, 1)
           u == Units(Decimal(e.amount))
<1>1. u \in Int
  BY DecimalType, UnitsType DEF Edges
<1>2. /\ Entered(sent)
      /\ \A k : Net(sent, k) = Net(b, k) + (IF k = <<e.from, e.asset>> THEN (-1) * u ELSE 0)
  BY ApplyMoves
<1> HIDE DEF sent
<1>3. /\ Entered(after)
      /\ \A k : Net(after, k) = Net(sent, k) + (IF k = <<e.to, e.asset>> THEN 1 * u ELSE 0)
  BY <1>2, ApplyMoves
<1> HIDE DEF after, u
<1>4. ASSUME NEW k
      PROVE  Net(after, k) = Net(b, k) - (IF k = <<e.from, e.asset>> THEN u ELSE 0)
                                       + (IF k = <<e.to, e.asset>> THEN u ELSE 0)
  <2>1. Net(b, k) \in Int
    BY NetType
  <2> QED
    BY <1>1, <1>2, <1>3, <2>1
<1> QED
  BY <1>3, <1>4 DEF after, sent, u

\* After every transfer the balance of k is what has come in less what has gone
\* out, and the balances in an asset add up to nothing.
LEMMA BalancesAreExact ==
  ASSUME NEW flow \in Seq(Edges)
  PROVE  LET moved == Sums([i \in 1..Len(flow) |-> Units(Decimal(flow[i].amount))])
             Came(k) == {i \in 1..Len(flow) : <<flow[i].to, flow[i].asset>> = k}
             Went(k) == {i \in 1..Len(flow) : <<flow[i].from, flow[i].asset>> = k}
         IN \A i \in 0..Len(flow) :
              /\ Entered(Balances(flow)[i])
              /\ \A k : Net(Balances(flow)[i], k) = moved[Till(Came(k), i)] - moved[Till(Went(k), i)]
              /\ \A a : Sums([h \in Holders |-> Net(Balances(flow)[i], <<h, a>>)])[Holders] = 0
<1> DEFINE L == Len(flow)
           amount == [i \in 1..L |-> Units(Decimal(flow[i].amount))]
           Came(k) == {i \in 1..L : <<flow[i].to, flow[i].asset>> = k}
           Went(k) == {i \in 1..L : <<flow[i].from, flow[i].asset>> = k}
           B(i) == Balances(flow)[i]
           Of(i, a) == [h \in Holders |-> Net(B(i), <<h, a>>)]
           Nets(i) == \A k : Net(B(i), k) = Sums(amount)[Till(Came(k), i)] - Sums(amount)[Till(Went(k), i)]
           Even(i) == \A a : Sums(Of(i, a))[Holders] = 0
           N == {i \in Nat : Entered(B(i)) /\ Nets(i) /\ Even(i)}
<1>1. L \in Nat /\ \A i \in 1..L : flow[i] \in Edges
  OBVIOUS
<1>2. DOMAIN amount = 1..L /\ Summands(amount)
  <2>1. IsFiniteSet(1..L)
    BY <1>1, FS_Interval
  <2>2. \A i \in 1..L : amount[i] \in Int
    BY <1>1, DecimalType, UnitsType DEF Edges
  <2> QED
    BY <2>1, <2>2 DEF Summands
<1>3. IsFiniteSet(Holders)
  BY TransferSumsAssumption
<1>4. \A i \in 1..L : amount[i] = Units(Decimal(flow[i].amount))
  OBVIOUS
<1>5. \A i, a : DOMAIN Of(i, a) = Holders /\ \A h \in Holders : Of(i, a)[h] = Net(B(i), <<h, a>>)
  OBVIOUS
<1>6. \A k : Came(k) \in SUBSET (1..L) /\ Went(k) \in SUBSET (1..L)
  OBVIOUS
<1>7. \A k : \A i \in 1..L :
        /\ i \in Came(k) <=> <<flow[i].to, flow[i].asset>> = k
        /\ i \in Went(k) <=> <<flow[i].from, flow[i].asset>> = k
  OBVIOUS
<1>8. /\ B(0) = [k \in {} |-> Zero]
      /\ \A i \in 1..L : B(i) = Apply(Apply(B(i - 1), flow[i], flow[i].from, -1), flow[i], flow[i].to, 1)
  BY <1>1, BalancesOfRest
<1> HIDE DEF L, amount, Came, Went, B, Of
<1>9. Entered(B(0)) /\ Nets(0) /\ Even(0)
  <2>1. Entered(B(0)) /\ \A k : Net(B(0), k) = 0
    BY <1>8 DEF Entered, Net
  <2>2. \A k : Till(Came(k), 0) = {} /\ Till(Went(k), 0) = {}
    BY <1>1, <1>6 DEF Till
  <2>3. Sums(amount)[{}] = 0
    BY <1>2, SumsOfRest DEF Summands
  <2>4. ASSUME NEW a PROVE Sums(Of(0, a))[Holders] = 0
    <3>1. \A h \in Holders : Of(0, a)[h] = 0
      BY <1>5, <2>1
    <3>2. DOMAIN Of(0, a) = Holders
      BY <1>5
    <3> QED
      BY <1>3, <3>1, <3>2, SumsOfZeros
  <2>5. \A k : Sums(amount)[Till(Came(k), 0)] = 0 /\ Sums(amount)[Till(Went(k), 0)] = 0
    BY <2>2, <2>3
  <2>6. Nets(0)
    BY <2>1, <2>5
  <2> QED
    BY <2>1, <2>4, <2>6
<1> HIDE DEF Nets, Even, N
<1>10. ASSUME NEW i \in Nat, i + 1 <= L, Entered(B(i)), Nets(i), Even(i)
       PROVE  Entered(B(i + 1)) /\ Nets(i + 1) /\ Even(i + 1)
  <2> DEFINE j == i + 1
             e == flow[j]
             u == amount[j]
  <2>0. j \in 1..L /\ j - 1 = i
    BY <1>1, <1>10
  <2> HIDE DEF j
  <2>1. e \in Edges /\ u \in Int
    BY <1>1, <1>2, <2>0 DEF Summands
  <2>2. B(j) = Apply(Apply(B(i), e, e.from, -1), e, e.to, 1)
    BY <1>8, <2>0
  <2>3. u = Units(Decimal(e.amount))
    BY <1>4, <2>0
  <2>4. /\ Entered(B(j))
        /\ \A k : Net(B(j), k) = Net(B(i), k) - (IF k = <<e.from, e.asset>> THEN u ELSE 0)
                                                  + (IF k = <<e.to, e.asset>> THEN u ELSE 0)
    BY <1>10, <2>1, <2>2, <2>3, TransferMoves
  <2>5. \A k : j \in Came(k) <=> k = <<e.to, e.asset>>
    BY <1>7, <2>0
  <2>6. \A k : j \in Went(k) <=> k = <<e.from, e.asset>>
    BY <1>7, <2>0
  <2>7. e.from \in Holders /\ e.to \in Holders
    BY <2>1 DEF Edges
  <2>8. \A S \in SUBSET (1..L) :
          Sums(amount)[Till(S, j)] = Sums(amount)[Till(S, i)] + (IF j \in S THEN u ELSE 0)
    <3>1. ASSUME NEW S \in SUBSET (1..L)
          PROVE  Sums(amount)[Till(S, j)] = Sums(amount)[Till(S, i)] + (IF j \in S THEN u ELSE 0)
      <4>1. /\ j \in S => Sums(amount)[Till(S, j)] = Sums(amount)[Till(S, j - 1)] + amount[j]
            /\ j \notin S => Sums(amount)[Till(S, j)] = Sums(amount)[Till(S, j - 1)]
        BY <1>1, <1>2, <2>0, SumsUpTo
      <4>2. Till(S, i) \in SUBSET DOMAIN amount
        BY <1>2 DEF Till
      <4>3. Sums(amount)[Till(S, i)] \in Int
        BY <1>2, <4>2, SumsType
      <4> QED
        BY <2>0, <4>1, <4>3
    <3> QED
      BY <3>1
  <2> HIDE DEF e, u
  <2>9. ASSUME NEW k
        PROVE  Net(B(j), k) = Sums(amount)[Till(Came(k), j)] - Sums(amount)[Till(Went(k), j)]
    <3> DEFINE x == Sums(amount)[Till(Came(k), i)]
               y == Sums(amount)[Till(Went(k), i)]
               x2 == Sums(amount)[Till(Came(k), j)]
               y2 == Sums(amount)[Till(Went(k), j)]
    <3>1. x2 = x + (IF k = <<e.to, e.asset>> THEN u ELSE 0)
      BY <1>6, <2>5, <2>8
    <3>2. y2 = y + (IF k = <<e.from, e.asset>> THEN u ELSE 0)
      BY <1>6, <2>6, <2>8
    <3>3. x \in Int /\ y \in Int
      <4>1. Till(Came(k), i) \in SUBSET (1..L) /\ Till(Went(k), i) \in SUBSET (1..L)
        BY <1>6 DEF Till
      <4> QED
        BY <1>2, <4>1, SumsType
    <3>4. Net(B(i), k) = x - y
      BY <1>10 DEF Nets
    <3> HIDE DEF x, y, x2, y2
    <3>5. Net(B(j), k) = x2 - y2
      BY <2>1, <2>4, <3>1, <3>2, <3>3, <3>4
    <3> QED
      BY <3>5 DEF x2, y2
  <2>10. ASSUME NEW a PROVE Sums(Of(j, a))[Holders] = 0
    <3> DEFINE v == IF a = e.asset THEN u ELSE 0
               f == Of(i, a)
               g == [h \in Holders |-> Of(i, a)[h] + (IF h = e.from THEN -v ELSE 0)]
               k == Of(j, a)
    <3>1. v \in Int /\ -v \in Int
      BY <2>1
    <3>2. DOMAIN f = Holders /\ DOMAIN g = Holders /\ DOMAIN k = Holders
      BY <1>5
    <3>3. \A h \in Holders : f[h] \in Int /\ k[h] \in Int
      <4>1. ASSUME NEW h \in Holders PROVE f[h] \in Int /\ k[h] \in Int
        <5>1. k[h] = Net(B(j), <<h, a>>) /\ f[h] = Net(B(i), <<h, a>>)
          BY <1>5
        <5>2. Net(B(j), <<h, a>>) \in Int
          BY <2>4, NetType
        <5>3. Net(B(i), <<h, a>>) \in Int
          BY <1>10, NetType
        <5> QED
          BY <5>1, <5>2, <5>3
      <4> QED
        BY <4>1
    <3>4. \A h \in Holders : g[h] = f[h] + (IF h = e.from THEN -v ELSE 0)
      OBVIOUS
    <3>5. \A h \in Holders : k[h] = f[h] - (IF h = e.from THEN v ELSE 0) + (IF h = e.to THEN v ELSE 0)
      <4>1. ASSUME NEW h \in Holders
            PROVE  k[h] = f[h] - (IF h = e.from THEN v ELSE 0) + (IF h = e.to THEN v ELSE 0)
        <5>1. k[h] = Net(B(j), <<h, a>>) /\ f[h] = Net(B(i), <<h, a>>)
          BY <1>5
        <5>2. /\ <<h, a>> = <<e.from, e.asset>> <=> h = e.from /\ a = e.asset
              /\ <<h, a>> = <<e.to, e.asset>> <=> h = e.to /\ a = e.asset
          OBVIOUS
        <5> QED
          BY <2>4, <5>1, <5>2
      <4> QED
        BY <4>1
    <3> HIDE DEF v, f, g, k
    <3>6. Summands(f) /\ DiffersAt(f, g, e.from, -v)
      BY <1>3, <2>7, <3>1, <3>2, <3>3, <3>4 DEF Summands, DiffersAt
    <3>7. \A h \in Holders : k[h] = g[h] + (IF h = e.to THEN v ELSE 0)
      BY <3>1, <3>3, <3>4, <3>5
    <3>8. DiffersAt(g, k, e.to, v)
      BY <2>7, <3>1, <3>2, <3>7 DEF DiffersAt
    <3>9. Sums(k)[Holders] = (Sums(f)[Holders] + (-v)) + v
      <4>1. Summands(g) /\ Sums(g)[Holders] = Sums(f)[Holders] + (-v)
        BY <3>2, <3>6, SumsChange
      <4>2. Sums(k)[Holders] = Sums(g)[Holders] + v
        BY <3>2, <3>8, <4>1, SumsChange
      <4> QED
        BY <4>1, <4>2
    <3>10. Sums(f)[Holders] = 0
      BY <1>10 DEF f, Even
    <3>11. Sums(k)[Holders] = 0
      BY <3>1, <3>9, <3>10
    <3> QED
      BY <3>11 DEF k
  <2> QED
    BY <2>4, <2>9, <2>10 DEF Nets, Even, j
<1>11. 0..L \subseteq N
  <2>1. 0 \in N
    BY <1>9 DEF N
  <2>2. \A i \in Nat : i \in N /\ i + 1 <= L => i + 1 \in N
    BY <1>10 DEF N
  <2> QED
    BY <1>1, <2>1, <2>2, InductionTo
<1>12. \A i \in 0..L : Entered(B(i)) /\ Nets(i) /\ Even(i)
  BY <1>11 DEF N
<1> QED
  BY <1>12 DEF L, amount, Came, Went, B, Of, Nets, Even

\* Whatever a transaction transfers, however many transfers there are and however
\* many places their amounts have, the table that is made of them is exact.
THEOREM GroupedIsExact == \A flow \in Seq(Edges) : Exact(flow, Grouped(flow))
<1> SUFFICES ASSUME NEW flow \in Seq(Edges) PROVE Exact(flow, Grouped(flow))
  OBVIOUS
<1> DEFINE L == Len(flow)
           moved == Sums([i \in 1..L |-> Units(Decimal(flow[i].amount))])
           Came(k) == {i \in 1..L : <<flow[i].to, flow[i].asset>> = k}
           Went(k) == {i \in 1..L : <<flow[i].from, flow[i].asset>> = k}
           all == Balances(flow)[L]
           rows == Grouped(flow)
<1>1. L \in Nat /\ DOMAIN flow = 1..L
  OBVIOUS
<1>2. /\ Entered(all)
      /\ \A k : Net(all, k) = moved[Till(Came(k), L)] - moved[Till(Went(k), L)]
      /\ \A a : Sums([h \in Holders |-> Net(all, <<h, a>>)])[Holders] = 0
  <2>1. \A i \in 0..L :
          /\ Entered(Balances(flow)[i])
          /\ \A k : Net(Balances(flow)[i], k) = moved[Till(Came(k), i)] - moved[Till(Went(k), i)]
          /\ \A a : Sums([h \in Holders |-> Net(Balances(flow)[i], <<h, a>>)])[Holders] = 0
    BY BalancesAreExact
  <2>2. L \in 0..L
    BY <1>1
  <2> HIDE DEF L, moved, Came, Went
  <2> QED
    BY <2>1, <2>2
<1>3. \A k : Till(Came(k), L) = Came(k) /\ Till(Went(k), L) = Went(k)
  BY <1>1 DEF Till
<1>4. \A k : Net(rows, k) = Net(all, k)
  <2> SUFFICES ASSUME NEW k PROVE Net(rows, k) = Net(all, k)
    OBVIOUS
  <2>1. rows = [j \in {j \in DOMAIN all : all[j].value # 0} |-> all[j]]
    BY DEF Grouped
  <2> HIDE DEF rows, all
  <2>2. CASE k \in DOMAIN all /\ all[k].value = 0
    <3>1. all[k] \in Exacts
      BY <1>2, <2>2 DEF Entered
    <3>2. MostPlaces - all[k].scale \in 0..MostPlaces
      BY <3>1, TransferSumsAssumption DEF Exacts
    <3>3. Tens[MostPlaces - all[k].scale] \in Int
      BY <3>2, TensLaw
    <3>4. Units(all[k]) = 0
      BY <2>2, <3>3 DEF Units
    <3> QED
      BY <2>1, <2>2, <3>4 DEF Net
  <2>3. CASE ~ (k \in DOMAIN all /\ all[k].value = 0)
    BY <2>1, <2>3 DEF Net
  <2> QED
    BY <2>2, <2>3
<1> HIDE DEF rows, all
<1>5. \A k \in Holders \X Assets : Net(rows, k) = moved[Came(k)] - moved[Went(k)]
  BY <1>2, <1>3, <1>4
<1>6. \A a \in Assets : Sums([h \in Holders |-> Net(rows, <<h, a>>)])[Holders] = 0
  BY <1>2, <1>4
<1> QED
  BY <1>1, <1>5, <1>6 DEF Exact, rows

-----------------------------------------------------------------------------
(* The panel of a transaction's transfers *)

SumsShape(p) == p.at = "transfers" /\ DOMAIN p = {"at", "flow", "rows", "mode", "calls"}

\* The table is made of the transfers on display, and nothing is called.
SumsInv ==
    /\ SumsShape(page) /\ wire = {}
    /\ page.flow \in Seq(Edges) /\ page.rows = Grouped(page.flow)

\* The panel starts with the table made.
LEMMA SumsStart == SumsInit => SumsInv
<1> SUFFICES ASSUME SumsInit PROVE SumsInv
  OBVIOUS
<1>1. PICK flow \in SeqOf(Edges, MaxFlow) :
        page = [at |-> "transfers", flow |-> flow, rows |-> Grouped(flow), mode |-> "address", calls |-> 0]
  BY DEF SumsInit
<1>2. PICK m \in 0..MaxFlow : flow \in [1..m -> Edges]
  BY DEF SeqOf
<1>3. flow \in Seq(Edges)
  BY <1>2, TransferSumsAssumption
<1>4. SumsShape(page)
  BY <1>1 DEF SumsShape
<1>5. page.flow = flow /\ page.rows = Grouped(flow)
  BY <1>1
<1> QED
  BY <1>3, <1>4, <1>5 DEF SumsInit, SumsInv

\* Grouping the transfers otherwise leaves them, and their sums, alone.
LEMMA SumsStep ==
  ASSUME SumsInv, SumsNext
  PROVE  SumsInv'
<1>1. PICK m \in {"address", "execution"} : page' = [page EXCEPT !.mode = m] /\ wire' = wire
  BY DEF SumsNext, GroupTransfers, Show
<1>2. page'.flow = page.flow /\ page'.rows = page.rows /\ SumsShape(page')
  BY <1>1 DEF SumsInv, SumsShape
<1> QED
  BY <1>1, <1>2 DEF SumsInv

-----------------------------------------------------------------------------
(* All pages *)

\* A step is of the page that is mounted, or takes an answer of its calls.
LEMMA StepsAreGuarded ==
  /\ EnvsNext => page.at = "vnet"
  /\ TabsNext => page.at = "tabs"
  /\ FormNext => page.at = "form"
  /\ ArgumentsNext => page.at = "args"
  /\ RunsNext => page.at = "runs"
  /\ DebugNext => page.at = "debug"
  /\ ReplaysNext => page.at \in {"when", "exact", "replay", "timeline"}
  /\ FeedNext => page.at = "feed" \/ InFlight({"sync", "feed"})
  /\ HomeNext => page.at = "home" \/ InFlight({"figures"})
  /\ SearchNext => page.at = "search" \/ InFlight({"suggest"})
  /\ EntityNext => page.at \in EntityKinds \/ InFlight({"rows", "events"})
  /\ GraphNext => page.at = "graph" \/ InFlight({"layout"})
  /\ SumsNext => page.at = "transfers"
  /\ RpcNext => page.at = "rpc" \/ InFlight({"rpc"})
<1>1. /\ EnvsNext => page.at = "vnet"
      /\ TabsNext => page.at = "tabs"
      /\ FormNext => page.at = "form"
      /\ ArgumentsNext => page.at = "args"
      /\ RunsNext => page.at = "runs"
      /\ DebugNext => page.at = "debug"
      /\ ReplaysNext => page.at \in {"when", "exact", "replay", "timeline"}
      /\ SumsNext => page.at = "transfers"
  BY ZenonT(60) DEF EnvsNext, TabsNext, FormNext, ArgumentsNext, EditArgument, RunsNext, DebugNext, ReplaysNext, SumsNext,
     GroupTransfers
<1>2. FeedNext => page.at = "feed" \/ InFlight({"sync", "feed"})
  BY ZenonT(60) DEF FeedNext, ShowNetwork, PollFeed, ServeFeed, FeedSynced, FeedArrives, FeedEvent, FeedLost, DismissFeedError,
     Answers, InFlight
<1>3. HomeNext => page.at = "home" \/ InFlight({"figures"})
  BY ZenonT(60) DEF HomeNext, ChangeHome, PollHome, FiguresArrive, InFlight
<1>4. SearchNext => page.at = "search" \/ InFlight({"suggest"})
  BY ZenonT(60) DEF SearchNext, OnSearch, TypeQuery, SearchOther, MoveInSearch, ClearQuery, LookUp, ServeLookUp, LookUpArrives,
     CloseSearchPanel, OpenSearchPanel, EnterSearch, Answers, InFlight
<1>5. EntityNext => page.at \in EntityKinds \/ InFlight({"rows", "events"})
  BY ZenonT(60) DEF EntityNext, OnEntity, InTransactions, ChangeSize, OpenTab, GoNext, GoBack, ServeEntity, RowsArrive,
     EventsArrive, Answers, InFlight
<1>6. GraphNext => page.at = "graph" \/ InFlight({"layout"})
  BY ZenonT(60) DEF GraphNext, OnGraph, FilterGraph, SearchGraph, ChooseNode, ChooseEdge, LayoutArrives, ChooseNothing,
     ArrowInGraph, InFlight
<1>7. RpcNext => page.at = "rpc" \/ InFlight({"rpc"})
  BY ZenonT(60) DEF RpcNext, OnRpc, AddDocument, EditBody, Active, Documents, OpenDocument, RunRequest, ServeRpc, RpcArrives,
     ShowExamples, ShowCalls, Answers, InFlight
<1> QED BY <1>1, <1>2, <1>3, <1>4, <1>5, <1>6, <1>7

\* While the list of virtual networks or one of them is mounted, every step keeps the invariant.
LEMMA EnvsKeeps ==
  ASSUME EnvsInv, [PagesNext]_hostVars
  PROVE  EnvsInv'
<1>1. page.at = "vnet" /\ ~InFlight({"sync", "feed", "figures", "suggest", "rows", "events", "layout", "rpc"})
  BY DEF EnvsInv, EnvShape, EnvCallsOf, EnvOps, Mutations, InFlight
<1>2. CASE PagesNext
  <2>1. EnvsNext
    BY <1>1, <1>2, StepsAreGuarded DEF PagesNext, InFlight, EntityKinds
  <2> QED BY <2>1, EnvsStep
<1>3. CASE UNCHANGED hostVars
  BY <1>3 DEF hostVars,
      EnvsInv, ListsAreCurrent, ListFollows
<1> QED BY <1>2, <1>3

\* While the workspace of a virtual network is mounted, every step keeps the invariant.
LEMMA TabsKeeps ==
  ASSUME TabsInv, [PagesNext]_hostVars
  PROVE  TabsInv'
<1>1. page.at = "tabs" /\ ~InFlight({"sync", "feed", "figures", "suggest", "rows", "events", "layout", "rpc"})
  BY DEF TabsInv, TabsShape, TabCallsOf, TabWrites, Waiting, Unwaiting, InFlight
<1>2. CASE PagesNext
  <2>1. TabsNext
    BY <1>1, <1>2, StepsAreGuarded DEF PagesNext, InFlight, EntityKinds
  <2> QED BY <2>1, TabsStep
<1>3. CASE UNCHANGED hostVars
  BY <1>3 DEF hostVars,
      TabsInv, AccountsAreCurrent, LinkedFollow
<1> QED BY <1>2, <1>3

\* While the form of a simulation is mounted, every step keeps the invariant.
LEMMA FormKeeps ==
  ASSUME FormInv, [PagesNext]_hostVars
  PROVE  FormInv'
<1>1. page.at = "form" /\ ~InFlight({"sync", "feed", "figures", "suggest", "rows", "events", "layout", "rpc"})
  BY DEF FormInv, FormShape, FormAgrees, FormCalls, Reading, SequenceAgrees, InFlight
<1>2. CASE PagesNext
  <2>1. FormNext
    BY <1>1, <1>2, StepsAreGuarded DEF PagesNext, InFlight, EntityKinds
  <2> QED BY <2>1, FormStep
<1>3. CASE UNCHANGED hostVars
  BY <1>3 DEF hostVars,
      FormInv
<1> QED BY <1>2, <1>3

\* While the list of runs or one of them is mounted, every step keeps the invariant.
LEMMA RunsKeeps ==
  ASSUME RunsInv, [PagesNext]_hostVars
  PROVE  RunsInv'
<1>1. page.at = "runs" /\ ~InFlight({"sync", "feed", "figures", "suggest", "rows", "events", "layout", "rpc"})
  BY DEF RunsInv, RunsShape, RunCallsOf, ClickedFor, LoopOps, InFlight
<1>2. CASE PagesNext
  <2>1. RunsNext
    BY <1>1, <1>2, StepsAreGuarded DEF PagesNext, InFlight, EntityKinds
  <2> QED BY <2>1, RunsStep
<1>3. CASE UNCHANGED hostVars
  BY <1>3 DEF hostVars,
      RunsInv
<1> QED BY <1>2, <1>3

\* While the debugger is mounted, every step keeps the invariant.
LEMMA DebugKeeps ==
  ASSUME DebugInv, [PagesNext]_hostVars
  PROVE  DebugInv'
<1>1. page.at = "debug" /\ ~InFlight({"sync", "feed", "figures", "suggest", "rows", "events", "layout", "rpc"})
  BY DEF DebugInv, DebugShape, DebugCallsOf, InFlight
<1>2. CASE PagesNext
  <2>1. DebugNext
    BY <1>1, <1>2, StepsAreGuarded DEF PagesNext, InFlight, EntityKinds
  <2> QED BY <2>1, DebugStep
<1>3. CASE UNCHANGED hostVars
  BY <1>3 DEF hostVars,
      DebugInv
<1> QED BY <1>2, <1>3

\* While a page of historical replay is mounted, every step keeps the invariant.
LEMMA ReplaysKeeps ==
  ASSUME ReplaysInv, [PagesNext]_hostVars
  PROVE  ReplaysInv'
<1>1. page.at \in {"when", "exact", "replay", "timeline"} /\ ~InFlight({"sync", "feed", "figures", "suggest", "rows", "events", "layout", "rpc"})
  BY DEF ReplaysInv, WhenShape, ReplayShape, TimelineShape, WhenInv, WhenCalls, ExactInv, ReplayInv, TimelineInv,
    TimelineCalls, InFlight
<1>2. CASE PagesNext
  <2>1. ReplaysNext
    BY <1>1, <1>2, StepsAreGuarded DEF PagesNext, InFlight, EntityKinds
  <2> QED BY <2>1, ReplaysStep
<1>3. CASE UNCHANGED hostVars
  BY <1>3 DEF hostVars,
      ReplaysInv, WhenInv, ExactInv, ReplayInv, TimelineInv
<1> QED BY <1>2, <1>3

\* While the feed is mounted, every step keeps the invariant.
LEMMA FeedKeeps ==
  ASSUME FeedInv, [PagesNext]_hostVars
  PROVE  FeedInv'
<1>1. page.at = "feed" /\ ~InFlight({"figures", "suggest", "rows", "events", "layout", "rpc"})
  BY DEF FeedInv, FeedShape, FeedCallsOf, InFlight
<1>2. CASE PagesNext
  <2>1. FeedNext
    BY <1>1, <1>2, StepsAreGuarded DEF PagesNext, InFlight, EntityKinds
  <2> QED BY <2>1, FeedStep
<1>3. CASE UNCHANGED hostVars
  BY <1>3 DEF hostVars,
      FeedInv
<1> QED BY <1>2, <1>3

\* While the home page is mounted, every step keeps the invariant.
LEMMA HomeKeeps ==
  ASSUME HomeInv, [PagesNext]_hostVars
  PROVE  HomeInv'
<1>1. page.at = "home" /\ ~InFlight({"sync", "feed", "suggest", "rows", "events", "layout", "rpc"})
  BY DEF HomeInv, HomeShape, HomeCallsOf, InFlight
<1>2. CASE PagesNext
  <2>1. HomeNext
    BY <1>1, <1>2, StepsAreGuarded DEF PagesNext, InFlight, EntityKinds
  <2> QED BY <2>1, HomeStep
<1>3. CASE UNCHANGED hostVars
  BY <1>3 DEF hostVars,
      HomeInv
<1> QED BY <1>2, <1>3

\* While the search field is mounted, every step keeps the invariant.
LEMMA SearchKeeps ==
  ASSUME SearchInv, [PagesNext]_hostVars
  PROVE  SearchInv'
<1>1. page.at \in {"search", "opened"} /\ ~InFlight({"sync", "feed", "figures", "rows", "events", "layout", "rpc"})
  BY DEF SearchInv, SearchShape, SearchCallsOf, InFlight
<1>2. CASE PagesNext
  <2>1. SearchNext
    BY <1>1, <1>2, StepsAreGuarded DEF PagesNext, InFlight, EntityKinds
  <2> QED BY <2>1, SearchStep
<1>3. CASE UNCHANGED hostVars
  BY <1>3 DEF hostVars,
      SearchInv
<1> QED BY <1>2, <1>3

\* While a page about one entity is mounted, every step keeps the invariant.
LEMMA EntityKeeps ==
  ASSUME EntityInv, [PagesNext]_hostVars
  PROVE  EntityInv'
<1>1. page.at \in EntityKinds /\ ~InFlight({"sync", "feed", "figures", "suggest", "layout", "rpc"})
  BY DEF EntityInv, EntityShape, EntityCallsOf, EntityKinds, InFlight
<1>2. CASE PagesNext
  <2>1. EntityNext
    BY <1>1, <1>2, StepsAreGuarded DEF PagesNext, InFlight, EntityKinds
  <2> QED BY <2>1, EntityStep
<1>3. CASE UNCHANGED hostVars
  BY <1>3 DEF hostVars,
      EntityInv
<1> QED BY <1>2, <1>3

\* While the graph is mounted, every step keeps the invariant.
LEMMA GraphKeeps ==
  ASSUME GraphInv, [PagesNext]_hostVars
  PROVE  GraphInv'
<1>1. page.at = "graph" /\ ~InFlight({"sync", "feed", "figures", "suggest", "rows", "events", "rpc"})
  BY DEF GraphInv, GraphShape, GraphCallsOf, InFlight
<1>2. CASE PagesNext
  <2>1. GraphNext
    BY <1>1, <1>2, StepsAreGuarded DEF PagesNext, InFlight, EntityKinds
  <2> QED BY <2>1, GraphStep
<1>3. CASE UNCHANGED hostVars
  BY <1>3 DEF hostVars,
      GraphInv
<1> QED BY <1>2, <1>3

\* While the workbench is mounted, every step keeps the invariant.
LEMMA RpcKeeps ==
  ASSUME RpcInv, [PagesNext]_hostVars
  PROVE  RpcInv'
<1>1. page.at = "rpc" /\ ~InFlight({"sync", "feed", "figures", "suggest", "rows", "events", "layout"})
  BY DEF RpcInv, RpcShape, RpcCallsOf, InFlight
<1>2. CASE PagesNext
  <2>1. RpcNext
    BY <1>1, <1>2, StepsAreGuarded DEF PagesNext, InFlight, EntityKinds
  <2> QED BY <2>1, RpcStep
<1>3. CASE UNCHANGED hostVars
  BY <1>3 DEF hostVars,
      RpcInv
<1> QED BY <1>2, <1>3

\* While the transfers of a transaction are mounted, every step keeps the invariant.
LEMMA SumsKeeps ==
  ASSUME SumsInv, [PagesNext]_hostVars
  PROVE  SumsInv'
<1>1. page.at = "transfers" /\ ~InFlight({"sync", "feed", "figures", "suggest", "rows", "events", "layout", "rpc"})
  BY DEF SumsInv, SumsShape, InFlight
<1>2. CASE PagesNext
  <2>1. SumsNext
    BY <1>1, <1>2, StepsAreGuarded DEF PagesNext, InFlight, EntityKinds
  <2> QED BY <2>1, SumsStep
<1>3. CASE UNCHANGED hostVars
  BY <1>3 DEF hostVars,
      SumsInv
<1> QED BY <1>2, <1>3

\* While the form of an argument is mounted, every step keeps the invariant.
LEMMA ArgumentsKeeps ==
  ASSUME ArgumentsInv, [PagesNext]_hostVars
  PROVE  ArgumentsInv'
<1>1. page.at = "args" /\ ~InFlight({"sync", "feed", "figures", "suggest", "rows", "events", "layout", "rpc"})
  BY DEF ArgumentsInv, ArgumentsShape, InFlight
<1>2. CASE PagesNext
  <2>1. ArgumentsNext
    BY <1>1, <1>2, StepsAreGuarded DEF PagesNext, InFlight, EntityKinds
  <2> QED BY <2>1, ArgumentsStep
<1>3. CASE UNCHANGED hostVars
  BY <1>3 DEF hostVars, ArgumentsInv, ArgumentsShape
<1> QED BY <1>2, <1>3

\* The page that is mounted is in its invariant.
PagesInv ==
    \/ EnvsInv \/ TabsInv \/ FormInv \/ RunsInv \/ DebugInv \/ ReplaysInv
    \/ FeedInv \/ HomeInv \/ SearchInv \/ EntityInv \/ GraphInv \/ SumsInv \/ RpcInv
    \/ ArgumentsInv

\* The invariant holds when a page is opened.
LEMMA PagesStart == PagesInit => PagesInv
BY EnvsStart, TabsStart, FormStart, RunsStart, DebugStart, ReplaysStart, FeedStart, SearchStart, EntityStart,
   GraphStart, SumsStart, RpcStart, ArgumentsStart DEF PagesInit, PagesInv

\* Every step of every page keeps it.
LEMMA PagesStep == PagesInv /\ [PagesNext]_hostVars => PagesInv'
<1> SUFFICES ASSUME PagesInv, [PagesNext]_hostVars PROVE PagesInv'
  OBVIOUS
<1> QED
  BY EnvsKeeps, TabsKeeps, FormKeeps, RunsKeeps, DebugKeeps, ReplaysKeeps, FeedKeeps, HomeKeeps, SearchKeeps,
     EntityKeeps, GraphKeeps, SumsKeeps, RpcKeeps, ArgumentsKeeps DEF PagesInv

\* Whichever page is visited, its invariant holds of every reachable state.
THEOREM PagesCorrect == PagesSpec => []PagesInv
BY PagesStart, PagesStep, PTL DEF PagesSpec

\* The page that is mounted decides whose invariant holds.
LEMMA MountedHolds ==
  ASSUME PagesInv
  PROVE  /\ page.at = "vnet" => EnvsInv
         /\ page.at = "tabs" => TabsInv
         /\ page.at = "form" => FormInv
         /\ page.at = "runs" => RunsInv
         /\ page.at = "debug" => DebugInv
         /\ page.at \in {"when", "exact", "replay", "timeline"} => ReplaysInv
         /\ page.at = "feed" => FeedInv
         /\ page.at = "home" => HomeInv
         /\ page.at = "search" => SearchInv
         /\ page.at \in EntityKinds => EntityInv
         /\ page.at = "graph" => GraphInv
         /\ page.at = "transfers" => SumsInv
         /\ page.at = "rpc" => RpcInv
         /\ page.at = "args" => ArgumentsInv
<1>1. EnvsInv => page.at = "vnet"
  BY DEF EnvsInv, EnvShape
<1>2. TabsInv => page.at = "tabs"
  BY DEF TabsInv, TabsShape
<1>3. FormInv => page.at = "form"
  BY DEF FormInv, FormAgrees, FormShape
<1>4. RunsInv => page.at = "runs"
  BY DEF RunsInv, RunsShape
<1>5. DebugInv => page.at = "debug"
  BY DEF DebugInv, DebugShape
<1>6. ReplaysInv => page.at \in {"when", "exact", "replay", "timeline"}
  BY DEF ReplaysInv, WhenInv, ExactInv, ReplayInv, TimelineInv, WhenShape, ReplayShape, TimelineShape
<1>7. FeedInv => page.at = "feed"
  BY DEF FeedInv, FeedShape
<1>8. HomeInv => page.at = "home"
  BY DEF HomeInv, HomeShape
<1>9. SearchInv => page.at \in {"search", "opened"}
  BY DEF SearchInv, SearchShape
<1>10. EntityInv => page.at \in EntityKinds
  BY DEF EntityInv, EntityShape, EntityKinds
<1>11. GraphInv => page.at = "graph"
  BY DEF GraphInv, GraphShape
<1>12. RpcInv => page.at = "rpc"
  BY DEF RpcInv, RpcShape
<1>13. SumsInv => page.at = "transfers"
  BY DEF SumsInv, SumsShape
<1>14. ArgumentsInv => page.at = "args"
  BY DEF ArgumentsInv, ArgumentsShape
<1> QED
  BY <1>1, <1>2, <1>3, <1>4, <1>5, <1>6, <1>7, <1>8, <1>9, <1>10, <1>11, <1>12, <1>13, <1>14 DEF PagesInv, EntityKinds

\* What the invariants say of the pages, as the run asks it.
LEMMA PagesHold ==
  ASSUME PagesInv
  PROVE  ListsAgree /\ UrlsAreFollowed /\ WorkspaceHolds /\ InputsHold /\ ResultsHold /\ ArgumentsHold
<1>1. EnvsListAgrees
  BY MountedHolds, EnvsHold DEF EnvsListAgrees
<1>2. LinkedAgree
  BY MountedHolds, TabsHold DEF LinkedAgree
<1>3. PagesAgree
  BY MountedHolds, EntityHolds DEF PagesAgree, OnEntity
<1>4. FeedIsOfTheNetwork
  BY MountedHolds, FeedHolds DEF FeedIsOfTheNetwork
<1>5. LinksAreFollowed
  BY MountedHolds, EnvsHold DEF LinksAreFollowed
<1>6. AccountFollowsUrl
  BY MountedHolds, TabsHold DEF AccountFollowsUrl
<1>7. WorkspaceIsCurrent
  BY MountedHolds, EnvsHold DEF WorkspaceIsCurrent
<1>8. FormsWait
  BY MountedHolds, TabsHold DEF FormsWait
<1>9. InputsAgree
  BY MountedHolds, FormHolds DEF InputsAgree
<1>10. NobodyWaitsInVain
  BY MountedHolds, FormHolds DEF NobodyWaitsInVain
<1>11. RequestsAgree
  BY MountedHolds, FormHolds DEF RequestsAgree
<1>12. WatchesWhatWasFound
  BY MountedHolds, ReplaysHold DEF WatchesWhatWasFound
<1>13. SearchComesToRest
  BY MountedHolds, SearchHolds DEF SearchComesToRest
<1>14. OneLoopPolls
  BY MountedHolds, RunsHold DEF OneLoopPolls
<1>15. CancelledStaysSo
  BY MountedHolds, RunsHold DEF CancelledStaysSo
<1>16. BusyForACause
  BY MountedHolds, RunsHold DEF BusyForACause
<1>17. TimelineIsAPrefix
  BY MountedHolds, DebugHolds DEF TimelineIsAPrefix
<1>18. StartingEnds
  BY MountedHolds, DebugHolds DEF StartingEnds
<1>19. ActiveIsPolled
  BY MountedHolds, ReplaysHold DEF ActiveIsPolled
<1>20. ReadyIsComplete
  BY MountedHolds, ReplaysHold DEF ReadyIsComplete
<1>21. AnswersFindTheirDocument
  BY MountedHolds, RpcHolds DEF AnswersFindTheirDocument
<1>22. GraphIsOfTheFilter
  BY MountedHolds, GraphHolds DEF GraphIsOfTheFilter, OnGraph
<1>23. NetsAreExact
  BY MountedHolds, GroupedIsExact DEF NetsAreExact, SumsInv
<1>24. ArgumentsHold
  BY MountedHolds, ArgumentsAreSound DEF ArgumentsHold
<1> QED
  BY <1>1, <1>2, <1>3, <1>4, <1>5, <1>6, <1>7, <1>8, <1>9, <1>10, <1>11,
     <1>12, <1>13, <1>14, <1>15, <1>16, <1>17, <1>18, <1>19, <1>20, <1>21, <1>22, <1>23, <1>24
  DEF ListsAgree, UrlsAreFollowed, WorkspaceHolds, InputsHold, ResultsHold

\* A list on display is the server's once every answer was heard, and one read
\* in pages is of the page and the network it names, however the user's changes,
\* their readings and the answers to them interleave.
THEOREM ListsAlwaysAgree == PagesSpec => []ListsAgree
BY PagesStart, PagesStep, PagesHold, PTL DEF PagesSpec

\* The URL and the page name the same network and the same account, whatever
\* lists arrive after the user has gone on.
THEOREM UrlsAreAlwaysFollowed == PagesSpec => []UrlsAreFollowed
BY PagesStart, PagesStep, PagesHold, PTL DEF PagesSpec

\* The workspace of a virtual network shows its latest data, and changes it one
\* step at a time.
THEOREM WorkspaceAlwaysHolds == PagesSpec => []WorkspaceHolds
BY PagesStart, PagesStep, PagesHold, PTL DEF PagesSpec

\* What is sent belongs to what the inputs say at that time, and no input waits
\* for an answer that will not come.
THEOREM InputsAlwaysHold == PagesSpec => []InputsHold
BY PagesStart, PagesStep, PagesHold, PTL DEF PagesSpec

\* Whatever the user does in the controls of an argument, what validates is sent
\* in the form of the type that the contract declares, and the page survives
\* unless a result was turned round: for every type, however deep it nests.
THEOREM ArgumentsAlwaysHold == PagesSpec => []ArgumentsHold
BY PagesStart, PagesStep, PagesHold, PTL DEF PagesSpec

\* What runs elsewhere is polled by one loop, shown whole and in its place, and
\* waited for only as long as it runs; and the balance changes of a transaction
\* are exactly the sums of its transfers.
THEOREM ResultsAlwaysHold == PagesSpec => []ResultsHold
BY PagesStart, PagesStep, PagesHold, PTL DEF PagesSpec
=============================================================================
