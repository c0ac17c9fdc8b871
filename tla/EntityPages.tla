----------------------------- MODULE EntityPages -----------------------------
(***************************************************************************)
(* The explorer's pages about one thing: an account, a contract or a       *)
(* ledger with its transactions in pages (WalletExplorerDesign,            *)
(* ContractExplorerDesign, LedgerExplorerDesign and usePagedTransactions), *)
(* the events of a contract, and the graph of a transaction's transfers    *)
(* (GraphCanvas of fund-flow-graph.tsx), which is laid out in the          *)
(* background whenever what it draws changes.                              *)
(***************************************************************************)
EXTENDS PageHost

CONSTANTS
    Total,      \* how many transactions the thing has
    Sizes,      \* the page sizes on offer
    Transfers   \* [from, to, asset] of each transfer of the transaction shown

ASSUME TotalAssumption == Total \in Nat
ASSUME SizesAssumption == Sizes \subseteq Nat \ {0} /\ \E n \in Sizes : \A m \in Sizes : n <= m

-----------------------------------------------------------------------------
(* Transactions in pages *)

Smallest == CHOOSE n \in Sizes : \A m \in Sizes : n <= m

\* cursor: where the page asked for begins; past: the cursors Back returns to
\* shown: <<cursor, size>> of the rows on display, if they could be read
\* load, run: the effects whose answers are still listened to
EntityMounted(kind) == [at |-> kind, size |-> Smallest, cursor |-> 0, past |-> <<>>, shown |-> <<>>,
    loading |-> TRUE, failed |-> FALSE, tab |-> "transactions", load |-> 0,
    run |-> 0, events |-> "unread", calls |-> 0]
EntityKinds == {"account", "contract", "ledger"}
OnEntity == page.at \in EntityKinds

PageCall(p) == [op |-> "rows", load |-> p.load, shown |-> <<p.cursor, p.size>>, out |-> "sent"]

EntityInit ==
    /\ \E k \in EntityKinds : page = EntityMounted(k) /\ wire = {PageCall(page)}
    /\ db = None

\* The cursor after the rows on display, if there is one.
NextCursor(p) == IF p.shown = <<>> THEN Total ELSE p.shown[1] + p.shown[2]

\* The effect of another cursor or size: the load under way is no longer listened
\* to.  Only the page of an account clears the old error at once.
Reload(p) ==
    LET q == [p EXCEPT !.load = @ + 1, !.loading = TRUE,
                       !.failed = IF p.at = "account" THEN FALSE ELSE @]
    IN Call(q, PageCall(q))

InTransactions == OnEntity /\ page.tab = "transactions"

GoNext ==
    /\ InTransactions /\ ~page.loading
    /\ NextCursor(page) < Total
    /\ Reload([page EXCEPT !.past = Append(@, page.cursor), !.cursor = NextCursor(page)])

GoBack ==
    /\ InTransactions /\ ~page.loading
    /\ page.past # <<>>
    /\ LET n == Len(page.past)
       IN Reload([page EXCEPT !.cursor = page.past[n], !.past = SubSeq(@, 1, n - 1)])

\* Another size keeps the cursor, and with it the way back; it may be chosen while
\* a page is still being read.
ChangeSize(n) ==
    /\ InTransactions /\ n # page.size
    /\ Reload([page EXCEPT !.size = n])

ServeEntity ==
    \E r \in wire, o \in {"ok", "fail"} :
        /\ r.op \in {"rows", "events"} /\ r.out = "sent"
        /\ wire' = (wire \ {r}) \cup {[r EXCEPT !.out = o]}
        /\ UNCHANGED <<page, db>>

\* A page that could not be read shows nothing, and no way on.
RowsArrive ==
    \E r \in Answers("rows") :
        Then(IF OnEntity /\ r.load = page.load
             THEN [page EXCEPT !.shown = IF r.out = "ok" THEN r.shown ELSE <<>>,
                               !.failed = r.out = "fail", !.loading = FALSE]
             ELSE page, r, {})

\* The tabs of each page; the events of a contract are read when theirs is opened,
\* and not listened to once it is left.
TabsOf(kind) ==
    CASE kind = "account"  -> {"transactions", "simulations", "assets"}
      [] kind = "contract" -> {"transactions", "events", "overview"}
      [] OTHER             -> {"transactions"}

OpenTab(t) ==
    /\ OnEntity
    /\ t \in TabsOf(page.at) \ {page.tab}
    /\ LET p == [page EXCEPT !.tab = t]
       IN IF t = "events"
          THEN Call([p EXCEPT !.run = @ + 1], [op |-> "events", run |-> p.run + 1, out |-> "sent"])
          ELSE Show(p)

EventsArrive ==
    \E r \in Answers("events") :
        Then(IF OnEntity /\ page.tab = "events" /\ r.run = page.run
             THEN [page EXCEPT !.events = IF r.out = "ok" THEN "read" ELSE "failed"]
             ELSE page, r, {})

-----------------------------------------------------------------------------
(* The graph of the transfers *)

Displayed(asset) == {e \in DOMAIN Transfers : asset \in {"all", Transfers[e].asset}}
Ends(E) == UNION {{Transfers[e].from, Transfers[e].to} : e \in E}

\* query: the addresses the search field matches; drawn: the addresses laid out
GraphMounted == [at |-> "graph", query |-> {}, asset |-> "all", drawn |-> {}, node |-> {}, edge |-> {},
    laying |-> 0, calls |-> 0]

\* A layout is computed outside the page's own thread, from what it shows now.
Layout(p) == [op |-> "layout", laying |-> p.laying, drawn |-> Ends(Displayed(p.asset))]

GraphInit ==
    /\ page = GraphMounted
    /\ wire = {Layout(page)}
    /\ db = None

OnGraph == page.at = "graph"

\* The edges are made anew when the filter or the chosen transfer changes, which
\* discards the layout under way and starts another.
Draws(p) ==
    IF <<p.asset, p.edge>> = <<page.asset, page.edge>>
    THEN Show(p)
    ELSE LET q == [p EXCEPT !.laying = @ + 1] IN Call(q, Layout(q))

\* The effect of a search, and of every new layout: the first match is chosen.
Found(p) ==
    IF p.query \cap p.drawn = {} THEN {p}
    ELSE {[p EXCEPT !.node = {n}] : n \in p.query \cap p.drawn}

FilterGraph(a) == OnGraph /\ Draws([page EXCEPT !.asset = a])
SearchGraph(Q) == OnGraph /\ Q # page.query /\ \E p \in Found([page EXCEPT !.query = Q]) : Show(p)

LayoutArrives ==
    \E r \in wire :
        /\ r.op = "layout"
        /\ IF OnGraph /\ r.laying = page.laying
           THEN \E p \in Found([page EXCEPT !.drawn = r.drawn]) : Then(p, r, {})
           ELSE Then(page, r, {})

ChooseNode(n) == OnGraph /\ n \in page.drawn /\ Draws([page EXCEPT !.node = {n}, !.edge = {}])

\* A transfer is chosen in the drawing, or from the list beside a chosen address,
\* which also has the transfers the filter hides.
ChooseEdge(e) ==
    /\ OnGraph
    /\ \/ e \in Displayed(page.asset)
       \/ page.edge = {} /\ page.node \cap Ends({e}) # {}
    /\ Draws([page EXCEPT !.edge = {e}, !.node = {}])

\* The pane, Clear, the cross and Escape.
ChooseNothing == OnGraph /\ Draws([page EXCEPT !.node = {}, !.edge = {}])

\* The arrows go round the addresses, and leave a chosen transfer chosen.
ArrowInGraph == OnGraph /\ \E n \in page.drawn : Show([page EXCEPT !.node = {n}])

-----------------------------------------------------------------------------
EntityNext ==
    \/ \E n \in Sizes : ChangeSize(n)
    \/ \E k \in EntityKinds : \E t \in TabsOf(k) : OpenTab(t)
    \/ GoNext \/ GoBack \/ ServeEntity \/ RowsArrive \/ EventsArrive
GraphNext ==
    \/ \E a \in {Transfers[e].asset : e \in DOMAIN Transfers} \cup {"all"} : FilterGraph(a)
    \/ \E Q \in SUBSET Ends(DOMAIN Transfers) : SearchGraph(Q)
    \/ \E n \in Ends(DOMAIN Transfers) : ChooseNode(n)
    \/ \E e \in DOMAIN Transfers : ChooseEdge(e)
    \/ LayoutArrives \/ ChooseNothing \/ ArrowInGraph

\* The rows on display are those of the page the buttons stand on, however the
\* size is changed while rows are read; and Back always leads towards the first page.
PagesAgree ==
    OnEntity =>
        /\ page.loading \/ page.shown \in {<<>>, <<page.cursor, page.size>>}
        /\ page.loading => \E r \in wire : r.op = "rows" /\ r.load = page.load
        /\ LET way == Append(page.past, page.cursor)
           IN way[1] = 0 /\ \A i \in 2 .. Len(way) : way[i - 1] < way[i]

\* When no layout is awaited the graph draws the ends of the transfers its filter
\* leaves: a slow layout of an earlier filter does not come back.
GraphIsOfTheFilter ==
    OnGraph =>
        \/ \E r \in wire : r.op = "layout" /\ r.laying = page.laying
        \/ page.drawn = Ends(Displayed(page.asset))

EntityTypeOK ==
    /\ OnEntity => page.size \in Sizes /\ page.cursor \in 0 .. Total /\ page.tab \in TabsOf(page.at)
    /\ OnGraph => page.node \cup page.drawn \subseteq Ends(DOMAIN Transfers) /\ page.edge \subseteq DOMAIN Transfers
=============================================================================
