----------------------------- MODULE ExplorerFeed -----------------------------
(***************************************************************************)
(* The first pages of the application and of the explorer: the figures of  *)
(* the home page (HomePage of releeve-app.tsx), the live feed of a network *)
(* (ExplorerPage of the same file) and the search field above the explorer *)
(* (GlobalExplorerSearch).  All three ask again and again, by a timer, an  *)
(* event stream or a key, and throw away what comes back too late.         *)
(***************************************************************************)
EXTENDS PageHost

CONSTANTS
    Queries,    \* bound: what is typed into the search field
    MaxFound    \* bound: how many suggestions the server finds

ASSUME MaxFoundAssumption == MaxFound \in Nat

FeedNetworks == {"mainnet", "testnet", "futurenet"}

-----------------------------------------------------------------------------
(* The live feed: two lists, polled and streamed *)

\* gen: the requests of this network; shows: the network either list is of
FeedMounted(n) == [at |-> "feed", net |-> n, gen |-> 0, ledgers |-> None, transactions |-> None,
    failed |-> FALSE, live |-> TRUE, calls |-> 0]

\* got: the lists in the answer
FeedCall(p, op) == [op |-> op, net |-> p.net, gen |-> p.gen, got |-> {}, out |-> "sent"]

\* futurenet has no ingestion to ask for: its feed is read at once.
Refreshes(p) == FeedCall(p, IF p.net = "futurenet" THEN "feed" ELSE "sync")

FeedInit ==
    \E n \in FeedNetworks :
        /\ page = FeedMounted(n)
        /\ wire = {Refreshes(FeedMounted(n))}
        /\ db = None

\* The effects of a new network: forget the feed, refresh it, listen to its events.
ShowNetwork(n) ==
    /\ page.at = "feed" /\ n # page.net
    /\ LET p == [FeedMounted(n) EXCEPT !.gen = page.gen + 1, !.calls = page.calls]
       IN Call(p, Refreshes(p))

PollFeed == page.at = "feed" /\ Call(page, Refreshes(page))

ServeFeed ==
    \E r \in wire :
        /\ r.op \in {"sync", "feed"} /\ r.out = "sent"
        /\ \E o \in {"ok", "fail"}, got \in SUBSET {"ledgers", "transactions"} :
              /\ IF r.op = "feed" THEN o = "ok" ELSE got = {}
              /\ wire' = (wire \ {r}) \cup {[r EXCEPT !.out = o, !.got = got]}
        /\ UNCHANGED <<page, db>>

FeedIsCurrent(r) == page.at = "feed" /\ r.gen = page.gen

\* The worker was asked to catch up; whatever it said, the feed is read now.
FeedSynced ==
    \E r \in Answers("sync") :
        IF FeedIsCurrent(r)
        THEN Then([page EXCEPT !.failed = @ \/ r.out = "fail"], r, {FeedCall(page, "feed")})
        ELSE Then(page, r, {})

\* Each list is replaced if its own request succeeded, and the error by theirs.
Fed(p, r) == [p EXCEPT
    !.ledgers      = IF "ledgers" \in r.got THEN r.net ELSE @,
    !.transactions = IF "transactions" \in r.got THEN r.net ELSE @,
    !.failed       = r.got # {"ledgers", "transactions"}]

FeedArrives ==
    \E r \in Answers("feed") :
        Then(IF FeedIsCurrent(r) THEN Fed(page, r) ELSE page, r, {})

\* An event of the stream brings both lists, or an error that leaves them.
FeedEvent ==
    /\ page.at = "feed" /\ page.live
    /\ \/ Show([page EXCEPT !.ledgers = page.net, !.transactions = page.net, !.failed = FALSE])
       \/ Show([page EXCEPT !.failed = TRUE])

\* A stream that breaks is closed for good, and the feed is read once.
FeedLost ==
    /\ page.at = "feed" /\ page.live
    /\ Call([page EXCEPT !.live = FALSE], FeedCall(page, "feed"))

DismissFeedError == page.at = "feed" /\ page.failed /\ Show([page EXCEPT !.failed = FALSE])

-----------------------------------------------------------------------------
(* The figures of the home page, read every minute for the current project *)

\* run: the effect of this project; whose: the project the figures are of
HomeMounted(s) == [at |-> "home", scope |-> s, run |-> 0, whose |-> None, calls |-> 0]
HomeLoad(p) == [op |-> "figures", scope |-> p.scope, run |-> p.run, got |-> {}, out |-> "sent"]

HomeInit ==
    /\ \E s \in Sought : page = HomeMounted(s) /\ wire = {HomeLoad(page)}
    /\ db = None

\* Another project, or none yet: the old effect is cancelled, the figures stay.
ChangeHome(s) ==
    /\ page.at = "home" /\ s # page.scope
    /\ LET p == [page EXCEPT !.scope = s, !.run = @ + 1]
       IN IF s = None THEN Show(p) ELSE Call(p, HomeLoad(p))

PollHome == page.at = "home" /\ page.scope # None /\ Call(page, HomeLoad(page))

\* Of six requests those that fail count as empty lists: the answer always arrives.
FiguresArrive ==
    \E r \in wire :
        /\ r.op = "figures"
        /\ Then(IF page.at = "home" /\ r.run = page.run THEN [page EXCEPT !.whose = r.scope] ELSE page, r, {})

-----------------------------------------------------------------------------
(* The search field *)

Empty == ""

\* found: how many suggestions there are, and the query they answer
\* timer: the pause after the last key; asks: the effect of the query typed
SearchMounted(n) == [at |-> "search", net |-> n, query |-> Empty, found |-> 0, of |-> <<n, Empty>>,
    open |-> FALSE, loading |-> FALSE, failed |-> FALSE, active |-> 0,
    timer |-> FALSE, asks |-> 0, calls |-> 0]

SearchInit ==
    /\ page = SearchMounted("mainnet")
    /\ wire = {} /\ db = None

\* The effect of another query or network: the look-up under way is aborted; a
\* field that is not empty waits for the user to stop typing.
Asks(p) ==
    IF p.query = Empty
    THEN [p EXCEPT !.asks = @ + 1, !.timer = FALSE, !.found = 0, !.of = <<p.net, Empty>>,
                   !.loading = FALSE, !.failed = FALSE]
    ELSE [p EXCEPT !.asks = @ + 1, !.timer = TRUE]

OnSearch == page.at = "search"
Steers == page.calls < MaxCalls
Steered(p) == [p EXCEPT !.calls = @ + 1]

TypeQuery(q) ==
    /\ OnSearch /\ Steers /\ q # page.query
    /\ Show(Steered(Asks([page EXCEPT !.query = q, !.open = TRUE])))

ClearQuery == OnSearch /\ page.query # Empty /\ Show(Asks([page EXCEPT !.query = Empty]))

SearchOther(n) == OnSearch /\ Steers /\ n # page.net /\ Show(Steered(Asks([page EXCEPT !.net = n])))

\* The pause is over: the look-up is sent.
LookUp ==
    /\ OnSearch /\ page.timer
    /\ LET p == [page EXCEPT !.timer = FALSE, !.loading = TRUE, !.failed = FALSE]
           r == [op |-> "suggest", of |-> <<p.net, p.query>>, asks |-> p.asks, found |-> 0, out |-> "sent"]
       IN page' = p /\ wire' = wire \cup {r} /\ UNCHANGED db

ServeLookUp ==
    \E r \in wire :
        /\ r.op = "suggest" /\ r.out = "sent"
        /\ \E o \in {"ok", "fail"}, k \in 0 .. MaxFound :
              /\ o = "fail" => k = 0
              /\ wire' = (wire \ {r}) \cup {[r EXCEPT !.out = o, !.found = k]}
        /\ UNCHANGED <<page, db>>

\* An answer opens the panel again, even after Escape.
LookUpArrives ==
    \E r \in Answers("suggest") :
        Then(IF OnSearch /\ r.asks = page.asks
             THEN [page EXCEPT !.found = r.found, !.of = r.of, !.active = 0,
                               !.failed = r.out = "fail", !.loading = FALSE, !.open = TRUE]
             ELSE page, r, {})

CloseSearchPanel == OnSearch /\ page.open /\ Show([page EXCEPT !.open = FALSE])
OpenSearchPanel == OnSearch /\ ~page.open /\ Show([page EXCEPT !.open = TRUE])

\* The arrows go round the suggestions; so does the pointer, when they are shown.
MoveInSearch(i) ==
    /\ OnSearch /\ i < page.found
    /\ \/ i \in {(page.active + 1) % page.found, (page.active + page.found - 1) % page.found}
       \/ page.open /\ page.query # Empty /\ ~page.loading /\ ~page.failed
    /\ Show([page EXCEPT !.active = i, !.open = TRUE])

\* Enter takes the active suggestion, also one of the query before; with none it
\* opens the panel.  The page of the suggestion is shown instead of this one.
EnterSearch ==
    /\ OnSearch
    /\ IF page.active < page.found
       THEN Show([at |-> "opened", calls |-> page.calls, of |-> page.of])
       ELSE Show([page EXCEPT !.open = TRUE])

-----------------------------------------------------------------------------
FeedNext ==
    \/ \E n \in FeedNetworks : ShowNetwork(n)
    \/ PollFeed \/ ServeFeed \/ FeedSynced \/ FeedArrives
    \/ FeedEvent \/ FeedLost \/ DismissFeedError
HomeNext ==
    \/ \E s \in Sought \cup {None} : ChangeHome(s)
    \/ PollHome \/ FiguresArrive
SearchNext ==
    \/ \E q \in Queries : TypeQuery(q)
    \/ \E n \in FeedNetworks : SearchOther(n)
    \/ \E i \in 0 .. MaxFound - 1 : MoveInSearch(i)
    \/ ClearQuery \/ LookUp \/ ServeLookUp \/ LookUpArrives
    \/ CloseSearchPanel \/ OpenSearchPanel \/ EnterSearch

\* What is on display was asked for in this network, for this project: neither a
\* late poll nor an old event puts one network's ledgers under another's name.
FeedIsOfTheNetwork ==
    /\ page.at = "feed" => {page.ledgers, page.transactions} \subseteq {None, page.net}
    /\ page.at = "home" =>
          (~(\E r \in wire : r.op = "figures" /\ r.run = page.run) => page.scope \in {None, page.whose})

\* A search that is under way ends: while the panel says "Checking", an answer that
\* will be heard is still to come; and once nothing is awaited, the suggestions are
\* those of the query in the field.
SearchComesToRest ==
    LET awaited == \E r \in wire : r.op = "suggest" /\ r.asks = page.asks
    IN page.at = "search" =>
          /\ page.loading => page.timer \/ awaited
          /\ page.timer \/ awaited \/ page.of = <<page.net, page.query>>

FeedTypeOK ==
    /\ page.at = "feed" => page.net \in FeedNetworks /\ page.failed \in BOOLEAN /\ page.live \in BOOLEAN
    /\ page.at = "search" => page.found \in 0 .. MaxFound /\ page.active \in 0 .. MaxFound
=============================================================================
