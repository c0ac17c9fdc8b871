------------------------------ MODULE IngestSync ------------------------------
(***************************************************************************)
(* The ledger ingestion worker (ingest/src/worker.rs, sync.rs, state.rs):  *)
(* every daemon runs sync passes for its network.  A pass takes a Redis    *)
(* lock with a time to live that it neither renews nor releases, starts    *)
(* after the watermark (or after max(sequence) when Redis has none), jumps *)
(* to the tail of a long backlog, and then, ledger after ledger, stores    *)
(* the header, stores the transactions and moves the watermark.            *)
(*                                                                         *)
(* Redis (watermark, lock) and Postgres (ledgers, transactions) are shared *)
(* by all workers; between any two awaits of a pass others may move.       *)
(***************************************************************************)
EXTENDS Naturals, FiniteSets

CONSTANTS
  Workers,     \* ingest daemons
  Networks,    \* networks kept in one Postgres and one Redis
  NoNetwork,   \* the network of an absent ledger row
  Serves,      \* Serves[w]: the network of daemon w (IngestSettings.network)
  MaxHead,     \* bound: the last ledger that closes
  TxCount,     \* transactions per ledger
  TxPage,      \* transactions in Horizon's answer without a limit: its first page
  Soroban,     \* the transactions, by number, that are contract invocations
  PageSize,    \* ledgers per Horizon page (PAGE_SIZE)
  MaxLedgers,  \* max_ledgers_per_pass
  LockTTL,     \* lock_ttl_secs, in ticks
  Overrun,     \* TRUE: a pass may outlast the lock's time to live
  MaxFaults,   \* bound: failed requests, lost passes and crashes
  MaxFlushes   \* bound: losses of the Redis data

ASSUME SyncAssumption ==
  /\ NoNetwork \notin Networks
  /\ Serves \in [Workers -> Networks]
  /\ MaxHead \in Nat
  /\ TxCount \in Nat
  /\ TxPage \in Nat
  /\ Soroban \subseteq 1..TxCount
  /\ PageSize \in Nat \ {0}
  /\ MaxLedgers \in Nat \ {0}
  /\ LockTTL \in Nat \ {0}
  /\ Overrun \in BOOLEAN
  /\ MaxFaults \in Nat
  /\ MaxFlushes \in Nat

VARIABLES
  head,       \* the last closed ledger of each network, at Horizon
  watermark,  \* releeve:sync:watermark:{network}; 0 when the key is absent
  ttl,        \* ticks left of releeve:sync:lock:{network}; 0 when free
  ledgerRow,  \* ledgers, by sequence: the network of the row or NoNetwork
  detail,     \* transactions, by network, ledger and number: what is stored
  pc,         \* where each worker is in sync_network
  next,       \* the ledger a pass is working on or will ask for next
  pageEnd,    \* the last ledger of the page a pass has fetched
  todo,       \* transactions of the current ledger not handled yet
  ingested,   \* ledgers the pass has counted
  skipped,    \* history: ledgers a pass jumped over to the tail of a backlog
  cut,        \* history: ledgers a pass left half done, until a pass takes them up
  dropped,    \* history: transactions a pass gave up on without ending
  faults,     \* failures so far
  flushes     \* Redis losses so far

redis    == <<watermark, ttl>>
postgres == <<ledgerRow, detail>>
pass     == <<pc, next, pageEnd, todo, ingested>>
history  == <<skipped, cut, dropped>>
env      == <<head, faults, flushes>>
vars     == <<head, watermark, ttl, ledgerRow, detail, pc, next, pageEnd, todo,
              ingested, skipped, cut, dropped, faults, flushes>>

Ledgers   == 1..MaxHead
Txs       == 1..TxCount
Served    == {i \in Txs : i <= TxPage}            \* what a pass ever hears of
AllTxs    == Networks \X Ledgers \X Txs
Absent    == 0                                   \* no watermark
Detail    == {"absent", "classic", "rich"}
Steps     == {"idle", "start", "max", "head", "page", "ledger", "txs", "tx", "mark"}

Least(a, b) == IF a <= b THEN a ELSE b

\* A ledger whose transactions are all in Postgres.
Complete(n, s) == \A i \in Txs : detail[<<n, s, i>>] # "absent"

Stored(n) == {s \in Ledgers : ledgerRow[s] = n}

\* The last of a set of ledgers, 0 when there are none.
Last(S) == IF S = {} THEN 0 ELSE CHOOSE s \in S : \A t \in S : t <= s

\* Mutant: the query does not ask for the network.
MaxSequenceAny(n) == Last(UNION {Stored(m) : m \in Networks})

\* max(sequence) of the network's rows.  A ledger whose number another network
\* stored first has no row of its own.
MaxSequence(n) == Last(Stored(n))

\* A backlog of a whole window or more is skipped but for its last window.
TailStart(start, h) ==
  IF h >= start + MaxLedgers THEN h - (MaxLedgers - 1) ELSE start

Init ==
  /\ head = [n \in Networks |-> 0]
  /\ watermark = [n \in Networks |-> Absent]
  /\ ttl = [n \in Networks |-> 0]
  /\ ledgerRow = [s \in Ledgers |-> NoNetwork]
  /\ detail = [t \in AllTxs |-> "absent"]
  /\ pc = [w \in Workers |-> "idle"]
  /\ next = [w \in Workers |-> 1]
  /\ pageEnd = [w \in Workers |-> 0]
  /\ todo = [w \in Workers |-> {}]
  /\ ingested = [w \in Workers |-> 0]
  /\ skipped = [n \in Networks |-> {}]
  /\ cut = [n \in Networks |-> {}]
  /\ dropped = {}
  /\ faults = 0
  /\ flushes = 0

Goto(w, step) == pc' = [pc EXCEPT ![w] = step]

\* A failure of the budget is used up.
Fault == /\ faults < MaxFaults
         /\ faults' = faults + 1

\* Mutant: the lock is not checked.
AcquireAnyway(w) ==
  /\ pc[w] = "idle"
  /\ ttl' = [ttl EXCEPT ![Serves[w]] = LockTTL]
  /\ Goto(w, "start")
  /\ UNCHANGED <<watermark, postgres, next, pageEnd, todo, ingested, history, env>>

\* SET NX EX: a pass begins when the key is free, else it ends at once.
Acquire(w) ==
  /\ pc[w] = "idle"
  /\ ttl[Serves[w]] = 0
  /\ ttl' = [ttl EXCEPT ![Serves[w]] = LockTTL]
  /\ Goto(w, "start")
  /\ UNCHANGED <<watermark, postgres, next, pageEnd, todo, ingested, history, env>>

\* Start right after the watermark, if there is one.
ReadWatermark(w) ==
  /\ pc[w] = "start"
  /\ IF watermark[Serves[w]] = Absent
     THEN /\ Goto(w, "max")
          /\ UNCHANGED next
     ELSE /\ Goto(w, "head")
          /\ next' = [next EXCEPT ![w] = watermark[Serves[w]] + 1]
  /\ UNCHANGED <<redis, postgres, pageEnd, todo, ingested, history, env>>

\* No watermark: start after max(sequence), whatever those ledgers lack.
ReadMaxSequence(w) ==
  /\ pc[w] = "max"
  /\ next' = [next EXCEPT ![w] = MaxSequence(Serves[w]) + 1]
  /\ Goto(w, "head")
  /\ UNCHANGED <<redis, postgres, pageEnd, todo, ingested, history, env>>

\* Mutant: the tail starts after the head.
ReadHeadPast(w) ==
  /\ pc[w] = "head"
  /\ next' = [next EXCEPT ![w] = TailStart(@, head[Serves[w]]) + 1]
  /\ ingested' = [ingested EXCEPT ![w] = 0]
  /\ Goto(w, "page")
  /\ UNCHANGED <<redis, postgres, pageEnd, todo, history, env>>

\* The head is known: jump to the tail if the backlog is long.
ReadHead(w) ==
  LET n     == Serves[w]
      start == TailStart(next[w], head[n])
  IN  /\ pc[w] = "head"
      /\ next' = [next EXCEPT ![w] = start]
      /\ skipped' = [skipped EXCEPT ![n] = @ \cup (next[w]..(start - 1))]
      /\ ingested' = [ingested EXCEPT ![w] = 0]
      /\ Goto(w, "page")
      /\ UNCHANGED <<redis, postgres, pageEnd, todo, cut, dropped, env>>

\* The head request fails: the pass keeps its start.
HeadUnknown(w) ==
  /\ pc[w] = "head"
  /\ Fault
  /\ ingested' = [ingested EXCEPT ![w] = 0]
  /\ Goto(w, "page")
  /\ UNCHANGED <<redis, postgres, next, pageEnd, todo, history, head, flushes>>

\* Mutant: only whole pages are taken.
FetchWholePage(w) ==
  /\ pc[w] = "page"
  /\ IF ingested[w] < MaxLedgers /\ next[w] + PageSize - 1 <= head[Serves[w]]
     THEN /\ pageEnd' = [pageEnd EXCEPT ![w] = next[w] + PageSize - 1]
          /\ Goto(w, "ledger")
     ELSE /\ Goto(w, "idle")
          /\ UNCHANGED pageEnd
  /\ UNCHANGED <<redis, postgres, next, todo, ingested, history, env>>

\* The next page after the cursor; the pass ends on an empty one or when it
\* has counted max_ledgers, which only a page boundary checks.
FetchPage(w) ==
  LET h == head[Serves[w]]
  IN  /\ pc[w] = "page"
      /\ IF ingested[w] < MaxLedgers /\ next[w] <= h
         THEN /\ pageEnd' = [pageEnd EXCEPT ![w] = Least(next[w] + PageSize - 1, h)]
              /\ Goto(w, "ledger")
         ELSE /\ Goto(w, "idle")
              /\ UNCHANGED pageEnd
      /\ UNCHANGED <<redis, postgres, next, todo, ingested, history, env>>

\* upsert_ledger: sequence alone is the primary key, DO NOTHING on conflict.
StoreLedger(w) ==
  /\ pc[w] = "ledger"
  /\ ledgerRow' = [ledgerRow EXCEPT ![next[w]] = IF @ = NoNetwork THEN Serves[w] ELSE @]
  /\ cut' = [cut EXCEPT ![Serves[w]] = @ \ {next[w]}]
  /\ Goto(w, "txs")
  /\ UNCHANGED <<redis, detail, next, pageEnd, todo, ingested, skipped, dropped, env>>

\* One request, with no limit and no cursor: what is past Horizon's first page
\* is not asked for.
FetchTxs(w) ==
  /\ pc[w] = "txs"
  /\ todo' = [todo EXCEPT ![w] = Served]
  /\ Goto(w, "tx")
  /\ UNCHANGED <<redis, postgres, next, pageEnd, ingested, history, env>>

\* A 4xx answer, or a body without records, which counts as an empty list: the
\* ledger goes on without its transactions.
RefuseTxs(w) ==
  /\ pc[w] = "txs"
  /\ Fault
  /\ dropped' = dropped \cup ({Serves[w]} \X {next[w]} \X Served)
  /\ todo' = [todo EXCEPT ![w] = {}]
  /\ Goto(w, "tx")
  /\ UNCHANGED <<redis, postgres, next, pageEnd, ingested, skipped, cut, head, flushes>>

\* The transaction the loop is at: they are handled in page order.
Current(w) == CHOOSE i \in todo[w] : \A j \in todo[w] : i <= j

Handle(w) ==
  /\ pc[w] = "tx"
  /\ todo[w] # {}
  /\ todo' = [todo EXCEPT ![w] = @ \ {Current(w)}]

\* upsert_tx in one transaction: the RPC detail of an invocation, else the
\* decoded Horizon record.
StoreTx(w) ==
  /\ Handle(w)
  /\ detail' = [detail EXCEPT ![<<Serves[w], next[w], Current(w)>>] =
       IF Current(w) \in Soroban THEN "rich" ELSE "classic"]
  /\ UNCHANGED <<redis, ledgerRow, pc, next, pageEnd, ingested, history, env>>

\* The RPC node fails: the Horizon record of the invocation is upserted.  Its
\* call tree is not empty, so it replaces the detail of a richer row too.
FallBack(w) ==
  /\ Handle(w)
  /\ Current(w) \in Soroban
  /\ Fault
  /\ detail' = [detail EXCEPT ![<<Serves[w], next[w], Current(w)>>] = "classic"]
  /\ UNCHANGED <<redis, ledgerRow, pc, next, pageEnd, ingested, history, head, flushes>>

\* Operations refused or record undecodable, or, for an invocation, RPC and
\* Horizon both unavailable: the loop goes on without the row.
DropTx(w) ==
  /\ Handle(w)
  /\ Fault
  /\ dropped' = dropped \cup {<<Serves[w], next[w], Current(w)>>}
  /\ UNCHANGED <<redis, postgres, pc, next, pageEnd, ingested, skipped, cut, head, flushes>>

\* The ledger is done: count it and go to the next one or to the next page.
NextLedger(w) ==
  /\ ingested' = [ingested EXCEPT ![w] = @ + 1]
  /\ next' = [next EXCEPT ![w] = @ + 1]
  /\ Goto(w, IF next[w] = pageEnd[w] THEN "page" ELSE "ledger")

\* Mutant: the watermark moves before the transactions are stored.
ReadMarkEarly(w) ==
  /\ pc[w] = "tx"
  /\ IF watermark[Serves[w]] >= next[w]
     THEN NextLedger(w)
     ELSE Goto(w, "mark") /\ UNCHANGED <<next, ingested>>
  /\ UNCHANGED <<redis, postgres, pageEnd, todo, history, env>>

\* set_watermark, the GET: nothing to do when the key is as high already.
ReadMark(w) ==
  /\ pc[w] = "tx"
  /\ todo[w] = {}
  /\ IF watermark[Serves[w]] >= next[w]
     THEN NextLedger(w)
     ELSE Goto(w, "mark") /\ UNCHANGED <<next, ingested>>
  /\ UNCHANGED <<redis, postgres, pageEnd, todo, history, env>>

\* set_watermark, the SET: a command of its own.
WriteMark(w) ==
  /\ pc[w] = "mark"
  /\ watermark' = [watermark EXCEPT ![Serves[w]] = next[w]]
  /\ NextLedger(w)
  /\ UNCHANGED <<ttl, postgres, pageEnd, todo, history, env>>

\* Horizon unavailable (the pass returns early), a page without records, a
\* Redis or Postgres error, an undecodable ledger, or a crash: the pass is over,
\* its lock stays.
EndPass(w) ==
  /\ pc[w] # "idle"
  /\ Fault
  /\ cut' = [cut EXCEPT ![Serves[w]] =
       IF pc[w] \in {"txs", "tx"} THEN @ \cup {next[w]} ELSE @]
  /\ Goto(w, "idle")
  /\ UNCHANGED <<redis, postgres, next, pageEnd, todo, ingested, skipped, dropped,
                 head, flushes>>

\* One tick of the locks.  Unless Overrun, passes are done before it is late.
Tick ==
  /\ \E n \in Networks : ttl[n] > 0
  /\ Overrun \/ \A w \in Workers : pc[w] # "idle" => ttl[Serves[w]] > 1
  /\ ttl' = [n \in Networks |-> IF ttl[n] = 0 THEN 0 ELSE ttl[n] - 1]
  /\ UNCHANGED <<watermark, postgres, pass, history, env>>

\* Redis loses its data.
Flush ==
  /\ flushes < MaxFlushes
  /\ flushes' = flushes + 1
  /\ watermark' = [n \in Networks |-> Absent]
  /\ ttl' = [n \in Networks |-> 0]
  /\ UNCHANGED <<postgres, pass, history, head, faults>>

\* A ledger closes.
CloseLedger(n) ==
  /\ head[n] < MaxHead
  /\ head' = [head EXCEPT ![n] = @ + 1]
  /\ UNCHANGED <<redis, postgres, pass, history, faults, flushes>>

\* What a pass does by itself.
Step(w) ==
  \/ ReadWatermark(w) \/ ReadMaxSequence(w) \/ ReadHead(w) \/ FetchPage(w)
  \/ StoreLedger(w) \/ FetchTxs(w) \/ StoreTx(w) \/ ReadMark(w) \/ WriteMark(w)

\* What its upstreams can do to it.
Failure(w) == HeadUnknown(w) \/ RefuseTxs(w) \/ FallBack(w) \/ DropTx(w) \/ EndPass(w)

Next ==
  \/ \E w \in Workers : Acquire(w) \/ Step(w) \/ Failure(w)
  \/ \E n \in Networks : CloseLedger(n)
  \/ Tick
  \/ Flush

Spec == Init /\ [][Next]_vars

\* The daemon's interval keeps starting passes, a pass keeps running, and time
\* passes, so the lock of an ended pass lapses.
Fairness ==
  /\ \A w \in Workers : WF_vars(Acquire(w)) /\ WF_vars(Step(w))
  /\ WF_vars(Tick)

FairSpec == Spec /\ Fairness
-----------------------------------------------------------------------------
TypeOK ==
  /\ head \in [Networks -> 0..MaxHead]
  /\ watermark \in [Networks -> 0..MaxHead]
  /\ ttl \in [Networks -> 0..LockTTL]
  /\ ledgerRow \in [Ledgers -> Networks \cup {NoNetwork}]
  /\ detail \in [AllTxs -> Detail]
  /\ pc \in [Workers -> Steps]
  /\ next \in [Workers -> 1..(MaxHead + 1)]
  /\ pageEnd \in [Workers -> 0..MaxHead]
  /\ todo \in [Workers -> SUBSET Txs]
  /\ ingested \in [Workers -> Nat]
  /\ skipped \in [Networks -> SUBSET Ledgers]
  /\ cut \in [Networks -> SUBSET Ledgers]
  /\ dropped \in SUBSET AllTxs
  /\ faults \in 0..MaxFaults
  /\ flushes \in 0..MaxFlushes

\* A ledger that is done with: each of the transactions Horizon served of it is
\* in Postgres or was given up.
Accounted(n, s) ==
  \A i \in Served : detail[<<n, s, i>>] # "absent" \/ <<n, s, i>> \in dropped

\* A pass has stored the header of the ledger and works on its transactions.
Underway(n, s) ==
  \E w \in Workers : Serves[w] = n /\ next[w] = s /\ pc[w] \in {"txs", "tx"}

\* The only ways for a ledger not to be accounted for: a jump to the tail of the
\* backlog, a pass that ended within it, or one that is within it.
Explained(n, s) ==
  Accounted(n, s) \/ s \in skipped[n] \/ s \in cut[n] \/ Underway(n, s)

\* What the watermark covers lacks a served transaction for no other reason, whatever
\* passes overlap, fail, crash or lose Redis (sync.rs: "highest fully-ingested
\* ledger sequence").  Losing Redis is no reason of its own: of the ledgers that
\* a pass ended within, it is only whether one is taken up again.
NoUnexplainedGap ==
  \A n \in Networks : \A s \in 1..watermark[n] : Explained(n, s)

\* While passes finish within the lock's time to live, a network has one
\* writer (sync.rs: the lock guarantees exactly one worker ingests a range).
SingleWriter ==
  \A v, w \in Workers :
    (Serves[v] = Serves[w] /\ pc[v] # "idle" /\ pc[w] # "idle") => v = w

\* The watermark of a network never goes back (sync.rs: never regresses).
WatermarkMonotone == [][\A n \in Networks : watermark'[n] >= watermark[n]]_vars

\* The same of what a start from Postgres goes past (sync.rs: the watermark is
\* "rebuildable from Postgres"): before max(sequence), which is that of headers, is no
\* ledger that lacks a served transaction but for these reasons, and none because
\* another network keeps its ledgers under the same key.
RebuildExplained ==
  \A n \in Networks : \A s \in 1..MaxSequence(n) : Explained(n, s)

\* A ledger that a pass ended within and that no later one starts at.
PassedOver(n, s) ==
  s \in cut[n] /\ (watermark[n] = Absent \/ watermark[n] >= s)

\* Once failures stop, every ledger that has closed is accounted for, unless it was
\* jumped over or passed over: the lock of a pass that ended or died does not keep its
\* network from being synced, and no short page or late head is waited for in vain.
CatchesUp ==
  \A n \in Networks, s \in Ledgers :
    head[n] >= s ~> Accounted(n, s) \/ s \in skipped[n] \/ PassedOver(n, s)
-----------------------------------------------------------------------------
(* What a comment of the code says and a run refutes. *)

\* sync.rs:21: every ledger up to the watermark is fully ingested, apart from
\* a backlog that a tail start skips.
NoGapByRefusal ==
  \A n \in Networks, s \in Ledgers :
    s <= watermark[n] => s \in skipped[n] \/ Complete(n, s)
=============================================================================
