--------------------------- MODULE IngestSyncProofs ---------------------------
(***************************************************************************)
(* Theorems about the ingestion worker for any number of daemons, networks *)
(* and ledgers, and any page, window and lock settings.                    *)
(***************************************************************************)
EXTENDS IngestSync, WellFoundedInduction, TLAPS

\* A set of numbers that is not empty has a least member.
LEMMA LeastMember ==
  ASSUME NEW T \in SUBSET Nat, T # {}
  PROVE  \E x \in T : \A y \in T : x <= y
<1>1. \E x \in T : \A y \in T : ~(<<y, x>> \in OpToRel(<, Nat))
  BY NatLessThanWellFounded, WFMin, Zenon
<1>2. PICK x \in T : \A y \in T : ~(<<y, x>> \in OpToRel(<, Nat))
  BY <1>1
<1>3. \A y \in T : ~(y < x)
  BY <1>2 DEF OpToRel
<1> QED BY <1>3

\* The transaction in hand is one of those to do.
LEMMA CurrentInHand ==
  ASSUME NEW w \in Workers, todo[w] \in SUBSET Txs, todo[w] # {}
  PROVE  Current(w) \in todo[w]
<1>1. todo[w] \in SUBSET Nat
  BY SyncAssumption DEF Txs
<1>2. \E i \in todo[w] : \A j \in todo[w] : i <= j
  BY <1>1, LeastMember
<1> QED BY <1>2 DEF Current

\* max(sequence) is the last of the network's ledgers, or 0.
LEMMA MaxSequenceStored ==
  ASSUME NEW n \in Networks
  PROVE  IF Stored(n) = {} THEN MaxSequence(n) = 0 ELSE MaxSequence(n) \in Stored(n)
<1>1. CASE Stored(n) = {}
  BY <1>1 DEF MaxSequence, Last
<1>2. CASE Stored(n) # {}
  <2> DEFINE T == {MaxHead - s : s \in Stored(n)}
  <2>1. T \in SUBSET Nat /\ T # {}
    BY <1>2, SyncAssumption DEF Stored, Ledgers
  <2>2. PICK x \in T : \A y \in T : x <= y
    BY <2>1, LeastMember
  <2>3. PICK s \in Stored(n) : x = MaxHead - s
    BY <2>2
  <2>4. \A t \in Stored(n) : t <= s
    <3>1. ASSUME NEW t \in Stored(n) PROVE t <= s
      <4>1. x <= MaxHead - t
        BY <2>2
      <4>2. s \in 1..MaxHead /\ t \in 1..MaxHead
        BY DEF Stored, Ledgers
      <4> QED BY <2>3, <4>1, <4>2, SyncAssumption
    <3> QED BY <3>1
  <2> QED BY <1>2, <2>4 DEF MaxSequence, Last
<1> QED BY <1>1, <1>2

LEMMA MaxSequenceType ==
  ASSUME NEW n \in Networks
  PROVE  MaxSequence(n) \in 0..MaxHead
BY MaxSequenceStored, SyncAssumption DEF Stored, Ledgers

\* The tail start is never before the start nor after the ledger behind the head.
LEMMA TailStartType ==
  ASSUME NEW s \in 1..(MaxHead + 1), NEW h \in 0..MaxHead
  PROVE  TailStart(s, h) \in s..(MaxHead + 1)
BY SyncAssumption DEF TailStart

-----------------------------------------------------------------------------
(* Type correctness.  A pass that is on a ledger is within its page.        *)

OnLedger == {"ledger", "txs", "tx", "mark"}

WithinPage == \A w \in Workers : pc[w] \in OnLedger => next[w] <= pageEnd[w]

TypeInv == TypeOK /\ WithinPage

LEMMA TypeInvInit == Init => TypeInv
BY SyncAssumption
   DEF Init, TypeInv, TypeOK, WithinPage, OnLedger, Steps, Absent, Detail

\* A ledger in hand is one of the ledgers, its transactions are transactions.
LEMMA InHand ==
  ASSUME TypeInv, NEW w \in Workers, pc[w] \in OnLedger
  PROVE  /\ next[w] \in Ledgers
         /\ Serves[w] \in Networks
         /\ \A i \in Txs : <<Serves[w], next[w], i>> \in AllTxs
BY SyncAssumption DEF TypeInv, TypeOK, WithinPage, Ledgers, AllTxs

\* Going to the next ledger keeps the shape of the pass.
LEMMA NextLedgerShape ==
  ASSUME TypeInv, NEW w \in Workers, pc[w] \in {"tx", "mark"}, NextLedger(w),
         UNCHANGED pageEnd
  PROVE  /\ pc' \in [Workers -> Steps]
         /\ next' \in [Workers -> 1..(MaxHead + 1)]
         /\ ingested' \in [Workers -> Nat]
         /\ WithinPage'
<1>1. next[w] \in 1..MaxHead /\ next[w] <= pageEnd[w] /\ pageEnd[w] \in 0..MaxHead
  BY SyncAssumption DEF TypeInv, TypeOK, WithinPage, OnLedger
<1>2. pc' \in [Workers -> Steps] /\ next' \in [Workers -> 1..(MaxHead + 1)]
  BY <1>1, SyncAssumption DEF NextLedger, Goto, TypeInv, TypeOK, Steps
<1>3. ingested' \in [Workers -> Nat]
  BY DEF NextLedger, TypeInv, TypeOK
<1>4. WithinPage'
  BY <1>1, SyncAssumption DEF NextLedger, Goto, TypeInv, TypeOK, WithinPage, OnLedger, Steps
<1> QED BY <1>2, <1>3, <1>4

LEMMA TypeInvNext == TypeInv /\ [Next]_vars => TypeInv'
<1> USE SyncAssumption DEF redis, postgres, pass, history, env
<1> SUFFICES ASSUME TypeInv, [Next]_vars PROVE TypeInv'
  OBVIOUS
<1> USE DEF TypeInv
<1>1. ASSUME NEW w \in Workers, Acquire(w) PROVE TypeInv'
  BY <1>1 DEF Acquire, Goto, TypeOK, WithinPage, OnLedger, Steps
<1>2. ASSUME NEW w \in Workers, ReadWatermark(w) PROVE TypeInv'
  <2>1. watermark[Serves[w]] \in 0..MaxHead
    BY DEF TypeOK
  <2> QED
    BY <1>2, <2>1 DEF ReadWatermark, Goto, TypeOK, WithinPage, OnLedger, Steps
<1>3. ASSUME NEW w \in Workers, ReadMaxSequence(w) PROVE TypeInv'
  <2>1. Serves[w] \in Networks /\ MaxSequence(Serves[w]) \in 0..MaxHead
    BY MaxSequenceType
  <2>3. next' \in [Workers -> 1..(MaxHead + 1)] /\ pc' \in [Workers -> Steps] /\ WithinPage'
    BY <1>3, <2>1 DEF ReadMaxSequence, Goto, TypeOK, WithinPage, OnLedger, Steps
  <2> QED BY <1>3, <2>3 DEF ReadMaxSequence, TypeOK
<1>4. ASSUME NEW w \in Workers, ReadHead(w) PROVE TypeInv'
  <2> DEFINE start == TailStart(next[w], head[Serves[w]])
  <2>0. Serves[w] \in Networks /\ head[Serves[w]] \in 0..MaxHead /\ next[w] \in 1..(MaxHead + 1)
    BY DEF TypeOK
  <2>1. start \in next[w]..(MaxHead + 1)
    BY <2>0, TailStartType
  <2>2. next[w]..(start - 1) \in SUBSET Ledgers
    BY <2>0, <2>1 DEF Ledgers
  <2>3. skipped' \in [Networks -> SUBSET Ledgers]
    BY <1>4, <2>0, <2>2 DEF ReadHead, TypeOK
  <2>4. next' \in [Workers -> 1..(MaxHead + 1)] /\ pc' \in [Workers -> Steps] /\ WithinPage'
    BY <1>4, <2>0, <2>1 DEF ReadHead, Goto, TypeOK, WithinPage, OnLedger, Steps
  <2> QED BY <1>4, <2>3, <2>4 DEF ReadHead, TypeOK
<1>5. ASSUME NEW w \in Workers, HeadUnknown(w) PROVE TypeInv'
  BY <1>5 DEF HeadUnknown, Fault, Goto, TypeOK, WithinPage, OnLedger, Steps
<1>6. ASSUME NEW w \in Workers, FetchPage(w) PROVE TypeInv'
  <2>1. head[Serves[w]] \in 0..MaxHead /\ next[w] \in 1..(MaxHead + 1)
    BY DEF TypeOK
  <2> QED
    BY <1>6, <2>1 DEF FetchPage, Least, Goto, TypeOK, WithinPage, OnLedger, Steps
<1>7. ASSUME NEW w \in Workers, StoreLedger(w) PROVE TypeInv'
  <2>1. next[w] \in Ledgers /\ Serves[w] \in Networks
    BY <1>7, InHand DEF StoreLedger, OnLedger
  <2> QED
    BY <1>7, <2>1 DEF StoreLedger, Goto, TypeOK, WithinPage, OnLedger, Steps
<1>8. ASSUME NEW w \in Workers, FetchTxs(w) PROVE TypeInv'
  BY <1>8 DEF FetchTxs, Served, Goto, TypeOK, WithinPage, OnLedger, Steps
<1>9. ASSUME NEW w \in Workers, RefuseTxs(w) PROVE TypeInv'
  <2>1. {Serves[w]} \X {next[w]} \X Served \subseteq AllTxs
    BY <1>9, InHand DEF RefuseTxs, OnLedger, AllTxs, Served
  <2> QED
    BY <1>9, <2>1 DEF RefuseTxs, Fault, Goto, TypeOK, WithinPage, OnLedger, Steps
<1>10. ASSUME NEW w \in Workers, StoreTx(w) \/ FallBack(w) \/ DropTx(w) PROVE TypeInv'
  <2>1. Handle(w) /\ UNCHANGED <<redis, ledgerRow, pc, next, pageEnd, ingested, skipped, cut, head, flushes>>
    BY <1>10 DEF StoreTx, FallBack, DropTx
  <2>2. Current(w) \in Txs
    BY <2>1, CurrentInHand DEF Handle, TypeOK
  <2>3. <<Serves[w], next[w], Current(w)>> \in AllTxs
    BY <2>1, <2>2, InHand DEF Handle, OnLedger
  <2>4. detail' \in [AllTxs -> Detail]
    BY <1>10, <2>3 DEF StoreTx, FallBack, DropTx, TypeOK, Detail
  <2>6. dropped' \in SUBSET AllTxs
    BY <1>10, <2>3 DEF StoreTx, FallBack, DropTx, TypeOK
  <2>7. faults' \in 0..MaxFaults
    BY <1>10 DEF StoreTx, FallBack, DropTx, Fault, TypeOK
  <2>5. todo' \in [Workers -> SUBSET Txs] /\ WithinPage'
    BY <2>1 DEF Handle, TypeOK, WithinPage
  <2> QED BY <2>1, <2>4, <2>5, <2>6, <2>7 DEF TypeOK
<1>11. ASSUME NEW w \in Workers, ReadMark(w) PROVE TypeInv'
  <2>1. CASE watermark[Serves[w]] >= next[w]
    <3>1. NextLedger(w) /\ UNCHANGED pageEnd /\ pc[w] \in {"tx", "mark"}
      BY <1>11, <2>1 DEF ReadMark
    <3> QED BY <1>11, <3>1, NextLedgerShape DEF ReadMark, TypeOK
  <2>2. CASE ~(watermark[Serves[w]] >= next[w])
    BY <1>11, <2>2 DEF ReadMark, Goto, TypeOK, WithinPage, OnLedger, Steps
  <2> QED BY <2>1, <2>2
<1>12. ASSUME NEW w \in Workers, WriteMark(w) PROVE TypeInv'
  <2>1. NextLedger(w) /\ UNCHANGED pageEnd /\ pc[w] \in {"tx", "mark"}
    BY <1>12 DEF WriteMark
  <2>2. next[w] \in 0..MaxHead
    BY <2>1, InHand DEF OnLedger, Ledgers
  <2> QED BY <1>12, <2>1, <2>2, NextLedgerShape DEF WriteMark, TypeOK
<1>13. ASSUME NEW w \in Workers, EndPass(w) PROVE TypeInv'
  <2>1. pc[w] \in {"txs", "tx"} => next[w] \in Ledgers
    BY InHand DEF OnLedger
  <2>2. cut' \in [Networks -> SUBSET Ledgers]
    BY <1>13, <2>1 DEF EndPass, TypeOK
  <2> QED BY <1>13, <2>2 DEF EndPass, Fault, Goto, TypeOK, WithinPage, OnLedger, Steps
<1>14. CASE Tick
  BY <1>14 DEF Tick, TypeOK, WithinPage
<1>15. CASE Flush
  BY <1>15 DEF Flush, Absent, TypeOK, WithinPage
<1>16. ASSUME NEW n \in Networks, CloseLedger(n) PROVE TypeInv'
  BY <1>16 DEF CloseLedger, TypeOK, WithinPage
<1>17. CASE UNCHANGED vars
  BY <1>17 DEF vars, TypeOK, WithinPage
<1> QED
  BY <1>1, <1>2, <1>3, <1>4, <1>5, <1>6, <1>7, <1>8, <1>9, <1>10, <1>11, <1>12, <1>13,
     <1>14, <1>15, <1>16, <1>17 DEF Next, Step, Failure

\* The state of the worker, of Redis and of Postgres is well formed in every
\* behaviour; a pass never works on a ledger outside its page.
THEOREM TypeCorrect == Spec => []TypeOK
<1>1. TypeInv => TypeOK
  BY DEF TypeInv
<1> QED BY <1>1, TypeInvInit, TypeInvNext, PTL DEF Spec
(* The watermark, and max(sequence), cover nothing that is not explained.    *)

\* The transaction is in Postgres or was given up.
Held(n, s, i) == detail[<<n, s, i>>] # "absent" \/ <<n, s, i>> \in dropped

\* Of a pass: everything before the ledger it is at is explained, so are the
\* transactions of that ledger it has handled, and the whole ledger is accounted
\* for when its watermark is about to be written.
PassAccounted(w) ==
  /\ pc[w] \in {"head", "page"} \cup OnLedger =>
       \A s \in Ledgers : s < next[w] => Explained(Serves[w], s)
  /\ pc[w] = "tx" => \A i \in Served : i \notin todo[w] => Held(Serves[w], next[w], i)
  /\ pc[w] = "mark" => Accounted(Serves[w], next[w])

\* What a start without a watermark goes past: a ledger with a row, or one before it.
StoredExplained ==
  \A n \in Networks : \A t \in Stored(n) : \A s \in Ledgers : s <= t => Explained(n, s)

GapInv ==
  /\ NoUnexplainedGap
  /\ StoredExplained
  /\ \A w \in Workers : PassAccounted(w)

\* Nothing that is stored, given up or jumped over is ever undone.
LEMMA NothingUndone ==
  ASSUME TypeInv, [Next]_vars
  PROVE  /\ \A n \in Networks : skipped[n] \subseteq skipped'[n]
         /\ dropped \subseteq dropped'
         /\ \A t \in AllTxs : detail[t] # "absent" => detail'[t] # "absent"
<1> USE SyncAssumption DEF redis, postgres, pass, history, env, TypeInv
<1>1. ASSUME NEW w \in Workers, StoreTx(w) \/ FallBack(w) \/ DropTx(w)
      PROVE  /\ \A n \in Networks : skipped[n] \subseteq skipped'[n]
             /\ dropped \subseteq dropped'
             /\ \A t \in AllTxs : detail[t] # "absent" => detail'[t] # "absent"
  BY <1>1 DEF StoreTx, FallBack, DropTx, TypeOK
<1>2. ASSUME NEW w \in Workers, ReadHead(w) \/ RefuseTxs(w)
      PROVE  /\ \A n \in Networks : skipped[n] \subseteq skipped'[n]
             /\ dropped \subseteq dropped'
             /\ \A t \in AllTxs : detail[t] # "absent" => detail'[t] # "absent"
  BY <1>2 DEF ReadHead, RefuseTxs, TypeOK
<1>3. CASE UNCHANGED <<skipped, dropped, detail>>
  BY <1>3
<1>4. ASSUME NEW w \in Workers,
             \/ Acquire(w) \/ ReadWatermark(w) \/ ReadMaxSequence(w) \/ HeadUnknown(w) \/ FetchPage(w)
             \/ StoreLedger(w) \/ FetchTxs(w) \/ ReadMark(w) \/ WriteMark(w) \/ EndPass(w)
      PROVE  UNCHANGED <<skipped, dropped, detail>>
  BY <1>4 DEF Acquire, ReadWatermark, ReadMaxSequence, HeadUnknown, FetchPage, StoreLedger,
       FetchTxs, ReadMark, WriteMark, EndPass
<1>5. ASSUME \/ Tick \/ Flush \/ UNCHANGED vars \/ \E n \in Networks : CloseLedger(n)
      PROVE  UNCHANGED <<skipped, dropped, detail>>
  BY <1>5 DEF Tick, Flush, vars, CloseLedger
<1> QED BY <1>1, <1>2, <1>3, <1>4, <1>5 DEF Next, Step, Failure

\* What is accounted for, or held, stays so.
LEMMA AccountedStays ==
  ASSUME TypeInv, [Next]_vars, NEW n \in Networks, NEW s \in Ledgers
  PROVE  /\ Accounted(n, s) => Accounted(n, s)'
         /\ \A i \in Txs : Held(n, s, i) => Held(n, s, i)'
<1>1. \A i \in Txs : <<n, s, i>> \in AllTxs
  BY DEF AllTxs
<1>2. \A i \in Txs : Held(n, s, i) => Held(n, s, i)'
  BY <1>1, NothingUndone DEF Held
<1>3. Accounted(n, s) => Accounted(n, s)'
  BY <1>1, NothingUndone DEF Accounted, Served
<1> QED BY <1>2, <1>3

\* A ledger whose transactions have all been handled is accounted for.
LEMMA DoneIsAccounted ==
  ASSUME NEW w \in Workers, PassAccounted(w),
         pc[w] = "mark" \/ (pc[w] = "tx" /\ todo[w] = {})
  PROVE  Accounted(Serves[w], next[w])
BY DEF PassAccounted, Accounted, Held

\* A ledger that was cut is taken up by the pass that is said to have done so, and
\* that pass leaves it only accounted for or cut again.
LEMMA CutOrUnderway ==
  ASSUME TypeInv, GapInv, [Next]_vars, NEW n \in Networks, NEW s \in Ledgers,
         s \in cut[n] \/ Underway(n, s)
  PROVE  s \in cut'[n] \/ Underway(n, s)' \/ Accounted(n, s)
<1> USE SyncAssumption DEF redis, postgres, pass, history, env, TypeInv
<1>1. ASSUME UNCHANGED <<cut, pc, next>> PROVE s \in cut'[n] \/ Underway(n, s)'
  BY <1>1 DEF Underway
\* Any step of one pass keeps what another has in hand.
<1>2. ASSUME NEW w \in Workers,
             \A v \in Workers : v # w => pc'[v] = pc[v] /\ next'[v] = next[v],
             s \in cut[n] => s \in cut'[n] \/ Underway(n, s)',
             (Serves[w] = n /\ next[w] = s /\ pc[w] \in {"txs", "tx"}) =>
               \/ next'[w] = s /\ pc'[w] \in {"txs", "tx"}
               \/ s \in cut'[n]
               \/ Accounted(n, s)
      PROVE  s \in cut'[n] \/ Underway(n, s)' \/ Accounted(n, s)
  BY <1>2 DEF Underway
<1>3. ASSUME NEW w \in Workers,
             \/ Acquire(w) \/ ReadWatermark(w) \/ ReadMaxSequence(w) \/ ReadHead(w)
             \/ HeadUnknown(w) \/ FetchPage(w) \/ WriteMark(w)
      PROVE  s \in cut'[n] \/ Underway(n, s)' \/ Accounted(n, s)
  <2>1. /\ cut' = cut /\ pc[w] \notin {"txs", "tx"}
        /\ \A v \in Workers : v # w => pc'[v] = pc[v] /\ next'[v] = next[v]
    BY <1>3 DEF Acquire, ReadWatermark, ReadMaxSequence, ReadHead, HeadUnknown, FetchPage,
         WriteMark, NextLedger, Goto, TypeOK
  <2> QED BY <1>2, <2>1
<1>4. ASSUME NEW w \in Workers, StoreLedger(w)
      PROVE  s \in cut'[n] \/ Underway(n, s)' \/ Accounted(n, s)
  <2>1. /\ pc[w] = "ledger" /\ pc'[w] = "txs" /\ next' = next
        /\ \A v \in Workers : v # w => pc'[v] = pc[v]
        /\ \A m \in Networks : cut'[m] = IF m = Serves[w] THEN cut[m] \ {next[w]} ELSE cut[m]
    BY <1>4 DEF StoreLedger, Goto, TypeOK
  <2>2. s \in cut[n] => s \in cut'[n] \/ Underway(n, s)'
    BY <2>1 DEF Underway
  <2> QED BY <1>2, <2>1, <2>2
<1>5. ASSUME NEW w \in Workers,
             FetchTxs(w) \/ RefuseTxs(w) \/ StoreTx(w) \/ FallBack(w) \/ DropTx(w)
      PROVE  s \in cut'[n] \/ Underway(n, s)' \/ Accounted(n, s)
  <2>1. /\ cut' = cut /\ next' = next /\ pc'[w] \in {"txs", "tx"}
        /\ \A v \in Workers : v # w => pc'[v] = pc[v]
    BY <1>5 DEF FetchTxs, RefuseTxs, StoreTx, FallBack, DropTx, Handle, Goto, TypeOK
  <2> QED BY <1>2, <2>1
<1>6. ASSUME NEW w \in Workers, ReadMark(w)
      PROVE  s \in cut'[n] \/ Underway(n, s)' \/ Accounted(n, s)
  <2>1. /\ cut' = cut /\ pc[w] = "tx" /\ todo[w] = {}
        /\ \A v \in Workers : v # w => pc'[v] = pc[v] /\ next'[v] = next[v]
    BY <1>6 DEF ReadMark, NextLedger, Goto, TypeOK
  <2>2. Accounted(Serves[w], next[w])
    BY <2>1, DoneIsAccounted DEF GapInv
  <2> QED BY <1>2, <2>1, <2>2
<1>7. ASSUME NEW w \in Workers, EndPass(w)
      PROVE  s \in cut'[n] \/ Underway(n, s)' \/ Accounted(n, s)
  <2>1. /\ next' = next
        /\ \A v \in Workers : v # w => pc'[v] = pc[v]
        /\ cut[n] \subseteq cut'[n]
        /\ (Serves[w] = n /\ next[w] = s /\ pc[w] \in {"txs", "tx"}) => s \in cut'[n]
    BY <1>7 DEF EndPass, Goto, TypeOK
  <2> QED BY <1>2, <2>1
<1>8. CASE Tick \/ Flush \/ UNCHANGED vars \/ \E m \in Networks : CloseLedger(m)
  BY <1>1, <1>8 DEF Tick, Flush, CloseLedger, vars
<1> QED
  BY <1>3, <1>4, <1>5, <1>6, <1>7, <1>8 DEF Next, Step, Failure

\* What is explained stays so.
LEMMA ExplainedStays ==
  ASSUME TypeInv, GapInv, [Next]_vars, NEW n \in Networks, NEW s \in Ledgers,
         Explained(n, s)
  PROVE  Explained(n, s)'
<1>1. CASE Accounted(n, s)
  BY <1>1, AccountedStays DEF Explained
<1>2. CASE s \in skipped[n]
  BY <1>2, NothingUndone DEF Explained
<1>3. CASE s \in cut[n] \/ Underway(n, s)
  <2>1. s \in cut'[n] \/ Underway(n, s)' \/ Accounted(n, s)
    BY <1>3, CutOrUnderway
  <2> QED BY <2>1, AccountedStays DEF Explained
<1> QED BY <1>1, <1>2, <1>3 DEF Explained

\* A step preserves the claim for every pass it does not move.
LEMMA OthersKeep ==
  ASSUME TypeInv, GapInv, [Next]_vars, NEW v \in Workers,
         pc'[v] = pc[v], next'[v] = next[v], todo'[v] = todo[v]
  PROVE  PassAccounted(v)'
<1>0. Serves[v] \in Networks /\ PassAccounted(v)
  BY SyncAssumption DEF GapInv
<1>1. ASSUME pc[v] \in {"head", "page"} \cup OnLedger, NEW s \in Ledgers, s < next[v]
      PROVE  Explained(Serves[v], s)'
  BY <1>0, <1>1, ExplainedStays DEF PassAccounted
<1>2. ASSUME pc[v] = "tx", NEW i \in Served, i \notin todo[v]
      PROVE  Held(Serves[v], next[v], i)'
  <2>1. next[v] \in Ledgers
    BY <1>2, InHand DEF OnLedger
  <2>2. Held(Serves[v], next[v], i)
    BY <1>0, <1>2 DEF PassAccounted
  <2>3. Held(Serves[v], next[v], i) => detail'[<<Serves[v], next[v], i>>] # "absent" \/ <<Serves[v], next[v], i>> \in dropped'
    BY <1>0, <2>1, AccountedStays DEF Held, Served
  <2> QED BY <2>2, <2>3 DEF Held
<1>3. ASSUME pc[v] = "mark"
      PROVE  Accounted(Serves[v], next[v])'
  <2>1. next[v] \in Ledgers
    BY <1>3, InHand DEF OnLedger
  <2>2. Accounted(Serves[v], next[v])
    BY <1>0, <1>3 DEF PassAccounted
  <2>3. next'[v] = next[v]
    OBVIOUS
  <2> QED BY <1>0, <2>1, <2>2, <2>3, AccountedStays DEF Accounted
<1> QED BY <1>1, <1>2, <1>3 DEF PassAccounted

\* The watermark's own claim survives a step that leaves the watermark alone
\* or takes it back.
LEMMA MarkKeeps ==
  ASSUME TypeInv, GapInv, [Next]_vars,
         \A n \in Networks : watermark'[n] <= watermark[n]
  PROVE  NoUnexplainedGap'
<1>1. ASSUME NEW n \in Networks, NEW s \in 1..watermark'[n]
      PROVE  Explained(n, s)'
  <2>1. TypeInv'
    BY TypeInvNext
  <2>2. s \in 1..watermark[n] /\ s \in Ledgers
    BY <1>1, <2>1, SyncAssumption DEF TypeInv, TypeOK, Ledgers
  <2> QED BY <2>2, ExplainedStays DEF GapInv, NoUnexplainedGap
<1> QED BY <1>1 DEF NoUnexplainedGap

\* So does the claim about the rows, whatever the step: a row is only written by a
\* pass that has what is before it explained and now works on its ledger.
LEMMA StoredKeeps ==
  ASSUME TypeInv, GapInv, [Next]_vars
  PROVE  StoredExplained'
<1> USE SyncAssumption DEF redis, postgres, pass, history, env, TypeInv
<1>1. ASSUME UNCHANGED ledgerRow PROVE StoredExplained'
  BY <1>1, ExplainedStays DEF GapInv, StoredExplained, Stored
<1>2. ASSUME NEW w \in Workers, StoreLedger(w) PROVE StoredExplained'
  <2>1. /\ pc[w] = "ledger" /\ pc'[w] = "txs" /\ next'[w] = next[w]
        /\ \A t \in Ledgers : t # next[w] => ledgerRow'[t] = ledgerRow[t]
    BY <1>2 DEF StoreLedger, Goto, TypeOK
  <2>2. next[w] \in Ledgers /\ Serves[w] \in Networks
    BY <2>1, InHand DEF OnLedger
  <2>3. ASSUME NEW s \in Ledgers, s = next[w] PROVE Explained(Serves[w], s)'
    BY <2>1, <2>3 DEF Explained, Underway
  <2>4. ledgerRow'[next[w]] \in {ledgerRow[next[w]], Serves[w]}
    BY <1>2, <2>2 DEF StoreLedger, TypeOK
  <2>5. ASSUME NEW n \in Networks, NEW t \in Ledgers, ledgerRow'[t] = n,
               NEW s \in Ledgers, s <= t
        PROVE  Explained(n, s)'
    <3>1. CASE ledgerRow[t] = n
      BY <2>5, <3>1, ExplainedStays DEF GapInv, StoredExplained, Stored
    <3>2. CASE t = next[w] /\ n = Serves[w]
      <4>1. s < next[w] => Explained(n, s)
        BY <2>1, <3>2 DEF GapInv, PassAccounted, OnLedger
      <4>2. s < next[w] \/ s = next[w]
        BY <2>5, <3>2, <2>2 DEF Ledgers
      <4>3. CASE s < next[w]
        BY <2>5, <4>1, <4>3, ExplainedStays
      <4>4. CASE s = next[w]
        BY <2>3, <3>2, <4>4
      <4> QED BY <4>2, <4>3, <4>4
    <3> QED BY <2>1, <2>4, <2>5, <3>1, <3>2
  <2> QED BY <2>5 DEF StoredExplained, Stored
<1>3. ASSUME NEW w \in Workers, Acquire(w) \/ Step(w) \/ Failure(w), ~StoreLedger(w)
      PROVE  UNCHANGED ledgerRow
  BY <1>3 DEF Acquire, Step, Failure, ReadWatermark, ReadMaxSequence, ReadHead, HeadUnknown,
       FetchPage, FetchTxs, RefuseTxs, StoreTx, FallBack, DropTx, ReadMark, WriteMark, EndPass
<1>4. CASE Tick \/ Flush \/ UNCHANGED vars \/ \E n \in Networks : CloseLedger(n)
  BY <1>1, <1>4 DEF Tick, Flush, CloseLedger, vars
<1> QED BY <1>1, <1>2, <1>3, <1>4 DEF Next

LEMMA GapInvInit == Init => GapInv
BY SyncAssumption
   DEF Init, GapInv, NoUnexplainedGap, StoredExplained, Stored, PassAccounted, OnLedger,
       Absent, Ledgers

LEMMA GapInvNext == TypeInv /\ GapInv /\ [Next]_vars => GapInv'
<1> USE SyncAssumption DEF redis, postgres, pass, history, env
<1> SUFFICES ASSUME TypeInv, GapInv, [Next]_vars PROVE GapInv'
  OBVIOUS
<1>0. TypeInv'
  BY TypeInvNext
<1> USE <1>0 DEF TypeInv
\* It is enough to look at the pass that moved, when the watermark did not.
<1>a. ASSUME NEW w \in Workers, PassAccounted(w)',
             \A v \in Workers \ {w} :
               pc'[v] = pc[v] /\ next'[v] = next[v] /\ todo'[v] = todo[v],
             watermark' = watermark
      PROVE  GapInv'
  <2>1. NoUnexplainedGap'
    BY <1>a, MarkKeeps DEF TypeOK
  <2>2. \A v \in Workers \ {w} : PassAccounted(v)'
    BY <1>a, OthersKeep
  <2> QED BY <1>a, <2>1, <2>2, StoredKeeps DEF GapInv
<1>1. ASSUME NEW w \in Workers, Acquire(w) PROVE GapInv'
  <2>1. PassAccounted(w)'
    BY <1>1 DEF Acquire, Goto, PassAccounted, OnLedger, TypeOK
  <2> QED BY <1>1, <1>a, <2>1 DEF Acquire, Goto, TypeOK
<1>2. ASSUME NEW w \in Workers, ReadWatermark(w) PROVE GapInv'
  <2>1. Serves[w] \in Networks /\ watermark[Serves[w]] \in 0..MaxHead
    BY DEF TypeOK
  <2>2. \A s \in Ledgers : s <= watermark[Serves[w]] => Explained(Serves[w], s)'
    BY <2>1, ExplainedStays DEF GapInv, NoUnexplainedGap, Ledgers
  <2>3. PassAccounted(w)'
    BY <1>2, <2>1, <2>2 DEF ReadWatermark, Goto, PassAccounted, OnLedger, TypeOK, Ledgers
  <2> QED BY <1>2, <1>a, <2>3 DEF ReadWatermark, Goto, TypeOK
<1>3. ASSUME NEW w \in Workers, ReadMaxSequence(w) PROVE GapInv'
  <2> DEFINE n == Serves[w]
  <2>1. n \in Networks /\ MaxSequence(n) \in 0..MaxHead
    BY MaxSequenceType
  <2>2. ASSUME NEW s \in Ledgers, s <= MaxSequence(n) PROVE Explained(n, s)'
    <3>1. MaxSequence(n) \in Stored(n)
      BY <2>1, <2>2, MaxSequenceStored DEF Ledgers
    <3> QED BY <2>1, <2>2, <3>1, ExplainedStays DEF GapInv, StoredExplained
  <2>3. next'[w] = MaxSequence(n) + 1 /\ pc'[w] = "head"
    BY <1>3 DEF ReadMaxSequence, Goto, TypeOK
  <2>4. PassAccounted(w)'
    BY <2>1, <2>2, <2>3 DEF PassAccounted, Ledgers
  <2> QED BY <1>3, <1>a, <2>4 DEF ReadMaxSequence, Goto, TypeOK
<1>4. ASSUME NEW w \in Workers, ReadHead(w) PROVE GapInv'
  <2> DEFINE n == Serves[w]
             start == TailStart(next[w], head[n])
  <2>1. n \in Networks /\ next[w] \in 1..(MaxHead + 1) /\ head[n] \in 0..MaxHead
    BY DEF TypeOK
  <2>2. start \in next[w]..(MaxHead + 1)
    BY <2>1, TailStartType
  <2>3. ASSUME NEW s \in Ledgers, s < start PROVE Explained(n, s)'
    <3>1. CASE s < next[w]
      <4>1. Explained(n, s)
        BY <1>4, <3>1 DEF ReadHead, GapInv, PassAccounted
      <4> QED BY <2>1, <4>1, ExplainedStays
    <3>2. CASE s >= next[w]
      <4>1. s \in next[w]..(start - 1)
        BY <2>1, <2>2, <2>3, <3>2 DEF Ledgers
      <4>2. s \in skipped'[n]
        BY <1>4, <2>1, <4>1 DEF ReadHead, TypeOK
      <4> QED BY <4>2 DEF Explained
    <3> QED BY <2>1, <3>1, <3>2 DEF Ledgers
  <2>4. next'[w] = start /\ pc'[w] = "page"
    BY <1>4 DEF ReadHead, Goto, TypeOK
  <2>5. PassAccounted(w)'
    BY <2>3, <2>4 DEF PassAccounted
  <2> QED BY <1>4, <1>a, <2>5 DEF ReadHead, Goto, TypeOK
\* The steps that keep the position of the pass, or end it.
<1>5. ASSUME NEW w \in Workers,
             HeadUnknown(w) \/ FetchPage(w) \/ StoreLedger(w) \/ EndPass(w)
      PROVE  GapInv'
  <2>1. next'[w] = next[w] /\ pc'[w] \in {"idle", "page", "ledger", "txs"}
        /\ (pc'[w] # "idle" => pc[w] \in {"head", "page"} \cup OnLedger)
    BY <1>5 DEF HeadUnknown, FetchPage, StoreLedger, EndPass, Goto, TypeOK, OnLedger
  <2>2. Serves[w] \in Networks
    OBVIOUS
  <2>3. pc'[w] # "idle" => \A s \in Ledgers : s < next[w] => Explained(Serves[w], s)'
    BY <2>1, <2>2, ExplainedStays DEF GapInv, PassAccounted
  <2>4. PassAccounted(w)'
    BY <2>1, <2>3 DEF PassAccounted, OnLedger
  <2> QED
    BY <1>5, <1>a, <2>4 DEF HeadUnknown, FetchPage, StoreLedger, EndPass, Goto, TypeOK
<1>6. ASSUME NEW w \in Workers, FetchTxs(w) \/ RefuseTxs(w) PROVE GapInv'
  <2>1. next'[w] = next[w] /\ pc'[w] = "tx" /\ pc[w] = "txs" /\ Serves[w] \in Networks
    BY <1>6 DEF FetchTxs, RefuseTxs, Goto, TypeOK
  <2>2. \A s \in Ledgers : s < next[w] => Explained(Serves[w], s)'
    BY <2>1, ExplainedStays DEF GapInv, PassAccounted, OnLedger
  <2>3. ASSUME NEW i \in Served, i \notin todo'[w]
        PROVE  detail'[<<Serves[w], next[w], i>>] # "absent" \/ <<Serves[w], next[w], i>> \in dropped'
    BY <1>6, <2>3 DEF FetchTxs, RefuseTxs, Served, TypeOK
  <2>4. PassAccounted(w)'
    BY <2>1, <2>2, <2>3 DEF PassAccounted, Held
  <2> QED BY <1>6, <1>a, <2>4 DEF FetchTxs, RefuseTxs, Goto, TypeOK
<1>7. ASSUME NEW w \in Workers, StoreTx(w) \/ FallBack(w) \/ DropTx(w) PROVE GapInv'
  <2> DEFINE n == Serves[w]
             l == next[w]
  <2>1. Handle(w) /\ UNCHANGED <<watermark, pc, next>> /\ n \in Networks
    BY <1>7 DEF StoreTx, FallBack, DropTx
  <2>2. pc[w] = "tx" /\ l \in Ledgers /\ Current(w) \in Txs
    BY <2>1, InHand, CurrentInHand DEF Handle, OnLedger, TypeOK
  <2>3. \A s \in Ledgers : s < l => Explained(n, s)'
    BY <2>1, <2>2, ExplainedStays DEF GapInv, PassAccounted, OnLedger
  <2>4. ASSUME NEW i \in Served, i \notin todo'[w]
        PROVE  detail'[<<n, l, i>>] # "absent" \/ <<n, l, i>> \in dropped'
    <3>0. <<n, l, i>> \in AllTxs
      BY <2>1, <2>2 DEF AllTxs, Served
    <3>1. CASE i = Current(w)
      BY <1>7, <3>0, <3>1 DEF StoreTx, FallBack, DropTx, TypeOK
    <3>2. CASE i # Current(w)
      <4>1. i \notin todo[w]
        BY <2>1, <2>4, <3>2 DEF Handle, TypeOK
      <4>2. Held(n, l, i)
        BY <2>2, <4>1 DEF GapInv, PassAccounted
      <4> QED BY <3>0, <4>2, NothingUndone DEF Held
    <3> QED BY <3>1, <3>2
  <2>5. PassAccounted(w)'
    BY <2>1, <2>2, <2>3, <2>4 DEF PassAccounted, Held
  <2> QED BY <1>a, <2>1, <2>5 DEF Handle, TypeOK
\* Going on to the next ledger, this one accounted for.
<1>c. ASSUME NEW w \in Workers, NextLedger(w), pc[w] \in {"tx", "mark"},
             Accounted(Serves[w], next[w])
      PROVE  PassAccounted(w)'
  <2>1. next'[w] = next[w] + 1 /\ pc'[w] \in {"page", "ledger"}
    BY <1>c DEF NextLedger, Goto, TypeOK
  <2>2. next[w] \in Ledgers /\ Serves[w] \in Networks
    BY <1>c, InHand DEF OnLedger
  <2>3. ASSUME NEW s \in Ledgers, s < next'[w] PROVE Explained(Serves[w], s)'
    <3>1. s < next[w] \/ s = next[w]
      BY <2>1, <2>2, <2>3 DEF Ledgers
    <3>2. Explained(Serves[w], s)
      BY <1>c, <3>1 DEF GapInv, PassAccounted, OnLedger, Explained
    <3> QED BY <2>2, <3>2, ExplainedStays
  <2> QED BY <2>1, <2>3 DEF PassAccounted
<1>8. ASSUME NEW w \in Workers, ReadMark(w) PROVE GapInv'
  <2>0. pc[w] = "tx" /\ todo[w] = {} /\ watermark' = watermark /\ Serves[w] \in Networks
    BY <1>8 DEF ReadMark
  <2>1. Accounted(Serves[w], next[w])
    BY <2>0, DoneIsAccounted DEF GapInv
  <2>2. CASE watermark[Serves[w]] >= next[w]
    <3>1. NextLedger(w)
      BY <1>8, <2>2 DEF ReadMark
    <3>2. PassAccounted(w)'
      BY <1>c, <2>0, <2>1, <3>1
    <3> QED BY <1>8, <1>a, <2>0, <3>1, <3>2 DEF ReadMark, NextLedger, Goto, TypeOK
  <2>3. CASE ~(watermark[Serves[w]] >= next[w])
    <3>1. pc'[w] = "mark" /\ next' = next
      BY <1>8, <2>3 DEF ReadMark, Goto, TypeOK
    <3>2. next[w] \in Ledgers
      BY <2>0, InHand DEF OnLedger
    <3>3. \A s \in Ledgers : s < next[w] => Explained(Serves[w], s)'
      BY <2>0, ExplainedStays DEF GapInv, PassAccounted, OnLedger
    <3>4. Accounted(Serves[w], next[w])'
      BY <2>0, <2>1, <3>1, <3>2, AccountedStays DEF Accounted
    <3>5. PassAccounted(w)'
      BY <3>1, <3>3, <3>4 DEF PassAccounted
    <3> QED BY <1>8, <1>a, <2>0, <2>3, <3>5 DEF ReadMark, Goto, TypeOK
  <2> QED BY <2>2, <2>3
<1>9. ASSUME NEW w \in Workers, WriteMark(w) PROVE GapInv'
  <2> DEFINE n == Serves[w]
  <2>0. pc[w] = "mark" /\ NextLedger(w) /\ n \in Networks
    BY <1>9 DEF WriteMark
  <2>1. Accounted(n, next[w]) /\ next[w] \in Ledgers
    BY <2>0, InHand DEF GapInv, PassAccounted, OnLedger
  <2>2. PassAccounted(w)'
    BY <1>c, <2>0, <2>1
  <2>3. \A v \in Workers \ {w} : PassAccounted(v)'
    BY <1>9, OthersKeep DEF WriteMark, NextLedger, Goto, TypeOK
  <2>4. ASSUME NEW m \in Networks, NEW s \in 1..watermark'[m]
        PROVE  Explained(m, s)'
    <3>0. s \in Ledgers
      BY <1>0, <2>4 DEF TypeOK, Ledgers
    <3>1. CASE m = n
      <4>1. watermark'[n] = next[w]
        BY <1>9, <2>0 DEF WriteMark, TypeOK
      <4>2. s < next[w] \/ s = next[w]
        BY <2>1, <2>4, <3>1, <4>1 DEF Ledgers
      <4>3. Explained(n, s)
        BY <2>0, <2>1, <3>0, <4>2 DEF GapInv, PassAccounted, OnLedger, Explained
      <4> QED BY <2>0, <3>0, <3>1, <4>3, ExplainedStays
    <3>2. CASE m # n
      <4>1. watermark'[m] = watermark[m]
        BY <1>9, <3>2 DEF WriteMark, TypeOK
      <4> QED BY <2>4, <3>0, <4>1, ExplainedStays DEF GapInv, NoUnexplainedGap
    <3> QED BY <3>1, <3>2
  <2> QED BY <2>2, <2>3, <2>4, StoredKeeps DEF GapInv, NoUnexplainedGap
<1>10. ASSUME UNCHANGED <<pc, next, todo>>, \A n \in Networks : watermark'[n] <= watermark[n]
       PROVE  GapInv'
  BY <1>10, MarkKeeps, StoredKeeps, OthersKeep DEF GapInv
<1>11. CASE Tick \/ Flush \/ UNCHANGED vars \/ \E n \in Networks : CloseLedger(n)
  BY <1>10, <1>11 DEF Tick, Flush, CloseLedger, vars, Absent, TypeOK
<1> QED
  BY <1>1, <1>2, <1>3, <1>4, <1>5, <1>6, <1>7, <1>8, <1>9, <1>11 DEF Next, Step, Failure

\* In every behaviour - passes overlapping, failing, dying, Redis lost, networks
\* sharing the keys of their ledgers - the watermark covers only ledgers whose served
\* transactions are stored or were given up, or that a pass jumped over, ended within
\* and was not followed, or works on.
THEOREM NoGapIsUnexplained == Spec => []NoUnexplainedGap
<1>1. GapInv => NoUnexplainedGap
  BY DEF GapInv
<1> QED BY <1>1, TypeInvInit, TypeInvNext, GapInvInit, GapInvNext, PTL DEF Spec

\* The same of max(sequence): a start from Postgres loses no more than that,
\* whatever other networks have stored under the key of a ledger.
THEOREM RebuildIsExplained == Spec => []RebuildExplained
<1>1. ASSUME TypeInv, GapInv PROVE RebuildExplained
  <2> SUFFICES ASSUME NEW n \in Networks, NEW s \in 1..MaxSequence(n) PROVE Explained(n, s)
    BY DEF RebuildExplained
  <2>1. MaxSequence(n) \in 0..MaxHead
    BY MaxSequenceType
  <2>2. MaxSequence(n) \in Stored(n) /\ s \in Ledgers /\ s <= MaxSequence(n)
    BY <2>1, MaxSequenceStored, SyncAssumption DEF Ledgers
  <2> QED BY <1>1, <2>2 DEF GapInv, StoredExplained
<1> QED BY <1>1, TypeInvInit, TypeInvNext, GapInvInit, GapInvNext, PTL DEF Spec
-----------------------------------------------------------------------------
(* When passes finish within their lock and Redis keeps its data, there is  *)
(* one writer, and the client-side comparison of set_watermark is enough.   *)

\* A running pass is covered by its network's lock, which no other can take.
LockCoversPass == \A w \in Workers : pc[w] # "idle" => ttl[Serves[w]] > 0

\* The watermark about to be written is still ahead of the one in Redis.
MarkAhead == \A w \in Workers : pc[w] = "mark" => watermark[Serves[w]] < next[w]

WriterInv == LockCoversPass /\ SingleWriter /\ MarkAhead

InTime == ~Overrun /\ MaxFlushes = 0

LEMMA WriterInvInit == Init => WriterInv
BY DEF Init, WriterInv, LockCoversPass, SingleWriter, MarkAhead

LEMMA WriterInvNext ==
  ASSUME InTime
  PROVE  TypeInv /\ WriterInv /\ [Next]_vars => WriterInv'
<1> USE SyncAssumption DEF redis, postgres, pass, history, env
<1> SUFFICES ASSUME TypeInv, WriterInv, [Next]_vars PROVE WriterInv'
  OBVIOUS
<1> USE DEF TypeInv
<1>1. ASSUME NEW w \in Workers, Acquire(w) PROVE WriterInv'
  <2>1. \A v \in Workers : Serves[v] = Serves[w] => pc[v] = "idle"
    BY <1>1 DEF Acquire, WriterInv, LockCoversPass
  <2>2. pc'[w] = "start" /\ \A v \in Workers : v # w => pc'[v] = pc[v]
    BY <1>1 DEF Acquire, Goto, TypeOK
  <2>3. LockCoversPass'
    BY <1>1, <2>2 DEF Acquire, WriterInv, LockCoversPass, TypeOK
  <2>4. SingleWriter'
    BY <2>1, <2>2 DEF WriterInv, SingleWriter
  <2>5. MarkAhead'
    BY <1>1, <2>2 DEF Acquire, WriterInv, MarkAhead
  <2> QED BY <2>3, <2>4, <2>5 DEF WriterInv
\* The steps of a pass that leave Redis alone.
<1>2. ASSUME NEW w \in Workers, pc[w] # "idle", UNCHANGED redis,
             \A v \in Workers : v # w => pc'[v] = pc[v] /\ next'[v] = next[v],
             pc'[w] = "mark" => watermark[Serves[w]] < next'[w]
      PROVE  WriterInv'
  BY <1>2 DEF WriterInv, LockCoversPass, SingleWriter, MarkAhead
<1>3. ASSUME NEW w \in Workers,
             \/ ReadWatermark(w) \/ ReadMaxSequence(w) \/ ReadHead(w) \/ HeadUnknown(w)
             \/ FetchPage(w) \/ StoreLedger(w) \/ FetchTxs(w) \/ RefuseTxs(w) \/ EndPass(w)
      PROVE  WriterInv'
  <2>1. /\ pc[w] # "idle" /\ UNCHANGED redis
        /\ \A v \in Workers : v # w => pc'[v] = pc[v] /\ next'[v] = next[v]
        /\ pc'[w] # "mark"
    BY <1>3 DEF ReadWatermark, ReadMaxSequence, ReadHead, HeadUnknown, FetchPage, StoreLedger,
         FetchTxs, RefuseTxs, EndPass, Goto, TypeOK
  <2> QED BY <1>2, <2>1
<1>4. ASSUME NEW w \in Workers, StoreTx(w) \/ FallBack(w) \/ DropTx(w) PROVE WriterInv'
  BY <1>2, <1>4 DEF StoreTx, FallBack, DropTx, Handle
<1>5. ASSUME NEW w \in Workers, ReadMark(w) PROVE WriterInv'
  <2>1. watermark[Serves[w]] \in Nat /\ next[w] \in Nat
    BY DEF TypeOK
  <2>2. pc'[w] = "mark" => watermark[Serves[w]] < next'[w]
    BY <1>5, <2>1 DEF ReadMark, NextLedger, Goto, TypeOK
  <2>3. \A v \in Workers : v # w => pc'[v] = pc[v] /\ next'[v] = next[v]
    BY <1>5 DEF ReadMark, NextLedger, Goto, TypeOK
  <2> QED BY <1>2, <1>5, <2>2, <2>3 DEF ReadMark
<1>6. ASSUME NEW w \in Workers, WriteMark(w) PROVE WriterInv'
  <2>1. /\ pc[w] = "mark" /\ pc'[w] \in {"page", "ledger"} /\ UNCHANGED ttl
        /\ \A v \in Workers : v # w => pc'[v] = pc[v] /\ next'[v] = next[v]
        /\ \A n \in Networks : n # Serves[w] => watermark'[n] = watermark[n]
    BY <1>6 DEF WriteMark, NextLedger, Goto, TypeOK
  <2>2. LockCoversPass' /\ SingleWriter'
    BY <2>1 DEF WriterInv, LockCoversPass, SingleWriter
  <2>3. ASSUME NEW v \in Workers, pc'[v] = "mark" PROVE watermark'[Serves[v]] < next'[v]
    <3>1. v # w /\ Serves[v] # Serves[w]
      BY <2>1, <2>3 DEF WriterInv, SingleWriter
    <3> QED BY <2>1, <2>3, <3>1 DEF WriterInv, MarkAhead
  <2> QED BY <2>2, <2>3 DEF WriterInv, MarkAhead
<1>7. CASE Tick
  BY <1>7 DEF Tick, InTime, WriterInv, LockCoversPass, SingleWriter, MarkAhead, TypeOK
<1>8. CASE Flush
  BY <1>8 DEF Flush, InTime, TypeOK
<1>9. CASE UNCHANGED vars \/ \E n \in Networks : CloseLedger(n)
  BY <1>9 DEF CloseLedger, vars, WriterInv, LockCoversPass, SingleWriter, MarkAhead
<1> QED
  BY <1>1, <1>3, <1>4, <1>5, <1>6, <1>7, <1>8, <1>9 DEF Next, Step, Failure

\* The lock gives a network one writer, provided that every pass finishes
\* within lock_ttl_secs and that Redis is not lost.
THEOREM OneWriter ==
  ASSUME InTime
  PROVE  Spec => []SingleWriter
<1>1. WriterInv => SingleWriter
  BY DEF WriterInv
<1> QED BY <1>1, TypeInvInit, TypeInvNext, WriterInvInit, WriterInvNext, PTL DEF Spec

\* Under the same provisos the watermark never goes back.
THEOREM WatermarkNeverRegresses ==
  ASSUME InTime
  PROVE  Spec => WatermarkMonotone
<1>1. ASSUME TypeInv, WriterInv, [Next]_vars
      PROVE  [\A n \in Networks : watermark'[n] >= watermark[n]]_vars
  <2> USE SyncAssumption DEF redis, postgres, pass, history, env, TypeInv
  <2>0. \A n \in Networks : watermark[n] \in Nat
    BY <1>1 DEF TypeOK
  <2>1. ASSUME NEW w \in Workers, WriteMark(w)
        PROVE  \A n \in Networks : watermark'[n] >= watermark[n]
    <3>1. watermark[Serves[w]] < next[w] /\ next[w] \in Nat
      BY <1>1, <2>1 DEF WriteMark, WriterInv, MarkAhead, TypeOK
    <3> QED BY <1>1, <2>0, <2>1, <3>1 DEF WriteMark, TypeOK
  <2>2. ASSUME NEW w \in Workers, Acquire(w) \/ Step(w) \/ Failure(w), ~WriteMark(w)
        PROVE  watermark' = watermark
    BY <2>2 DEF Acquire, Step, Failure, ReadWatermark, ReadMaxSequence, ReadHead, HeadUnknown,
         FetchPage, StoreLedger, FetchTxs, RefuseTxs, StoreTx, FallBack, DropTx, ReadMark, EndPass
  <2>3. ASSUME Tick \/ \E n \in Networks : CloseLedger(n)
        PROVE  watermark' = watermark
    BY <2>3 DEF Tick, CloseLedger
  <2>4. ~Flush
    BY <1>1, InTime DEF Flush, InTime, TypeOK
  <2> QED BY <1>1, <2>0, <2>1, <2>2, <2>3, <2>4 DEF Next
<1> QED
  BY <1>1, TypeInvInit, TypeInvNext, WriterInvInit, WriterInvNext, PTL DEF Spec, WatermarkMonotone
=============================================================================
