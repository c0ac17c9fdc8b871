-------------------------- MODULE EmailOutboxProofs --------------------------
(***************************************************************************)
(* Theorems about the e-mail outbox for any set of rows, any number of     *)
(* replicas and any setting of the limits.                                 *)
(***************************************************************************)
EXTENDS EmailOutbox, TLAPS

\* The wait before a retry never exceeds MAX_BACKOFF_SECS.
LEMMA BackoffBounded ==
  ASSUME NEW a \in Nat
  PROVE  Backoff(a) \in 0..MaxBackoff
<1> DEFINE shift == IF a = 0 THEN 0 ELSE Least(a - 1, 10)
<1>1. shift \in 0..10
  BY DEF Least
<1>2. Doubled[shift + 1] \in Nat
  BY <1>1 DEF Doubled
<1>3. BaseBackoff * Doubled[shift + 1] \in Nat
  BY <1>2, OutboxAssumption
<1> QED BY <1>3, OutboxAssumption DEF Backoff, Least

\* Counting one more call, copy or lost result keeps a counter a counter.
LEMMA CountUp ==
  ASSUME NEW f \in [Emails -> Nat], NEW e \in Emails
  PROVE  [f EXCEPT ![e] = f[e] + 1] \in [Emails -> Nat]
OBVIOUS

\* Where each drain loop can be: no claims outside the delivery part of the
\* pass, and the row being recorded is one of the claimed rows.
LoopShape ==
  \A w \in Workers :
    /\ pc[w] \in {"idle", "claim"} => batch[w] = {}
    /\ pc[w] = "record" => current[w] \in batch[w]

\* Rows in a batch were inserted, and claimed with attempts left.
ClaimHasBudget ==
  \A w \in Workers : \A e \in batch[w] :
    status[e] # "absent" /\ snapshot[w][e] < MaxAttempts

\* Nothing happens to a row before its INSERT.
FreshRows ==
  \A e \in Emails : status[e] = "absent" =>
    attempts[e] = 0 /\ sends[e] = 0 /\ copies[e] = 0

\* Inductive whether or not passes overrun.
TypeInv == TypeOK /\ LoopShape /\ ClaimHasBudget /\ FreshRows /\ RetryHasBudget

LEMMA TypeInvInit == Init => TypeInv
BY OutboxAssumption
   DEF Init, TypeInv, TypeOK, LoopShape, ClaimHasBudget, FreshRows, RetryHasBudget, Status,
       Outcome, NoEmail

LEMMA TypeInvNext == TypeInv /\ [Next]_vars => TypeInv'
<1> USE OutboxAssumption DEF table, loop, history
<1> SUFFICES ASSUME TypeInv, [Next]_vars PROVE TypeInv'
  OBVIOUS
<1> USE DEF TypeInv
<1>1. ASSUME NEW e \in Emails, Enqueue(e) PROVE TypeInv'
  <2>1. TypeOK'
    BY <1>1 DEF Enqueue, TypeOK, Status
  <2>2. LoopShape' /\ ClaimHasBudget'
    BY <1>1 DEF Enqueue, LoopShape, ClaimHasBudget, TypeOK
  <2>3. RetryHasBudget' /\ FreshRows'
    BY <1>1 DEF Enqueue, RetryHasBudget, FreshRows, TypeOK
  <2> QED BY <2>1, <2>2, <2>3
<1>2. ASSUME NEW w \in Workers, RecoverStale(w) PROVE TypeInv'
  <2>1. TypeOK'
    BY <1>2 DEF RecoverStale, TypeOK, Status
  <2>2. LoopShape' /\ ClaimHasBudget'
    BY <1>2 DEF RecoverStale, LoopShape, ClaimHasBudget, TypeOK
  <2>3. RetryHasBudget' /\ FreshRows'
    BY <1>2 DEF RecoverStale, RetryHasBudget, FreshRows, Stale, TypeOK
  <2> QED BY <2>1, <2>2, <2>3
<1>3. ASSUME NEW w \in Workers, Claim(w) PROVE TypeInv'
  <2> DEFINE claimed == Oldest(Due)
  <2>1. /\ claimed \subseteq Emails
        /\ \A e \in claimed : status[e] = "pending"
    BY DEF Oldest, Due
  <2>2. TypeOK'
    BY <1>3, <2>1 DEF Claim, TypeOK, Status
  <2>3. LoopShape'
    BY <1>3 DEF Claim, LoopShape, TypeOK
  <2>4. ClaimHasBudget'
    BY <1>3, <2>1 DEF Claim, ClaimHasBudget, RetryHasBudget, TypeOK
  <2>5. RetryHasBudget' /\ FreshRows'
    BY <1>3, <2>1 DEF Claim, RetryHasBudget, FreshRows, TypeOK
  <2> QED BY <2>2, <2>3, <2>4, <2>5
<1>4. ASSUME NEW w \in Workers, SendAny(w) PROVE TypeInv'
  <2>0. PICK e \in Emails, result \in Outcome, delivered \in {0, 1} :
          Send(w, e, result, delivered)
    BY <1>4 DEF SendAny
  <2>1. TypeOK'
    BY <2>0 DEF Send, TypeOK
  <2>2. LoopShape' /\ ClaimHasBudget' /\ RetryHasBudget' /\ FreshRows'
    BY <2>0 DEF Send, LoopShape, ClaimHasBudget, RetryHasBudget, FreshRows, TypeOK
  <2> QED BY <2>1, <2>2
<1>5. ASSUME NEW w \in Workers, Record(w) PROVE TypeInv'
  <2>1. /\ pc[w] = "record"
        /\ current[w] \in batch[w]
        /\ current[w] \in Emails
    BY <1>5 DEF Record, RecordSent, RecordBounce, RecordFailure, LoopShape, TypeOK
  <2>a. \A e \in Emails : status'[e] = "absent" => status[e] = "absent" /\ e # current[w]
    BY <1>5, <2>1 DEF Record, RecordSent, RecordBounce, RecordFailure, ClaimHasBudget, TypeOK
  <2>b. \A e \in Emails : status[e] # "absent" => status'[e] # "absent"
    BY <2>1, <1>5 DEF Record, RecordSent, RecordBounce, RecordFailure, TypeOK
  <2>2. NextRow(w) /\ UNCHANGED claimAge
    BY <1>5 DEF Record, RecordSent, RecordBounce, RecordFailure
  <2>3. LoopShape' /\ ClaimHasBudget'
    BY <2>1, <2>2, <2>b DEF NextRow, LoopShape, ClaimHasBudget, TypeOK
  <2>c. FreshRows'
    BY <1>5, <2>a DEF Record, RecordSent, RecordBounce, RecordFailure, NextRow,
         FreshRows, TypeOK
  <2>4. CASE RecordSent(w) \/ RecordBounce(w)
    <3>0. snapshot[w] \in [Emails -> 0..MaxAttempts]
      BY DEF TypeOK
    <3>1. TypeOK'
      BY <2>1, <2>2, <2>4, <3>0, SMTT(20) DEF NextRow, RecordSent, RecordBounce, TypeOK, Status, Outcome
    <3>2. RetryHasBudget'
      BY <2>1, <2>4 DEF RecordSent, RecordBounce, RetryHasBudget, TypeOK
    <3> QED BY <3>1, <3>2, <2>3, <2>c
  <2>5. CASE RecordFailure(w)
    <3> DEFINE n == snapshot[w][current[w]] + 1
    <3>0. snapshot[w] \in [Emails -> 0..MaxAttempts]
      BY DEF TypeOK
    <3>a. snapshot[w][current[w]] \in 0..MaxAttempts
      BY <2>1, <3>0
    <3>b. snapshot[w][current[w]] < MaxAttempts
      BY <2>1 DEF ClaimHasBudget
    <3>1. n \in 1..MaxAttempts
      BY <3>a, <3>b
    <3>2. Backoff(n) \in 0..MaxBackoff
      BY <3>1, BackoffBounded
    <3>3. TypeOK'
      BY <2>1, <2>2, <2>5, <3>1, <3>2 DEF NextRow, RecordFailure, TypeOK, Status
    <3>4. RetryHasBudget'
      BY <2>1, <2>5, <3>1 DEF RecordFailure, RetryHasBudget, TypeOK
    <3> QED BY <3>3, <3>4, <2>3, <2>c
  <2> QED BY <1>5, <2>4, <2>5 DEF Record
<1>6. ASSUME NEW w \in Workers, Abandon(w) PROVE TypeInv'
  <2>a. lost' \in [Emails -> Nat]
    <3>0. lost \in [Emails -> Nat]
      BY DEF TypeOK
    <3>1. CASE pc[w] = "record"
      <4>1. current[w] \in Emails
        BY <3>1 DEF LoopShape, TypeOK
      <4>2. lost' = [lost EXCEPT ![current[w]] = lost[current[w]] + 1]
        BY <1>6, <3>1 DEF Abandon
      <4> QED BY <3>0, <4>1, <4>2, CountUp
    <3>2. CASE pc[w] # "record"
      BY <1>6, <3>0, <3>2 DEF Abandon
    <3> QED BY <3>1, <3>2
  <2>b. faults' \in 0..MaxFaults
    BY <1>6 DEF Abandon, TypeOK
  <2>1. TypeOK'
    BY <1>6, <2>a, <2>b DEF Abandon, TypeOK, Outcome
  <2>2. LoopShape' /\ ClaimHasBudget' /\ RetryHasBudget' /\ FreshRows'
    BY <1>6 DEF Abandon, LoopShape, ClaimHasBudget, RetryHasBudget, FreshRows, TypeOK
  <2> QED BY <2>1, <2>2
<1>7. CASE Tick
  <2>1. TypeOK'
    BY <1>7 DEF Tick, TypeOK, Least
  <2>2. LoopShape' /\ ClaimHasBudget' /\ RetryHasBudget' /\ FreshRows'
    BY <1>7 DEF Tick, LoopShape, ClaimHasBudget, RetryHasBudget, FreshRows
  <2> QED BY <2>1, <2>2
<1>8. CASE UNCHANGED vars
  BY <1>8 DEF vars, TypeOK, LoopShape, ClaimHasBudget, FreshRows, RetryHasBudget
<1> QED BY <1>1, <1>2, <1>3, <1>4, <1>5, <1>6, <1>7, <1>8 DEF Next

\* Every value stays in its range, whatever the replicas do.
THEOREM TypeCorrect == Spec => []TypeOK
<1>1. Spec => []TypeInv
  BY TypeInvInit, TypeInvNext, PTL DEF Spec
<1> QED BY <1>1, PTL DEF TypeInv

\* A row that will be tried again has attempts left, even when passes overlap
\* and record results late.
THEOREM RetriesHaveBudget == Spec => []RetryHasBudget
<1>1. Spec => []TypeInv
  BY TypeInvInit, TypeInvNext, PTL DEF Spec
<1> QED BY <1>1, PTL DEF TypeInv
-----------------------------------------------------------------------------
\* A pass that is about to record a delivery has delivered.
DeliveryInv ==
  /\ SentMeansDelivered
  /\ \A w \in Workers : pc[w] = "record" /\ outcome[w] = "sent" => copies[current[w]] > 0

LEMMA DeliveryInvNext == TypeInv /\ DeliveryInv /\ [Next]_vars => DeliveryInv'
<1> SUFFICES ASSUME TypeInv, DeliveryInv, [Next]_vars PROVE DeliveryInv'
  OBVIOUS
<1> USE DEF table, loop, history
<1>0. TypeOK /\ LoopShape /\ FreshRows
  BY DEF TypeInv
<1>1. ASSUME NEW e \in Emails, Enqueue(e) PROVE DeliveryInv'
  BY <1>0, <1>1 DEF Enqueue, DeliveryInv, SentMeansDelivered, TypeOK
<1>2. ASSUME NEW w \in Workers, RecoverStale(w) PROVE DeliveryInv'
  BY <1>0, <1>2 DEF RecoverStale, DeliveryInv, SentMeansDelivered, TypeOK
<1>3. ASSUME NEW w \in Workers, Claim(w) PROVE DeliveryInv'
  BY <1>0, <1>3 DEF Claim, DeliveryInv, SentMeansDelivered, TypeOK
<1>4. ASSUME NEW w \in Workers, SendAny(w) PROVE DeliveryInv'
  <2>0. PICK e \in Emails, result \in Outcome, delivered \in {0, 1} :
          Send(w, e, result, delivered)
    BY <1>4 DEF SendAny
  <2>1. \A f \in Emails : copies'[f] \in Nat /\ copies[f] <= copies'[f]
    BY <1>0, <2>0 DEF Send, TypeOK
  <2>2. result = "sent" => copies'[e] > 0
    BY <1>0, <2>0 DEF Send, TypeOK
  <2>3. SentMeansDelivered'
    BY <1>0, <2>0, <2>1 DEF Send, DeliveryInv, SentMeansDelivered, TypeOK
  <2>4. ASSUME NEW v \in Workers, pc'[v] = "record", outcome'[v] = "sent"
        PROVE  copies'[current'[v]] > 0
    <3>1. CASE v = w
      BY <1>0, <2>0, <2>2, <2>4, <3>1 DEF Send, TypeOK
    <3>2. CASE v # w
      <4>1. pc[v] = "record" /\ outcome[v] = "sent" /\ current'[v] = current[v]
        BY <1>0, <2>0, <2>4, <3>2 DEF Send, TypeOK
      <4>2. current[v] \in Emails
        BY <1>0, <4>1 DEF LoopShape, TypeOK
      <4>3. copies[current[v]] > 0
        BY <4>1 DEF DeliveryInv
      <4> QED BY <1>0, <4>1, <4>2, <4>3, <2>1 DEF TypeOK
    <3> QED BY <3>1, <3>2
  <2> QED BY <2>3, <2>4 DEF DeliveryInv
<1>5. ASSUME NEW w \in Workers, Record(w) PROVE DeliveryInv'
  <2>1. pc[w] = "record" /\ current[w] \in Emails /\ NextRow(w)
    BY <1>0, <1>5 DEF Record, RecordSent, RecordBounce, RecordFailure, LoopShape, TypeOK
  <2>2. \A e \in Emails : status'[e] = "sent" =>
          status[e] = "sent" \/ (e = current[w] /\ outcome[w] = "sent")
    BY <1>0, <1>5, <2>1 DEF Record, RecordSent, RecordBounce, RecordFailure, TypeOK
  <2>3. SentMeansDelivered'
    BY <2>1, <2>2 DEF NextRow, DeliveryInv, SentMeansDelivered
  <2>4. \A v \in Workers : pc'[v] = "record" =>
          pc[v] = "record" /\ current'[v] = current[v]
    BY <1>0, <2>1 DEF NextRow, TypeOK
  <2> QED BY <2>1, <2>3, <2>4 DEF NextRow, DeliveryInv
<1>6. ASSUME NEW w \in Workers, Abandon(w) PROVE DeliveryInv'
  BY <1>0, <1>6 DEF Abandon, DeliveryInv, SentMeansDelivered, TypeOK
<1>7. CASE Tick
  BY <1>7 DEF Tick, DeliveryInv, SentMeansDelivered
<1>8. CASE UNCHANGED vars
  BY <1>8 DEF vars, DeliveryInv, SentMeansDelivered
<1> QED BY <1>1, <1>2, <1>3, <1>4, <1>5, <1>6, <1>7, <1>8 DEF Next

\* The outbox marks no mail sent that the provider did not deliver, even when
\* passes overrun their claims and record results late.
THEOREM SentWasDelivered == Spec => []SentMeansDelivered
<1>1. Init => TypeInv /\ DeliveryInv
  BY TypeInvInit DEF Init, DeliveryInv, SentMeansDelivered
<1>2. TypeInv /\ DeliveryInv /\ [Next]_vars => (TypeInv /\ DeliveryInv)'
  BY TypeInvNext, DeliveryInvNext
<1>3. TypeInv /\ DeliveryInv => SentMeansDelivered
  BY DEF DeliveryInv
<1> QED BY <1>1, <1>2, <1>3, PTL DEF Spec
-----------------------------------------------------------------------------
(***************************************************************************)
(* From here on passes end before STALE_CLAIM_SECS (Overrun = FALSE).      *)
(* ExclusiveClaims alone is not inductive: the stale rule is harmless only *)
(* because a claim that is still held is young.                            *)
(***************************************************************************)
YoungClaims == \A w \in Workers : \A e \in batch[w] : claimAge[e] <= StaleClaim

PromptInv == ExclusiveClaims /\ YoungClaims

LEMMA PromptInvNext ==
  ASSUME Overrun = FALSE
  PROVE  TypeInv /\ PromptInv /\ [Next]_vars => PromptInv'
<1> SUFFICES ASSUME TypeInv, PromptInv, [Next]_vars PROVE PromptInv'
  OBVIOUS
<1> USE DEF table, loop, history
<1>0. TypeOK /\ LoopShape
  BY DEF TypeInv
<1>a. ExclusiveClaims /\ YoungClaims
  BY DEF PromptInv
<1>1. ASSUME NEW e \in Emails, Enqueue(e) PROVE PromptInv'
  BY <1>0, <1>a, <1>1 DEF Enqueue, PromptInv, ExclusiveClaims, YoungClaims, TypeOK
<1>2. ASSUME NEW w \in Workers, RecoverStale(w) PROVE PromptInv'
  <2>1. \A v \in Workers : \A e \in batch[v] : e \in Emails /\ ~Stale(e)
    BY <1>0, <1>a, OutboxAssumption DEF Stale, YoungClaims, TypeOK
  <2>2. \A v \in Workers : \A e \in batch[v] :
          status'[e] = status[e] /\ claimAge'[e] = claimAge[e]
    BY <1>2, <2>1 DEF RecoverStale
  <2> QED BY <1>a, <1>2, <2>2 DEF RecoverStale, PromptInv, ExclusiveClaims, YoungClaims
<1>3. ASSUME NEW w \in Workers, Claim(w) PROVE PromptInv'
  <2> DEFINE claimed == Oldest(Due)
  <2>1. /\ claimed \subseteq Emails
        /\ \A e \in claimed : status[e] = "pending"
    BY DEF Oldest, Due
  <2>2. /\ \A v \in Workers : \A e \in batch[v] : e \notin claimed
        /\ batch[w] = {}
    BY <1>0, <1>3, <1>a, <2>1 DEF ExclusiveClaims, Claim, LoopShape
  <2>3. \A v \in Workers : batch'[v] = IF v = w THEN claimed ELSE batch[v]
    BY <1>0, <1>3 DEF Claim, TypeOK
  <2>4. \A v \in Workers : IF v = w THEN \A e \in claimed : snapshot'[v][e] = attempts[e]
                                    ELSE snapshot'[v] = snapshot[v]
    BY <1>0, <1>3, <2>1 DEF Claim, TypeOK
  <2>5. \A e \in Emails :
          /\ status'[e] = IF e \in claimed THEN "sending" ELSE status[e]
          /\ claimAge'[e] = IF e \in claimed THEN 0 ELSE claimAge[e]
          /\ attempts'[e] = attempts[e]
    BY <1>3 DEF Claim
  <2>6. \A v \in Workers : batch[v] \subseteq Emails
    BY <1>0 DEF TypeOK
  <2>7. ASSUME NEW v \in Workers, NEW e \in batch'[v]
        PROVE  /\ status'[e] = "sending"
               /\ attempts'[e] = snapshot'[v][e]
               /\ claimAge'[e] <= StaleClaim
    <3>1. CASE v = w
      <4>1. e \in claimed /\ e \in Emails
        BY <2>1, <2>3, <2>7, <3>1
      <4>2. snapshot'[v][e] = attempts[e]
        BY <2>4, <3>1, <4>1
      <4> QED BY <2>5, <4>1, <4>2, OutboxAssumption
    <3>2. CASE v # w
      <4>1. e \in batch[v] /\ e \in Emails /\ e \notin claimed
        BY <2>2, <2>3, <2>6, <2>7, <3>2
      <4>2. /\ status[e] = "sending" /\ attempts[e] = snapshot[v][e]
            /\ claimAge[e] <= StaleClaim
        BY <4>1, <1>a DEF ExclusiveClaims, YoungClaims
      <4>3. snapshot'[v] = snapshot[v]
        BY <2>4, <3>2
      <4> QED BY <2>5, <4>1, <4>2, <4>3
    <3> QED BY <3>1, <3>2
  <2>8. ASSUME NEW v \in Workers, NEW u \in Workers \ {v}, NEW e \in batch'[v]
        PROVE  e \notin batch'[u]
    BY <2>2, <2>3, <2>8, <1>a DEF ExclusiveClaims
  <2> QED BY <2>7, <2>8 DEF PromptInv, ExclusiveClaims, YoungClaims
<1>4. ASSUME NEW w \in Workers, SendAny(w) PROVE PromptInv'
  BY <1>4, <1>a DEF SendAny, Send, PromptInv, ExclusiveClaims, YoungClaims
<1>5. ASSUME NEW w \in Workers, Record(w) PROVE PromptInv'
  <2>1. /\ current[w] \in batch[w]
        /\ NextRow(w)
        /\ UNCHANGED claimAge
    BY <1>0, <1>5 DEF Record, RecordSent, RecordBounce, RecordFailure, LoopShape
  <2>2. \A e \in Emails : e # current[w] =>
          status'[e] = status[e] /\ attempts'[e] = attempts[e]
    BY <1>0, <1>5 DEF Record, RecordSent, RecordBounce, RecordFailure, TypeOK
  <2>3. \A v \in Workers :
          /\ batch'[v] \subseteq batch[v]
          /\ batch'[v] \subseteq Emails
          /\ current[w] \notin batch'[v]
    <3>1. \A v \in Workers :
            batch'[v] = IF v = w THEN batch[v] \ {current[w]} ELSE batch[v]
      BY <1>0, <2>1 DEF NextRow, TypeOK
    <3>2. \A v \in Workers : batch[v] \subseteq Emails
      BY <1>0 DEF TypeOK
    <3>3. \A v \in Workers \ {w} : current[w] \notin batch[v]
      BY <1>a, <2>1 DEF ExclusiveClaims
    <3> QED BY <3>1, <3>2, <3>3
  <2>4. \A v \in Workers : \A e \in batch'[v] : snapshot'[v][e] = snapshot[v][e]
    BY <1>0, <2>1, <2>3 DEF NextRow, TypeOK
  <2> QED BY <1>a, <2>1, <2>2, <2>3, <2>4 DEF PromptInv, ExclusiveClaims, YoungClaims
<1>6. ASSUME NEW w \in Workers, Abandon(w) PROVE PromptInv'
  <2>1. \A v \in Workers : batch'[v] = IF v = w THEN {} ELSE batch[v]
    BY <1>0, <1>6 DEF Abandon, TypeOK
  <2>2. \A v \in Workers : v # w => snapshot'[v] = snapshot[v]
    BY <1>0, <1>6 DEF Abandon, TypeOK
  <2> QED BY <1>6, <1>a, <2>1, <2>2 DEF Abandon, PromptInv, ExclusiveClaims, YoungClaims
<1>7. CASE Tick
  <2>1. \A w \in Workers : \A e \in batch[w] :
          e \in Emails /\ claimAge[e] < StaleClaim /\ claimAge[e] \in Nat
    BY <1>0, <1>7, OutboxAssumption DEF Tick, Prompt, TypeOK
  <2>2. \A w \in Workers : \A e \in batch[w] : claimAge'[e] <= StaleClaim
    BY <1>7, <2>1, OutboxAssumption DEF Tick, Least
  <2> QED BY <1>7, <1>a, <2>2 DEF Tick, PromptInv, ExclusiveClaims, YoungClaims
<1>8. CASE UNCHANGED vars
  BY <1>8, <1>a DEF vars, PromptInv, ExclusiveClaims, YoungClaims
<1> QED BY <1>1, <1>2, <1>3, <1>4, <1>5, <1>6, <1>7, <1>8 DEF Next

LEMMA PromptInvInit == Init => PromptInv
BY DEF Init, PromptInv, ExclusiveClaims, YoungClaims

\* No two replicas ever work on the same row, and no result is recorded from
\* an outdated attempts count, as long as passes end before the stale limit.
THEOREM ClaimsAreExclusive ==
  ASSUME Overrun = FALSE
  PROVE  Spec => []ExclusiveClaims
<1>1. Init => TypeInv /\ PromptInv
  BY TypeInvInit, PromptInvInit
<1>2. TypeInv /\ PromptInv /\ [Next]_vars => (TypeInv /\ PromptInv)'
  BY TypeInvNext, PromptInvNext
<1>3. TypeInv /\ PromptInv => ExclusiveClaims
  BY DEF PromptInv
<1> QED BY <1>1, <1>2, <1>3, PTL DEF Spec

\* Under the same assumption sent and dead_letter are final: a row that
\* reached one of them is never changed and never sent again.
THEOREM FinalRowsStay ==
  ASSUME Overrun = FALSE
  PROVE  Spec => FinalIsFinal
<1>1. Init => TypeInv /\ PromptInv
  BY TypeInvInit, PromptInvInit
<1>2. TypeInv /\ PromptInv /\ [Next]_vars => (TypeInv /\ PromptInv)'
  BY TypeInvNext, PromptInvNext
<1>3. TypeInv /\ PromptInv /\ [Next]_vars =>
        [\A e \in Emails : status[e] \in Final =>
            status'[e] = status[e] /\ sends'[e] = sends[e]]_vars
  <2> SUFFICES ASSUME TypeInv, PromptInv, Next, NEW e \in Emails, status[e] \in Final
               PROVE  status'[e] = status[e] /\ sends'[e] = sends[e]
    BY DEF vars
  <2> USE DEF table, loop, history
  <2>0. /\ TypeOK
        /\ \A w \in Workers : e \notin batch[w]
        /\ \A w \in Workers : pc[w] = "record" => current[w] # e
    BY DEF TypeInv, PromptInv, ExclusiveClaims, LoopShape, Final
  <2>1. ASSUME NEW f \in Emails, Enqueue(f) PROVE status'[e] = status[e] /\ UNCHANGED sends
    BY <2>0, <2>1 DEF Enqueue, Final, TypeOK
  <2>2. ASSUME NEW w \in Workers, RecoverStale(w)
        PROVE  status'[e] = status[e] /\ UNCHANGED sends
    BY <2>2 DEF RecoverStale, Stale, Final
  <2>3. ASSUME NEW w \in Workers, Claim(w) PROVE status'[e] = status[e] /\ UNCHANGED sends
    BY <2>3 DEF Claim, Oldest, Due, Final
  <2>4. ASSUME NEW w \in Workers, SendAny(w)
        PROVE  status'[e] = status[e] /\ sends'[e] = sends[e]
    BY <2>0, <2>4 DEF SendAny, Send, TypeOK
  <2>5. ASSUME NEW w \in Workers, Record(w) PROVE status'[e] = status[e] /\ UNCHANGED sends
    BY <2>0, <2>5 DEF Record, RecordSent, RecordBounce, RecordFailure, NextRow, TypeOK
  <2>6. ASSUME NEW w \in Workers, Abandon(w) PROVE status'[e] = status[e] /\ UNCHANGED sends
    BY <2>6 DEF Abandon
  <2>7. CASE Tick
    BY <2>7 DEF Tick
  <2> QED BY <2>1, <2>2, <2>3, <2>4, <2>5, <2>6, <2>7 DEF Next
<1> QED BY <1>1, <1>2, <1>3, PTL DEF Spec, FinalIsFinal
-----------------------------------------------------------------------------
\* Some pass has the result of a send for row e in hand.
InRecord(e) == \E w \in Workers : pc[w] = "record" /\ current[w] = e

\* Every call of the sender is accounted for: recorded as an attempt, lost
\* with its pass, still to be recorded, or the one that settled the row.
CallsCounted ==
  \A e \in Emails :
    /\ status[e] \notin Final /\ ~InRecord(e) => sends[e] <= attempts[e] + lost[e]
    /\ InRecord(e) => sends[e] <= attempts[e] + lost[e] + 1
    /\ status[e] \in Final => sends[e] <= MaxAttempts + lost[e]

LEMMA CallsCountedNext ==
  ASSUME Overrun = FALSE
  PROVE  TypeInv /\ PromptInv /\ CallsCounted /\ [Next]_vars => CallsCounted'
<1> SUFFICES ASSUME TypeInv, PromptInv, CallsCounted, [Next]_vars PROVE CallsCounted'
  OBVIOUS
<1> USE DEF table, loop, history
<1>0. TypeOK /\ LoopShape /\ RetryHasBudget /\ ExclusiveClaims
  BY DEF TypeInv, PromptInv
<1>z. \A e \in Emails : /\ attempts[e] \in 0..MaxAttempts
                        /\ sends[e] \in Nat
                        /\ lost[e] \in Nat
  BY <1>0 DEF TypeOK
<1>1. ASSUME NEW e \in Emails, Enqueue(e) PROVE CallsCounted'
  BY <1>0, <1>1 DEF Enqueue, CallsCounted, InRecord, Final, TypeOK
<1>2. ASSUME NEW w \in Workers, RecoverStale(w) PROVE CallsCounted'
  <2>1. \A e \in Emails : InRecord(e)' <=> InRecord(e)
    BY <1>0, <1>2 DEF RecoverStale, InRecord, TypeOK
  <2>2. \A e \in Emails : status'[e] \in Final <=> status[e] \in Final
    BY <1>2 DEF RecoverStale, Stale, Final
  <2> QED BY <1>2, <2>1, <2>2 DEF RecoverStale, CallsCounted
<1>3. ASSUME NEW w \in Workers, Claim(w) PROVE CallsCounted'
  <2>1. \A e \in Emails : InRecord(e)' <=> InRecord(e)
    BY <1>0, <1>3 DEF Claim, InRecord, TypeOK
  <2>2. \A e \in Emails : status'[e] \in Final <=> status[e] \in Final
    BY <1>3 DEF Claim, Oldest, Due, Final
  <2> QED BY <1>3, <2>1, <2>2 DEF Claim, CallsCounted
<1>4. ASSUME NEW w \in Workers, SendAny(w) PROVE CallsCounted'
  <2>0. PICK e \in Emails, result \in Outcome, delivered \in {0, 1} :
          Send(w, e, result, delivered)
    BY <1>4 DEF SendAny
  <2>1. status[e] = "sending" /\ ~InRecord(e)
    BY <1>0, <2>0 DEF Send, ExclusiveClaims, LoopShape, InRecord
  <2>2. \A f \in Emails : f # e => (InRecord(f)' => InRecord(f)) /\ (InRecord(f) => InRecord(f)')
    BY <1>0, <2>0 DEF Send, InRecord, TypeOK
  <2>3. InRecord(e)'
    BY <1>0, <2>0 DEF Send, InRecord, TypeOK
  <2>4. /\ sends'[e] = sends[e] + 1
        /\ \A f \in Emails : f # e => sends'[f] = sends[f]
        /\ UNCHANGED <<status, attempts, lost>>
    BY <1>0, <2>0 DEF Send, TypeOK
  <2>5. sends[e] <= attempts[e] + lost[e]
    BY <2>1 DEF CallsCounted, Final
  <2> QED BY <1>z, <2>1, <2>2, <2>3, <2>4, <2>5 DEF CallsCounted, Final
<1>5. ASSUME NEW w \in Workers, Record(w) PROVE CallsCounted'
  <2>0. current[w] \in Emails
    BY <1>0, <1>5 DEF Record, RecordSent, RecordBounce, RecordFailure, LoopShape, TypeOK
  <2>e. PICK e \in Emails : e = current[w]
    BY <2>0
  <2>1. /\ e \in batch[w] /\ e \in Emails /\ status[e] = "sending" /\ InRecord(e)
        /\ attempts[e] = snapshot[w][e] /\ attempts[e] < MaxAttempts
        /\ pc[w] = "record" /\ NextRow(w)
    BY <1>0, <1>5, <2>e DEF Record, RecordSent, RecordBounce, RecordFailure, LoopShape,
         ExclusiveClaims, RetryHasBudget, InRecord, TypeOK
  <2>2. sends[e] <= attempts[e] + lost[e] + 1
    BY <2>1 DEF CallsCounted
  <2>3. ~InRecord(e)'
    <3> SUFFICES ASSUME NEW v \in Workers, pc'[v] = "record", current'[v] = e
                 PROVE  FALSE
      BY DEF InRecord
    <3>1. v # w
      BY <1>0, <2>1 DEF NextRow, TypeOK
    <3>2. pc[v] = "record" /\ current[v] = e
      BY <1>0, <2>1, <3>1 DEF NextRow, TypeOK
    <3> QED BY <1>0, <2>1, <3>1, <3>2 DEF ExclusiveClaims, LoopShape
  <2>4. \A f \in Emails : f # e => (InRecord(f)' <=> InRecord(f))
    BY <1>0, <2>1, <2>e DEF NextRow, InRecord, TypeOK
  <2>5. \A f \in Emails : f # e => status'[f] = status[f] /\ attempts'[f] = attempts[f]
    BY <1>0, <1>5, <2>e DEF Record, RecordSent, RecordBounce, RecordFailure, TypeOK
  <2>6. UNCHANGED <<sends, lost>>
    BY <2>1 DEF NextRow
  <2>7. /\ status'[e] \notin Final => sends[e] <= attempts'[e] + lost[e]
        /\ status'[e] \in Final => sends[e] <= MaxAttempts + lost[e]
    <3>0. /\ sends[e] <= (attempts[e] + 1) + lost[e]
          /\ sends[e] <= MaxAttempts + lost[e]
      <4>1. attempts[e] \in Nat /\ sends[e] \in Nat /\ lost[e] \in Nat
        BY <1>z, <2>1
      <4> QED BY <2>1, <2>2, <4>1, OutboxAssumption
    <3>1. CASE RecordSent(w) \/ RecordBounce(w)
      <4>1. status'[e] \in Final
        BY <1>0, <2>1, <2>e, <3>1 DEF RecordSent, RecordBounce, Final, TypeOK
      <4> QED BY <3>0, <4>1
    <3>2. CASE RecordFailure(w)
      <4>1. attempts'[e] = attempts[e] + 1
        BY <1>0, <2>1, <2>e, <3>2 DEF RecordFailure, TypeOK
      <4> QED BY <3>0, <4>1
    <3> QED BY <1>5, <3>1, <3>2 DEF Record
  <2>8. ASSUME NEW f \in Emails
        PROVE  /\ status'[f] \notin Final /\ ~InRecord(f)' => sends'[f] <= attempts'[f] + lost'[f]
               /\ InRecord(f)' => sends'[f] <= attempts'[f] + lost'[f] + 1
               /\ status'[f] \in Final => sends'[f] <= MaxAttempts + lost'[f]
    <3>1. CASE f = e
      BY <2>3, <2>6, <2>7, <3>1
    <3>2. CASE f # e
      BY <2>4, <2>5, <2>6, <3>2 DEF CallsCounted
    <3> QED BY <3>1, <3>2
  <2> QED BY <2>8 DEF CallsCounted
<1>6. ASSUME NEW w \in Workers, Abandon(w) PROVE CallsCounted'
  <2>1. UNCHANGED <<status, attempts, sends>>
    BY <1>6 DEF Abandon
  <2>2. CASE pc[w] = "record"
    <3>0. current[w] \in Emails
      BY <1>0, <2>2 DEF LoopShape, TypeOK
    <3>e. PICK e \in Emails : e = current[w]
      BY <3>0
    <3>1. e \in batch[w] /\ InRecord(e)
      BY <1>0, <2>2, <3>e DEF LoopShape, InRecord
    <3>2. \A f \in Emails : f # e => (InRecord(f)' <=> InRecord(f))
      BY <1>0, <1>6, <2>2, <3>e DEF Abandon, InRecord, TypeOK
    <3>3. lost'[e] = lost[e] + 1 /\ \A f \in Emails : f # e => lost'[f] = lost[f]
      BY <1>0, <1>6, <2>2, <3>e DEF Abandon, TypeOK
    <3>4. ~InRecord(e)' /\ status[e] = "sending" /\ sends[e] <= attempts[e] + lost[e] + 1
      <4>1. \A v \in Workers : pc'[v] = "record" => v # w /\ pc[v] = "record" /\ current'[v] = current[v]
        BY <1>0, <1>6 DEF Abandon, TypeOK
      <4> QED BY <1>0, <2>2, <3>1, <4>1 DEF InRecord, ExclusiveClaims, LoopShape, CallsCounted
    <3>5. sends[e] <= attempts[e] + (lost[e] + 1)
      BY <1>z, <3>1, <3>4
    <3>6. ASSUME NEW f \in Emails
          PROVE  /\ status'[f] \notin Final /\ ~InRecord(f)' => sends'[f] <= attempts'[f] + lost'[f]
                 /\ InRecord(f)' => sends'[f] <= attempts'[f] + lost'[f] + 1
                 /\ status'[f] \in Final => sends'[f] <= MaxAttempts + lost'[f]
      <4>1. CASE f = e
        BY <2>1, <3>3, <3>4, <3>5, <4>1 DEF Final
      <4>2. CASE f # e
        BY <2>1, <3>2, <3>3, <4>2 DEF CallsCounted
      <4> QED BY <4>1, <4>2
    <3> QED BY <3>6 DEF CallsCounted
  <2>3. CASE pc[w] # "record"
    <3>1. \A f \in Emails : InRecord(f)' <=> InRecord(f)
      BY <1>0, <1>6, <2>3 DEF Abandon, InRecord, TypeOK
    <3> QED BY <1>6, <2>1, <2>3, <3>1 DEF Abandon, CallsCounted
  <2> QED BY <2>2, <2>3
<1>7. CASE Tick
  BY <1>7 DEF Tick, CallsCounted, InRecord
<1>8. CASE UNCHANGED vars
  BY <1>8 DEF vars, CallsCounted, InRecord
<1> QED BY <1>1, <1>2, <1>3, <1>4, <1>5, <1>6, <1>7, <1>8 DEF Next

\* The sender is called for a row at most MAX_ATTEMPTS times plus once for
\* every result that was lost, as long as passes end before the stale limit.
THEOREM RetryBudgetHolds ==
  ASSUME Overrun = FALSE
  PROVE  Spec => []RetryBudget
<1> DEFINE IInv == TypeInv /\ PromptInv /\ CallsCounted
<1>1. Init => IInv
  BY TypeInvInit, PromptInvInit DEF Init, CallsCounted, InRecord, Final
<1>2. IInv /\ [Next]_vars => IInv'
  BY TypeInvNext, PromptInvNext, CallsCountedNext
<1>3. IInv => RetryBudget
  <2> SUFFICES ASSUME IInv, NEW e \in Emails PROVE sends[e] <= MaxAttempts + lost[e]
    BY DEF RetryBudget
  <2>1. /\ attempts[e] \in 0..MaxAttempts /\ sends[e] \in Nat /\ lost[e] \in Nat
        /\ status[e] \in Status
    BY DEF TypeInv, TypeOK
  <2>2. InRecord(e) => attempts[e] < MaxAttempts
    BY DEF InRecord, TypeInv, PromptInv, LoopShape, ExclusiveClaims, RetryHasBudget
  <2> QED BY <2>1, <2>2, OutboxAssumption DEF CallsCounted
<1> QED BY <1>1, <1>2, <1>3, PTL DEF Spec
-----------------------------------------------------------------------------
\* How a change of one row's status shows in the promise.
LEMMA PhaseStep ==
  ASSUME NEW e \in Emails,
         \A f \in Emails : f # e => status'[f] = status[f]
  PROVE  Phase' = [Phase EXCEPT ![e] = Phase'[e]]
BY DEF Phase

LEMMA StepImplementsPromise ==
  ASSUME Overrun = FALSE
  PROVE  TypeInv /\ PromptInv /\ DeliveryInv /\ [Next]_vars
           => [Promise!Next]_<<Phase, copies>>
<1> SUFFICES ASSUME TypeInv, PromptInv, DeliveryInv, [Next]_vars
             PROVE  Promise!Next \/ UNCHANGED <<Phase, copies>>
  OBVIOUS
<1> USE DEF table, loop, history
<1>0. TypeOK /\ LoopShape /\ ExclusiveClaims
  BY DEF TypeInv, PromptInv
<1>1. ASSUME NEW e \in Emails, Enqueue(e) PROVE Promise!Accept(e)
  <2>1. status[e] = "absent" /\ status'[e] = "pending" /\ UNCHANGED copies
    BY <1>0, <1>1 DEF Enqueue, TypeOK
  <2>2. \A f \in Emails : f # e => status'[f] = status[f]
    BY <1>0, <1>1 DEF Enqueue, TypeOK
  <2>3. Phase' = [Phase EXCEPT ![e] = Phase'[e]]
    BY <2>2, PhaseStep
  <2>4. Phase[e] = "none" /\ Phase'[e] = "queued"
    BY <2>1 DEF Phase
  <2> QED BY <2>1, <2>3, <2>4 DEF Promise!Accept
<1>2. ASSUME NEW w \in Workers, RecoverStale(w) PROVE UNCHANGED <<Phase, copies>>
  BY <1>2 DEF RecoverStale, Stale, Phase
<1>3. ASSUME NEW w \in Workers, Claim(w) PROVE UNCHANGED <<Phase, copies>>
  BY <1>3 DEF Claim, Oldest, Due, Phase
<1>4. ASSUME NEW w \in Workers, SendAny(w)
      PROVE  (\E e \in Emails : Promise!Deliver(e)) \/ UNCHANGED <<Phase, copies>>
  <2>0. PICK e \in Emails, result \in Outcome, delivered \in {0, 1} :
          Send(w, e, result, delivered)
    BY <1>4 DEF SendAny
  <2>1. /\ status[e] = "sending"
        /\ UNCHANGED status
        /\ copies' = [copies EXCEPT ![e] = copies[e] + delivered]
    BY <1>0, <2>0 DEF Send, ExclusiveClaims
  <2>2. Phase[e] = "queued" /\ UNCHANGED Phase
    BY <2>1 DEF Phase
  <2>3. CASE delivered = 1
    BY <2>1, <2>2, <2>3 DEF Promise!Deliver
  <2>4. CASE delivered = 0
    BY <1>0, <2>1, <2>2, <2>4 DEF TypeOK
  <2> QED BY <2>3, <2>4
<1>5. ASSUME NEW w \in Workers, Record(w)
      PROVE  (\E e \in Emails : Promise!Confirm(e) \/ Promise!Abandon(e))
               \/ UNCHANGED <<Phase, copies>>
  <2>1. current[w] \in Emails /\ current[w] \in batch[w] /\ pc[w] = "record"
    BY <1>0, <1>5 DEF Record, RecordSent, RecordBounce, RecordFailure, LoopShape, TypeOK
  <2>2. PICK e \in Emails : e = current[w]
    BY <2>1
  <2>3. status[e] = "sending" /\ UNCHANGED copies
    BY <1>0, <1>5, <2>1, <2>2 DEF Record, RecordSent, RecordBounce, RecordFailure,
         NextRow, ExclusiveClaims
  <2>4. \A f \in Emails : f # e => status'[f] = status[f]
    BY <1>0, <1>5, <2>2 DEF Record, RecordSent, RecordBounce, RecordFailure, TypeOK
  <2>5. Phase' = [Phase EXCEPT ![e] = Phase'[e]] /\ Phase[e] = "queued"
    BY <2>3, <2>4, PhaseStep DEF Phase
  <2>6. CASE RecordSent(w)
    <3>1. Phase'[e] = "confirmed"
      BY <1>0, <2>2, <2>6 DEF RecordSent, Phase, TypeOK
    <3>2. copies[e] > 0
      BY <2>1, <2>2, <2>6 DEF RecordSent, DeliveryInv
    <3>3. Promise!Confirm(e)
      BY <2>3, <2>5, <3>1, <3>2 DEF Promise!Confirm
    <3> QED BY <3>3
  <2>7. CASE RecordBounce(w) \/ (RecordFailure(w) /\ status'[e] = "dead_letter")
    <3>1. Phase'[e] = "abandoned"
      BY <1>0, <2>2, <2>7 DEF RecordBounce, Phase, TypeOK
    <3>2. Promise!Abandon(e)
      BY <2>3, <2>5, <3>1 DEF Promise!Abandon
    <3> QED BY <3>2
  <2>8. CASE RecordFailure(w) /\ status'[e] # "dead_letter"
    <3>1. status'[e] = "pending"
      BY <1>0, <2>2, <2>8 DEF RecordFailure, TypeOK
    <3>2. UNCHANGED Phase
      BY <2>3, <2>4, <3>1 DEF Phase
    <3> QED BY <2>3, <3>2
  <2> QED BY <1>5, <2>6, <2>7, <2>8 DEF Record
<1>6. ASSUME NEW w \in Workers, Abandon(w) PROVE UNCHANGED <<Phase, copies>>
  BY <1>6 DEF Abandon, Phase
<1>7. CASE Tick
  BY <1>7 DEF Tick, Phase
<1>8. CASE UNCHANGED vars
  BY <1>8 DEF vars, Phase
<1> QED BY <1>1, <1>2, <1>3, <1>4, <1>5, <1>6, <1>7, <1>8 DEF Next, Promise!Next

\* The outbox implements its promise: a mail leaves only while it is queued,
\* is confirmed only after a copy was delivered, and then stays settled.
THEOREM OutboxKeepsPromise ==
  ASSUME Overrun = FALSE
  PROVE  Spec => PromiseSpec
<1> DEFINE IInv == TypeInv /\ PromptInv /\ DeliveryInv
<1>1. Init => IInv
  BY TypeInvInit, PromptInvInit DEF Init, DeliveryInv, SentMeansDelivered
<1>2. IInv /\ [Next]_vars => IInv'
  BY TypeInvNext, PromptInvNext, DeliveryInvNext
<1>3. Init => Promise!Init
  BY DEF Init, Phase, Promise!Init
<1>4. IInv /\ [Next]_vars => [Promise!Next]_<<Phase, copies>>
  BY StepImplementsPromise
<1> QED BY <1>1, <1>2, <1>3, <1>4, PTL DEF Spec, PromiseSpec, Promise!Spec
=============================================================================
