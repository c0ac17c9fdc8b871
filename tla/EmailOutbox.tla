------------------------------ MODULE EmailOutbox ------------------------------
(***************************************************************************)
(* The transactional e-mail outbox (api/src/email_queue.rs): request       *)
(* handlers INSERT rows, every API replica runs one drain loop that        *)
(* recovers stale claims, claims a batch of due rows, sends them one after *)
(* the other and records each result with an UPDATE by row id.             *)
(*                                                                         *)
(* Rows are numbered in created_at order.  Timestamps are kept relative to *)
(* now(): dueIn is next_attempt_at - now() (0 once due), claimAge is       *)
(* now() - claimed_at, both in ticks, so that Tick is the only clock.      *)
(***************************************************************************)
EXTENDS Naturals, FiniteSets

CONSTANTS
  Emails,        \* row ids, smaller = older created_at
  Workers,       \* drain loops, one per API replica
  MaxAttempts,   \* MAX_ATTEMPTS
  BatchSize,     \* BATCH_SIZE
  BaseBackoff,   \* BASE_BACKOFF_SECS, in ticks
  MaxBackoff,    \* MAX_BACKOFF_SECS, in ticks
  StaleClaim,    \* STALE_CLAIM_SECS, in ticks
  Overrun,       \* TRUE: a pass may outlast STALE_CLAIM_SECS
  MaxFaults,     \* bound: crashes and failed passes in a behaviour
  MaxSends       \* bound: calls of the sender for one row

ASSUME OutboxAssumption ==
  /\ Emails \subseteq Nat \ {0}
  /\ MaxAttempts \in Nat \ {0}
  /\ BatchSize \in Nat \ {0}
  /\ BaseBackoff \in Nat \ {0}
  /\ MaxBackoff \in Nat \ {0}
  /\ StaleClaim \in Nat \ {0}
  /\ Overrun \in BOOLEAN
  /\ MaxFaults \in Nat
  /\ MaxSends \in Nat

VARIABLES
  status,    \* email_outbox.status; "absent" before the INSERT
  attempts,  \* email_outbox.attempts
  dueIn,     \* next_attempt_at, relative to now()
  claimAge,  \* age of claimed_at, counted up to StaleClaim + 1
  pc,        \* where each drain loop is in process_outbox_once
  batch,     \* the claimed rows the pass has not recorded yet
  snapshot,  \* the attempts each pass read of the rows it claimed, else 0
  current,   \* the row whose send has returned and is to be recorded
  outcome,   \* what that send returned ("error" when there is none)
  copies,    \* history: copies of the mail the provider delivered
  sends,     \* history: calls of the sender for the row
  lost,      \* history: calls whose result was never recorded
  faults     \* crashes and failed passes so far

table   == <<status, attempts, dueIn, claimAge>>
loop    == <<pc, batch, snapshot, current, outcome>>
history == <<copies, sends, lost, faults>>
vars    == <<status, attempts, dueIn, claimAge, pc, batch, snapshot, current,
             outcome, copies, sends, lost, faults>>

Status  == {"absent", "pending", "sending", "sent", "dead_letter"}
Final   == {"sent", "dead_letter"}
Outcome == {"sent", "bounced", "error"}
NoEmail == 0

Least(a, b) == IF a <= b THEN a ELSE b

\* 2i64.pow(shift), the shift clamped to 0..10.
Doubled == <<1, 2, 4, 8, 16, 32, 64, 128, 256, 512, 1024>>

\* The wait after failure number a: doubles per failure up to the cap.
Backoff(a) ==
  LET shift == IF a = 0 THEN 0 ELSE Least(a - 1, 10)
  IN  Least(BaseBackoff * Doubled[shift + 1], MaxBackoff)

\* The BatchSize oldest rows of S: ORDER BY created_at LIMIT $1.
Oldest(S) == {e \in S : Cardinality({f \in S : f < e}) < BatchSize}

\* Mutant: the claim forgets status = 'pending'.
DueAnyStatus == {e \in Emails : status[e] \in {"pending", "sending"} /\ dueIn[e] = 0}

Due == {e \in Emails : status[e] = "pending" /\ dueIn[e] = 0}

Init ==
  /\ status   = [e \in Emails |-> "absent"]
  /\ attempts = [e \in Emails |-> 0]
  /\ dueIn    = [e \in Emails |-> 0]
  /\ claimAge = [e \in Emails |-> 0]
  /\ pc       = [w \in Workers |-> "idle"]
  /\ batch    = [w \in Workers |-> {}]
  /\ snapshot = [w \in Workers |-> [e \in Emails |-> 0]]
  /\ current  = [w \in Workers |-> NoEmail]
  /\ outcome  = [w \in Workers |-> "error"]
  /\ copies   = [e \in Emails |-> 0]
  /\ sends    = [e \in Emails |-> 0]
  /\ lost     = [e \in Emails |-> 0]
  /\ faults   = 0

-----------------------------------------------------------------------------
\* enqueue: one INSERT, attempts 0 and due at once by the column defaults.
Enqueue(e) ==
  /\ status[e] = "absent"
  /\ \A f \in Emails : f < e => status[f] # "absent"
  /\ status' = [status EXCEPT ![e] = "pending"]
  /\ UNCHANGED <<attempts, dueIn, claimAge, loop, history>>

\* Mutant: claimed_at <= now() - STALE_CLAIM_SECS.
StaleTooEarly(e) == status[e] = "sending" /\ claimAge[e] >= StaleClaim

\* Mutant: orphaned rows are never given back.
StaleNever(e) == e \notin Emails

\* A claim that process_outbox_once gives back to the queue.
Stale(e) == status[e] = "sending" /\ claimAge[e] > StaleClaim

\* Mutant: the recovered row starts over with attempts = 0.
RecoverStaleResets(w) ==
  /\ pc[w] = "idle"
  /\ status'   = [e \in Emails |-> IF Stale(e) THEN "pending" ELSE status[e]]
  /\ claimAge' = [e \in Emails |-> IF Stale(e) THEN 0 ELSE claimAge[e]]
  /\ attempts' = [e \in Emails |-> IF Stale(e) THEN 0 ELSE attempts[e]]
  /\ pc'       = [pc EXCEPT ![w] = "claim"]
  /\ UNCHANGED <<dueIn, batch, snapshot, current, outcome, history>>

\* First statement of a pass: sending rows claimed too long ago are pending
\* again; attempts and next_attempt_at are left alone.
RecoverStale(w) ==
  /\ pc[w] = "idle"
  /\ status'   = [e \in Emails |-> IF Stale(e) THEN "pending" ELSE status[e]]
  /\ claimAge' = [e \in Emails |-> IF Stale(e) THEN 0 ELSE claimAge[e]]
  /\ pc'       = [pc EXCEPT ![w] = "claim"]
  /\ UNCHANGED <<attempts, dueIn, batch, snapshot, current, outcome,
                 history>>

\* Second statement: claim the oldest due rows and read them back.
Claim(w) ==
  LET claimed == Oldest(Due) IN
  /\ pc[w] = "claim"
  /\ status'   = [e \in Emails |-> IF e \in claimed THEN "sending" ELSE status[e]]
  /\ claimAge' = [e \in Emails |-> IF e \in claimed THEN 0 ELSE claimAge[e]]
  /\ batch'    = [batch EXCEPT ![w] = claimed]
  /\ snapshot' = [snapshot EXCEPT ![w] =
                    [e \in Emails |-> IF e \in claimed THEN attempts[e] ELSE 0]]
  /\ pc'       = [pc EXCEPT ![w] = IF claimed = {} THEN "idle" ELSE "send"]
  /\ UNCHANGED <<attempts, dueIn, current, outcome, history>>

\* sender.send: the provider delivers or not, and the call returns Sent,
\* Bounced or an error; an error says nothing about delivery.
Send(w, e, result, delivered) ==
  /\ pc[w] = "send"
  /\ e \in batch[w]
  /\ sends[e] < MaxSends
  /\ result = "sent" => delivered = 1
  /\ result = "bounced" => delivered = 0
  /\ current' = [current EXCEPT ![w] = e]
  /\ outcome' = [outcome EXCEPT ![w] = result]
  /\ pc'      = [pc EXCEPT ![w] = "record"]
  /\ sends'   = [sends EXCEPT ![e] = @ + 1]
  /\ copies'  = [copies EXCEPT ![e] = @ + delivered]
  /\ UNCHANGED <<table, batch, snapshot, lost, faults>>

\* The pass goes on with the next claimed row, or ends.
NextRow(w) ==
  /\ batch'   = [batch EXCEPT ![w] = @ \ {current[w]}]
  /\ pc'      = [pc EXCEPT ![w] = IF batch[w] = {current[w]} THEN "idle" ELSE "send"]
  /\ current' = [current EXCEPT ![w] = NoEmail]
  /\ snapshot' = [snapshot EXCEPT ![w][current[w]] = 0]
  /\ outcome' = [outcome EXCEPT ![w] = "error"]
  /\ UNCHANGED history

RecordSent(w) ==
  /\ pc[w] = "record" /\ outcome[w] = "sent"
  /\ status' = [status EXCEPT ![current[w]] = "sent"]
  /\ NextRow(w)
  /\ UNCHANGED <<attempts, dueIn, claimAge>>

\* Mutant: every Ok(_) of the sender counts as sent.
RecordBounceAsSent(w) ==
  /\ pc[w] = "record" /\ outcome[w] = "bounced"
  /\ status' = [status EXCEPT ![current[w]] = "sent"]
  /\ NextRow(w)
  /\ UNCHANGED <<attempts, dueIn, claimAge>>

RecordBounce(w) ==
  /\ pc[w] = "record" /\ outcome[w] = "bounced"
  /\ status' = [status EXCEPT ![current[w]] = "dead_letter"]
  /\ NextRow(w)
  /\ UNCHANGED <<attempts, dueIn, claimAge>>

\* Mutant: the dead-letter threshold is attempts > MAX_ATTEMPTS.
RecordFailureLate(w) ==
  LET e == current[w]
      n == snapshot[w][e] + 1
  IN  /\ pc[w] = "record" /\ outcome[w] = "error"
      /\ attempts' = [attempts EXCEPT ![e] = n]
      /\ IF n > MaxAttempts
         THEN /\ status' = [status EXCEPT ![e] = "dead_letter"]
              /\ UNCHANGED dueIn
         ELSE /\ status' = [status EXCEPT ![e] = "pending"]
              /\ dueIn'  = [dueIn EXCEPT ![e] = Backoff(n)]
      /\ NextRow(w)
      /\ UNCHANGED claimAge

\* The failure count is the one read at claim time plus one.
RecordFailure(w) ==
  LET e == current[w]
      n == snapshot[w][e] + 1
  IN  /\ pc[w] = "record" /\ outcome[w] = "error"
      /\ attempts' = [attempts EXCEPT ![e] = n]
      /\ IF n >= MaxAttempts
         THEN /\ status' = [status EXCEPT ![e] = "dead_letter"]
              /\ UNCHANGED dueIn
         ELSE /\ status' = [status EXCEPT ![e] = "pending"]
              /\ dueIn'  = [dueIn EXCEPT ![e] = Backoff(n)]
      /\ NextRow(w)
      /\ UNCHANGED claimAge

\* A statement of the pass fails (the ? operator returns early) or the
\* process dies and restarts: the claimed rows stay in "sending".
Abandon(w) ==
  /\ pc[w] # "idle"
  /\ faults < MaxFaults
  /\ faults'  = faults + 1
  /\ lost'    = IF pc[w] = "record" THEN [lost EXCEPT ![current[w]] = @ + 1] ELSE lost
  /\ pc'      = [pc EXCEPT ![w] = "idle"]
  /\ batch'   = [batch EXCEPT ![w] = {}]
  /\ current' = [current EXCEPT ![w] = NoEmail]
  /\ snapshot' = [snapshot EXCEPT ![w] = [e \in Emails |-> 0]]
  /\ outcome' = [outcome EXCEPT ![w] = "error"]
  /\ UNCHANGED <<table, copies, sends>>

\* No running pass holds a claim that is about to be called stale.
Prompt == \A w \in Workers : \A e \in batch[w] : claimAge[e] < StaleClaim

\* Time passes; without Overrun a pass ends before its claims go stale.
Tick ==
  /\ Overrun \/ Prompt
  /\ dueIn'    = [e \in Emails |-> IF dueIn[e] = 0 THEN 0 ELSE dueIn[e] - 1]
  /\ claimAge' = [e \in Emails |-> IF status[e] = "sending"
                                   THEN Least(claimAge[e] + 1, StaleClaim + 1)
                                   ELSE claimAge[e]]
  /\ UNCHANGED <<status, attempts, loop, history>>

Record(w) == RecordSent(w) \/ RecordBounce(w) \/ RecordFailure(w)

SendAny(w) == \E e \in Emails, result \in Outcome, delivered \in {0, 1} :
                Send(w, e, result, delivered)

Next ==
  \/ \E e \in Emails : Enqueue(e)
  \/ \E w \in Workers : RecoverStale(w)
  \/ \E w \in Workers : Claim(w)
  \/ \E w \in Workers : SendAny(w)
  \/ \E w \in Workers : Record(w)
  \/ \E w \in Workers : Abandon(w)
  \/ Tick

Spec == Init /\ [][Next]_vars

\* run_worker loops for ever and time passes.
Fairness ==
  /\ \A w \in Workers : WF_vars(RecoverStale(w) \/ Claim(w) \/ SendAny(w) \/ Record(w))
  /\ WF_vars(Tick)

FairSpec == Spec /\ Fairness

-----------------------------------------------------------------------------
\* Every variable holds a value of its column or of process_outbox_once's
\* locals; a row read at claim time had attempts left.
TypeOK ==
  /\ status   \in [Emails -> Status]
  /\ attempts \in [Emails -> 0..MaxAttempts]
  /\ dueIn    \in [Emails -> 0..MaxBackoff]
  /\ claimAge \in [Emails -> 0..(StaleClaim + 1)]
  /\ pc       \in [Workers -> {"idle", "claim", "send", "record"}]
  /\ batch    \in [Workers -> SUBSET Emails]
  /\ snapshot \in [Workers -> [Emails -> 0..MaxAttempts]]
  /\ current  \in [Workers -> Emails \cup {NoEmail}]
  /\ outcome  \in [Workers -> Outcome]
  /\ copies   \in [Emails -> Nat]
  /\ sends    \in [Emails -> Nat]
  /\ lost     \in [Emails -> Nat]
  /\ faults   \in 0..MaxFaults

\* While passes end before STALE_CLAIM_SECS, no two drain loops work on the
\* same row, and the row a pass holds still has the attempts the pass read:
\* FOR UPDATE SKIP LOCKED is released with the claim statement, so only the
\* status column and the stale rule keep a second replica away.
ExclusiveClaims ==
  \A w \in Workers : \A e \in batch[w] :
    /\ status[e] = "sending"
    /\ attempts[e] = snapshot[w][e]
    /\ \A v \in Workers \ {w} : e \notin batch[v]

\* A row marked sent was delivered at least once, however passes overlap,
\* crash or record late: the outbox never claims a delivery that was not.
SentMeansDelivered ==
  \A e \in Emails : status[e] = "sent" => copies[e] > 0

\* The retry budget: the sender is called for a row at most MAX_ATTEMPTS
\* times, plus once for every result a crash or a failed UPDATE swallowed.
RetryBudget ==
  \A e \in Emails : sends[e] <= MaxAttempts + lost[e]

\* A row that will be tried again has attempts left, so the counter can
\* never step over the dead-letter threshold.
RetryHasBudget ==
  \A e \in Emails : status[e] \in {"pending", "sending"} => attempts[e] < MaxAttempts

\* sent and dead_letter are final: the row never changes again and its mail
\* is never handed to the sender again.
FinalIsFinal ==
  [][\A e \in Emails : status[e] \in Final =>
        status'[e] = status[e] /\ sends'[e] = sends[e]]_vars

\* Each queued mail is eventually sent or dead-lettered, whatever the sender
\* answers, once crashes stop.
EveryMailSettles ==
  \A e \in Emails : status[e] = "pending" ~> status[e] \in Final

\* What the outbox promises the request handlers (module MailPromise).
Phase == [e \in Emails |-> CASE status[e] = "absent"      -> "none"
                              [] status[e] = "sent"        -> "confirmed"
                              [] status[e] = "dead_letter" -> "abandoned"
                              [] OTHER                     -> "queued"]

Promise == INSTANCE MailPromise WITH phase <- Phase

\* The outbox implements the promise: copies only leave while the row is
\* queued, and a confirmed or abandoned mail is never touched again.
PromiseSpec == Promise!Spec
=============================================================================
