------------------------------ MODULE MailPromise ------------------------------
(***************************************************************************)
(* What the e-mail outbox promises: an accepted mail is delivered zero or  *)
(* more times while it is queued and then either confirmed, which takes at *)
(* least one delivered copy, or abandoned; after that nothing leaves.      *)
(***************************************************************************)
EXTENDS Naturals

CONSTANT Emails

VARIABLES
  phase,   \* "none", "queued", "confirmed" or "abandoned"
  copies   \* how many copies of the mail were delivered

Init ==
  /\ phase  = [e \in Emails |-> "none"]
  /\ copies = [e \in Emails |-> 0]

Accept(e) ==
  /\ phase[e] = "none"
  /\ phase' = [phase EXCEPT ![e] = "queued"]
  /\ UNCHANGED copies

Deliver(e) ==
  /\ phase[e] = "queued"
  /\ copies' = [copies EXCEPT ![e] = @ + 1]
  /\ UNCHANGED phase

Confirm(e) ==
  /\ phase[e] = "queued"
  /\ copies[e] > 0
  /\ phase' = [phase EXCEPT ![e] = "confirmed"]
  /\ UNCHANGED copies

Abandon(e) ==
  /\ phase[e] = "queued"
  /\ phase' = [phase EXCEPT ![e] = "abandoned"]
  /\ UNCHANGED copies

Next == \E e \in Emails : Accept(e) \/ Deliver(e) \/ Confirm(e) \/ Abandon(e)

Spec == Init /\ [][Next]_<<phase, copies>>
=============================================================================
