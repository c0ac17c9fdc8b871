---------------------------- MODULE MutationPromise ----------------------------
(***************************************************************************)
(* What an idempotency key promises its client: the first request to       *)
(* finish under a key fixes the result, and every answer given under the   *)
(* key, now or later, is that result.                                      *)
(***************************************************************************)
CONSTANTS
  Slots,    \* operations and keys
  Results,  \* what a request can return
  None      \* no result yet

VARIABLES
  recorded,  \* the result fixed for each slot
  answered   \* the results clients have received

vars == <<recorded, answered>>

Init ==
  /\ recorded = [s \in Slots |-> None]
  /\ answered = [s \in Slots |-> {}]

Record(s, r) ==
  /\ recorded[s] = None
  /\ recorded' = [recorded EXCEPT ![s] = r]
  /\ UNCHANGED answered

Answer(s) ==
  /\ recorded[s] # None
  /\ answered' = [answered EXCEPT ![s] = {recorded[s]}]
  /\ UNCHANGED recorded

Next == \E s \in Slots : Answer(s) \/ \E r \in Results : Record(s, r)

Spec == Init /\ [][Next]_vars
=============================================================================
