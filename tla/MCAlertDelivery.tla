---------------------------- MODULE MCAlertDelivery ----------------------------
(* Constants of AlertDelivery for TLC. *)
EXTENDS AlertDelivery, TLC

CONSTANTS a1, a2, a3, p1, p2, t1, d1, d2

AllKinds == {"ingest", "api", "create", "patch", "delete", "drop", "test"}
JustIngest == {"ingest"}

TwoProjects == a1 :> p1 @@ a2 :> p1 @@ a3 :> p2

Watching == [enabled |-> TRUE, target |-> {t1}, exprs |-> {t1}, dests |-> {d1, d2}]
Listed   == [Watching EXCEPT !.dests = {}]
Quiet    == [Watching EXCEPT !.enabled = FALSE, !.dests = {d2}]

SomeForms == {Watching, Quiet}
AtStart   == a1 :> Watching @@ a2 :> None @@ a3 :> Listed

CallSymmetry == Permutations(Calls)
=============================================================================
