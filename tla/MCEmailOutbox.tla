---------------------------- MODULE MCEmailOutbox ----------------------------
(* Instances of EmailOutbox for TLC; the values are in the .cfg files. *)
EXTENDS EmailOutbox, TLC

\* Replicas are interchangeable; rows are not (created_at orders them).
ReplicaSymmetry == Permutations(Workers)
=============================================================================
