-------------------------- MODULE MCEnvironmentMirror --------------------------
(* Constants of EnvironmentMirror for TLC. *)
EXTENDS EnvironmentMirror, TLC

AllKinds    == {"create", "derive", "get", "list", "delete", "simulate"}
CallSymmetry == Permutations(Calls)
=============================================================================
