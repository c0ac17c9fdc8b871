---------------------------- MODULE MCIngestSync ----------------------------
(* Instances of IngestSync for TLC; the other values are in the .cfg files. *)
EXTENDS IngestSync, TLC

CONSTANTS w1, w2, w3, testnet, pubnet

\* Two daemons of one network.
OneNetwork == w1 :> testnet @@ w2 :> testnet

\* Two daemons of one network and one of another.
TwoNetworks == w1 :> testnet @@ w2 :> testnet @@ w3 :> pubnet

\* A single daemon.
OneDaemon == w1 :> testnet

\* Daemons of one network are interchangeable.
DaemonSymmetry == Permutations({w1, w2})

\* Which transactions of a ledger are invocations.
NoInvocation == {}
SecondInvokes == {2}
FirstInvokes == {1}
=============================================================================
