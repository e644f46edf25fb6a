------------------------------ MODULE MCBridge ------------------------------
(***************************************************************************)
(* Small instances of Bridge for TLC.                                      *)
(***************************************************************************)
EXTENDS Bridge, TLC

\* All the origins belong to one conversation.
OneTopic == [m \in Msgs |-> "topic"]

\* Every origin has a conversation of its own.
OwnTopics == [m \in Msgs |-> m]

NoFaults == {}
AllSites == Sites
WorkerSites == Sites \ {"fetch", "admit"}

Symmetry == Permutations(Msgs)
=============================================================================
