----------------------------- MODULE MCWindow -----------------------------
(* Constants of the model-checked instance of UpgradeWindow.               *)
EXTENDS UpgradeWindow

CONSTANTS i1, i2, s1, s2

AgentOnly == {"agent"}
OneReplica == [c \in Components |-> 1]

\* Release 1 pins the good image i1.
Pinned == [c \in Components |-> [v \in Versions |-> i1]]
=============================================================================
