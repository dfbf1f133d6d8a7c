----------------------------- MODULE MCUpgrade -----------------------------
(* Constants of the model-checked instances of Upgrade.                    *)
EXTENDS Upgrade

CONSTANTS i1, i2, s1, s2

AgentOnly == {"agent"}
UIOnly == {"ui"}
Both == {"agent", "ui"}
OneReplica == [c \in Components |-> 1]

\* Release 1 pins the good image i1; release 2 pins i2.
Pinned == [c \in Components |-> [v \in Versions |-> IF v = 1 THEN i1 ELSE i2]]
=============================================================================
