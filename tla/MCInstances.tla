---------------------------- MODULE MCInstances ----------------------------
(* Constants of the model-checked instances of Instances.                  *)
EXTENDS Instances

\* Keys 1 and 2 are in one namespace; 3 has the name of 1 in another.
Namespace == [n \in Keys |-> IF n = 3 THEN "user" ELSE "pulse"]
Name == [n \in Keys |-> IF n = 3 THEN 1 ELSE n]
=============================================================================
