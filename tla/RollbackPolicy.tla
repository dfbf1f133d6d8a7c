--------------------------- MODULE RollbackPolicy ---------------------------
(***************************************************************************)
(* What automatic rollback promises, without passes, caches, Deployments   *)
(* or clocks: for each component, the image wanted, the last one known to  *)
(* work, and the record that sends it back there.                          *)
(*                                                                         *)
(* A record is made once for a wanted image, leads to an image that has    *)
(* proved itself, and stays until another image is wanted.                 *)
(***************************************************************************)

CONSTANTS Components, Images, NoImage

VARIABLES
  wanted,    \* wanted[c]: the image the spec or else the release asks for
  healthy,   \* healthy[c]: the last image seen to work, or NoImage
  record,    \* record[c]: from which image c is rolled back, and to which
  proven     \* proven[c]: the images c has fully run

policyVars == <<wanted, healthy, record, proven>>

NoRecord == [from |-> NoImage, to |-> NoImage]

\* The record is about the image wanted now.
InForce(c) == record[c].from = wanted[c]

\* The image c is to run.
Target(c) == IF InForce(c) THEN record[c].to ELSE wanted[c]

Init ==
  /\ wanted \in [Components -> Images]
  /\ proven \in [Components -> SUBSET Images]
  /\ healthy \in [Components -> Images \cup {NoImage}]
  /\ \A c \in Components : healthy[c] \in proven[c] \cup {NoImage}
  /\ record = [c \in Components |-> NoRecord]

\* Users and releases ask for other images.
Request ==
  /\ wanted' \in [Components -> Images]
  /\ UNCHANGED <<healthy, record, proven>>

\* A component's pods come to run an image, all of them, all ready.
Prove ==
  /\ \E c \in Components, S \in SUBSET Images :
       proven' = [proven EXCEPT ![c] = @ \cup S]
  /\ UNCHANGED <<wanted, healthy, record>>

\* A record in force is kept; one that is not may be dropped.
Keep(c) == record'[c] = record[c]
Drop(c) == ~InForce(c) /\ record'[c] = NoRecord

\* The wanted image is given up, once, for the last healthy one.
GiveUp(c) ==
  /\ ~InForce(c)
  /\ healthy[c] \notin {NoImage, wanted[c]}
  /\ healthy'[c] = healthy[c]
  /\ record'[c] = [from |-> wanted[c], to |-> healthy[c]]

\* A target that has proved itself becomes the last healthy image.
Learn(c) == healthy'[c] \in {healthy[c]} \cup ({Target(c)} \cap proven[c])

Judge ==
  /\ healthy' \in [Components -> Images \cup {NoImage}]
  /\ DOMAIN record' = Components
  /\ \A c \in Components : Learn(c) /\ (Keep(c) \/ Drop(c) \/ GiveUp(c))
  /\ UNCHANGED <<wanted, proven>>

Next == Request \/ Prove \/ Judge

Spec == Init /\ [][Next]_policyVars

\* A component is sent back only to an image that has proved itself, and never
\* to the one it is sent back from.
Safe ==
  \A c \in Components :
    /\ healthy[c] \in proven[c] \cup {NoImage}
    /\ record[c] # NoRecord =>
         record[c].to \in proven[c] /\ record[c].from # record[c].to
=============================================================================
