--------------------------- MODULE UpgradeWindow ---------------------------
(***************************************************************************)
(* How long an image is given before it is rolled back.                    *)
(*                                                                         *)
(* status.upgradeStartedAt is one clock for both components.  Two history  *)
(* variables say what it ought to say of each: how long the image asked    *)
(* for has been asked for, and whether nothing was going on when it was.   *)
(* They observe the steps of Upgrade and constrain none of them.           *)
(***************************************************************************)
EXTENDS Upgrade

VARIABLES
  waited,  \* ticks since the image asked for last changed, up to Timeout
  calm     \* the CR said Running when it did

timedVars == <<vars, waited, calm>>

Observe ==
  /\ waited' = [c \in Components |->
       CASE wantedImages'[c] # wantedImages[c] -> 0
         [] wantedImages'[c] = wantedImages[c] /\ Tick /\ waited[c] < Timeout
              -> waited[c] + 1
         [] OTHER -> waited[c]]
  /\ calm' = [c \in Components |->
       IF wantedImages'[c] # wantedImages[c] THEN cr.phase = "Running"
       ELSE calm[c]]

TimedInit ==
  /\ Init
  /\ waited = [c \in Components |-> 0]
  /\ calm = [c \in Components |-> cr.phase = "Running"]

TimedNext == Next /\ Observe

TimedSpec == TimedInit /\ [][TimedNext]_timedVars

-----------------------------------------------------------------------------

\* This step gives up on the image asked for of c.
GivesUp(c) == cr'.rollback[c] \notin {cr.rollback[c], NoRollback}

\* What the comment on upgradeHealthTimeout and the AutoRolledBack event say of
\* every rollback: the image change "is given" that long "to reach Ready".
FullWindow ==
  [][\A c \in Components : GivesUp(c) => waited[c] >= Timeout]_timedVars

\* An image asked for while the CR said Running, by an edit or by a new
\* release, is given all of upgradeHealthTimeout before it is rolled back: no
\* finished or abandoned upgrade of either component, early requeue, stale
\* copy, lost write or restart leaves a clock running under phase Running.
WindowFromRunning ==
  [][\A c \in Components :
       GivesUp(c) /\ calm[c] => waited[c] >= Timeout]_timedVars

=============================================================================
