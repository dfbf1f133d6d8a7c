--------------------------- MODULE PolicyProofs ---------------------------
(* Proofs that Upgrade implements RollbackPolicy, and that neither the     *)
(* version gate nor a pass on an old copy of the CR defeats a rollback, nor *)
(* a clock left running brings one early.                                  *)
EXTENDS UpgradeProofs, UpgradeWindow

USE ConstantsAssumption

-----------------------------------------------------------------------------
(* Copies of the CR that count as current are current                      *)

\* a and b agree on what rollback decides from.
SameDecision(a, b) ==
  /\ a.image = b.image /\ a.minOp = b.minOp
  /\ a.lastHealthy = b.lastHealthy /\ a.rollback = b.rollback
  /\ a.started = b.started

\* A copy whose resourceVersion is current has the current images: what makes
\* a status write of the pass a step from the CR as it is.
CurrentCopies ==
  /\ cacheFresh => SameDecision(cache, cr)
  /\ memFresh => SameDecision(mem, cr)

\* Copies age together.
LEMMA AgedSame ==
  ASSUME NEW a \in CRs, NEW b \in CRs, SameDecision(a, b)
  PROVE  SameDecision(aged(a), aged(b))
BY DEF SameDecision, aged, CRs

\* After a write the informer is marked as behind or has the written copy.
LEMMA CRWriteCurrent ==
  ASSUME CurrentCopies, NEW new, CRWrite(new)
  PROVE  cacheFresh' => SameDecision(cache', cr')
BY DEF CurrentCopies, CRWrite, SameDecision

\* So too after a status write, made or refused, that ends the pass.
LEMMA LastWriteCurrent ==
  ASSUME CurrentCopies, NEW new, StatusUpdate(new), EndPass
  PROVE  CurrentCopies'
BY CRWriteCurrent DEF CurrentCopies, StatusUpdate, EndPass, crVars

\* Every step keeps current copies current.
LEMMA CurrentStep == TypeOK /\ CurrentCopies /\ [Next]_vars => CurrentCopies'
<1> SUFFICES ASSUME TypeOK, CurrentCopies, [Next]_vars PROVE CurrentCopies'
  OBVIOUS
<1>t. cr \in CRs /\ cache \in CRs /\ mem \in CRs  BY DEF TypeOK
<1>1. CASE BeginPass
  BY <1>1 DEF BeginPass, CurrentCopies, crVars
<1>2. CASE PostgresRequeue
  BY <1>2, LastWriteCurrent DEF PostgresRequeue, flushInstallingStatus
<1>3. CASE ApplyAgent
  <2> DEFINE m == [mem EXCEPT !.compat = compatCondition(mem)]
  <2>1. CASE flushInstallingStatus(m)
    BY <2>1, LastWriteCurrent DEF flushInstallingStatus
  <2>2. CASE mem' = m /\ UNCHANGED <<crVars, memFresh>>
    <3>1. SameDecision(m, mem)  BY <1>t DEF SameDecision, CRs
    <3> HIDE DEF m
    <3> QED  BY <2>2, <3>1 DEF CurrentCopies, SameDecision, crVars
  <2> QED  BY <1>3, <2>1, <2>2 DEF ApplyAgent
<1>4. CASE ApplyUI
  <2>1. CASE flushInstallingStatus(mem)
    BY <2>1, LastWriteCurrent DEF flushInstallingStatus
  <2>2. CASE UNCHANGED <<crVars, mem, memFresh>>
    BY <2>2 DEF CurrentCopies, crVars
  <2> QED  BY <1>4, <2>1, <2>2 DEF ApplyUI
<1>5. CASE FinishPass
  BY <1>5, LastWriteCurrent DEF FinishPass
<1>6. CASE PassFails
  BY <1>6 DEF PassFails, EndPass, CurrentCopies, crVars
<1>7. ASSUME NEW new, Edit(new) PROVE CurrentCopies'
  BY <1>7, CRWriteCurrent DEF Edit, CurrentCopies
<1>8. CASE OperatorUpgrade
  BY <1>8 DEF OperatorUpgrade, EndPass, CurrentCopies, SameDecision
<1>9. CASE CacheSync
  BY <1>9 DEF CacheSync, CurrentCopies, SameDecision, passVars
<1>10. CASE Tick
  BY <1>t, <1>10, AgedSame DEF Tick, CurrentCopies
<1>11. CASE UNCHANGED <<crVars, passVars>>
  BY <1>11 DEF CurrentCopies, crVars, passVars
<1>12. CASE Users
  BY <1>12, <1>7, <1>8 DEF Users, SetImage, SetMinOperatorVersion
<1>13. CASE Cluster
  BY <1>13, <1>9, <1>10, <1>11
  DEF Cluster, PostgresProgress, RouteAdmitted, ReportStatus, PodStep, StopOldPod,
      StartPod, PodBecomesReady, SetPod
<1>14. CASE Failures
  BY <1>14, <1>6, <1>11
  DEF Failures, PostgresLost, RouteLost, DeploymentDeleted, PodFails, SetPod
<1>15. CASE UNCHANGED vars  BY <1>11, <1>15 DEF vars
<1> QED
  BY <1>1, <1>2, <1>3, <1>4, <1>5, <1>12, <1>13, <1>14, <1>15 DEF Next, Pass

\* Copies that count as current are, in every reachable state.
LEMMA CurrentHolds == Spec => []CurrentCopies
<1>1. Init => CurrentCopies  BY DEF Init, CurrentCopies, SameDecision
<1> QED  BY <1>1, CurrentStep, TypeCorrect, PTL DEF Spec

-----------------------------------------------------------------------------
(* The simulation                                                          *)

\* The images asked for are images.
LEMMA WantedType ==
  ASSUME TypeOK
  PROVE  wantedImages \in [Components -> Images]
BY RequestedIsImage DEF TypeOK, wantedImages

\* The initial states are the policy's.
LEMMA InitImplements == TypeOK /\ Provenance /\ Init => Policy!Init
<1> SUFFICES ASSUME TypeOK, Provenance, Init PROVE Policy!Init  OBVIOUS
<1>1. wantedImages \in [Components -> Images]  BY WantedType
<1>2. cr.lastHealthy \in [Components -> Images \cup {NoImage}]
  BY DEF TypeOK, CRs, OptImage
<1>3. \A c \in Components : cr.lastHealthy[c] \in proven[c] \cup {NoImage}
  BY DEF Provenance, CRProven
<1>4. cr.rollback = [c \in Components |-> NoRollback]
  <2>1. \/ cr = NewCR
        \/ \E lh : cr = [NewCR EXCEPT !.phase = "Running",
                           !.lastHealthy = lh]
    BY DEF Init, Fresh, Installed
  <2>2. cr.rollback = NewCR.rollback  BY <2>1, ConstantCRs DEF CRs
  <2> QED  BY <2>2 DEF NewCR
<1>5. proven \in [Components -> SUBSET Images]  BY DEF TypeOK
<1> QED
  BY <1>1, <1>2, <1>3, <1>4, <1>5 DEF Policy!Init, Policy!NoRecord, NoRollback

\* What the status step makes of the images in the CR.
LEMMA StatusStepImages ==
  ASSUME NEW m \in CRs, version \in Versions, NEW d \in [Components -> Deployments],
         NEW c \in Components
  PROVE  LET n == afterStatusStep(m, d)
         IN /\ n.image = m.image
            /\ n.lastHealthy[c] =
                 IF deploymentRolledOut(d[c], resolvedImage(m, c), Want[c])
                 THEN resolvedImage(m, c) ELSE m.lastHealthy[c]
            /\ \/ n.rollback[c] = keptRollback(m, c)
               \/ /\ keptRollback(m, c) = NoRollback
                  /\ ~deploymentRolledOut(d[c], resolvedImage(m, c), Want[c])
                  /\ m.lastHealthy[c] \notin {NoImage, resolvedImage(m, c)}
                  /\ c = "agent" => m.compat # "False"
                  /\ n.rollback[c] = [from |-> requestedImage(m, c),
                                      to |-> m.lastHealthy[c]]
<1> DEFINE k == syncPhaseAndConditions(m, d, pg = "ready")
<1> DEFINE U == upgradingSet(m, d)
<1> DEFINE n == afterStatusStep(m, d)
<1>1. k \in CRs  BY SyncType
<1>2. /\ k.image = m.image /\ k.compat = m.compat
      /\ k.rollback[c] = keptRollback(m, c)
      /\ k.lastHealthy[c] =
           IF deploymentRolledOut(d[c], resolvedImage(m, c), Want[c])
           THEN resolvedImage(m, c) ELSE m.lastHealthy[c]
  BY DEF syncPhaseAndConditions, CRs
<1>3. c \in U => /\ ~deploymentRolledOut(d[c], resolvedImage(m, c), Want[c])
                 /\ m.lastHealthy[c] \notin {NoImage, resolvedImage(m, c)}
  BY DEF upgradingSet, isUpgrading
<1>4. requestedImage(k, c) = requestedImage(m, c)  BY <1>2 DEF requestedImage
<1>5. n = reconcileAutoRollback(k, U)  BY DEF afterStatusStep
<1> HIDE DEF k, U, n
<1>6. n.image = k.image /\ n.lastHealthy = k.lastHealthy
  BY <1>1, <1>5 DEF reconcileAutoRollback, CRs
<1>7. \/ n.rollback[c] = k.rollback[c]
      \/ /\ c \in rollbackSet(k, U)
         /\ n.rollback[c] = [from |-> requestedImage(k, c), to |-> k.lastHealthy[c]]
  BY <1>1, <1>5 DEF reconcileAutoRollback, CRs
<1>8. c \in rollbackSet(k, U) =>
        c \in U /\ k.rollback[c] = NoRollback /\ (c = "agent" => k.compat # "False")
  BY DEF rollbackSet
<1> QED  BY <1>2, <1>3, <1>4, <1>6, <1>7, <1>8 DEF n

\* resolvedImage of a current copy is the policy's target.
LEMMA ResolvedIsTarget ==
  ASSUME TypeOK, Provenance, NEW c \in Components, NEW m \in CRs, SameDecision(m, cr)
  PROVE  /\ requestedImage(m, c) = wantedImages[c]
         /\ resolvedImage(m, c) = Policy!Target(c)
<1>1. requestedImage(m, c) = wantedImages[c]
  BY DEF SameDecision, requestedImage, wantedImages
<1>2. wantedImages[c] \in Images  BY WantedType
<1>3. cr.rollback[c].from = wantedImages[c] => cr.rollback[c].to # NoImage
  <2>1. cr.rollback[c].from = wantedImages[c] => cr.rollback[c] # NoRollback
    BY <1>2 DEF NoRollback
  <2> QED  BY <2>1 DEF Provenance, CRProven, TypeOK
<1>4. m.rollback[c] = cr.rollback[c]  BY DEF SameDecision
<1> QED
  BY <1>1, <1>3, <1>4 DEF resolvedImage, applyRollback, Policy!Target, Policy!InForce

\* The status write of a pass is a step of the policy, or none.
LEMMA FinishImplements ==
  TypeOK /\ TypeOK' /\ Provenance /\ CurrentCopies /\ FinishPass
    => Policy!Judge \/ UNCHANGED cr
<1> SUFFICES ASSUME TypeOK, TypeOK', Provenance, CurrentCopies, FinishPass, memFresh
             PROVE  Policy!Judge \/ UNCHANGED cr
  BY DEF FinishPass, StatusUpdate, crVars
<1>1. PICK d \in readBack : StatusUpdate(afterStatusStep(mem, d))  BY DEF FinishPass
<1> DEFINE n == afterStatusStep(mem, d)
<1>2. cr' = n  BY <1>1 DEF StatusUpdate, CRWrite
<1>3. d \in [Components -> Deployments]  BY ReadBackType
<1>t. mem \in CRs /\ version \in Versions /\ cr' \in CRs
  BY DEF TypeOK
<1>4. SameDecision(mem, cr)  BY DEF CurrentCopies
<1>5. \A c \in Components : DeploymentProven(d[c], c, proven)
  <2>1. \A c \in Components : d[c] \in {dep[c], seen[c]}  BY DEF readBack, TypeOK
  <2> QED  BY <2>1 DEF Provenance
<1>6. UNCHANGED <<proven, version>>  BY DEF FinishPass, depVars, envVars
<1> HIDE DEF n
<1>7. ASSUME NEW c \in Components
      PROVE  /\ Policy!Learn(c)
             /\ Policy!Keep(c) \/ Policy!Drop(c) \/ Policy!GiveUp(c)
  <2>1. /\ requestedImage(mem, c) = wantedImages[c]
        /\ resolvedImage(mem, c) = Policy!Target(c)
    BY <1>t, <1>4, ResolvedIsTarget
  <2>2. mem.lastHealthy[c] = cr.lastHealthy[c] /\ mem.rollback[c] = cr.rollback[c]
    BY <1>4 DEF SameDecision
  <2>3. /\ n.lastHealthy[c] =
             IF deploymentRolledOut(d[c], resolvedImage(mem, c), Want[c])
             THEN resolvedImage(mem, c) ELSE mem.lastHealthy[c]
        /\ \/ n.rollback[c] = keptRollback(mem, c)
           \/ /\ keptRollback(mem, c) = NoRollback
              /\ ~deploymentRolledOut(d[c], resolvedImage(mem, c), Want[c])
              /\ mem.lastHealthy[c] \notin {NoImage, resolvedImage(mem, c)}
              /\ n.rollback[c] = [from |-> requestedImage(mem, c),
                                  to |-> mem.lastHealthy[c]]
    BY <1>3, <1>t, StatusStepImages DEF n
  <2>4. Policy!Target(c) \in Images  BY <1>t, <2>1, ResolvedIsImage
  <2>5. deploymentRolledOut(d[c], Policy!Target(c), Want[c]) => Policy!Target(c) \in proven[c]
    BY <1>5, <2>4 DEF DeploymentProven, deploymentRolledOut
  <2>6. Policy!Learn(c)
    BY <1>2, <2>1, <2>2, <2>3, <2>5 DEF Policy!Learn
  <2>7. keptRollback(mem, c) =
          IF Policy!InForce(c) THEN cr.rollback[c] ELSE NoRollback
    BY <2>1, <2>2 DEF keptRollback, Policy!InForce
  <2>8. CASE n.rollback[c] = keptRollback(mem, c)
    BY <1>2, <2>6, <2>7, <2>8
    DEF Policy!Keep, Policy!Drop, Policy!NoRecord, NoRollback
  <2>9. CASE n.rollback[c] # keptRollback(mem, c)
    <3>1. ~Policy!InForce(c)
      <4>1. wantedImages[c] \in Images  BY WantedType
      <4> QED  BY <2>3, <2>7, <2>9, <4>1 DEF Policy!InForce, NoRollback
    <3>2. Policy!Target(c) = wantedImages[c]  BY <3>1 DEF Policy!Target
    <3> QED  BY <1>2, <2>1, <2>2, <2>3, <2>6, <2>9, <3>1, <3>2 DEF Policy!GiveUp
  <2> QED  BY <2>6, <2>8, <2>9
<1>8. wantedImages' = wantedImages
  <2>1. cr'.image = cr.image
    <3>1. n.image = mem.image \/ Components = {}
      BY <1>3, <1>t, StatusStepImages DEF n
    <3>2. Components = {} => cr'.image = cr.image  BY DEF TypeOK, CRs
    <3> QED  BY <1>2, <1>4, <3>1, <3>2 DEF SameDecision
  <2> QED  BY <1>6, <2>1 DEF wantedImages, requestedImage
<1>9. /\ cr'.lastHealthy \in [Components -> Images \cup {NoImage}]
      /\ DOMAIN cr'.rollback = Components
  BY <1>t DEF CRs, OptImage
<1> QED  BY <1>6, <1>7, <1>8, <1>9 DEF Policy!Judge

\* Every step is a step of the policy or leaves what it talks about alone.
LEMMA StepImplements ==
  TypeOK /\ TypeOK' /\ Provenance /\ CurrentCopies /\ [Next]_vars
    => [Policy!Next]_(Policy!policyVars)
<1> SUFFICES ASSUME TypeOK, TypeOK', Provenance, CurrentCopies, [Next]_vars
             PROVE  Policy!Next \/ UNCHANGED Policy!policyVars
  BY DEF Policy!policyVars
<1>t. cr \in CRs /\ mem \in CRs  BY DEF TypeOK
<1>0. wantedImages' \in [Components -> Images]  
  BY DEF TypeOK, wantedImages, requestedImage, CRs, OptImage
<1>1. ASSUME UNCHANGED <<proven, version>>, cr'.image = cr.image,
             cr'.lastHealthy = cr.lastHealthy, cr'.rollback = cr.rollback
      PROVE  UNCHANGED Policy!policyVars
  <2>1. wantedImages' = wantedImages  BY <1>1 DEF wantedImages, requestedImage
  <2> QED  BY <1>1, <2>1 DEF Policy!policyVars
<1>2. ASSUME NEW m \in CRs, SameDecision(m, mem), flushInstallingStatus(m),
             UNCHANGED <<proven, version>>
      PROVE  UNCHANGED Policy!policyVars
  <2>1. SameDecision([m EXCEPT !.phase = "Installing"], m)  BY DEF SameDecision, CRs
  <2>2. UNCHANGED cr \/ SameDecision(cr', cr)
    BY <1>2, <2>1
    DEF flushInstallingStatus, StatusUpdate, CRWrite, crVars, CurrentCopies, SameDecision
  <2> QED  BY <1>1, <1>2, <2>2 DEF SameDecision
<1>3. CASE Pass \/ PassFails
  <2>1. CASE BeginPass  BY <1>1, <2>1 DEF BeginPass, crVars, depVars, envVars
  <2>2. CASE PostgresRequeue
    BY <1>t, <1>2, <2>2 DEF PostgresRequeue, SameDecision, depVars, envVars
  <2>3. CASE ApplyAgent
    <3> DEFINE m == [mem EXCEPT !.compat = compatCondition(mem)]
    <3>1. m \in CRs /\ SameDecision(m, mem)
      BY <1>t DEF CRs, SameDecision, compatCondition
    <3>2. flushInstallingStatus(m) \/ UNCHANGED cr
      BY <2>3 DEF ApplyAgent, crVars
    <3>3. UNCHANGED <<proven, version>>  BY <2>3 DEF ApplyAgent, envVars
    <3> HIDE DEF m
    <3> QED  BY <1>1, <1>2, <3>1, <3>2, <3>3
  <2>4. CASE ApplyUI
    <3>1. flushInstallingStatus(mem) \/ UNCHANGED cr  BY <2>4 DEF ApplyUI, crVars
    <3>2. UNCHANGED <<proven, version>>  BY <2>4 DEF ApplyUI, envVars
    <3> QED  BY <1>t, <1>1, <1>2, <3>1, <3>2 DEF SameDecision
  <2>5. CASE FinishPass
    <3>1. UNCHANGED <<proven, version>>  BY <2>5 DEF FinishPass, depVars, envVars
    <3> QED  BY <1>1, <2>5, <3>1, FinishImplements DEF Policy!Next
  <2>6. CASE PassFails  BY <1>1, <2>6 DEF PassFails, crVars, depVars
  <2> QED  BY <1>3, <2>1, <2>2, <2>3, <2>4, <2>5, <2>6 DEF Pass
<1>4. CASE Users
  <2>1. /\ cr'.lastHealthy = cr.lastHealthy /\ cr'.rollback = cr.rollback
        /\ proven' = proven
    BY <1>t, <1>4
    DEF Users, SetImage, SetMinOperatorVersion, OperatorUpgrade, Edit, CRWrite, depVars, CRs
  <2> QED  BY <1>0, <2>1 DEF Policy!Next, Policy!Request
<1>5. ASSUME NEW c \in Components, NEW s \in Slots, NEW p, SetPod(c, s, p),
             UNCHANGED version
      PROVE  Policy!Next \/ UNCHANGED Policy!policyVars
  <2> DEFINE S == {i \in Images : fullyRuns(pods'[c], i, Want[c])}
  <2>1. proven' = [proven EXCEPT ![c] = @ \cup S]  BY <1>5 DEF SetPod
  <2>2. S \in SUBSET Images  OBVIOUS
  <2>3. UNCHANGED <<cr, version>>  BY <1>5 DEF SetPod, crVars
  <2>4. UNCHANGED wantedImages  BY <2>3 DEF wantedImages, requestedImage
  <2> HIDE DEF S
  <2> QED  BY <2>1, <2>2, <2>3, <2>4 DEF Policy!Next, Policy!Prove
<1>6. CASE Cluster
  <2>1. CASE Tick
    <3>1. /\ cr'.image = cr.image /\ cr'.lastHealthy = cr.lastHealthy
          /\ cr'.rollback = cr.rollback
      BY <1>t, <2>1 DEF Tick, aged, CRs
    <3> QED  BY <1>1, <2>1, <3>1 DEF Tick, depVars, envVars
  <2>2. ASSUME NEW c \in Components, PodStep(c)
        PROVE  Policy!Next \/ UNCHANGED Policy!policyVars
    BY <1>5, <2>2 DEF PodStep, StopOldPod, StartPod, PodBecomesReady, envVars
  <2>3. CASE CacheSync \/ PostgresProgress \/ RouteAdmitted
             \/ \E c \in Components : ReportStatus(c)
    <3>1. UNCHANGED <<cr, proven, version>>
      BY <2>3 DEF CacheSync, PostgresProgress, RouteAdmitted, ReportStatus,
                  crVars, depVars, envVars
    <3> QED  BY <1>1, <3>1
  <2> QED  BY <1>6, <2>1, <2>2, <2>3 DEF Cluster
<1>7. CASE Failures
  <2>1. ASSUME NEW c \in Components, NEW s \in Slots, PodFails(c, s)
        PROVE  Policy!Next \/ UNCHANGED Policy!policyVars
    BY <1>5, <2>1 DEF PodFails
  <2>2. CASE PostgresLost \/ RouteLost \/ \E c \in Components : DeploymentDeleted(c)
    <3>1. UNCHANGED <<cr, proven, version>>
      BY <2>2 DEF PostgresLost, RouteLost, DeploymentDeleted, crVars, depVars
    <3> QED  BY <1>1, <3>1
  <2> QED  BY <1>3, <1>7, <2>1, <2>2 DEF Failures
<1>8. CASE UNCHANGED vars
  BY <1>1, <1>8 DEF vars, crVars, depVars, envVars
<1> QED  BY <1>3, <1>4, <1>6, <1>7, <1>8 DEF Next

\* The operator implements the rollback policy.
THEOREM PolicyImplemented == Spec => ImplementsPolicy
<1>1. Init => TypeOK /\ Provenance  BY InitType, InitProven
<1>2. Spec => Policy!Init  BY <1>1, InitImplements DEF Spec
<1>3. Spec => [][Policy!Next]_(Policy!policyVars)
  BY ProvenanceHolds, CurrentHolds, StepImplements, TypeCorrect, PTL DEF Spec
<1> QED  BY <1>2, <1>3 DEF ImplementsPolicy, Policy!Spec

-----------------------------------------------------------------------------
(* What the pass knows of the version gate                                 *)

\* Once the agent step is over, the pass's copy carries the gate's verdict.
GateKnown ==
  pc \in {"ui", "status"} /\ "agent" \in Components /\ mem.minOp # 0
    /\ mem.compat # "False" => agentVersionCompatible(mem)

\* Between passes there is nothing to know.
LEMMA IdleKnows ==
  ASSUME pc' = "idle"
  PROVE  GateKnown'
BY DEF GateKnown

\* Every step keeps the verdict: only a new release changes the version, and it
\* ends the pass.
LEMMA GateStep == TypeOK /\ GateKnown /\ [Next]_vars => GateKnown'
<1> SUFFICES ASSUME TypeOK, GateKnown, [Next]_vars PROVE GateKnown'  OBVIOUS
<1>t. mem \in CRs  BY DEF TypeOK
<1>e. EndPass => GateKnown'  BY IdleKnows DEF EndPass
<1>s. ASSUME UNCHANGED <<passVars, version>> PROVE GateKnown'
  BY <1>s DEF GateKnown, agentVersionCompatible, passVars
<1>1. CASE BeginPass  BY <1>1 DEF BeginPass, GateKnown
<1>2. CASE PostgresRequeue
  BY <1>e, <1>2 DEF PostgresRequeue, flushInstallingStatus
<1>3. CASE ApplyAgent
  <2> DEFINE m == [mem EXCEPT !.compat = compatCondition(mem)]
  <2>1. flushInstallingStatus(m) \/ mem' = m  BY <1>3 DEF ApplyAgent
  <2>2. version' = version  BY <1>3 DEF ApplyAgent, envVars
  <2>3. m.minOp = mem.minOp /\ m.compat = compatCondition(mem)  BY <1>t DEF CRs
  <2> HIDE DEF m
  <2>4. CASE mem' = m
    BY <2>2, <2>3, <2>4 DEF GateKnown, compatCondition, agentVersionCompatible
  <2> QED  BY <1>e, <2>1, <2>4 DEF flushInstallingStatus
<1>4. CASE ApplyUI
  <2>1. EndPass \/ UNCHANGED mem  BY <1>4 DEF ApplyUI, flushInstallingStatus
  <2>2. version' = version  BY <1>4 DEF ApplyUI, envVars
  <2>3. "agent" \in Components => pc = "ui"  BY <1>4 DEF ApplyUI
  <2> QED  BY <1>e, <2>1, <2>2, <2>3 DEF GateKnown, agentVersionCompatible
<1>5. CASE FinishPass  BY <1>e, <1>5 DEF FinishPass
<1>6. CASE PassFails  BY <1>e, <1>6 DEF PassFails
<1>7. CASE Users
  <2>1. EndPass \/ UNCHANGED <<pc, mem, version>>
    BY <1>7 DEF Users, SetImage, SetMinOperatorVersion, Edit, OperatorUpgrade
  <2> QED  BY <1>e, <2>1 DEF GateKnown, agentVersionCompatible
<1>8. CASE Tick
  <2>1. mem' = aged(mem) /\ UNCHANGED <<pc, version>>  BY <1>8 DEF Tick, envVars
  <2>2. aged(mem).minOp = mem.minOp /\ aged(mem).compat = mem.compat
    BY <1>t DEF aged, CRs
  <2> QED  BY <2>1, <2>2 DEF GateKnown, agentVersionCompatible
<1>9. CASE Cluster
  BY <1>s, <1>8, <1>9
  DEF Cluster, CacheSync, PostgresProgress, RouteAdmitted, ReportStatus, PodStep,
      StopOldPod, StartPod, PodBecomesReady, SetPod, envVars
<1>10. CASE Failures
  BY <1>s, <1>6, <1>10
  DEF Failures, PostgresLost, RouteLost, DeploymentDeleted, PodFails, SetPod
<1>11. CASE UNCHANGED vars  BY <1>s, <1>11 DEF vars, envVars
<1> QED
  BY <1>1, <1>2, <1>3, <1>4, <1>5, <1>7, <1>9, <1>10, <1>11 DEF Next, Pass

\* The only step that puts a new record into the CR is the status write of a
\* pass whose copy of it is current.
LEMMA RecordWrite ==
  ASSUME TypeOK, CurrentCopies, [Next]_vars, NEW c \in Components,
         cr'.rollback[c] \notin {cr.rollback[c], NoRollback}
  PROVE  /\ pc = "status" /\ EndPass
         /\ UNCHANGED <<depVars, version>>
         /\ SameDecision(mem, cr)
         /\ mem.rollback[c].from # requestedImage(mem, c)
         /\ c = "agent" => mem.compat # "False"
         /\ cr'.rollback[c].from = requestedImage(mem, c)
<1>t. cr \in CRs /\ mem \in CRs /\ version \in Versions  BY DEF TypeOK
<1>0. cr'.rollback # cr.rollback  OBVIOUS
<1>f. ASSUME NEW m \in CRs, m.rollback = mem.rollback, flushInstallingStatus(m)
      PROVE  FALSE
  <2>1. [m EXCEPT !.phase = "Installing"].rollback = m.rollback  BY DEF CRs
  <2>2. memFresh => mem.rollback = cr.rollback  BY DEF CurrentCopies, SameDecision
  <2> QED
    BY <1>0, <1>f, <2>1, <2>2 DEF flushInstallingStatus, StatusUpdate, CRWrite, crVars
<1>1. ~BeginPass  BY <1>0 DEF BeginPass, crVars
<1>2. ~PostgresRequeue  BY <1>f, <1>t DEF PostgresRequeue
<1>3. ~ApplyAgent
  <2> SUFFICES ASSUME ApplyAgent PROVE FALSE  OBVIOUS
  <2> DEFINE m == [mem EXCEPT !.compat = compatCondition(mem)]
  <2>1. m \in CRs /\ m.rollback = mem.rollback  BY <1>t DEF CRs, compatCondition
  <2>2. flushInstallingStatus(m)  BY <1>0 DEF ApplyAgent, crVars
  <2> HIDE DEF m
  <2> QED  BY <1>f, <2>1, <2>2
<1>4. ~ApplyUI  BY <1>0, <1>f, <1>t DEF ApplyUI, crVars
<1>5. ~Users
  <2> SUFFICES ASSUME Users PROVE cr'.rollback = cr.rollback  BY <1>0
  <2> QED
    BY <1>t DEF Users, SetImage, SetMinOperatorVersion, OperatorUpgrade, Edit, CRWrite, CRs
<1>6. ~Tick  BY <1>0, <1>t DEF Tick, aged, CRs
<1>7. ~Cluster
  BY <1>0, <1>6
  DEF Cluster, CacheSync, PostgresProgress, RouteAdmitted, ReportStatus, PodStep,
      StopOldPod, StartPod, PodBecomesReady, SetPod, crVars
<1>8. ~Failures
  BY <1>0
  DEF Failures, PassFails, PostgresLost, RouteLost, DeploymentDeleted, PodFails, SetPod,
      crVars
<1>9. FinishPass
  <2>1. ~UNCHANGED vars  BY <1>0 DEF vars, crVars
  <2> QED  BY <1>1, <1>2, <1>3, <1>4, <1>5, <1>7, <1>8, <2>1 DEF Next, Pass
<1>10. PICK d \in readBack : StatusUpdate(afterStatusStep(mem, d))
  BY <1>9 DEF FinishPass
<1>11. d \in [Components -> Deployments]  BY ReadBackType
<1>12. memFresh /\ cr' = afterStatusStep(mem, d)
  BY <1>0, <1>10 DEF StatusUpdate, CRWrite, crVars
<1>13. SameDecision(mem, cr)  BY <1>12 DEF CurrentCopies
<1>14. keptRollback(mem, c) \in {cr.rollback[c], NoRollback}
  BY <1>13 DEF keptRollback, SameDecision
<1>15. /\ keptRollback(mem, c) = NoRollback
       /\ c = "agent" => mem.compat # "False"
       /\ cr'.rollback[c] = [from |-> requestedImage(mem, c), to |-> mem.lastHealthy[c]]
  BY <1>t, <1>11, <1>12, <1>14, StatusStepImages
<1>16. mem.rollback[c].from # requestedImage(mem, c)
  <2>1. requestedImage(mem, c) # NoImage  BY <1>t, RequestedIsImage
  <2> QED  BY <1>15, <2>1 DEF keptRollback, NoRollback
<1>17. UNCHANGED <<depVars, version>> /\ pc = "status" /\ EndPass
  BY <1>9 DEF FinishPass, envVars
<1> QED  BY <1>13, <1>15, <1>16, <1>17

\* An agent image the gate holds back never times out into a rollback, although
\* the verdict is a condition in a copy of the CR and users move the gate while
\* the pass runs: the write of a pass that read another gate is refused.
THEOREM GatedImageIsKept == Spec => GatedImageNotRolledBack
<1>1. Init => GateKnown  BY DEF Init, GateKnown
<1>2. Spec => []GateKnown  BY <1>1, GateStep, TypeCorrect, PTL DEF Spec
<1>3. TypeOK /\ CurrentCopies /\ GateKnown /\ [Next]_vars =>
        [\A c \in Components \cap {"agent"} :
           cr'.rollback[c] \notin {cr.rollback[c], NoRollback}
             => agentVersionCompatible(cr)]_vars
  <2> SUFFICES ASSUME TypeOK, CurrentCopies, GateKnown, [Next]_vars,
                      NEW c \in Components \cap {"agent"},
                      cr'.rollback[c] \notin {cr.rollback[c], NoRollback}
               PROVE  agentVersionCompatible(cr)
    OBVIOUS
  <2>1. c \in Components /\ c = "agent"  OBVIOUS
  <2>2. /\ pc = "status" /\ SameDecision(mem, cr) /\ mem.compat # "False"
    BY <2>1, RecordWrite
  <2>3. mem.minOp = 0 \/ agentVersionCompatible(mem)  BY <2>1, <2>2 DEF GateKnown
  <2>4. mem.minOp = cr.minOp  BY <2>2 DEF SameDecision
  <2>5. version \in Nat  BY DEF TypeOK
  <2> QED  BY <2>3, <2>4, <2>5 DEF agentVersionCompatible
<1> QED
  BY <1>2, <1>3, CurrentHolds, TypeCorrect, PTL DEF Spec, GatedImageNotRolledBack


-----------------------------------------------------------------------------
(* Old copies of the CR                                                    *)

\* A copy of the CR sends c to the image a record of the CR gave up.
Retries(m, c) ==
  cr.rollback[c] # NoRollback /\ resolvedImage(m, c) = cr.rollback[c].from

\* The pass has applied c.
applied(c) == pc = "status" \/ (pc = "ui" /\ c = "agent")

\* Such a copy is older than the record, so c has not left the image since; and
\* while the informer has it, the running pass has one too.
RetriesAreOld(c) ==
  /\ Retries(cache, c) => /\ "lag" \in Events
                          /\ dep[c].image = cr.rollback[c].from
                          /\ pc # "idle" => Retries(mem, c)
  /\ pc # "idle" /\ Retries(mem, c) =>
       "lag" \in Events /\ dep[c].image = cr.rollback[c].from

\* What a pass applied stays in the Deployment until the pass ends.
AppliedStays(c) ==
  "delete" \notin Events /\ applied(c) /\ (c = "agent" => agentVersionCompatible(mem))
    => dep[c].image = resolvedImage(mem, c)

\* A Deployment to be replaced has never been judged.
ForeignUnjudged(c) ==
  dep[c].foreign =>
    /\ c = "agent" /\ dep[c].image # NoImage
    /\ cr.rollback[c] = NoRollback /\ ~applied(c)

OldCopies ==
  \A c \in Components : RetriesAreOld(c) /\ AppliedStays(c) /\ ForeignUnjudged(c)

\* A copy with the record the CR has does not retry what it gave up.
LEMMA RecordedAvoids ==
  ASSUME TypeOK, Provenance, NEW c \in Components, NEW m, m.rollback[c] = cr.rollback[c]
  PROVE  ~Retries(m, c)
<1> SUFFICES ASSUME Retries(m, c) PROVE FALSE  OBVIOUS
<1>1. cr.rollback[c] # NoRollback /\ resolvedImage(m, c) = cr.rollback[c].from
  BY DEF Retries
<1>2. cr.rollback[c].to \in proven[c] /\ cr.rollback[c].from # cr.rollback[c].to
  BY <1>1 DEF Provenance, CRProven
<1>3. cr.rollback[c].to # NoImage  BY <1>2 DEF TypeOK
<1> QED  BY <1>1, <1>2, <1>3 DEF resolvedImage, applyRollback

\* The same of the next state.
LEMMA RecordedAvoidsNext ==
  ASSUME TypeOK', Provenance', NEW c \in Components, cache'.rollback[c] = cr'.rollback[c]
  PROVE  ~Retries(cache, c)'
<1> SUFFICES ASSUME Retries(cache, c)' PROVE FALSE  OBVIOUS
<1>1. cr'.rollback[c] # NoRollback /\ resolvedImage(cache, c)' = cr'.rollback[c].from
  BY DEF Retries
<1>2. cr'.rollback[c].to \in proven'[c] /\ cr'.rollback[c].from # cr'.rollback[c].to
  BY <1>1 DEF Provenance, CRProven
<1>3. cr'.rollback[c].to # NoImage  BY <1>2 DEF TypeOK
<1> QED  BY <1>1, <1>2, <1>3 DEF resolvedImage, applyRollback

\* The image of a Deployment changes only by a pass that applies its copy of the
\* CR, by a deletion, or by the removal of a Deployment to be replaced.
LEMMA ImageChange ==
  ASSUME TypeOK, [Next]_vars, NEW c \in Components
  PROVE  \/ dep'[c].image = dep[c].image /\ dep'[c].foreign = dep[c].foreign
         \/ /\ pc # "idle"
            /\ dep'[c].image = resolvedImage(mem, c) /\ dep'[c].foreign = dep[c].foreign
         \/ /\ dep'[c] = NoDeployment
            /\ "delete" \in Events \/ (dep[c].foreign /\ c = "agent" /\ pc = "agent")
<1> DEFINE Same == dep'[c].image = dep[c].image /\ dep'[c].foreign = dep[c].foreign
           Put == /\ pc # "idle"
                  /\ dep'[c].image = resolvedImage(mem, c) /\ dep'[c].foreign = dep[c].foreign
           Gone == /\ dep'[c] = NoDeployment
                   /\ "delete" \in Events \/ (dep[c].foreign /\ c = "agent" /\ pc = "agent")
<1> SUFFICES Same \/ Put \/ Gone  OBVIOUS
<1>t. dep \in [Components -> Deployments] /\ dep[c] \in Deployments  BY DEF TypeOK
<1>w. \A i : /\ withImage(dep[c], i).image = i
             /\ withImage(dep[c], i).foreign = dep[c].foreign
  BY <1>t DEF withImage, Deployments
<1>1. CASE ApplyAgent
  <2> DEFINE d == dep["agent"]
             i == IF agentVersionCompatible(mem) THEN resolvedImage(mem, "agent") ELSE d.image
  <2>1. pc = "agent"  BY <1>1 DEF ApplyAgent
  <2>2. \/ d.foreign /\ dep' = [dep EXCEPT !["agent"] = NoDeployment]
        \/ dep' = dep
        \/ dep' = [dep EXCEPT !["agent"] = withImage(d, i)]
    BY <1>1 DEF ApplyAgent
  <2>3. CASE c # "agent"
    <3>1. dep'[c] = dep[c]  BY <1>t, <2>2, <2>3
    <3> QED  BY <3>1
  <2>4. CASE c = "agent"
    <3>1. CASE d.foreign /\ dep' = [dep EXCEPT !["agent"] = NoDeployment]
      BY <1>t, <2>1, <2>4, <3>1
    <3>2. CASE dep' = dep  BY <3>2
    <3>3. CASE dep' = [dep EXCEPT !["agent"] = withImage(d, i)]
      <4>1. dep'[c] = withImage(dep[c], i)  BY <1>t, <2>4, <3>3
      <4>2. i \in {resolvedImage(mem, c), dep[c].image}  BY <2>4
      <4> HIDE DEF i
      <4>3. dep'[c].image = i /\ dep'[c].foreign = dep[c].foreign  BY <1>w, <4>1
      <4> QED  BY <2>1, <4>2, <4>3
    <3> QED  BY <2>2, <3>1, <3>2, <3>3
  <2> QED  BY <2>3, <2>4
<1>2. CASE ApplyUI
  <2>1. pc # "idle"  BY <1>2 DEF ApplyUI
  <2>2. dep'[c] \in {withImage(dep[c], resolvedImage(mem, c)), dep[c]}
    BY <1>2 DEF ApplyUI
  <2> QED  BY <1>w, <2>1, <2>2
<1>3. CASE UNCHANGED dep  BY <1>3
<1>4. ASSUME NEW e \in Components, ReportStatus(e) PROVE Same
  <2>1. \A D \in Deployments : \A u, r, n :
          LET x == [D EXCEPT !.observed = TRUE, !.updated = u, !.ready = r, !.replicas = n]
          IN x.image = D.image /\ x.foreign = D.foreign
    BY DEF Deployments
  <2>2. PICK u, r, n : dep' = [dep EXCEPT ![e] =
          [dep[e] EXCEPT !.observed = TRUE, !.updated = u, !.ready = r, !.replicas = n]]
    BY <1>4 DEF ReportStatus
  <2>3. CASE c = e  BY <1>t, <2>1, <2>2, <2>3
  <2>4. CASE c # e  BY <1>t, <2>2, <2>4
  <2> QED  BY <2>3, <2>4
<1>5. ASSUME NEW e \in Components, DeploymentDeleted(e) PROVE Same \/ Gone
  <2>1. "delete" \in Events /\ dep' = [dep EXCEPT ![e] = NoDeployment]
    BY <1>5 DEF DeploymentDeleted
  <2>2. CASE c = e  BY <1>t, <2>1, <2>2
  <2>3. CASE c # e  BY <1>t, <2>1, <2>3
  <2> QED  BY <2>2, <2>3
<1>6. CASE BeginPass \/ PostgresRequeue \/ FinishPass \/ PassFails
  BY <1>3, <1>6 DEF BeginPass, PostgresRequeue, FinishPass, PassFails, depVars
<1>7. CASE Users
  BY <1>3, <1>7
  DEF Users, SetImage, SetMinOperatorVersion, OperatorUpgrade, Edit, depVars
<1>8. CASE CacheSync \/ Tick \/ PostgresProgress \/ RouteAdmitted \/ PostgresLost \/ RouteLost
  BY <1>3, <1>8
  DEF CacheSync, Tick, PostgresProgress, RouteAdmitted, PostgresLost, RouteLost, depVars
<1>9. ASSUME NEW e \in Components, NEW s \in Slots,
             StopOldPod(e, s) \/ StartPod(e, s) \/ PodBecomesReady(e, s) \/ PodFails(e, s)
      PROVE  UNCHANGED dep
  BY <1>9 DEF StopOldPod, StartPod, PodBecomesReady, PodFails, SetPod
<1>10. CASE UNCHANGED vars  BY <1>3, <1>10 DEF vars, depVars
<1> HIDE DEF Same, Put, Gone
<1>11. CASE Cluster  BY <1>3, <1>4, <1>8, <1>9, <1>11 DEF Cluster, PodStep
<1>12. CASE Failures  BY <1>3, <1>5, <1>6, <1>8, <1>9, <1>12 DEF Failures
<1> QED  BY <1>1, <1>2, <1>6, <1>7, <1>10, <1>11, <1>12 DEF Next, Pass


\* The informer's copy has the CR's records after a step, or asks for what it
\* asked for.
LEMMA CacheChange ==
  ASSUME TypeOK, [Next]_vars
  PROVE  \/ cache'.rollback = cr'.rollback
         \/ /\ \A c \in Components : resolvedImage(cache, c)' = resolvedImage(cache, c)
            /\ cr'.rollback = cr.rollback \/ "lag" \in Events
<1> DEFINE Has == cache'.rollback = cr'.rollback
           Same == /\ \A c \in Components :
                        resolvedImage(cache, c)' = resolvedImage(cache, c)
                   /\ cr'.rollback = cr.rollback \/ "lag" \in Events
<1> SUFFICES Has \/ Same  OBVIOUS
<1>t. cr \in CRs /\ cache \in CRs  BY DEF TypeOK
<1>r. ASSUME cache'.image = cache.image, cache'.rollback = cache.rollback,
             version' = version, cr'.rollback = cr.rollback \/ "lag" \in Events
      PROVE  Same
  BY <1>r DEF resolvedImage, applyRollback, requestedImage
<1>u. ASSUME UNCHANGED <<crVars, version>> PROVE Same
  BY <1>r, <1>u DEF crVars
<1> HIDE DEF Same
<1>w. ASSUME NEW new, CRWrite(new) \/ StatusUpdate(new), version' = version
      PROVE  Has \/ Same
  <2>1. \/ UNCHANGED crVars
        \/ "lag" \in Events /\ UNCHANGED cache
        \/ cache' = cr'
    BY <1>w DEF CRWrite, StatusUpdate, crVars
  <2>2. CASE UNCHANGED crVars  BY <1>u, <1>w, <2>2
  <2>3. CASE "lag" \in Events /\ UNCHANGED cache  BY <1>r, <1>w, <2>3
  <2> QED  BY <2>1, <2>2, <2>3
<1>1. CASE Pass
  <2>1. version' = version
    BY <1>1
    DEF Pass, BeginPass, PostgresRequeue, ApplyAgent, ApplyUI, FinishPass, envVars
  <2>2. UNCHANGED crVars \/ \E new : StatusUpdate(new)
    BY <1>1 DEF Pass, BeginPass, PostgresRequeue, ApplyAgent, ApplyUI, FinishPass,
                flushInstallingStatus
  <2> QED  BY <1>u, <1>w, <2>1, <2>2
<1>2. CASE Users
  <2>1. ASSUME NEW new, Edit(new) PROVE Has \/ Same  BY <1>w, <2>1 DEF Edit
  <2>2. CASE OperatorUpgrade  BY <2>2 DEF OperatorUpgrade
  <2> HIDE DEF Has
  <2> QED  BY <1>2, <2>1, <2>2 DEF Users, SetImage, SetMinOperatorVersion
<1>3. CASE CacheSync  BY <1>3 DEF CacheSync
<1>4. CASE Tick
  <2>1. /\ aged(cr).rollback = cr.rollback /\ aged(cache).rollback = cache.rollback
        /\ aged(cache).image = cache.image
    BY <1>t DEF aged, CRs
  <2> QED  BY <1>r, <1>4, <2>1 DEF Tick, envVars
<1> HIDE DEF Has
<1>5. CASE Cluster
  BY <1>u, <1>3, <1>4, <1>5
  DEF Cluster, PostgresProgress, RouteAdmitted, ReportStatus, PodStep, StopOldPod,
      StartPod, PodBecomesReady, SetPod, envVars
<1>6. CASE Failures
  BY <1>u, <1>6
  DEF Failures, PassFails, PostgresLost, RouteLost, DeploymentDeleted, PodFails, SetPod
<1>7. CASE UNCHANGED vars  BY <1>u, <1>7 DEF vars, envVars
<1> QED  BY <1>1, <1>2, <1>5, <1>6, <1>7 DEF Next

\* A pass ends, begins with the informer's copy, or goes on asking for what it
\* asked for; what it has applied then, it had applied or applies now.
LEMMA PassChange ==
  ASSUME TypeOK, [Next]_vars, NEW c \in Components
  PROVE  \/ pc' = "idle"
         \/ /\ pc = "idle" /\ dep' = dep /\ ~applied(c)'
            /\ resolvedImage(mem, c)' = resolvedImage(cache, c)
         \/ /\ pc # "idle"
            /\ resolvedImage(mem, c)' = resolvedImage(mem, c)
            /\ agentVersionCompatible(mem)' <=> agentVersionCompatible(mem)
            /\ applied(c)' =>
                 \/ applied(c)
                 \/ /\ (c = "agent" => agentVersionCompatible(mem))
                         => dep'[c].image = resolvedImage(mem, c)
                    /\ c = "agent" => dep[c].image = NoImage \/ ~dep[c].foreign
<1> DEFINE Begun == /\ pc = "idle" /\ dep' = dep /\ ~applied(c)'
                    /\ resolvedImage(mem, c)' = resolvedImage(cache, c)
           Asks == /\ resolvedImage(mem, c)' = resolvedImage(mem, c)
                   /\ agentVersionCompatible(mem)' <=> agentVersionCompatible(mem)
           Now == /\ (c = "agent" => agentVersionCompatible(mem))
                         => dep'[c].image = resolvedImage(mem, c)
                  /\ c = "agent" => dep[c].image = NoImage \/ ~dep[c].foreign
           On == pc # "idle" /\ Asks /\ (applied(c)' => applied(c) \/ Now)
<1> SUFFICES pc' = "idle" \/ Begun \/ On  OBVIOUS
<1>t. mem \in CRs /\ dep \in [Components -> Deployments] /\ dep[c] \in Deployments
  BY DEF TypeOK
<1>w. \A i : withImage(dep[c], i).image = i  BY <1>t DEF withImage, Deployments
<1>e. EndPass => pc' = "idle"  BY DEF EndPass
<1>r. ASSUME mem'.image = mem.image, mem'.rollback = mem.rollback,
             mem'.minOp = mem.minOp, version' = version
      PROVE  Asks
  BY <1>r DEF resolvedImage, applyRollback, requestedImage, agentVersionCompatible
<1>s. ASSUME mem'.image = mem.image, mem'.rollback = mem.rollback,
             mem'.minOp = mem.minOp, version' = version, pc' = pc
      PROVE  pc' = "idle" \/ On
  BY <1>r, <1>s DEF applied
<1>u. ASSUME UNCHANGED <<pc, mem, version>> PROVE pc' = "idle" \/ On  BY <1>s, <1>u
<1>1. CASE BeginPass
  <2>1. mem' = cache /\ version' = version /\ pc = "idle" /\ dep' = dep
        /\ pc' \in {"postgresRequeue", "agent"}
    BY <1>1 DEF BeginPass, envVars, depVars
  <2> QED  BY <2>1 DEF applied, resolvedImage, applyRollback, requestedImage
<1>2. CASE PostgresRequeue \/ FinishPass \/ PassFails
  BY <1>e, <1>2 DEF PostgresRequeue, flushInstallingStatus, FinishPass, PassFails
<1>3. CASE ApplyAgent
  <2> DEFINE m == [mem EXCEPT !.compat = compatCondition(mem)]
             i == IF agentVersionCompatible(mem) THEN resolvedImage(mem, "agent")
                  ELSE dep["agent"].image
  <2>1. \/ EndPass
        \/ /\ dep["agent"].image = NoImage \/ ~dep["agent"].foreign
           /\ dep' = [dep EXCEPT !["agent"] = withImage(dep["agent"], i)]
           /\ mem' = m /\ pc' = "ui"
    BY <1>3 DEF ApplyAgent, flushInstallingStatus
  <2>2. pc = "agent" /\ version' = version  BY <1>3 DEF ApplyAgent, envVars
  <2>3. m.image = mem.image /\ m.rollback = mem.rollback /\ m.minOp = mem.minOp
    BY <1>t DEF CRs
  <2> HIDE DEF m
  <2>4. CASE /\ dep["agent"].image = NoImage \/ ~dep["agent"].foreign
             /\ dep' = [dep EXCEPT !["agent"] = withImage(dep["agent"], i)]
             /\ mem' = m /\ pc' = "ui"
    <3>1. Asks  BY <1>r, <2>2, <2>3, <2>4
    <3>2. CASE c # "agent"
      <4>1. ~applied(c)'  BY <2>4, <3>2 DEF applied
      <4> QED  BY <2>2, <3>1, <4>1
    <3>3. CASE c = "agent"
      <4>1. dep'[c].image = i  BY <1>t, <1>w, <2>4, <3>3
      <4>2. Now  BY <2>4, <3>3, <4>1
      <4> QED  BY <2>2, <3>1, <4>2
    <3> QED  BY <3>2, <3>3
  <2> QED  BY <1>e, <2>1, <2>4
<1>4. CASE ApplyUI
  <2>1. EndPass \/ UNCHANGED mem  BY <1>4 DEF ApplyUI, flushInstallingStatus
  <2>2. pc \in {"ui", "agent"} /\ version' = version
        /\ ("agent" \in Components => pc = "ui")
    BY <1>4 DEF ApplyUI, envVars
  <2>3. CASE UNCHANGED mem
    <3>1. Asks  BY <1>r, <2>2, <2>3
    <3>2. CASE c = "agent"
      <4>1. applied(c)  BY <2>2, <3>2 DEF applied
      <4> QED  BY <2>2, <3>1, <4>1
    <3>3. CASE c # "agent"
      <4>1. c = "ui"  BY <3>3
      <4>2. dep'[c] = withImage(dep[c], resolvedImage(mem, c))
        BY <1>4, <4>1 DEF ApplyUI
      <4>3. Now  BY <1>w, <3>3, <4>2
      <4> QED  BY <2>2, <3>1, <4>3
    <3> QED  BY <3>2, <3>3
  <2> QED  BY <1>e, <2>1, <2>3
<1>5. CASE Users
  <2>1. EndPass \/ UNCHANGED <<pc, mem, version>>
    BY <1>5 DEF Users, SetImage, SetMinOperatorVersion, Edit, OperatorUpgrade
  <2> QED  BY <1>e, <1>u, <2>1
<1>6. CASE Tick
  <2>1. mem' = aged(mem) /\ UNCHANGED <<pc, version>>  BY <1>6 DEF Tick, envVars
  <2>2. /\ aged(mem).minOp = mem.minOp /\ aged(mem).image = mem.image
        /\ aged(mem).rollback = mem.rollback
    BY <1>t DEF aged, CRs
  <2> QED  BY <1>s, <2>1, <2>2
<1> HIDE DEF Begun, On
<1>7. CASE Cluster
  BY <1>u, <1>6, <1>7
  DEF Cluster, CacheSync, PostgresProgress, RouteAdmitted, ReportStatus, PodStep,
      StopOldPod, StartPod, PodBecomesReady, SetPod, passVars, envVars
<1>8. CASE Failures
  BY <1>u, <1>2, <1>8
  DEF Failures, PostgresLost, RouteLost, DeploymentDeleted, PodFails, SetPod, passVars
<1>9. CASE UNCHANGED vars  BY <1>u, <1>9 DEF vars, passVars, envVars
<1> QED
  BY <1>1, <1>2, <1>3, <1>4, <1>5, <1>7, <1>8, <1>9 DEF Next, Pass


\* A Deployment whose image a copy retries keeps that image: whoever applies
\* the copy puts it there again.
LEMMA RetriedStays ==
  ASSUME ~({"lag", "delete"} \subseteq Events), TypeOK, OldCopies, [Next]_vars,
         NEW c \in Components, cr.rollback[c] # NoRollback, "lag" \in Events,
         dep[c].image = cr.rollback[c].from, pc # "idle" => Retries(mem, c)
  PROVE  dep'[c].image = cr.rollback[c].from
<1>1. ~dep[c].foreign  BY DEF OldCopies, ForeignUnjudged
<1>2. "delete" \notin Events  OBVIOUS
<1>3. pc # "idle" => resolvedImage(mem, c) = cr.rollback[c].from  BY DEF Retries
<1> QED  BY <1>1, <1>2, <1>3, ImageChange

\* A new record is about the image the pass has just applied.
LEMMA RecordIsApplied ==
  ASSUME "delete" \notin Events, TypeOK, CurrentCopies, GateKnown, OldCopies, [Next]_vars,
         NEW c \in Components, cr'.rollback[c] \notin {cr.rollback[c], NoRollback}
  PROVE  pc' = "idle" /\ dep'[c].image = cr'.rollback[c].from
<1>1. /\ pc = "status" /\ EndPass /\ UNCHANGED depVars
      /\ mem.rollback[c].from # requestedImage(mem, c)
      /\ c = "agent" => mem.compat # "False"
      /\ cr'.rollback[c].from = requestedImage(mem, c)
  BY RecordWrite
<1>2. c = "agent" => agentVersionCompatible(mem)
  <2>1. version \in Nat  BY DEF TypeOK
  <2> QED  BY <1>1, <2>1 DEF GateKnown, agentVersionCompatible
<1>3. resolvedImage(mem, c) = requestedImage(mem, c)
  BY <1>1 DEF resolvedImage, applyRollback
<1>4. dep[c].image = resolvedImage(mem, c)
  BY <1>1, <1>2 DEF OldCopies, AppliedStays, applied
<1> QED  BY <1>1, <1>3, <1>4 DEF EndPass, depVars

\* Every step keeps the invariant.
LEMMA OldStep ==
  ASSUME ~({"lag", "delete"} \subseteq Events), TypeOK, TypeOK', Provenance',
         CurrentCopies, GateKnown, OldCopies, [Next]_vars
  PROVE  OldCopies'
<1> SUFFICES ASSUME NEW c \in Components
             PROVE  RetriesAreOld(c)' /\ AppliedStays(c)' /\ ForeignUnjudged(c)'
  BY DEF OldCopies
<1> DEFINE New == cr'.rollback[c] \notin {cr.rollback[c], NoRollback}
<1>0. RetriesAreOld(c) /\ AppliedStays(c) /\ ForeignUnjudged(c)  BY DEF OldCopies
<1>n. New => pc = "status" /\ pc' = "idle"  BY RecordWrite DEF EndPass
<1>p. \/ pc' = "idle"
      \/ /\ pc = "idle" /\ dep' = dep /\ ~applied(c)'
         /\ resolvedImage(mem, c)' = resolvedImage(cache, c)
      \/ /\ pc # "idle"
         /\ resolvedImage(mem, c)' = resolvedImage(mem, c)
         /\ agentVersionCompatible(mem)' <=> agentVersionCompatible(mem)
         /\ applied(c)' =>
              \/ applied(c)
              \/ /\ (c = "agent" => agentVersionCompatible(mem))
                      => dep'[c].image = resolvedImage(mem, c)
                 /\ c = "agent" => dep[c].image = NoImage \/ ~dep[c].foreign
  BY PassChange
<1>d. \/ dep'[c].image = dep[c].image /\ dep'[c].foreign = dep[c].foreign
      \/ /\ pc # "idle"
         /\ dep'[c].image = resolvedImage(mem, c) /\ dep'[c].foreign = dep[c].foreign
      \/ /\ dep'[c] = NoDeployment
         /\ "delete" \in Events \/ (dep[c].foreign /\ c = "agent" /\ pc = "agent")
  BY ImageChange
<1>i. applied(c)' => pc' # "idle"  BY DEF applied
<1>1. ForeignUnjudged(c)'
  <2> SUFFICES ASSUME dep'[c].foreign
               PROVE  /\ c = "agent" /\ dep'[c].image # NoImage
                      /\ cr'.rollback[c] = NoRollback /\ ~applied(c)'
    BY DEF ForeignUnjudged
  <2>1. NoDeployment.foreign = FALSE  BY DEF NoDeployment
  <2>2. dep[c].foreign /\ (dep'[c].image = dep[c].image \/ dep'[c].image = resolvedImage(mem, c))
    BY <1>d, <2>1
  <2>3. /\ c = "agent" /\ dep[c].image # NoImage
        /\ cr.rollback[c] = NoRollback /\ ~applied(c)
    BY <1>0, <2>2 DEF ForeignUnjudged
  <2>4. dep'[c].image # NoImage  BY <2>2, <2>3, ResolvedIsImage DEF TypeOK
  <2>5. cr'.rollback[c] = NoRollback  BY <1>n, <2>3 DEF applied
  <2>6. ~applied(c)'  BY <1>p, <1>i, <2>2, <2>3
  <2> QED  BY <2>3, <2>4, <2>5, <2>6
<1>2. AppliedStays(c)'
  <2> SUFFICES ASSUME "delete" \notin Events, applied(c)',
                      c = "agent" => agentVersionCompatible(mem)'
               PROVE  dep'[c].image = resolvedImage(mem, c)'
    BY DEF AppliedStays
  <2>1. /\ resolvedImage(mem, c)' = resolvedImage(mem, c)
        /\ c = "agent" => agentVersionCompatible(mem)
        /\ applied(c) \/ dep'[c].image = resolvedImage(mem, c)
    BY <1>p, <1>i
  <2>2. CASE applied(c)
    <3>1. dep[c].image = resolvedImage(mem, c)  BY <1>0, <2>1, <2>2 DEF AppliedStays
    <3>2. ~(c = "agent" /\ pc = "agent")  BY <2>2 DEF applied
    <3> QED  BY <1>d, <2>1, <3>1, <3>2
  <2> QED  BY <2>1, <2>2
<1>3. ASSUME Retries(cache, c)'
      PROVE  /\ "lag" \in Events /\ dep'[c].image = cr'.rollback[c].from
             /\ pc' # "idle" => Retries(mem, c)'
  <2>1. cr'.rollback[c] # NoRollback /\ resolvedImage(cache, c)' = cr'.rollback[c].from
    BY <1>3 DEF Retries
  <2>2. cache'.rollback # cr'.rollback  BY <1>3, RecordedAvoidsNext
  <2>3. /\ resolvedImage(cache, c)' = resolvedImage(cache, c)
        /\ cr'.rollback = cr.rollback \/ "lag" \in Events
    BY <2>2, CacheChange
  <2>4. CASE New
    <3>1. "lag" \in Events  BY <2>3, <2>4
    <3>2. pc' = "idle" /\ dep'[c].image = cr'.rollback[c].from
      BY <2>4, <3>1, RecordIsApplied
    <3> QED  BY <3>1, <3>2
  <2>5. CASE cr'.rollback[c] = cr.rollback[c]
    <3>1. Retries(cache, c)  BY <2>1, <2>3, <2>5 DEF Retries
    <3>2. /\ "lag" \in Events /\ dep[c].image = cr.rollback[c].from
          /\ pc # "idle" => Retries(mem, c)
      BY <1>0, <3>1 DEF RetriesAreOld
    <3>3. dep'[c].image = cr.rollback[c].from  BY <2>1, <2>5, <3>2, RetriedStays
    <3>4. ASSUME pc' # "idle" PROVE Retries(mem, c)'
      <4>1. resolvedImage(mem, c)' = cr.rollback[c].from
        BY <1>p, <2>1, <2>3, <2>5, <3>2, <3>4 DEF Retries
      <4> QED  BY <2>1, <2>5, <4>1 DEF Retries
    <3> QED  BY <2>5, <3>2, <3>3, <3>4
  <2> QED  BY <2>1, <2>4, <2>5
<1>4. ASSUME pc' # "idle", Retries(mem, c)'
      PROVE  "lag" \in Events /\ dep'[c].image = cr'.rollback[c].from
  <2>1. cr'.rollback[c] # NoRollback /\ resolvedImage(mem, c)' = cr'.rollback[c].from
    BY <1>4 DEF Retries
  <2>2. cr'.rollback[c] = cr.rollback[c]  BY <1>n, <1>4, <2>1
  <2>3. CASE pc = "idle"
    <3>1. dep' = dep /\ resolvedImage(mem, c)' = resolvedImage(cache, c)
      BY <1>p, <1>4, <2>3
    <3>2. Retries(cache, c)  BY <2>1, <2>2, <3>1 DEF Retries
    <3> QED  BY <1>0, <2>2, <3>1, <3>2 DEF RetriesAreOld
  <2>4. CASE pc # "idle"
    <3>1. resolvedImage(mem, c)' = resolvedImage(mem, c)  BY <1>p, <1>4, <2>4
    <3>2. Retries(mem, c)  BY <2>1, <2>2, <3>1 DEF Retries
    <3>3. "lag" \in Events /\ dep[c].image = cr.rollback[c].from
      BY <1>0, <2>4, <3>2 DEF RetriesAreOld
    <3>4. dep'[c].image = cr.rollback[c].from  BY <2>1, <2>2, <3>2, <3>3, RetriedStays
    <3> QED  BY <2>2, <3>3, <3>4
  <2> QED  BY <2>3, <2>4
<1>5. RetriesAreOld(c)'  BY <1>3, <1>4 DEF RetriesAreOld
<1> QED  BY <1>1, <1>2, <1>5

\* No Deployment to be replaced has been judged when the operator starts.
LEMMA OldInit == TypeOK /\ Init => OldCopies
<1> SUFFICES ASSUME TypeOK, Init, NEW c \in Components
             PROVE  RetriesAreOld(c) /\ AppliedStays(c) /\ ForeignUnjudged(c)
  BY DEF OldCopies
<1>1. cr.rollback[c] = NoRollback
  <2>1. \/ cr = NewCR
        \/ \E lh : cr = [NewCR EXCEPT !.phase = "Running",
                           !.lastHealthy = lh]
    BY DEF Init, Fresh, Installed
  <2>2. cr.rollback = NewCR.rollback  BY <2>1, ConstantCRs DEF CRs
  <2> QED  BY <2>2 DEF NewCR
<1>2. ~applied(c)  BY DEF Init, applied
<1>3. dep[c].foreign => c = "agent" /\ dep[c].image # NoImage
  <2>1. CASE Installed  BY <2>1 DEF Installed
  <2>2. CASE Fresh
    <3>1. NoDeployment.foreign = FALSE  BY DEF NoDeployment
    <3>2. \A i : [NoDeployment EXCEPT !.image = i, !.foreign = TRUE].image = i
      BY DEF NoDeployment
    <3>3. \/ dep = [e \in Components |-> NoDeployment]
          \/ \E i \in Images : dep = [e \in Components |->
               IF e = "agent" THEN [NoDeployment EXCEPT !.image = i, !.foreign = TRUE]
               ELSE NoDeployment]
      BY <2>2 DEF Fresh
    <3>4. CASE dep = [e \in Components |-> NoDeployment]
      <4>1. dep[c] = NoDeployment  BY <3>4
      <4> QED  BY <3>1, <4>1
    <3>5. ASSUME NEW i \in Images, dep = [e \in Components |->
                   IF e = "agent" THEN [NoDeployment EXCEPT !.image = i, !.foreign = TRUE]
                   ELSE NoDeployment]
          PROVE  dep[c].foreign => c = "agent" /\ dep[c].image # NoImage
      <4> DEFINE h == [NoDeployment EXCEPT !.image = i, !.foreign = TRUE]
      <4>1. h.image = i /\ i # NoImage  BY <3>2
      <4>2. dep[c] = IF c = "agent" THEN h ELSE NoDeployment  BY <3>5
      <4> HIDE DEF h
      <4> QED  BY <3>1, <4>1, <4>2
    <3> QED  BY <3>3, <3>4, <3>5
  <2> QED  BY <2>1, <2>2 DEF Init
<1>4. RetriesAreOld(c)  BY <1>1 DEF RetriesAreOld, Retries
<1> QED  BY <1>1, <1>2, <1>3, <1>4 DEF AppliedStays, ForeignUnjudged

\* While the CR carries a rollback record for the image it asks for, no pass
\* brings a Deployment that has left that image back to it: a pass on a copy
\* older than the record finds the Deployment still on that image.  Informers
\* may lag, or Deployments be deleted by hand, but not both: an old copy read
\* after a deletion does bring the image back, until the informer catches up.
THEOREM RollbackIsNotUndone ==
  ASSUME ~({"lag", "delete"} \subseteq Events)
  PROVE  Spec => RolledBackImageStaysOut
<1>1. Init => OldCopies /\ GateKnown
  <2>1. Init => GateKnown  BY DEF Init, GateKnown
  <2> QED  BY <2>1, InitType, OldInit
<1>2. TypeOK /\ TypeOK' /\ Provenance' /\ CurrentCopies /\ GateKnown /\ OldCopies
        /\ [Next]_vars => (OldCopies /\ GateKnown)'
  BY OldStep, GateStep
<1>3. TypeOK /\ OldCopies /\ [Next]_vars =>
        [\A c \in Components :
           dep'[c].image # dep[c].image /\ dep'[c].image # NoImage
             => ~(/\ cr.rollback[c].from = requestedImage(cr, c)
                  /\ dep'[c].image = cr.rollback[c].from)]_vars
  <2> SUFFICES ASSUME TypeOK, OldCopies, [Next]_vars, NEW c \in Components,
                      dep'[c].image # dep[c].image, dep'[c].image # NoImage,
                      cr.rollback[c].from = requestedImage(cr, c),
                      dep'[c].image = cr.rollback[c].from
               PROVE  FALSE
    OBVIOUS
  <2>1. pc # "idle" /\ dep'[c].image = resolvedImage(mem, c)
    <3>1. NoDeployment.image = NoImage  BY DEF NoDeployment
    <3> QED  BY <3>1, ImageChange
  <2>2. cr.rollback[c] # NoRollback
    BY RequestedIsImage DEF TypeOK, NoRollback
  <2>3. Retries(mem, c)  BY <2>1, <2>2 DEF Retries
  <2>4. dep[c].image = cr.rollback[c].from
    BY <2>1, <2>3 DEF OldCopies, RetriesAreOld
  <2> QED  BY <2>4
<1>4. Spec => [](OldCopies /\ GateKnown)
  BY <1>1, <1>2, TypeCorrect, ProvenanceHolds, CurrentHolds, PTL DEF Spec
<1> QED
  BY <1>3, <1>4, TypeCorrect, PTL DEF Spec, RolledBackImageStaysOut

-----------------------------------------------------------------------------
(* The window                                                              *)

\* An image asked for under phase Running has been asked for at least as long
\* as the clock has run.
WindowOpen ==
  /\ waited \in [Components -> 0 .. Timeout]
  /\ \A c \in Components : calm[c] => cr.started <= waited[c]

\* The status step starts the clock anew, keeps it or stops it; a record needs
\* a clock that has reached the timeout.
LEMMA StatusStepWindow ==
  ASSUME NEW m \in CRs, version \in Versions, NEW d \in [Components -> Deployments]
  PROVE  /\ afterStatusStep(m, d).started \in {m.started, NotStarted, 0}
         /\ \A c \in Components :
              afterStatusStep(m, d).rollback[c] \notin {m.rollback[c], NoRollback}
                => m.started >= Timeout
<1> DEFINE k == syncPhaseAndConditions(m, d, pg = "ready")
           U == upgradingSet(m, d)
           n == afterStatusStep(m, d)
<1>1. k \in CRs  BY SyncType
<1>2. /\ k.started = nextStarted(m.started, U # {})
      /\ \A c \in Components : k.rollback[c] \in {m.rollback[c], NoRollback}
  BY DEF syncPhaseAndConditions, keptRollback, CRs
<1>3. n = reconcileAutoRollback(k, U)  BY DEF afterStatusStep
<1> HIDE DEF k, U, n
<1>4. k.started \in {m.started, NotStarted, 0}  BY <1>2 DEF nextStarted
<1>5. n.started \in {k.started, NotStarted}
  BY <1>1, <1>3 DEF reconcileAutoRollback, CRs
<1>6. ASSUME NEW c \in Components, n.rollback[c] \notin {m.rollback[c], NoRollback}
      PROVE  m.started >= Timeout
  <2>1. n # k  BY <1>2, <1>6
  <2>2. rollbackSet(k, U) # {}  BY <1>3, <2>1 DEF reconcileAutoRollback
  <2>3. k.started >= Timeout  BY <2>2 DEF rollbackSet
  <2>4. m.started \in Int /\ Timeout \in Nat \ {0}  BY DEF CRs, NotStarted
  <2> QED  BY <1>4, <2>3, <2>4 DEF NotStarted
<1> QED  BY <1>4, <1>5, <1>6 DEF n

\* What a step does to the CR's clock.
LEMMA ClockChange ==
  ASSUME TypeOK, CurrentCopies, [Next]_vars
  PROVE  Tick \/ cr'.started \in {cr.started, NotStarted, 0}
<1>t. cr \in CRs /\ mem \in CRs /\ version \in Versions  BY DEF TypeOK
<1>c. memFresh => mem.started = cr.started  BY DEF CurrentCopies, SameDecision
<1>f. ASSUME NEW m \in CRs, m.started = mem.started, flushInstallingStatus(m)
      PROVE  cr'.started = cr.started
  <2>1. [m EXCEPT !.phase = "Installing"].started = m.started  BY DEF CRs
  <2> QED  BY <1>c, <1>f, <2>1 DEF flushInstallingStatus, StatusUpdate, CRWrite, crVars
<1>1. CASE PostgresRequeue  BY <1>f, <1>t, <1>1 DEF PostgresRequeue
<1>2. CASE ApplyAgent
  <2> DEFINE m == [mem EXCEPT !.compat = compatCondition(mem)]
  <2>1. m \in CRs /\ m.started = mem.started  BY <1>t DEF CRs, compatCondition
  <2>2. flushInstallingStatus(m) \/ UNCHANGED cr  BY <1>2 DEF ApplyAgent, crVars
  <2> HIDE DEF m
  <2> QED  BY <1>f, <2>1, <2>2
<1>3. CASE ApplyUI  BY <1>f, <1>t, <1>3 DEF ApplyUI, crVars
<1>4. CASE FinishPass
  <2>1. PICK d \in readBack : StatusUpdate(afterStatusStep(mem, d))
    BY <1>4 DEF FinishPass
  <2>2. d \in [Components -> Deployments]  BY ReadBackType
  <2>3. afterStatusStep(mem, d).started \in {mem.started, NotStarted, 0}
    BY <1>t, <2>2, StatusStepWindow
  <2> QED  BY <1>c, <2>1, <2>3 DEF StatusUpdate, CRWrite, crVars
<1>5. CASE Users
  <2>1. cr'.started = cr.started
    BY <1>t, <1>5
    DEF Users, SetImage, SetMinOperatorVersion, OperatorUpgrade, Edit, CRWrite, CRs
  <2> QED  BY <2>1
<1>6. CASE Cluster
  BY <1>6
  DEF Cluster, CacheSync, PostgresProgress, RouteAdmitted, ReportStatus, PodStep,
      StopOldPod, StartPod, PodBecomesReady, SetPod, crVars
<1>7. CASE Failures
  BY <1>7
  DEF Failures, PassFails, PostgresLost, RouteLost, DeploymentDeleted, PodFails, SetPod,
      crVars
<1>8. CASE BeginPass \/ UNCHANGED vars  BY <1>8 DEF BeginPass, vars, crVars
<1> QED
  BY <1>1, <1>2, <1>3, <1>4, <1>5, <1>6, <1>7, <1>8 DEF Next, Pass

\* A record is written only by a pass whose clock, the CR's, is at the timeout.
LEMMA RecordNeedsClock ==
  ASSUME TypeOK, CurrentCopies, [Next]_vars, NEW c \in Components, GivesUp(c)
  PROVE  cr.started >= Timeout
<1>t. mem \in CRs /\ version \in Versions  BY DEF TypeOK
<1>1. pc = "status" /\ SameDecision(mem, cr)  BY RecordWrite DEF GivesUp
<1>2. FinishPass
  <2>1. cr' # cr  BY DEF GivesUp
  <2>2. ~Users
    <3>1. cr \in CRs  BY DEF TypeOK
    <3>2. Users => cr'.rollback = cr.rollback
      BY <3>1 DEF Users, SetImage, SetMinOperatorVersion, OperatorUpgrade, Edit, CRWrite, CRs
    <3> QED  BY <3>2 DEF GivesUp
  <2>3. ~Cluster
    <3>1. cr \in CRs  BY DEF TypeOK
    <3>2. Tick => cr'.rollback = cr.rollback  BY <3>1 DEF Tick, aged, CRs
    <3> QED
      BY <2>1, <3>2
      DEF GivesUp, Cluster, CacheSync, PostgresProgress, RouteAdmitted, ReportStatus,
          PodStep, StopOldPod, StartPod, PodBecomesReady, SetPod, crVars
  <2>4. ~Failures
    BY <2>1
    DEF Failures, PassFails, PostgresLost, RouteLost, DeploymentDeleted, PodFails, SetPod,
        crVars
  <2>5. ~(BeginPass \/ PostgresRequeue \/ ApplyAgent \/ ApplyUI)
    BY <1>1 DEF BeginPass, PostgresRequeue, ApplyAgent, ApplyUI
  <2>6. ~UNCHANGED vars  BY <2>1 DEF vars, crVars
  <2> QED  BY <2>2, <2>3, <2>4, <2>5, <2>6 DEF Next, Pass
<1>3. PICK d \in readBack : StatusUpdate(afterStatusStep(mem, d))
  BY <1>2 DEF FinishPass
<1>4. d \in [Components -> Deployments]  BY ReadBackType
<1>5. cr' = afterStatusStep(mem, d)  BY <1>3 DEF GivesUp, StatusUpdate, CRWrite, crVars
<1>6. afterStatusStep(mem, d).rollback[c] \notin {mem.rollback[c], NoRollback}
  BY <1>1, <1>5 DEF GivesUp, SameDecision
<1>7. mem.started >= Timeout  BY <1>t, <1>4, <1>6, StatusStepWindow
<1> QED  BY <1>1, <1>7 DEF SameDecision

\* Every step keeps the window.
LEMMA WindowStep ==
  ASSUME TypeOK, CurrentCopies, Clocks, WindowOpen, [TimedNext]_timedVars
  PROVE  WindowOpen'
<1>t. cr \in CRs /\ cr.started \in NotStarted .. Timeout /\ Timeout \in Nat \ {0}
  BY DEF TypeOK, CRs
<1>1. CASE UNCHANGED timedVars  BY <1>1 DEF WindowOpen, timedVars, vars, crVars
<1>2. CASE TimedNext
  <2>1. Observe /\ [Next]_vars  BY <1>2 DEF TimedNext
  <2>2. ASSUME NEW c \in Components
        PROVE  waited'[c] \in 0 .. Timeout /\ (calm'[c] => cr'.started <= waited'[c])
    <3>w. waited[c] \in 0 .. Timeout  BY DEF WindowOpen
    <3>1. CASE wantedImages'[c] # wantedImages[c]
      <4>1. waited'[c] = 0 /\ (calm'[c] => cr.phase = "Running")
        BY <2>1, <3>1 DEF Observe
      <4>2. cr.phase = "Running" => cr.started = NotStarted  BY DEF Clocks, ClockKept
      <4>3. Tick => cr' = aged(cr)  BY DEF Tick
      <4>4. cr.started = NotStarted => aged(cr) = cr  BY DEF aged, NotStarted
      <4>5. cr.phase = "Running" => cr'.started \in {NotStarted, 0}
        BY <2>1, <4>2, <4>3, <4>4, ClockChange
      <4> QED  BY <1>t, <4>1, <4>5 DEF NotStarted
    <3>2. CASE wantedImages'[c] = wantedImages[c]
      <4>1. calm'[c] = calm[c]  BY <2>1, <3>2 DEF Observe
      <4>2. CASE Tick
        <5>1. waited'[c] = IF waited[c] < Timeout THEN waited[c] + 1 ELSE waited[c]
          BY <2>1, <3>2, <4>2 DEF Observe
        <5>2. cr'.started \in NotStarted .. Timeout /\ cr'.started <= cr.started + 1
          BY <1>t, <4>2 DEF Tick, aged, CRs, NotStarted
        <5>3. calm[c] => cr.started <= waited[c]  BY DEF WindowOpen
        <5> QED  BY <1>t, <3>w, <4>1, <5>1, <5>2, <5>3 DEF NotStarted
      <4>3. CASE ~Tick
        <5>1. waited'[c] = waited[c]  BY <2>1, <3>2, <4>3 DEF Observe
        <5>2. cr'.started \in {cr.started, NotStarted, 0}  BY <2>1, <4>3, ClockChange
        <5>3. calm[c] => cr.started <= waited[c]  BY DEF WindowOpen
        <5> QED  BY <1>t, <3>w, <4>1, <5>1, <5>2, <5>3 DEF NotStarted
      <4> QED  BY <4>2, <4>3
    <3> QED  BY <3>1, <3>2
  <2>3. waited' = [c \in Components |-> waited'[c]]  BY <2>1 DEF Observe
  <2> QED  BY <2>2, <2>3 DEF WindowOpen
<1> QED  BY <1>1, <1>2

\* An image asked for while the CR said Running is not rolled back before it has
\* been asked for as long as upgradeHealthTimeout, although the clock is one for
\* both components, is kept by early requeues and is written from copies.
THEOREM WindowIsFull == TimedSpec => WindowFromRunning
<1>1. TimedSpec => Spec
  <2>1. TimedInit => Init  BY DEF TimedInit
  <2>2. [TimedNext]_timedVars => [Next]_vars  BY DEF TimedNext, timedVars
  <2> QED  BY <2>1, <2>2, PTL DEF TimedSpec, Spec
<1>2. TimedInit => WindowOpen
  <2> SUFFICES ASSUME TimedInit PROVE WindowOpen  OBVIOUS
  <2>1. cr.started = NotStarted
    <3>1. CASE cr = NewCR  BY <3>1 DEF NewCR
    <3>2. CASE Installed  BY <3>2 DEF Installed, NewCR
    <3> QED  BY <3>1, <3>2 DEF TimedInit, Init, Fresh
  <2> QED  BY <2>1 DEF TimedInit, WindowOpen, NotStarted
<1>3. TypeOK /\ CurrentCopies /\ Clocks /\ WindowOpen /\ [TimedNext]_timedVars
        => WindowOpen'
  BY WindowStep
<1>4. TypeOK /\ CurrentCopies /\ WindowOpen /\ [TimedNext]_timedVars =>
        [\A c \in Components :
           GivesUp(c) /\ calm[c] => waited[c] >= Timeout]_timedVars
  <2> SUFFICES ASSUME TypeOK, CurrentCopies, WindowOpen, TimedNext,
                      NEW c \in Components, GivesUp(c), calm[c]
               PROVE  waited[c] >= Timeout
    OBVIOUS
  <2>1. cr.started >= Timeout  BY RecordNeedsClock DEF TimedNext
  <2>2. cr.started <= waited[c] /\ waited[c] \in 0 .. Timeout  BY DEF WindowOpen
  <2>3. cr.started \in NotStarted .. Timeout /\ Timeout \in Nat \ {0}
    BY DEF TypeOK, CRs
  <2> QED  BY <2>1, <2>2, <2>3 DEF NotStarted
<1>5. TimedSpec => [](TypeOK /\ CurrentCopies /\ Clocks)
  BY <1>1, TypeCorrect, CurrentHolds, ClocksHold, PTL
<1> QED
  BY <1>2, <1>3, <1>4, <1>5, PTL DEF TimedSpec, WindowFromRunning

=============================================================================
