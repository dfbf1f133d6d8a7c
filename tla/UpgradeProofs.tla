--------------------------- MODULE UpgradeProofs ---------------------------
(* Proofs about Upgrade, for every set of images, releases and replicas.   *)
EXTENDS Upgrade, FiniteSetTheorems, TLAPS

USE ConstantsAssumption

-----------------------------------------------------------------------------
(* Lemmas about the operators                                              *)

\* requestedImage always names an image: the release's when the CR's is empty.
LEMMA RequestedIsImage ==
  ASSUME NEW m \in CRs, version \in Versions, NEW c \in Components
  PROVE  requestedImage(m, c) \in Images
BY DEF requestedImage, CRs, OptImage

\* So does resolvedImage, whatever the rollback record says.
LEMMA ResolvedIsImage ==
  ASSUME NEW m \in CRs, version \in Versions, NEW c \in Components
  PROVE  resolvedImage(m, c) \in Images
<1>1. requestedImage(m, c) \in Images  BY RequestedIsImage
<1>2. m.rollback[c].to \in OptImage  BY DEF CRs, Rollbacks
<1> QED  BY <1>1, <1>2 DEF resolvedImage, applyRollback, OptImage

\* The status sync keeps the CR well formed.
LEMMA SyncType ==
  ASSUME NEW m \in CRs, version \in Versions,
         NEW d \in [Components -> Deployments], NEW b \in BOOLEAN
  PROVE  syncPhaseAndConditions(m, d, b) \in CRs
<1> DEFINE upg == upgradingSet(m, d) # {}
<1> DEFINE all == b /\ \A c \in Components : serving(d[c])
<1> DEFINE ph == nextPhase(m.phase, upg, all)
<1> DEFINE rbs == [c \in Components |-> keptRollback(m, c)]
<1> DEFINE lhs == [c \in Components |->
             IF deploymentRolledOut(d[c], resolvedImage(m, c), Want[c])
             THEN resolvedImage(m, c) ELSE m.lastHealthy[c]]
<1> DEFINE st == nextStarted(m.started, upg)
<1>1. ph \in Phases  BY DEF nextPhase, Phases
<1>2. rbs \in [Components -> Rollbacks]
  BY DEF keptRollback, CRs, Rollbacks, NoRollback, OptImage
<1>3. lhs \in [Components -> OptImage]
  BY ResolvedIsImage DEF CRs, OptImage
<1>4. st \in NotStarted .. Timeout
  BY DEF nextStarted, NotStarted, CRs
<1>5. syncPhaseAndConditions(m, d, b) =
        [m EXCEPT !.rollback = rbs, !.lastHealthy = lhs, !.started = st,
                  !.phase = ph]
  BY DEF syncPhaseAndConditions
<1> HIDE DEF ph, rbs, lhs, st
<1> QED  BY <1>1, <1>2, <1>3, <1>4, <1>5 DEF CRs

\* So does the rollback step.
LEMMA RollbackType ==
  ASSUME NEW m \in CRs, version \in Versions, NEW U \in SUBSET Components
  PROVE  reconcileAutoRollback(m, U) \in CRs
<1> DEFINE bad == rollbackSet(m, U)
<1> DEFINE rbs == [c \in Components |->
                IF c \in bad THEN [from |-> requestedImage(m, c),
                                   to |-> m.lastHealthy[c]]
                ELSE m.rollback[c]]
<1>1. rbs \in [Components -> Rollbacks]
  BY RequestedIsImage DEF CRs, Rollbacks, OptImage
<1>2. reconcileAutoRollback(m, U) =
        IF bad = {} THEN m ELSE [m EXCEPT !.rollback = rbs, !.started = NotStarted]
  BY DEF reconcileAutoRollback
<1>3. NotStarted \in NotStarted .. Timeout  BY DEF NotStarted
<1> HIDE DEF rbs, bad
<1> QED  BY <1>1, <1>2, <1>3 DEF CRs

\* The whole status step on what a pass may read back.
LEMMA StatusStepType ==
  ASSUME TypeOK, NEW m \in CRs, NEW d \in [Components -> Deployments]
  PROVE  afterStatusStep(m, d) \in CRs
<1>1. version \in Versions  BY DEF TypeOK
<1>2. syncPhaseAndConditions(m, d, pg = "ready") \in CRs  BY <1>1, SyncType
<1>3. upgradingSet(m, d) \in SUBSET Components  BY DEF upgradingSet
<1> QED  BY <1>1, <1>2, <1>3, RollbackType DEF afterStatusStep

\* Every view of the Deployments the status step may use is well formed.
LEMMA ReadBackType ==
  ASSUME TypeOK, NEW d \in readBack
  PROVE  d \in [Components -> Deployments]
BY DEF TypeOK, readBack

\* A CR write keeps both copies of the CR well formed.
LEMMA CRWriteType ==
  ASSUME TypeOK, NEW new \in CRs, CRWrite(new)
  PROVE  cr' \in CRs /\ cache' \in CRs /\ cacheFresh' \in BOOLEAN
BY DEF TypeOK, CRWrite

\* So does a status write, whether it lands or meets a newer resourceVersion.
LEMMA StatusUpdateType ==
  ASSUME TypeOK, NEW new \in CRs, StatusUpdate(new)
  PROVE  cr' \in CRs /\ cache' \in CRs /\ cacheFresh' \in BOOLEAN
BY CRWriteType DEF TypeOK, StatusUpdate, crVars

\* A new CR and a missing Deployment are well formed.
LEMMA ConstantCRs == NewCR \in CRs /\ NoDeployment \in Deployments
BY DEF NewCR, CRs, Phases, Rollbacks, NoRollback, NotStarted, OptImage,
       NoDeployment, Deployments

\* The end of a pass keeps the pass variables well formed.
LEMMA EndPassType ==
  ASSUME EndPass
  PROVE  /\ pc' \in {"idle", "postgresRequeue", "agent", "ui", "status"}
         /\ mem' \in CRs /\ memFresh' \in BOOLEAN
         /\ seen' \in [Components -> Deployments]
BY ConstantCRs DEF EndPass

\* Ageing a copy of the CR keeps it well formed.
LEMMA AgedType ==
  ASSUME NEW m \in CRs
  PROVE  aged(m) \in CRs
<1>1. CASE m.started \in 0 .. (Timeout - 1)
  <2>1. m.started + 1 \in NotStarted .. Timeout  BY <1>1 DEF NotStarted
  <2>2. aged(m) = [m EXCEPT !.started = @ + 1]  BY <1>1 DEF aged
  <2> QED  BY <2>1, <2>2 DEF CRs
<1>2. CASE m.started \notin 0 .. (Timeout - 1)  BY <1>2 DEF aged
<1> QED  BY <1>1, <1>2

-----------------------------------------------------------------------------
(* Type correctness                                                        *)

\* Pods written by SetPod keep pods and history well formed.
LEMMA SetPodType ==
  ASSUME TypeOK, NEW c \in Components, NEW s \in Slots,
         NEW p \in [image : OptImage, ready : BOOLEAN], SetPod(c, s, p)
  PROVE  /\ pods' \in [Components -> [Slots -> [image : OptImage, ready : BOOLEAN]]]
         /\ proven' \in [Components -> SUBSET Images]
BY DEF TypeOK, SetPod

\* A Deployment stays well formed when a pass writes an image into it.
LEMMA WithImageType ==
  ASSUME NEW d \in Deployments, NEW i \in OptImage
  PROVE  withImage(d, i) \in Deployments
BY DEF withImage, Deployments

\* The pod map of a Deployment without pods is well formed.
LEMMA NoPodsType == noPods \in [Slots -> [image : OptImage, ready : BOOLEAN]]
BY DEF noPods, NoPod, OptImage

\* Every initial state is well formed.
LEMMA InitType == Init => TypeOK
<1> SUFFICES ASSUME Init PROVE TypeOK  OBVIOUS
<1>1. /\ cacheFresh \in BOOLEAN /\ memFresh \in BOOLEAN /\ cache = cr
      /\ pc \in {"idle", "postgresRequeue", "agent", "ui", "status"}
      /\ mem \in CRs /\ seen \in [Components -> Deployments]
      /\ version \in Versions /\ edits \in Nat /\ faults \in Nat
  BY ConstantCRs DEF Init
<1>2. CASE Fresh
  <2>1. cr \in CRs  BY <1>2, ConstantCRs DEF Fresh
  <2>2. \A i \in Images :
          [NoDeployment EXCEPT !.image = i, !.foreign = TRUE] \in Deployments
    BY DEF NoDeployment, Deployments, OptImage
  <2>3. dep \in [Components -> Deployments]
    <3>1. CASE dep = [c \in Components |-> NoDeployment]  BY <3>1, ConstantCRs
    <3>2. CASE \E i \in Images : dep = [c \in Components |->
           IF c = "agent" THEN [NoDeployment EXCEPT !.image = i, !.foreign = TRUE]
           ELSE NoDeployment]
      BY <3>2, <2>2, ConstantCRs
    <3> QED  BY <1>2, <3>1, <3>2 DEF Fresh
  <2>4. /\ pods \in [Components -> [Slots -> [image : OptImage, ready : BOOLEAN]]]
        /\ proven \in [Components -> SUBSET Images]
        /\ pg \in {"replaced", "starting", "ready"} /\ route \in BOOLEAN
    BY <1>2, NoPodsType DEF Fresh
  <2> QED  BY <1>1, <2>1, <2>3, <2>4 DEF TypeOK
<1>3. CASE Installed
  <2>1. cr \in CRs
    <3>1. [c \in Components |-> ReleaseImage[c][1]] \in [Components -> OptImage]
      BY DEF OptImage
    <3>2. "Running" \in Phases  BY DEF Phases
    <3>3. \A lh \in [Components -> OptImage], p \in Phases :
            [NewCR EXCEPT !.phase = p, !.lastHealthy = lh] \in CRs
      BY ConstantCRs DEF CRs
    <3> QED  BY <1>3, <3>1, <3>2, <3>3 DEF Installed
  <2>2. dep \in [Components -> Deployments]
    BY <1>3 DEF Installed, Deployments, OptImage
  <2>3. \A c \in Components, S \in SUBSET Slots :
          installedPods(c, S) \in [Slots -> [image : OptImage, ready : BOOLEAN]]
    BY DEF installedPods, NoPod, OptImage
  <2>4. pods \in [Components -> [Slots -> [image : OptImage, ready : BOOLEAN]]]
    <3>1. PICK S \in [Components -> SUBSET Slots] :
            pods = [c \in Components |-> installedPods(c, S[c])]
      BY <1>3 DEF Installed
    <3> QED  BY <3>1, <2>3
  <2>5. /\ proven \in [Components -> SUBSET Images]
        /\ pg \in {"replaced", "starting", "ready"} /\ route \in BOOLEAN
    BY <1>3 DEF Installed
  <2> QED  BY <1>1, <2>1, <2>2, <2>4, <2>5 DEF TypeOK
<1> QED  BY <1>2, <1>3 DEF Init

\* A step of a pass keeps every variable well formed.
LEMMA PassType == TypeOK /\ (Pass \/ PassFails) => TypeOK'
<1> SUFFICES ASSUME TypeOK, Pass \/ PassFails PROVE TypeOK'  OBVIOUS
<1>1. CASE BeginPass
  BY <1>1 DEF BeginPass, TypeOK, crVars, depVars, envVars
<1>2. ASSUME NEW m \in CRs, flushInstallingStatus(m)
      PROVE  /\ cr' \in CRs /\ cache' \in CRs /\ cacheFresh' \in BOOLEAN
             /\ pc' \in {"idle", "postgresRequeue", "agent", "ui", "status"}
             /\ mem' \in CRs /\ memFresh' \in BOOLEAN
             /\ seen' \in [Components -> Deployments]
  <2>1. [m EXCEPT !.phase = "Installing"] \in CRs  BY DEF CRs, Phases
  <2> QED  BY <1>2, <2>1, StatusUpdateType, EndPassType DEF flushInstallingStatus
<1>3. CASE PostgresRequeue
  <2>1. mem \in CRs  BY DEF TypeOK
  <2> QED  BY <1>3, <1>2, <2>1 DEF PostgresRequeue, TypeOK, depVars, envVars
<1>4. CASE ApplyAgent
  <2> DEFINE m == [mem EXCEPT !.compat = compatCondition(mem)]
  <2> DEFINE d == dep["agent"]
  <2>1. m \in CRs  BY DEF TypeOK, CRs, compatCondition
  <2>2. d \in Deployments  BY <1>4 DEF ApplyAgent, TypeOK
  <2>3. resolvedImage(mem, "agent") \in OptImage /\ d.image \in OptImage
    BY <1>4, <2>2, ResolvedIsImage DEF ApplyAgent, TypeOK, OptImage, Deployments
  <2>4. CASE /\ dep' = [dep EXCEPT !["agent"] = NoDeployment]
             /\ pods' = [pods EXCEPT !["agent"] = noPods]
             /\ flushInstallingStatus(m)
    BY <1>4, <1>2, <2>1, <2>4, ConstantCRs, NoPodsType
       DEF ApplyAgent, TypeOK, envVars
  <2>5. CASE flushInstallingStatus(m) /\ UNCHANGED <<dep, pods>>
    BY <1>4, <1>2, <2>1, <2>5 DEF ApplyAgent, TypeOK, envVars
  <2>6. CASE /\ dep' = [dep EXCEPT !["agent"] =
                    withImage(d, IF agentVersionCompatible(mem)
                                 THEN resolvedImage(mem, "agent") ELSE d.image)]
             /\ mem' = m
             /\ seen' = [seen EXCEPT !["agent"] = d]
             /\ pc' = "ui"
             /\ UNCHANGED <<crVars, memFresh, pods>>
    <3>1. withImage(d, IF agentVersionCompatible(mem)
                       THEN resolvedImage(mem, "agent") ELSE d.image) \in Deployments
      BY <2>2, <2>3, WithImageType
    <3> QED  BY <1>4, <2>1, <2>2, <2>6, <3>1 DEF ApplyAgent, TypeOK, envVars, crVars
  <2> QED  BY <1>4, <2>4, <2>5, <2>6 DEF ApplyAgent
<1>5. CASE ApplyUI
  <2>1. mem \in CRs  BY DEF TypeOK
  <2>2. \A c \in Components : withImage(dep[c], resolvedImage(mem, c)) \in Deployments
    BY <2>1, ResolvedIsImage, WithImageType DEF TypeOK, OptImage
  <2>3. dep' \in [Components -> Deployments]
    BY <1>5, <2>2 DEF ApplyUI, TypeOK
  <2>4. CASE flushInstallingStatus(mem)
    BY <1>5, <1>2, <2>1, <2>3, <2>4 DEF ApplyUI, TypeOK, envVars
  <2>5. CASE ~flushInstallingStatus(mem)
    BY <1>5, <2>3, <2>5 DEF ApplyUI, TypeOK, envVars, crVars
  <2> QED  BY <2>4, <2>5
<1>6. CASE FinishPass
  <2>1. PICK d \in readBack : StatusUpdate(afterStatusStep(mem, d))
    BY <1>6 DEF FinishPass
  <2>2. d \in [Components -> Deployments]  BY ReadBackType
  <2>3. afterStatusStep(mem, d) \in CRs  BY <2>2, StatusStepType DEF TypeOK
  <2> QED  BY <1>6, <2>1, <2>3, StatusUpdateType, EndPassType
           DEF FinishPass, TypeOK, depVars, envVars
<1>7. CASE PassFails
  BY <1>7, EndPassType DEF PassFails, TypeOK, crVars, depVars
<1> QED  BY <1>1, <1>3, <1>4, <1>5, <1>6, <1>7 DEF Pass

\* So does a user's edit, or a new release of the operator.
LEMMA UsersType == TypeOK /\ Users => TypeOK'
<1> SUFFICES ASSUME TypeOK, Users PROVE TypeOK'  OBVIOUS
<1>1. ASSUME NEW new \in CRs, Edit(new) PROVE TypeOK'
  <2>1. cr' \in CRs /\ cache' \in CRs /\ cacheFresh' \in BOOLEAN
    BY <1>1, CRWriteType DEF Edit
  <2>2. memFresh' = FALSE /\ edits' = edits + 1  BY <1>1 DEF Edit
  <2>3. UNCHANGED <<pc, mem, seen, depVars, version, pg, route, faults>>
    BY <1>1 DEF Edit
  <2>4. memFresh' \in BOOLEAN /\ route' \in BOOLEAN  BY <2>2, <2>3 DEF TypeOK
  <2>5. edits' \in Nat  BY <2>2 DEF TypeOK
  <2> QED  BY <2>1, <2>3, <2>4, <2>5 DEF TypeOK, depVars
<1>2. ASSUME NEW c \in Components, NEW i \in OptImage, SetImage(c, i) PROVE TypeOK'
  <2>1. [cr EXCEPT !.image[c] = i] \in CRs  BY DEF TypeOK, CRs
  <2> QED  BY <1>1, <1>2, <2>1 DEF SetImage
<1>3. ASSUME NEW v \in Nat, SetMinOperatorVersion(v) PROVE TypeOK'
  <2>1. [cr EXCEPT !.minOp = v] \in CRs  BY DEF TypeOK, CRs
  <2> QED  BY <1>1, <1>3, <2>1 DEF SetMinOperatorVersion
<1>4. CASE OperatorUpgrade
  BY <1>4, EndPassType DEF OperatorUpgrade, TypeOK, depVars
<1>5. 0 .. (version + 1) \subseteq Nat  BY DEF TypeOK
<1> QED  BY <1>2, <1>3, <1>4, <1>5 DEF Users

\* So does everything the cluster and its failures do.
LEMMA ClusterType == TypeOK /\ (Cluster \/ Failures) => TypeOK'
<1> SUFFICES ASSUME TypeOK, Cluster \/ (Failures /\ ~PassFails) \/ PassFails
             PROVE TypeOK'
  OBVIOUS
<1> DEFINE PodT == [image : OptImage, ready : BOOLEAN]
<1>1. CASE CacheSync
  BY <1>1 DEF CacheSync, TypeOK, passVars, depVars, envVars
<1>2. CASE Tick
  BY <1>2, AgedType DEF Tick, TypeOK, depVars, envVars
<1>3. CASE PostgresProgress
  BY <1>3 DEF PostgresProgress, TypeOK, crVars, passVars, depVars
<1>4. CASE RouteAdmitted \/ RouteLost \/ PostgresLost
  <2>1. route' \in BOOLEAN /\ pg' \in {"replaced", "starting", "ready"}
    BY <1>4 DEF RouteAdmitted, RouteLost, PostgresLost, TypeOK
  <2>2. faults' \in Nat
    BY <1>4 DEF RouteAdmitted, RouteLost, PostgresLost, TypeOK
  <2>3. UNCHANGED <<crVars, passVars, depVars, version, edits>>
    BY <1>4 DEF RouteAdmitted, RouteLost, PostgresLost
  <2> QED  BY <2>1, <2>2, <2>3 DEF TypeOK, crVars, passVars, depVars
<1>5. ASSUME NEW c \in Components, ReportStatus(c) PROVE TypeOK'
  <2>1. /\ Cardinality(podsOf(pods[c], dep[c].image)) \in Nat
        /\ Cardinality(readyPods(pods[c])) \in Nat
        /\ Cardinality(running(pods[c])) \in Nat
    BY FS_Subset, FS_CardinalityType DEF podsOf, readyPods, running
  <2>. dep[c] \in Deployments  BY DEF TypeOK
  <2>2. [dep[c] EXCEPT !.observed = TRUE,
              !.updated = Cardinality(podsOf(pods[c], dep[c].image)),
              !.ready = Cardinality(readyPods(pods[c])),
              !.replicas = Cardinality(running(pods[c]))] \in Deployments
    BY <2>1 DEF Deployments
  <2> QED  BY <1>5, <2>2 DEF ReportStatus, TypeOK, crVars, passVars, envVars
<1>6. ASSUME NEW c \in Components, NEW s \in Slots, NEW p \in PodT,
             SetPod(c, s, p), UNCHANGED <<version, pg, route, edits>>,
             faults' \in Nat
      PROVE  TypeOK'
  BY <1>6, SetPodType DEF SetPod, TypeOK, crVars, passVars
<1>7. ASSUME NEW c \in Components, PodStep(c) PROVE TypeOK'
  <2>1. PICK s \in Slots : StopOldPod(c, s) \/ StartPod(c, s) \/ PodBecomesReady(c, s)
    BY <1>7 DEF PodStep
  <2>2. NoPod \in PodT  BY DEF NoPod, OptImage
  <2>3. [image |-> dep[c].image, ready |-> FALSE] \in PodT
    BY DEF TypeOK, Deployments
  <2>. pods[c][s] \in PodT  BY DEF TypeOK
  <2>4. [pods[c][s] EXCEPT !.ready = TRUE] \in PodT  OBVIOUS
  <2>5. faults \in Nat  BY DEF TypeOK
  <2> HIDE DEF PodT
  <2> QED  BY <1>6, <2>1, <2>2, <2>3, <2>4, <2>5
           DEF StopOldPod, StartPod, PodBecomesReady, envVars
<1>8. ASSUME NEW c \in Components, NEW s \in Slots, PodFails(c, s) PROVE TypeOK'
  <2>. pods[c][s] \in PodT  BY DEF TypeOK
  <2>1. [pods[c][s] EXCEPT !.ready = FALSE] \in PodT  OBVIOUS
  <2>2. faults' \in Nat  BY <1>8 DEF TypeOK, PodFails
  <2> HIDE DEF PodT
  <2> QED  BY <1>6, <1>8, <2>1, <2>2 DEF PodFails
<1>9. ASSUME NEW c \in Components, DeploymentDeleted(c) PROVE TypeOK'
  BY <1>9, ConstantCRs, NoPodsType
     DEF DeploymentDeleted, TypeOK, crVars, passVars
<1>10. CASE PassFails  BY <1>10, PassType
<1> HIDE DEF PodT
<1> QED  BY <1>1, <1>2, <1>3, <1>4, <1>5, <1>7, <1>8, <1>9, <1>10
         DEF Cluster, Failures

\* Every reachable state of the upgrade protocol is well formed.
THEOREM TypeCorrect == Spec => []TypeOK
<1>1. Init => TypeOK  BY InitType
<1>2. TypeOK /\ [Next]_vars => TypeOK'
  <2>1. TypeOK /\ UNCHANGED vars => TypeOK'
    BY DEF TypeOK, vars, crVars, passVars, depVars, envVars
  <2> QED  BY <2>1, PassType, UsersType, ClusterType DEF Next
<1> QED  BY <1>1, <1>2, PTL DEF Spec

-----------------------------------------------------------------------------
(* The rollback target is proven                                           *)

\* A copy of the CR names only proven images as last healthy or as a rollback
\* target, and never rolls an image back to itself.
CRProven(m, pr) ==
  \A c \in Components :
    /\ m.lastHealthy[c] \in pr[c] \cup {NoImage}
    /\ m.rollback[c] # NoRollback =>
         /\ m.rollback[c].to \in pr[c]
         /\ m.rollback[c].from # m.rollback[c].to

\* A Deployment that reads as rolled out has a proven image.
DeploymentProven(d, c, pr) ==
  d.image # NoImage /\ deploymentRolledOut(d, d.image, Want[c]) => d.image \in pr[c]

\* An image all of c's pods run, ready, is proven.
PodsProven(p, c, pr) ==
  \A i \in Images : fullyRuns(p, i, Want[c]) => i \in pr[c]

\* The inductive invariant: the property for every copy of the CR a later
\* write may come from, for both views of a Deployment, and for the pods.
Provenance ==
  /\ CRProven(cr, proven) /\ CRProven(cache, proven) /\ CRProven(mem, proven)
  /\ \A c \in Components :
       /\ DeploymentProven(dep[c], c, proven)
       /\ DeploymentProven(seen[c], c, proven)
       /\ PodsProven(pods[c], c, proven)

\* The status sync only turns a rolled-out image into the last healthy one.
LEMMA SyncProven ==
  ASSUME NEW m \in CRs, CRProven(m, proven), version \in Versions,
         NEW d \in [Components -> Deployments],
         \A c \in Components : DeploymentProven(d[c], c, proven), NEW b \in BOOLEAN
  PROVE  CRProven(syncPhaseAndConditions(m, d, b), proven)
<1> DEFINE n == syncPhaseAndConditions(m, d, b)
<1> SUFFICES ASSUME NEW c \in Components
             PROVE  /\ n.lastHealthy[c] \in proven[c] \cup {NoImage}
                    /\ n.rollback[c] # NoRollback =>
                         /\ n.rollback[c].to \in proven[c]
                         /\ n.rollback[c].from # n.rollback[c].to
  BY DEF CRProven
<1>1. n.rollback[c] = keptRollback(m, c)
  BY DEF syncPhaseAndConditions, CRs
<1>2. n.lastHealthy[c] = IF deploymentRolledOut(d[c], resolvedImage(m, c), Want[c])
                         THEN resolvedImage(m, c) ELSE m.lastHealthy[c]
  BY DEF syncPhaseAndConditions, CRs
<1> HIDE DEF n
<1>3. n.rollback[c] \in {NoRollback, m.rollback[c]}  BY <1>1 DEF keptRollback
<1>4. CASE deploymentRolledOut(d[c], resolvedImage(m, c), Want[c])
  <2>1. d[c].image = resolvedImage(m, c) /\ d[c].image # NoImage
    BY <1>4, ResolvedIsImage DEF deploymentRolledOut
  <2>2. d[c].image \in proven[c]  BY <1>4, <2>1 DEF DeploymentProven
  <2> QED  BY <1>2, <1>3, <1>4, <2>1, <2>2 DEF CRProven
<1>5. CASE ~deploymentRolledOut(d[c], resolvedImage(m, c), Want[c])
  BY <1>2, <1>3, <1>5 DEF CRProven
<1> QED  BY <1>4, <1>5

\* The rollback step only points at the last healthy image, and only for a
\* component whose requested image is a different one.
LEMMA RollbackProven ==
  ASSUME NEW m \in CRs, CRProven(m, proven), version \in Versions,
         NEW U \in SUBSET Components,
         \A c \in U : m.rollback[c] = NoRollback => m.lastHealthy[c] # requestedImage(m, c)
  PROVE  CRProven(reconcileAutoRollback(m, U), proven)
<1> DEFINE n == reconcileAutoRollback(m, U)
<1> DEFINE bad == rollbackSet(m, U)
<1>0. CASE bad = {}  BY <1>0 DEF reconcileAutoRollback
<1> SUFFICES ASSUME bad # {}, NEW c \in Components
             PROVE  /\ n.lastHealthy[c] \in proven[c] \cup {NoImage}
                    /\ n.rollback[c] # NoRollback =>
                         /\ n.rollback[c].to \in proven[c]
                         /\ n.rollback[c].from # n.rollback[c].to
  BY <1>0 DEF CRProven
<1>1. n.rollback[c] = IF c \in bad THEN [from |-> requestedImage(m, c),
                                        to |-> m.lastHealthy[c]]
                      ELSE m.rollback[c]
  BY DEF reconcileAutoRollback, CRs
<1>2. n.lastHealthy = m.lastHealthy  BY DEF reconcileAutoRollback, CRs
<1>3. c \in bad => c \in U /\ m.rollback[c] = NoRollback /\ m.lastHealthy[c] # NoImage
  BY DEF rollbackSet
<1>4. /\ m.lastHealthy[c] \in proven[c] \cup {NoImage}
      /\ m.rollback[c] # NoRollback =>
           /\ m.rollback[c].to \in proven[c]
           /\ m.rollback[c].from # m.rollback[c].to
  BY DEF CRProven
<1> HIDE DEF n, bad
<1>5. CASE c \in bad
  <2>1. /\ n.rollback[c].from = requestedImage(m, c)
        /\ n.rollback[c].to = m.lastHealthy[c]
    BY <1>1, <1>5
  <2>2. m.lastHealthy[c] # requestedImage(m, c)  BY <1>3, <1>5
  <2>3. m.lastHealthy[c] \in proven[c]  BY <1>3, <1>4, <1>5
  <2> QED  BY <1>2, <2>1, <2>2, <2>3
<1>6. CASE c \notin bad  BY <1>1, <1>2, <1>4, <1>6
<1> QED  BY <1>5, <1>6

\* Both together, on what a pass read back.
LEMMA StatusStepProven ==
  ASSUME TypeOK, NEW m \in CRs, CRProven(m, proven),
         NEW d \in [Components -> Deployments],
         \A c \in Components : DeploymentProven(d[c], c, proven)
  PROVE  CRProven(afterStatusStep(m, d), proven)
<1> DEFINE n == syncPhaseAndConditions(m, d, pg = "ready")
<1> DEFINE U == upgradingSet(m, d)
<1>1. version \in Versions  BY DEF TypeOK
<1>2. n \in CRs  BY <1>1, SyncType
<1>3. CRProven(n, proven)  BY <1>1, SyncProven
<1>4. U \in SUBSET Components  BY DEF upgradingSet
<1>5. ASSUME NEW c \in U, n.rollback[c] = NoRollback
      PROVE  n.lastHealthy[c] # requestedImage(n, c)
  <2>0. c \in Components  BY <1>4
  <2>1. /\ ~deploymentRolledOut(d[c], resolvedImage(m, c), Want[c])
        /\ resolvedImage(m, c) # m.lastHealthy[c]
    BY DEF upgradingSet, isUpgrading
  <2>2. n.rollback[c] = keptRollback(m, c) /\ n.image = m.image
    BY <2>0 DEF syncPhaseAndConditions, CRs
  <2>3. n.lastHealthy[c] = m.lastHealthy[c]
    BY <2>0, <2>1 DEF syncPhaseAndConditions, CRs
  <2>4. requestedImage(n, c) = requestedImage(m, c)
    BY <2>2 DEF requestedImage
  <2>5. m.rollback[c].from # requestedImage(m, c)
    <3>1. requestedImage(m, c) # NoImage  BY <2>0, <1>1, RequestedIsImage
    <3> QED  BY <1>5, <2>2, <3>1 DEF keptRollback, NoRollback
  <2>6. resolvedImage(m, c) = requestedImage(m, c)
    BY <2>5 DEF resolvedImage, applyRollback
  <2> QED  BY <2>1, <2>3, <2>4, <2>6
<1> HIDE DEF n, U
<1>6. CRProven(reconcileAutoRollback(n, U), proven)
  BY <1>1, <1>2, <1>3, <1>4, <1>5, RollbackProven
<1> QED  BY <1>6 DEF afterStatusStep, n, U

\* The history only grows, so what it vouched for stays vouched for.
LEMMA ProvenGrows ==
  ASSUME NEW pr, NEW qr, \A c \in Components : pr[c] \subseteq qr[c]
  PROVE  /\ \A m : CRProven(m, pr) => CRProven(m, qr)
         /\ \A d : \A c \in Components :
              DeploymentProven(d, c, pr) => DeploymentProven(d, c, qr)
BY DEF CRProven, DeploymentProven

\* The empty CR, the absent Deployment and a template with a new generation
\* claim nothing.
LEMMA NothingClaimed ==
  /\ CRProven(NewCR, proven)
  /\ \A c \in Components : DeploymentProven(NoDeployment, c, proven)
  /\ \A c \in Components : PodsProven(noPods, c, proven)
<1>1. CRProven(NewCR, proven)  BY DEF CRProven, NewCR
<1>2. \A c \in Components : DeploymentProven(NoDeployment, c, proven)
  BY DEF DeploymentProven, NoDeployment
<1>3. \A c \in Components : PodsProven(noPods, c, proven)
  <2>1. readyPods(noPods) = {}  BY DEF readyPods, noPods, NoPod
  <2>2. Cardinality(readyPods(noPods)) = 0  BY <2>1, FS_EmptySet
  <2>3. \A c \in Components : Want[c] # 0 => ~(0 >= Want[c])  OBVIOUS
  <2> QED  BY <2>2, <2>3 DEF PodsProven, fullyRuns
<1> QED  BY <1>1, <1>2, <1>3

\* Writing an image either changes nothing or makes the status stale.
LEMMA WithImageProven ==
  ASSUME NEW c \in Components, NEW d \in Deployments, NEW i \in OptImage,
         DeploymentProven(d, c, proven)
  PROVE  DeploymentProven(withImage(d, i), c, proven)
BY DEF DeploymentProven, withImage, deploymentRolledOut, Deployments

\* A CR write of a proven CR leaves both copies proven.
LEMMA CRWriteProven ==
  ASSUME Provenance, NEW new, CRProven(new, proven), StatusUpdate(new) \/ CRWrite(new)
  PROVE  CRProven(cr', proven) /\ CRProven(cache', proven)
BY DEF Provenance, StatusUpdate, CRWrite, crVars

\* Ending a pass drops its copies, which then claim nothing.
LEMMA EndPassProven ==
  ASSUME Provenance, EndPass
  PROVE  /\ CRProven(mem', proven)
         /\ \A c \in Components : DeploymentProven(seen'[c], c, proven)
BY NothingClaimed DEF EndPass

\* A flush of phase Installing changes no image the CR names.
LEMMA FlushProven ==
  ASSUME Provenance, NEW m \in CRs, CRProven(m, proven), flushInstallingStatus(m)
  PROVE  /\ CRProven(cr', proven) /\ CRProven(cache', proven)
         /\ CRProven(mem', proven)
         /\ \A c \in Components : DeploymentProven(seen'[c], c, proven)
<1>1. CRProven([m EXCEPT !.phase = "Installing"], proven)
  BY DEF CRProven, CRs
<1> QED  BY <1>1, CRWriteProven, EndPassProven DEF flushInstallingStatus

\* The initial states: nothing is claimed before an install, and an installed
\* instance fully runs the images it names.
LEMMA InitProven == Init => Provenance
<1> SUFFICES ASSUME Init PROVE Provenance  OBVIOUS
<1>1. /\ cache = cr /\ mem = NewCR
      /\ seen = [c \in Components |-> NoDeployment]
  BY DEF Init
<1>2. CASE Fresh
  <2>1. \A c \in Components : dep[c].observed = FALSE
    <3>1. NoDeployment.observed = FALSE  BY DEF NoDeployment
    <3>2. \A i : [NoDeployment EXCEPT !.image = i, !.foreign = TRUE].observed = FALSE
      BY DEF NoDeployment
    <3>3. \/ dep = [c \in Components |-> NoDeployment]
          \/ \E i \in Images : dep = [c \in Components |->
               IF c = "agent" THEN [NoDeployment EXCEPT !.image = i, !.foreign = TRUE]
               ELSE NoDeployment]
      BY <1>2 DEF Fresh
    <3> QED  BY <3>1, <3>2, <3>3
  <2>2. \A c \in Components : DeploymentProven(dep[c], c, proven)
    BY <2>1 DEF DeploymentProven, deploymentRolledOut
  <2>3. cr = NewCR /\ pods = [c \in Components |-> noPods]  BY <1>2 DEF Fresh
  <2> QED  BY <1>1, <2>2, <2>3, NothingClaimed DEF Provenance
<1>3. CASE Installed
  <2>1. proven = [c \in Components |-> {ReleaseImage[c][1]}]  BY <1>3 DEF Installed
  <2>2. CRProven(cr, proven)
    BY <1>3, <2>1 DEF Installed, CRProven, NewCR, NoRollback
  <2>3. \A c \in Components : DeploymentProven(dep[c], c, proven)
    BY <1>3, <2>1 DEF Installed, DeploymentProven
  <2>4. ASSUME NEW c \in Components PROVE PodsProven(pods[c], c, proven)
    <3>1. PICK S \in SUBSET Slots :
            /\ Cardinality(S) = Want[c] /\ Want[c] # 0
            /\ pods[c] = installedPods(c, S)
      BY <1>3 DEF Installed
    <3>2. S # {}  BY <3>1, FS_EmptySet
    <3>3. ReleaseImage[c][1] \in Images  OBVIOUS
    <3>4. \A s \in Slots : pods[c][s].image =
            IF s \in S THEN ReleaseImage[c][1] ELSE NoImage
      BY <3>1 DEF installedPods, NoPod
    <3>5. running(pods[c]) = S  BY <3>3, <3>4 DEF running
    <3>6. ASSUME NEW i \in Images, running(pods[c]) = podsOf(pods[c], i)
          PROVE  i = ReleaseImage[c][1]
      BY <3>2, <3>4, <3>5, <3>6 DEF podsOf
    <3> QED  BY <2>1, <3>6 DEF PodsProven, fullyRuns
  <2> QED  BY <1>1, <2>2, <2>3, <2>4, NothingClaimed DEF Provenance
<1> QED  BY <1>2, <1>3 DEF Init

\* A step of a pass keeps the invariant: what it writes to the CR comes from
\* its in-memory copy and the Deployments it read back.
LEMMA PassProven == TypeOK /\ Provenance /\ (Pass \/ PassFails) => Provenance'
<1> SUFFICES ASSUME TypeOK, Provenance, Pass \/ PassFails PROVE Provenance'
  OBVIOUS
<1>0. /\ CRProven(cr, proven) /\ CRProven(cache, proven) /\ CRProven(mem, proven)
      /\ \A c \in Components : /\ DeploymentProven(dep[c], c, proven)
                               /\ DeploymentProven(seen[c], c, proven)
                               /\ PodsProven(pods[c], c, proven)
  BY DEF Provenance
<1>t. /\ mem \in CRs /\ version \in Versions
      /\ dep \in [Components -> Deployments] /\ seen \in [Components -> Deployments]
  BY DEF TypeOK
<1>1. CASE BeginPass
  BY <1>0, <1>1 DEF BeginPass, Provenance, crVars, depVars
<1>2. CASE PostgresRequeue
  BY <1>0, <1>t, <1>2, FlushProven DEF PostgresRequeue, Provenance, depVars
<1>3. CASE ApplyAgent
  <2> DEFINE m == [mem EXCEPT !.compat = compatCondition(mem)]
  <2> DEFINE d == dep["agent"]
  <2> DEFINE i == IF agentVersionCompatible(mem) THEN resolvedImage(mem, "agent")
                  ELSE d.image
  <2>1. m \in CRs  BY <1>t DEF CRs, compatCondition
  <2>2. CRProven(m, proven)  BY <1>0, <1>t DEF CRProven, CRs
  <2>3. "agent" \in Components /\ proven' = proven  BY <1>3 DEF ApplyAgent
  <2>4. CASE /\ dep' = [dep EXCEPT !["agent"] = NoDeployment]
             /\ pods' = [pods EXCEPT !["agent"] = noPods]
             /\ flushInstallingStatus(m)
    <3>1. \A c \in Components : DeploymentProven(dep'[c], c, proven)
      BY <1>0, <1>t, <2>4, NothingClaimed
    <3>2. \A c \in Components : PodsProven(pods'[c], c, proven)
      BY <1>0, <2>4, NothingClaimed DEF TypeOK
    <3> QED  BY <2>1, <2>2, <2>3, <2>4, <3>1, <3>2, FlushProven DEF Provenance
  <2>5. CASE flushInstallingStatus(m) /\ UNCHANGED <<dep, pods>>
    BY <1>0, <2>1, <2>2, <2>3, <2>5, FlushProven DEF Provenance
  <2>6. CASE /\ dep' = [dep EXCEPT !["agent"] = withImage(d, i)]
             /\ mem' = m
             /\ seen' = [seen EXCEPT !["agent"] = d]
             /\ UNCHANGED <<crVars, memFresh, pods>>
    <3>1. d \in Deployments /\ DeploymentProven(d, "agent", proven)
      BY <1>0, <1>t, <2>3
    <3>2. i \in OptImage
      BY <1>t, <2>3, <3>1, ResolvedIsImage DEF OptImage, Deployments
    <3>3. DeploymentProven(withImage(d, i), "agent", proven)
      BY <2>3, <3>1, <3>2, WithImageProven
    <3> HIDE DEF m, d, i
    <3>4. \A c \in Components : DeploymentProven(dep'[c], c, proven)
      BY <1>0, <1>t, <2>6, <3>3
    <3>5. \A c \in Components : DeploymentProven(seen'[c], c, proven)
      BY <1>0, <1>t, <2>6, <3>1
    <3> QED  BY <1>0, <2>2, <2>3, <2>6, <3>4, <3>5 DEF Provenance, crVars
  <2> QED  BY <1>3, <2>4, <2>5, <2>6 DEF ApplyAgent
<1>4. CASE ApplyUI
  <2>1. \A c \in Components :
          DeploymentProven(withImage(dep[c], resolvedImage(mem, c)), c, proven)
    BY <1>0, <1>t, ResolvedIsImage, WithImageProven DEF OptImage
  <2>2. \A c \in Components : DeploymentProven(dep'[c], c, proven)
    BY <1>0, <1>4, <2>1 DEF ApplyUI
  <2>3. UNCHANGED <<pods, proven>>  BY <1>4 DEF ApplyUI
  <2>4. CASE flushInstallingStatus(mem)
    BY <1>0, <1>t, <2>2, <2>3, <2>4, FlushProven DEF Provenance
  <2>5. CASE ~flushInstallingStatus(mem)
    <3>1. /\ seen' = [c \in Components |-> IF c = "ui" THEN dep[c] ELSE seen[c]]
          /\ UNCHANGED <<crVars, mem, memFresh>>
      BY <1>4, <2>5 DEF ApplyUI
    <3>2. \A c \in Components : DeploymentProven(seen'[c], c, proven)
      BY <1>0, <3>1
    <3> QED  BY <1>0, <2>2, <2>3, <3>1, <3>2 DEF Provenance, crVars
  <2> QED  BY <2>4, <2>5
<1>5. CASE FinishPass
  <2>1. PICK d \in readBack : StatusUpdate(afterStatusStep(mem, d))
    BY <1>5 DEF FinishPass
  <2>2. d \in [Components -> Deployments]  BY ReadBackType
  <2>3. \A c \in Components : d[c] \in {dep[c], seen[c]}  BY <1>t DEF readBack
  <2>4. \A c \in Components : DeploymentProven(d[c], c, proven)  BY <1>0, <2>3
  <2>5. CRProven(afterStatusStep(mem, d), proven)
    BY <1>0, <1>t, <2>2, <2>4, StatusStepProven
  <2>6. CRProven(cr', proven) /\ CRProven(cache', proven)
    BY <2>1, <2>5, CRWriteProven
  <2> QED  BY <1>0, <1>5, <2>6, EndPassProven DEF FinishPass, Provenance, depVars
<1>6. CASE PassFails
  BY <1>0, <1>6, EndPassProven DEF PassFails, Provenance, crVars, depVars
<1> QED  BY <1>1, <1>2, <1>3, <1>4, <1>5, <1>6 DEF Pass

\* A user's edit leaves status alone; a new release starts with a new cache.
LEMMA UsersProven == TypeOK /\ Provenance /\ Users => Provenance'
<1> SUFFICES ASSUME TypeOK, Provenance, Users PROVE Provenance'  OBVIOUS
<1>1. ASSUME NEW new, CRProven(new, proven), Edit(new) PROVE Provenance'
  BY <1>1, CRWriteProven DEF Edit, Provenance, depVars
<1>2. ASSUME NEW c \in Components, NEW i \in OptImage, SetImage(c, i) PROVE Provenance'
  <2>1. CRProven([cr EXCEPT !.image[c] = i], proven)
    BY DEF TypeOK, CRs, Provenance, CRProven
  <2> QED  BY <1>1, <1>2, <2>1 DEF SetImage
<1>3. ASSUME NEW v \in Nat, SetMinOperatorVersion(v) PROVE Provenance'
  <2>1. CRProven([cr EXCEPT !.minOp = v], proven)
    BY DEF TypeOK, CRs, Provenance, CRProven
  <2> QED  BY <1>1, <1>3, <2>1 DEF SetMinOperatorVersion
<1>4. CASE OperatorUpgrade
  BY <1>4, EndPassProven DEF OperatorUpgrade, Provenance, depVars
<1>5. 0 .. (version + 1) \subseteq Nat  BY DEF TypeOK
<1> QED  BY <1>2, <1>3, <1>4, <1>5 DEF Users

\* A pod step adds what the pods now fully run to the history.
LEMMA SetPodProven ==
  ASSUME TypeOK, Provenance, NEW c \in Components, NEW s \in Slots, NEW p,
         SetPod(c, s, p)
  PROVE  Provenance'
<1>1. /\ UNCHANGED <<cr, cache, mem, dep, seen>>
      /\ pods' = [pods EXCEPT ![c][s] = p]
      /\ proven' = [proven EXCEPT ![c] =
                      @ \cup {i \in Images : fullyRuns(pods'[c], i, Want[c])}]
  BY DEF SetPod, crVars, passVars
<1>2. proven \in [Components -> SUBSET Images]  BY DEF TypeOK
<1>3. \A e \in Components : proven[e] \subseteq proven'[e]  BY <1>1, <1>2
<1>4. CRProven(cr', proven') /\ CRProven(cache', proven') /\ CRProven(mem', proven')
  BY <1>1, <1>3, ProvenGrows DEF Provenance
<1>5. \A e \in Components : /\ DeploymentProven(dep'[e], e, proven')
                            /\ DeploymentProven(seen'[e], e, proven')
  BY <1>1, <1>3, ProvenGrows DEF Provenance
<1>6. ASSUME NEW e \in Components PROVE PodsProven(pods'[e], e, proven')
  <2>1. CASE e = c  BY <1>1, <1>2, <2>1 DEF PodsProven
  <2>2. CASE e # c
    <3>1. pods'[e] = pods[e] /\ proven'[e] = proven[e]
      BY <1>1, <1>2, <2>2 DEF TypeOK
    <3> QED  BY <3>1 DEF PodsProven, Provenance
  <2> QED  BY <2>1, <2>2
<1> QED  BY <1>4, <1>5, <1>6 DEF Provenance

\* A status report that reads as rolled out was counted on pods that all run
\* the template's image: as many updated pods as pods.
LEMMA ReportProven ==
  ASSUME TypeOK, Provenance, NEW c \in Components, ReportStatus(c)
  PROVE  Provenance'
<1> DEFINE p == pods[c]
<1> DEFINE i == dep[c].image
<1> DEFINE d == [dep[c] EXCEPT !.observed = TRUE,
              !.updated = Cardinality(podsOf(p, i)),
              !.ready = Cardinality(readyPods(p)),
              !.replicas = Cardinality(running(p))]
<1>1. /\ i # NoImage /\ dep' = [dep EXCEPT ![c] = d]
      /\ UNCHANGED <<cr, cache, mem, seen, pods, proven>>
  BY DEF ReportStatus, crVars, passVars
<1>2. dep[c] \in Deployments /\ dep \in [Components -> Deployments]  BY DEF TypeOK
<1>3. /\ d.image = i /\ d.updated = Cardinality(podsOf(p, i))
      /\ d.ready = Cardinality(readyPods(p)) /\ d.replicas = Cardinality(running(p))
  BY <1>2 DEF Deployments
<1>4. i \in Images  BY <1>1, <1>2 DEF Deployments, OptImage
<1>5. DeploymentProven(d, c, proven)
  <2> SUFFICES ASSUME deploymentRolledOut(d, i, Want[c]) PROVE i \in proven[c]
    BY <1>3 DEF DeploymentProven
  <2>1. Cardinality(running(p)) = Cardinality(podsOf(p, i))
    BY <1>3 DEF deploymentRolledOut
  <2>2. podsOf(p, i) \subseteq running(p)  BY <1>1 DEF podsOf, running
  <2>3. IsFiniteSet(running(p))  BY FS_Subset DEF running
  <2>4. running(p) = podsOf(p, i)  BY <2>1, <2>2, <2>3, FS_Subset
  <2>5. fullyRuns(p, i, Want[c])
    BY <1>3, <2>4 DEF fullyRuns, deploymentRolledOut
  <2> QED  BY <1>4, <2>5 DEF Provenance, PodsProven
<1> HIDE DEF d, p, i
<1>6. \A e \in Components : DeploymentProven(dep'[e], e, proven)
  BY <1>1, <1>2, <1>5 DEF Provenance
<1> QED  BY <1>1, <1>6 DEF Provenance

\* Everything the cluster and its failures do keeps the invariant.
LEMMA ClusterProven == TypeOK /\ Provenance /\ (Cluster \/ Failures) => Provenance'
<1> SUFFICES ASSUME TypeOK, Provenance, Cluster \/ Failures PROVE Provenance'
  OBVIOUS
<1>1. CASE CacheSync
  BY <1>1 DEF CacheSync, Provenance, passVars, depVars
<1>2. CASE Tick
  <2>1. \A m \in CRs : CRProven(m, proven) => CRProven(aged(m), proven)
    BY DEF CRProven, aged, CRs
  <2> QED  BY <1>2, <2>1 DEF Tick, Provenance, TypeOK, depVars
<1>3. CASE PostgresProgress \/ RouteAdmitted \/ RouteLost \/ PostgresLost
  BY <1>3 DEF PostgresProgress, RouteAdmitted, RouteLost, PostgresLost,
              Provenance, crVars, passVars, depVars
<1>4. ASSUME NEW c \in Components, ReportStatus(c) PROVE Provenance'
  BY <1>4, ReportProven
<1>5. ASSUME NEW c \in Components, PodStep(c) PROVE Provenance'
  BY <1>5, SetPodProven DEF PodStep, StopOldPod, StartPod, PodBecomesReady
<1>6. ASSUME NEW c \in Components, NEW s \in Slots, PodFails(c, s) PROVE Provenance'
  BY <1>6, SetPodProven DEF PodFails
<1>7. ASSUME NEW c \in Components, DeploymentDeleted(c) PROVE Provenance'
  <2>1. /\ dep' = [dep EXCEPT ![c] = NoDeployment]
        /\ pods' = [pods EXCEPT ![c] = noPods]
        /\ UNCHANGED <<cr, cache, mem, seen, proven>>
    BY <1>7 DEF DeploymentDeleted, crVars, passVars
  <2>2. \A e \in Components : DeploymentProven(dep'[e], e, proven)
    BY <2>1, NothingClaimed DEF Provenance, TypeOK
  <2>3. \A e \in Components : PodsProven(pods'[e], e, proven)
    BY <2>1, NothingClaimed DEF Provenance, TypeOK
  <2> QED  BY <2>1, <2>2, <2>3 DEF Provenance
<1>8. CASE PassFails  BY <1>8, PassProven
<1> QED  BY <1>1, <1>2, <1>3, <1>4, <1>5, <1>6, <1>7, <1>8 DEF Cluster, Failures

\* Nothing in the CR, in any copy of it or in a Deployment's report claims of an
\* image what the pods have not shown: the invariant behind the theorems.
LEMMA ProvenanceHolds == Spec => []Provenance
<1>1. Init => TypeOK /\ Provenance  BY InitType, InitProven
<1>2. TypeOK /\ Provenance /\ [Next]_vars => Provenance'
  <2>1. Provenance /\ UNCHANGED vars => Provenance'
    BY DEF Provenance, vars, crVars, passVars, depVars
  <2> QED  BY <2>1, PassProven, UsersProven, ClusterProven DEF Next
<1> QED  BY <1>1, <1>2, TypeCorrect, PTL DEF Spec

\* Automatic rollback can only ever send a component back to an image that
\* its Deployment has fully run, whatever the interleaving of edits, stale
\* reads, lost status writes, gate changes and restarts.
THEOREM RollbackTargetIsProven == Spec => []RollbackTargetProven
<1>1. Provenance => RollbackTargetProven
  BY DEF Provenance, CRProven, RollbackTargetProven
<1> QED  BY <1>1, ProvenanceHolds, PTL

-----------------------------------------------------------------------------
(* The upgrade clock                                                       *)

\* A copy of the CR that says Running has no clock running.
ClockKept(m) == m.phase = "Running" => m.started = NotStarted

\* It holds of every copy a later write may come from.
Clocks == ClockKept(cr) /\ ClockKept(cache) /\ ClockKept(mem)

\* The status step starts, keeps or stops the clock as it sets the phase, and a
\* rollback stops it.
LEMMA StatusStepClock ==
  ASSUME NEW m \in CRs, ClockKept(m), version \in Versions,
         NEW d \in [Components -> Deployments]
  PROVE  ClockKept(afterStatusStep(m, d))
<1> DEFINE k == syncPhaseAndConditions(m, d, pg = "ready")
           U == upgradingSet(m, d)
           n == afterStatusStep(m, d)
<1>1. k \in CRs  BY SyncType
<1>2. k.phase = "Running" => k.started = NotStarted
  <2> DEFINE all == pg = "ready" /\ \A c \in Components : serving(d[c])
  <2>1. /\ k.started = nextStarted(m.started, U # {})
        /\ k.phase = nextPhase(m.phase, U # {}, all)
    BY DEF syncPhaseAndConditions, CRs
  <2> HIDE DEF k, U, all
  <2>2. CASE U = {}  BY <2>1, <2>2 DEF nextStarted
  <2>3. CASE U # {}  BY <2>1, <2>3 DEF nextPhase
  <2> QED  BY <2>2, <2>3
<1>3. n = reconcileAutoRollback(k, U)  BY DEF afterStatusStep
<1> HIDE DEF k, U, n
<1>4. n.started \in {k.started, NotStarted} /\ n.phase = k.phase
  BY <1>1, <1>3 DEF reconcileAutoRollback, CRs
<1> QED  BY <1>2, <1>4 DEF ClockKept, n

\* A write of such a copy leaves such copies.
LEMMA WriteClock ==
  ASSUME Clocks, NEW new, ClockKept(new), StatusUpdate(new) \/ CRWrite(new)
  PROVE  ClockKept(cr') /\ ClockKept(cache')
BY DEF Clocks, StatusUpdate, CRWrite, crVars

\* A pass that ends leaves a copy whose clock does not run.
LEMMA EndPassClock ==
  ASSUME EndPass
  PROVE  ClockKept(mem')
BY DEF EndPass, ClockKept, NewCR

\* Every step keeps the clocks.
LEMMA ClockStep == TypeOK /\ Clocks /\ [Next]_vars => Clocks'
<1> SUFFICES ASSUME TypeOK, Clocks, [Next]_vars PROVE Clocks'  OBVIOUS
<1>t. cr \in CRs /\ cache \in CRs /\ mem \in CRs /\ version \in Versions  BY DEF TypeOK
<1>f. ASSUME NEW m \in CRs, ClockKept(m), flushInstallingStatus(m) PROVE Clocks'
  <2>1. ClockKept([m EXCEPT !.phase = "Installing"])  BY <1>f DEF ClockKept, CRs
  <2> QED  BY <1>f, <2>1, WriteClock, EndPassClock DEF flushInstallingStatus, Clocks
<1>1. CASE BeginPass  BY <1>1 DEF BeginPass, Clocks, crVars
<1>2. CASE PostgresRequeue  BY <1>f, <1>t, <1>2 DEF PostgresRequeue, Clocks
<1>3. CASE ApplyAgent
  <2> DEFINE m == [mem EXCEPT !.compat = compatCondition(mem)]
  <2>1. m \in CRs  BY <1>t DEF CRs, compatCondition
  <2>2. ClockKept(m)  BY <1>t DEF Clocks, ClockKept, CRs
  <2>3. flushInstallingStatus(m) \/ (mem' = m /\ UNCHANGED crVars)
    BY <1>3 DEF ApplyAgent
  <2> HIDE DEF m
  <2> QED  BY <1>f, <2>1, <2>2, <2>3 DEF Clocks, crVars
<1>4. CASE ApplyUI
  <2>1. flushInstallingStatus(mem) \/ UNCHANGED <<crVars, mem>>  BY <1>4 DEF ApplyUI
  <2> QED  BY <1>f, <1>t, <2>1 DEF Clocks, crVars
<1>5. CASE FinishPass
  <2>1. PICK d \in readBack : StatusUpdate(afterStatusStep(mem, d))
    BY <1>5 DEF FinishPass
  <2>2. d \in [Components -> Deployments]  BY ReadBackType
  <2>3. ClockKept(afterStatusStep(mem, d))
    BY <1>t, <2>2, StatusStepClock DEF Clocks
  <2>4. EndPass  BY <1>5 DEF FinishPass
  <2> QED  BY <2>1, <2>3, <2>4, WriteClock, EndPassClock DEF Clocks
<1>6. CASE PassFails  BY <1>6, EndPassClock DEF PassFails, Clocks, crVars
<1>7. CASE Users
  <2>1. ASSUME NEW new, ClockKept(new), Edit(new) PROVE Clocks'
    BY <2>1, WriteClock DEF Edit, Clocks
  <2>2. ASSUME NEW c \in Components, NEW i \in OptImage, SetImage(c, i) PROVE Clocks'
    <3>1. ClockKept([cr EXCEPT !.image[c] = i])  BY <1>t DEF Clocks, ClockKept, CRs
    <3> QED  BY <2>1, <2>2, <3>1 DEF SetImage
  <2>3. ASSUME NEW v, SetMinOperatorVersion(v) PROVE Clocks'
    <3>1. ClockKept([cr EXCEPT !.minOp = v])  BY <1>t DEF Clocks, ClockKept, CRs
    <3> QED  BY <2>1, <2>3, <3>1 DEF SetMinOperatorVersion
  <2>4. CASE OperatorUpgrade  BY <2>4, EndPassClock DEF OperatorUpgrade, Clocks
  <2> QED  BY <1>7, <2>2, <2>3, <2>4 DEF Users
<1>8. CASE CacheSync  BY <1>8 DEF CacheSync, Clocks, passVars
<1>9. CASE Tick
  <2>1. \A m \in CRs : ClockKept(m) => ClockKept(aged(m))
    BY DEF ClockKept, aged, CRs, NotStarted
  <2> QED  BY <1>t, <1>9, <2>1 DEF Tick, Clocks
<1>10. CASE UNCHANGED <<crVars, passVars>>  BY <1>10 DEF Clocks, crVars, passVars
<1>11. CASE Cluster
  BY <1>8, <1>9, <1>10, <1>11
  DEF Cluster, PostgresProgress, RouteAdmitted, ReportStatus, PodStep, StopOldPod,
      StartPod, PodBecomesReady, SetPod
<1>12. CASE Failures
  BY <1>6, <1>10, <1>12
  DEF Failures, PostgresLost, RouteLost, DeploymentDeleted, PodFails, SetPod
<1>13. CASE UNCHANGED vars  BY <1>10, <1>13 DEF vars
<1> QED
  BY <1>1, <1>2, <1>3, <1>4, <1>5, <1>7, <1>11, <1>12, <1>13 DEF Next, Pass

\* The clocks hold in every reachable state.
LEMMA ClocksHold == Spec => []Clocks
<1>1. Init => Clocks
  <2> SUFFICES ASSUME Init PROVE Clocks  OBVIOUS
  <2>1. cr.started = NotStarted
    <3>1. CASE cr = NewCR  BY <3>1 DEF NewCR
    <3>2. CASE Installed  BY <3>2 DEF Installed, NewCR
    <3> QED  BY <3>1, <3>2 DEF Init, Fresh
  <2>2. cache = cr /\ mem = NewCR  BY DEF Init
  <2> QED  BY <2>1, <2>2 DEF Clocks, ClockKept, NewCR
<1> QED  BY <1>1, ClockStep, TypeCorrect, PTL DEF Spec

=============================================================================
