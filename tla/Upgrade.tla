------------------------------ MODULE Upgrade ------------------------------
(***************************************************************************)
(* Image upgrades and automatic rollback of the agent and the UI.          *)
(*                                                                         *)
(* One reconcile pass reads the OpenShiftPulse CR from the informer cache, *)
(* applies the agent and then the UI Deployment, reads both Deployments    *)
(* back, computes status.phase, and may record a rollback in status.  The  *)
(* pass runs beside users who edit the CR, the Deployment controller that  *)
(* replaces pods, the clock, API failures and restarts of the operator.    *)
(***************************************************************************)
EXTENDS Integers, FiniteSets

CONSTANTS
  Components,    \* the operands upgraded by image, a subset of {"agent", "ui"}
  Images,        \* image references
  NoImage,       \* the empty image field
  GoodImages,    \* images whose pods can become ready
  Versions,      \* operator releases, 1..n
  ReleaseImage,  \* ReleaseImage[c][v]: the image release v pins for c
  Want,          \* Want[c]: the Deployment's desired replicas
  Slots,         \* identities a Deployment's pods may have
  Timeout,       \* upgradeHealthTimeout, in ticks of the clock
  MaxEdits,      \* bound on CR edits and operator upgrades
  MaxFaults,     \* bound on failures of the environment
  Events         \* which environment events the instance includes

ASSUME ConstantsAssumption ==
  /\ Components \subseteq {"agent", "ui"}
  /\ NoImage \notin Images
  /\ GoodImages \subseteq Images
  /\ Versions \subseteq Nat \ {0} /\ 1 \in Versions
  /\ ReleaseImage \in [Components -> [Versions -> Images]]
  /\ Want \in [Components -> Nat]
  /\ IsFiniteSet(Slots)
  /\ Timeout \in Nat \ {0}
  /\ MaxEdits \in Nat /\ MaxFaults \in Nat

NoPod == [image |-> NoImage, ready |-> FALSE]
NoRollback == [from |-> NoImage, to |-> NoImage]   \* a nil *ImageRollback
NotStarted == -1                                   \* a nil upgradeStartedAt

OptImage == Images \cup {NoImage}
Phases == {"None", "Installing", "Running", "Upgrading", "Degraded"}
Rollbacks == [from : OptImage, to : OptImage]

\* The CR: the spec fields image and minOp (0 when unset), and status fields.
CRs == [image : [Components -> OptImage], minOp : Nat,
        phase : Phases,
        lastHealthy : [Components -> OptImage],
        rollback : [Components -> Rollbacks],
        started : NotStarted .. Timeout,
        compat : {"Unknown", "True", "False"}]

\* A Deployment: the image of its template (NoImage when the object does not
\* exist), whether its selector is a foreign one, and its reported status.
Deployments == [image : OptImage, foreign : BOOLEAN, observed : BOOLEAN,
                updated : Nat, ready : Nat, replicas : Nat]

NoDeployment == [image |-> NoImage, foreign |-> FALSE, observed |-> FALSE,
                 updated |-> 0, ready |-> 0, replicas |-> 0]

NewCR == [image |-> [c \in Components |-> NoImage], minOp |-> 0,
          phase |-> "None",
          lastHealthy |-> [c \in Components |-> NoImage],
          rollback |-> [c \in Components |-> NoRollback],
          started |-> NotStarted, compat |-> "Unknown"]

VARIABLES
  cr,          \* the CR in the API server
  cache,       \* the informer's copy of it
  cacheFresh,  \* the informer's copy has the current resourceVersion
  pc,          \* where the running pass is; "idle" between passes
  mem,         \* the running pass's in-memory CR
  memFresh,    \* the in-memory CR has the current resourceVersion
  seen,        \* each Deployment as it was before the pass applied it
  version,     \* the running operator's release
  dep,         \* dep[c]: c's Deployment
  pods,        \* pods[c][s]: the pod in slot s of c
  proven,      \* history: images that c's pods have fully run, all ready
  pg,          \* the PostgreSQL StatefulSet: "replaced", "starting", "ready"
  route,       \* the UI Route has a hostname
  edits, faults

crVars == <<cr, cache, cacheFresh>>
passVars == <<pc, mem, memFresh, seen>>
depVars == <<dep, pods, proven>>
envVars == <<version, pg, route, edits, faults>>
vars == <<crVars, passVars, depVars, envVars>>

-----------------------------------------------------------------------------
(* What to run                                                             *)

\* requestedImage / requestedUIImage: the spec's image or the release's.
requestedImage(m, c) ==
  IF m.image[c] # NoImage THEN m.image[c] ELSE ReleaseImage[c][version]

\* A rollback record applies only to the image it rolled back from.
applyRollback(requested, rb) ==
  IF rb.from = requested /\ rb.to # NoImage THEN rb.to ELSE requested

\* Mutant: tries the requested image again when the rolled-back-to one degrades.
resolvedImage_Retries(m, c) ==
  IF m.phase = "Degraded" THEN requestedImage(m, c)
  ELSE applyRollback(requestedImage(m, c), m.rollback[c])

resolvedImage(m, c) == applyRollback(requestedImage(m, c), m.rollback[c])

\* An unset or unparsable minOperatorVersion is 0 here: always compatible.
agentVersionCompatible(m) == m.minOp <= version

\* The condition is only touched while minOperatorVersion is set.
compatCondition(m) ==
  IF m.minOp = 0 THEN m.compat
  ELSE IF agentVersionCompatible(m) THEN "True" ELSE "False"

-----------------------------------------------------------------------------
(* What a Deployment says                                                  *)

\* isDeploymentReady / isReady: some pod is reported ready.
serving(d) == d.image # NoImage /\ d.ready > 0

\* Mutant: does not compare the template's image with the one asked about.
deploymentRolledOut_AnyImage(d, image, want) ==
  d.observed /\ want # 0 /\ d.updated >= want /\ d.ready >= want
    /\ d.replicas = d.updated

deploymentRolledOut(d, image, want) ==
  /\ d.observed
  /\ d.image = image
  /\ want # 0
  /\ d.updated >= want
  /\ d.ready >= want
  /\ d.replicas = d.updated

-----------------------------------------------------------------------------
(* The status sync                                                         *)

\* Mutant: compares with the image being run, not with the one requested.
keptRollback_Resolved(m, c) ==
  IF m.rollback[c].from # resolvedImage(m, c) THEN NoRollback ELSE m.rollback[c]

\* A record stops applying once the spec asks for a different image.
keptRollback(m, c) ==
  IF m.rollback[c].from # requestedImage(m, c) THEN NoRollback
  ELSE m.rollback[c]

\* c's desired image differs from its last healthy one and is not rolled out.
isUpgrading(m, c, rolledOut) ==
  /\ ~rolledOut
  /\ m.lastHealthy[c] # NoImage
  /\ resolvedImage(m, c) # m.lastHealthy[c]

\* Mutant: a phase nothing else knows.
nextPhase_Pending(prev, upgrading, allReady) ==
  CASE upgrading -> "Upgrading" [] ~upgrading /\ allReady -> "Running"
    [] ~upgrading /\ ~allReady /\ prev \in {"Running", "Upgrading"} -> "Degraded"
    [] OTHER -> "Pending"

\* Mutant: serving pods, old ones included, mask an upgrade in progress.
nextPhase_ServingFirst(prev, upgrading, allReady) ==
  IF allReady THEN "Running" ELSE IF upgrading THEN "Upgrading"
  ELSE IF prev \in {"Running", "Upgrading"} THEN "Degraded" ELSE "Installing"

\* Mutant: an unhealthy instance keeps the phase it had.
nextPhase_Sticky(prev, upgrading, allReady) ==
  IF upgrading THEN "Upgrading" ELSE IF allReady THEN "Running" ELSE prev

nextPhase(prev, upgrading, allReady) ==
  CASE upgrading -> "Upgrading"
    [] ~upgrading /\ allReady -> "Running"
    [] ~upgrading /\ ~allReady /\ prev \in {"Running", "Upgrading"} -> "Degraded"
    [] OTHER -> "Installing"

\* Mutant: a finished upgrade leaves the clock running.
nextStarted_Keeps(started, upgrading) ==
  IF upgrading /\ started = NotStarted THEN 0 ELSE started

nextStarted(started, upgrading) ==
  CASE upgrading /\ started = NotStarted -> 0
    [] ~upgrading -> NotStarted
    [] OTHER -> started

\* d[c] is the Deployment the pass reads back for c.
upgradingSet(m, d) ==
  {c \in Components :
     isUpgrading(m, c, deploymentRolledOut(d[c], resolvedImage(m, c), Want[c]))}

syncPhaseAndConditions(m, d, pgReady) ==
  LET upgrading == upgradingSet(m, d) # {}
      allReady  == pgReady /\ \A c \in Components : serving(d[c])
      phase     == nextPhase(m.phase, upgrading, allReady)
  IN [m EXCEPT
       !.rollback = [c \in Components |-> keptRollback(m, c)],
       !.lastHealthy =
          [c \in Components |->
             IF deploymentRolledOut(d[c], resolvedImage(m, c), Want[c])
             THEN resolvedImage(m, c) ELSE m.lastHealthy[c]],
       !.started = nextStarted(m.started, upgrading),
       !.phase = phase]

\* Mutant: ignores the minOperatorVersion gate.
rollbackSet_Ungated(m, upgrading) ==
  IF m.phase = "Upgrading" /\ m.started >= Timeout
  THEN {c \in upgrading : m.rollback[c] = NoRollback /\ m.lastHealthy[c] # NoImage}
  ELSE {}

\* The components reconcileAutoRollback gives up on; m has been synced.
rollbackSet(m, upgrading) ==
  IF m.phase = "Upgrading" /\ m.started >= Timeout
  THEN {c \in upgrading :
          /\ c = "agent" => m.compat # "False"
          /\ m.rollback[c] = NoRollback
          /\ m.lastHealthy[c] # NoImage}
  ELSE {}

reconcileAutoRollback(m, upgrading) ==
  LET bad == rollbackSet(m, upgrading)
  IN IF bad = {} THEN m
     ELSE [m EXCEPT
            !.rollback = [c \in Components |->
                IF c \in bad THEN [from |-> requestedImage(m, c),
                                   to |-> m.lastHealthy[c]]
                ELSE m.rollback[c]],
            !.started = NotStarted]

-----------------------------------------------------------------------------
(* Writes to the CR.  Without the event "lag" the informer is never behind. *)

CRWrite(new) ==
  /\ cr' = new
  /\ IF new = cr THEN UNCHANGED <<cache, cacheFresh>>
     ELSE IF "lag" \in Events
     THEN cacheFresh' = FALSE /\ UNCHANGED cache
     ELSE cache' = new /\ UNCHANGED cacheFresh

\* Status().Update: refused when the pass's resourceVersion is not current.
StatusUpdate(new) ==
  IF memFresh THEN CRWrite(new) ELSE UNCHANGED crVars

EndPass ==
  /\ pc' = "idle"
  /\ mem' = NewCR
  /\ memFresh' = FALSE
  /\ seen' = [c \in Components |-> NoDeployment]

\* flushInstallingStatus, then the requeue that ends the pass.
flushInstallingStatus(m) ==
  /\ StatusUpdate([m EXCEPT !.phase = "Installing"])
  /\ EndPass

-----------------------------------------------------------------------------
(* One reconcile pass                                                      *)

\* Read the CR; reconcilePostgres asks to come back while it replaces the
\* StatefulSet.
BeginPass ==
  /\ pc = "idle"
  /\ mem' = cache
  /\ memFresh' = cacheFresh
  /\ pc' = IF pg = "replaced" THEN "postgresRequeue" ELSE "agent"
  /\ UNCHANGED <<crVars, seen, depVars, envVars>>

PostgresRequeue ==
  /\ pc = "postgresRequeue"
  /\ flushInstallingStatus(mem)
  /\ UNCHANGED <<depVars, envVars>>

\* Mutant: updates an existing Deployment and never creates a missing one.
withImage_UpdateOnly(d, image) ==
  IF d.image \in {image, NoImage} THEN d
  ELSE [d EXCEPT !.image = image, !.observed = FALSE]

\* A write of a changed template bumps the generation: the reported status
\* is that of an older generation until the Deployment controller reports.
withImage(d, image) ==
  IF d.image = image THEN d
  ELSE [d EXCEPT !.image = image, !.observed = FALSE]

noPods == [s \in Slots |-> NoPod]

\* AgentReconciler.reconcileDeployment.
ApplyAgent ==
  LET m == [mem EXCEPT !.compat = compatCondition(mem)]
      d == dep["agent"]
      compatible == agentVersionCompatible(mem)
  IN /\ pc = "agent" /\ "agent" \in Components
     /\ \/ /\ d.image # NoImage /\ d.foreign
           /\ dep' = [dep EXCEPT !["agent"] = NoDeployment]
           /\ pods' = [pods EXCEPT !["agent"] = noPods]
           /\ flushInstallingStatus(m)
        \/ /\ d.image = NoImage /\ ~compatible
           /\ flushInstallingStatus(m)
           /\ UNCHANGED <<dep, pods>>
        \/ /\ IF d.image = NoImage THEN compatible ELSE ~d.foreign
           /\ dep' = [dep EXCEPT !["agent"] =
                        withImage(d, IF compatible THEN resolvedImage(mem, "agent")
                                     ELSE d.image)]
           /\ mem' = m
           /\ seen' = [seen EXCEPT !["agent"] = d]
           /\ pc' = "ui"
           /\ UNCHANGED <<crVars, memFresh, pods>>
     /\ UNCHANGED <<proven, envVars>>

\* reconcileUI: the Deployment, then the Route, which may have no host yet.
ApplyUI ==
  /\ pc = "ui" \/ (pc = "agent" /\ "agent" \notin Components)
  /\ dep' = [c \in Components |->
               IF c = "ui" THEN withImage(dep[c], resolvedImage(mem, c)) ELSE dep[c]]
  /\ \/ /\ ~route
        /\ flushInstallingStatus(mem)
     \/ /\ route
        /\ pc' = "status"
        /\ seen' = [c \in Components |-> IF c = "ui" THEN dep[c] ELSE seen[c]]
        /\ UNCHANGED <<crVars, mem, memFresh>>
  /\ UNCHANGED <<pods, proven, envVars>>

\* The Deployments as the status step may read them: current, or, when the
\* informer lags, as they were before this pass applied them.
readBack ==
  IF "lag" \in Events
  THEN {[c \in Components |-> IF c \in S THEN seen[c] ELSE dep[c]] :
          S \in SUBSET Components}
  ELSE {dep}

\* The in-memory CR once the whole status step has run on d.
afterStatusStep(m, d) ==
  reconcileAutoRollback(syncPhaseAndConditions(m, d, pg = "ready"),
                        upgradingSet(m, d))

FinishPass ==
  /\ pc = "status"
  /\ \E d \in readBack : StatusUpdate(afterStatusStep(mem, d))
  /\ EndPass
  /\ UNCHANGED <<depVars, envVars>>

\* An API error or a restart of the operator ends the pass where it is.
PassFails ==
  /\ "fail" \in Events /\ faults < MaxFaults
  /\ pc # "idle"
  /\ EndPass
  /\ faults' = faults + 1
  /\ UNCHANGED <<crVars, depVars, version, pg, route, edits>>

-----------------------------------------------------------------------------
(* Users, releases, time                                                   *)

Edit(new) ==
  /\ edits < MaxEdits
  /\ new # cr
  /\ CRWrite(new)
  /\ memFresh' = FALSE
  /\ edits' = edits + 1
  /\ UNCHANGED <<pc, mem, seen, depVars, version, pg, route, faults>>

SetImage(c, i) == Edit([cr EXCEPT !.image[c] = i])

SetMinOperatorVersion(v) ==
  "gate" \in Events /\ Edit([cr EXCEPT !.minOp = v])

\* A new release: another process, another set of pinned images, a new cache.
OperatorUpgrade ==
  /\ "operator" \in Events /\ edits < MaxEdits
  /\ version + 1 \in Versions
  /\ version' = version + 1
  /\ edits' = edits + 1
  /\ cache' = cr /\ cacheFresh' = TRUE
  /\ EndPass
  /\ UNCHANGED <<cr, depVars, pg, route, faults>>

CacheSync ==
  /\ ~cacheFresh
  /\ cache' = cr /\ cacheFresh' = TRUE
  /\ UNCHANGED <<cr, passVars, depVars, envVars>>

aged(m) ==
  IF m.started \in 0 .. (Timeout - 1) THEN [m EXCEPT !.started = @ + 1] ELSE m

\* upgradeStartedAt is a timestamp: every copy of it ages together.
Tick ==
  /\ cr # aged(cr) \/ cache # aged(cache) \/ mem # aged(mem)
  /\ cr' = aged(cr) /\ cache' = aged(cache) /\ mem' = aged(mem)
  /\ UNCHANGED <<cacheFresh, pc, memFresh, seen, depVars, envVars>>

-----------------------------------------------------------------------------
(* The Deployment controller and the pods                                  *)

running(p) == {s \in Slots : p[s].image # NoImage}
readyPods(p) == {s \in Slots : p[s].ready}
podsOf(p, i) == {s \in Slots : p[s].image = i}

\* Every pod of p runs i, and want of them are ready.
fullyRuns(p, i, want) ==
  /\ running(p) = podsOf(p, i)
  /\ want # 0 /\ Cardinality(readyPods(p)) >= want

SetPod(c, s, pod) ==
  /\ pods' = [pods EXCEPT ![c][s] = pod]
  /\ proven' = [proven EXCEPT ![c] =
                  @ \cup {i \in Images : fullyRuns(pods'[c], i, Want[c])}]
  /\ UNCHANGED <<crVars, passVars, dep>>

\* The agent is replaced with Recreate; the UI rolls with one surge pod and
\* no unavailable one.
StopOldPod(c, s) ==
  /\ s \in running(pods[c]) \ podsOf(pods[c], dep[c].image)
  /\ \/ c = "agent"
     \/ ~pods[c][s].ready
     \/ Cardinality(readyPods(pods[c])) > Want[c]
  /\ SetPod(c, s, NoPod)
  /\ UNCHANGED envVars

StartPod(c, s) ==
  /\ dep[c].image # NoImage
  /\ s \notin running(pods[c])
  /\ Cardinality(podsOf(pods[c], dep[c].image)) < Want[c]
  /\ Cardinality(running(pods[c])) < (IF c = "agent" THEN Want[c] ELSE Want[c] + 1)
  /\ c = "agent" => running(pods[c]) = podsOf(pods[c], dep[c].image)
  /\ SetPod(c, s, [image |-> dep[c].image, ready |-> FALSE])
  /\ UNCHANGED envVars

PodBecomesReady(c, s) ==
  /\ pods[c][s].image \in GoodImages /\ ~pods[c][s].ready
  /\ SetPod(c, s, [pods[c][s] EXCEPT !.ready = TRUE])
  /\ UNCHANGED envVars

PodFails(c, s) ==
  /\ "podfail" \in Events /\ faults < MaxFaults
  /\ pods[c][s].ready
  /\ faults' = faults + 1
  /\ SetPod(c, s, [pods[c][s] EXCEPT !.ready = FALSE])
  /\ UNCHANGED <<version, pg, route, edits>>

\* The controller reports what it counts for the current generation.
ReportStatus(c) ==
  LET d == [dep[c] EXCEPT !.observed = TRUE,
              !.updated = Cardinality(podsOf(pods[c], dep[c].image)),
              !.ready = Cardinality(readyPods(pods[c])),
              !.replicas = Cardinality(running(pods[c]))]
  IN /\ dep[c].image # NoImage /\ d # dep[c]
     /\ dep' = [dep EXCEPT ![c] = d]
     /\ UNCHANGED <<crVars, passVars, pods, proven, envVars>>

DeploymentDeleted(c) ==
  /\ "delete" \in Events /\ faults < MaxFaults
  /\ dep[c].image # NoImage
  /\ dep' = [dep EXCEPT ![c] = NoDeployment]
  /\ pods' = [pods EXCEPT ![c] = noPods]
  /\ faults' = faults + 1
  /\ UNCHANGED <<crVars, passVars, proven, version, pg, route, edits>>

-----------------------------------------------------------------------------
(* The database and the Route                                              *)

PostgresProgress ==
  /\ pg' = CASE pg = "replaced" -> "starting" [] pg = "starting" -> "ready"
             [] OTHER -> pg
  /\ pg' # pg
  /\ UNCHANGED <<crVars, passVars, depVars, version, route, edits, faults>>

PostgresLost ==
  /\ "pg" \in Events /\ faults < MaxFaults
  /\ pg = "ready"
  /\ pg' \in {"starting", "replaced"}
  /\ faults' = faults + 1
  /\ UNCHANGED <<crVars, passVars, depVars, version, route, edits>>

RouteAdmitted ==
  /\ ~route /\ route' = TRUE
  /\ UNCHANGED <<crVars, passVars, depVars, version, pg, edits, faults>>

RouteLost ==
  /\ "route" \in Events /\ faults < MaxFaults
  /\ route /\ route' = FALSE
  /\ faults' = faults + 1
  /\ UNCHANGED <<crVars, passVars, depVars, version, pg, edits>>

-----------------------------------------------------------------------------

\* A first install, on a cluster that may still have a Helm-managed agent
\* Deployment under the operator's name.
Fresh ==
  /\ cr = NewCR
  /\ dep \in {[c \in Components |-> NoDeployment]} \cup
       {[c \in Components |->
           IF c = "agent" THEN [NoDeployment EXCEPT !.image = i, !.foreign = TRUE]
           ELSE NoDeployment] : i \in IF "helm" \in Events THEN Images ELSE {}}
  /\ pods = [c \in Components |-> noPods]
  /\ proven = [c \in Components |-> {}]
  /\ pg = "starting"
  /\ route = FALSE

\* What a first install settles in: everything runs the release's images.
installedPods(c, S) ==
  [s \in Slots |-> IF s \in S THEN [image |-> ReleaseImage[c][1], ready |-> TRUE]
                   ELSE NoPod]

Installed ==
  /\ cr = [NewCR EXCEPT !.phase = "Running",
             !.lastHealthy = [c \in Components |-> ReleaseImage[c][1]]]
  /\ dep = [c \in Components |->
              [image |-> ReleaseImage[c][1], foreign |-> FALSE, observed |-> TRUE,
               updated |-> Want[c], ready |-> Want[c], replicas |-> Want[c]]]
  /\ \E S \in [Components -> SUBSET Slots] :
       /\ \A c \in Components : Cardinality(S[c]) = Want[c] /\ Want[c] # 0
       /\ pods = [c \in Components |-> installedPods(c, S[c])]
  /\ proven = [c \in Components |-> {ReleaseImage[c][1]}]
  /\ pg = "ready"
  /\ route = TRUE

Init ==
  /\ IF "install" \in Events THEN Fresh ELSE Installed
  /\ cache = cr /\ cacheFresh = TRUE
  /\ pc = "idle" /\ mem = NewCR /\ memFresh = FALSE
  /\ seen = [c \in Components |-> NoDeployment]
  /\ version = 1
  /\ edits = 0 /\ faults = 0

Pass == BeginPass \/ PostgresRequeue \/ ApplyAgent \/ ApplyUI \/ FinishPass

Users ==
  \/ \E c \in Components, i \in OptImage : SetImage(c, i)
  \/ \E v \in 0 .. (version + 1) : SetMinOperatorVersion(v)
  \/ OperatorUpgrade

PodStep(c) ==
  \E s \in Slots : StopOldPod(c, s) \/ StartPod(c, s) \/ PodBecomesReady(c, s)

\* Steps the cluster keeps taking.
Cluster ==
  \/ CacheSync \/ Tick
  \/ PostgresProgress \/ RouteAdmitted
  \/ \E c \in Components : ReportStatus(c) \/ PodStep(c)

Failures ==
  \/ PassFails \/ PostgresLost \/ RouteLost
  \/ \E c \in Components :
       DeploymentDeleted(c) \/ \E s \in Slots : PodFails(c, s)

Next == Pass \/ Users \/ Cluster \/ Failures

Spec == Init /\ [][Next]_vars

\* Fairness.  A finished pass is requeued after at most 30s (5 minutes for a
\* rejected CR), a failed one is retried, so passes keep being run; informer,
\* clock, router and the Deployment controller's reporting keep going.
\* Nothing is assumed about users or failures, which the bounds make finite.
OperatorFairness ==
  /\ WF_vars(Pass) /\ WF_vars(CacheSync) /\ WF_vars(Tick)
  /\ WF_vars(PostgresProgress) /\ WF_vars(RouteAdmitted)
  /\ \A c \in Components : WF_vars(ReportStatus(c))

\* Pods may stay where they are for ever.
OperatorFairSpec == Spec /\ OperatorFairness

\* Pods are replaced and become ready.
PodFairness == \A c \in Components : WF_vars(PodStep(c))

FairSpec == OperatorFairSpec /\ PodFairness

-----------------------------------------------------------------------------
(* Properties                                                              *)

\* The type invariant: every copy of the CR, every Deployment and every pod
\* has the shape the Go types give it.
TypeOK ==
  /\ cr \in CRs /\ cache \in CRs /\ mem \in CRs
  /\ cacheFresh \in BOOLEAN /\ memFresh \in BOOLEAN
  /\ pc \in {"idle", "postgresRequeue", "agent", "ui", "status"}
  /\ seen \in [Components -> Deployments]
  /\ version \in Versions
  /\ dep \in [Components -> Deployments]
  /\ pods \in [Components -> [Slots -> [image : OptImage, ready : BOOLEAN]]]
  /\ proven \in [Components -> SUBSET Images]
  /\ pg \in {"replaced", "starting", "ready"}
  /\ route \in BOOLEAN
  /\ edits \in Nat /\ faults \in Nat

\* The image status calls last healthy, and the one a rollback record sends
\* the component back to, is one its Deployment has fully run: every pod on
\* it and the desired number ready (status.go, "Only rolled out says the image
\* asked for works").  It holds of images applied but refused by the gate,
\* half rolled out, read back stale, or written by a pass that lost a race.
RollbackTargetProven ==
  \A c \in Components :
    /\ cr.lastHealthy[c] \in proven[c] \cup {NoImage}
    /\ cr.rollback[c] # NoRollback =>
         /\ cr.rollback[c].to \in proven[c]
         /\ cr.rollback[c].from # cr.rollback[c].to

\* The images asked for.
wantedImages == [c \in Components |-> requestedImage(cr, c)]

Policy == INSTANCE RollbackPolicy
  WITH wanted <- wantedImages, healthy <- cr.lastHealthy, record <- cr.rollback

\* The operator implements the rollback policy: through stale reads, lost
\* writes, the gate, failed passes and restarts, what users can see of rollback
\* in the CR changes only by the policy's steps.
ImplementsPolicy == Policy!Spec

\* While the CR carries a rollback record for the image it asks for, no pass
\* brings a Deployment that has left that image back to it, however stale the
\* CR that pass read.
RolledBackImageStaysOut ==
  [][\A c \in Components :
       dep'[c].image # dep[c].image /\ dep'[c].image # NoImage
         => ~(/\ cr.rollback[c].from = requestedImage(cr, c)
              /\ dep'[c].image = cr.rollback[c].from)]_vars

\* An agent image held back by minOperatorVersion is not rolled back: a
\* record appears only while the CR is compatible with this operator.
GatedImageNotRolledBack ==
  [][\A c \in Components \cap {"agent"} :
       cr'.rollback[c] \notin {cr.rollback[c], NoRollback}
         => agentVersionCompatible(cr)]_vars

\* An image that never becomes ready, is not gated, and has a last healthy
\* predecessor is running for c because the CR asks for it.
BadImageStuck(c) ==
  /\ requestedImage(cr, c) \notin GoodImages
  /\ dep[c].image = requestedImage(cr, c)
  /\ cr.lastHealthy[c] \notin {NoImage, dep[c].image}
  /\ agentVersionCompatible(cr)

\* Automatic rollback happens: a bad image does not stay deployed once a last
\* healthy image is known, whatever the informer lag, failed passes, lost
\* Routes and database restarts on the way (README, "Automatic rollback").
BadImageReplaced ==
  \A c \in Components : BadImageStuck(c) ~> ~BadImageStuck(c)

\* A component none of whose pods is ready does not stay reported as Running
\* (ui_reconciler.go: "Phase: Running is never a false positive").
OutageReported ==
  \A c \in Components :
    (readyPods(pods[c]) = {}) ~> (readyPods(pods[c]) # {} \/ cr.phase # "Running")

\* A first install completes, unless minOperatorVersion holds the agent back for
\* good: adopting a Helm-managed agent Deployment, waiting for the StatefulSet,
\* for a compatible operator and for the Route's host, and retrying failed
\* passes all lead to Running (the requeue paths of Reconcile never wedge).
InstallCompletes ==
  <>(cr.phase = "Running") \/ <>[]~agentVersionCompatible(cr)

=============================================================================
