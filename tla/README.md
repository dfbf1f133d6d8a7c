# Formal models of the Pulse operator

TLA+ models of the reconcile logic in `src/internal/controller`, the TLC
configurations that check them, and TLAPS proofs. The models follow the Go code,
not its documentation; `PROJECT.json` maps every definition to the lines it
stands for.

## 1. The system

The operator watches `OpenShiftPulse` custom resources and keeps one Pulse
installation per cluster: PostgreSQL, the agent, the UI, and optional render,
MCP, Temporal and monitoring parts. `Reconcile`
(`openshiftpulse_controller.go:42`) is one long sequential pass. The
controller has one worker, the CSV's Deployment strategy is Recreate and
leader election is off, so **two passes never run at the same time**. What a pass
does race with is everything else:

* users who edit the CR, its Secrets and its objects between any two API calls;
* informer caches: typed `Get`s and `List`s are served from caches that lag
  behind the API server and behind each other (unstructured reads, such as Route
  and OAuthClient, are live);
* the Deployment and StatefulSet controllers, the kubelet and the garbage collector;
* API errors and restarts, which end a pass at any call; the next pass starts over.

| Component | State | Operations | Hard behaviour | What makes it correct |
|---|---|---|---|---|
| Image upgrade, status, rollback (`status.go`, `compat.go`, `images.go`, Deployments of `agent_reconciler.go`, `ui_reconciler.go`) | CR spec and status, two Deployments, the upgrade clock, rollback records | read CR, apply agent, apply UI, read back, sync status, auto-rollback, early requeues | status computed from stale copies; one clock for two components; image edited while an upgrade is timed | a rollback goes only to an image that worked, happens once per bad image, does happen, and never for a gated image; the phase does not hide an outage; an install completes |
| Admission, finalizer, cluster-scoped grants (`admission.go`, `openshiftpulse_controller.go`, role code of agent, UI, MCP) | CRs, ClusterRoles, bindings, OAuthClient with owner-UID stamps | admit or reject, add finalizer, create or adopt grants, clean up, remove finalizer | no garbage collection for these objects; CRs recreated under a name; failed deletions; stale CR list | no orphans, one holder, takeover works, deletion completes |
| PostgreSQL (`postgresql_reconciler.go`) | `pg-auth`, StatefulSet, pod, volume, connection Secret | secret create and migrate, StatefulSet apply or replace, stale-pod deletion, volume growth, teardown | credentials read once per pod start; data outlives the CR; Pending pod blocks a rollout | credentials converge, data keeps its major version and its credentials, rollouts unblock |
| Optional parts (`render_`, `mcp_`, `temporal_`, `monitoring_`, `pdb_reconciler.go`, `remove_helpers.go`) | seventeen objects, what five fixed objects mention | create/update, remove, rewrite mentions | pass breaks off half way; shared token read at pod start; user objects under the same name | on means complete, off means gone, creation order, nothing foreign deleted |
| NetworkPolicies (`network_policy_reconciler.go`) | policies | rewritten every pass | only the switch-dependent parts matter here | part of the above |
| Signing in and reaching the agent (`ui_reconciler.go`, `agent_reconciler.go`, `helm_runner.go`) | `ws-token`, `oauth-secrets`, nginx Secret, Route, OAuthClient, both pod templates | create token, create or repair OAuth secrets, render nginx, apply Deployments, correct Route, register OAuthClient | one secret copied into several objects and read at pod start; copies refreshed one call at a time; hash of the wanted text, not of the stored one | the copies come together again; the client secret is not rotated; what users set stays |
| Cluster detection (`cluster_detect.go`) | process-wide memo | detect, keep when the Ingress could be read | answers of one moment kept for the process's life | detection ends, both templates follow it |
| Metric series per instance (`resource_metrics.go`, `status.go`) | series in the process | set, forget | they survive the CR and its passes | none of a deleted instance |
| Pod diagnosis, skew, other metrics, events, security contexts, start-up | none or output only | | | not modelled |

The components meet in the pass: PostgreSQL first (it can ask for a requeue),
then render, the agent (can requeue), policies, budget, monitoring, MCP, Temporal,
the UI (requeues while its Route has no host), and then status. Each module
models the part of that sequence that carries its own state. The requeues of one
part appear in the others as steps that end the pass early.

## 2. Modules

`Upgrade.tla`: one pass as `BeginPass`, `PostgresRequeue`, `ApplyAgent`,
`ApplyUI`, `FinishPass`. `cr` is the CR in the API server, `cache` the informer's
copy, `mem` the copy in the running pass; `cacheFresh` and `memFresh` stand for
the `resourceVersion` comparison, so `StatusUpdate` of a stale copy fails as a
conflict does. `dep` holds both Deployments with the status fields
`deploymentRolledOut` reads; `pods` what the Deployment controller made of them
(Recreate for the agent, surge 1 / unavailable 0 for the UI). `started` is the
age of `upgradeStartedAt` in ticks, capped at the timeout. `proven` is a history
variable: the images each component has ever fully run.

`UpgradeWindow.tla` adds two history variables to `Upgrade`: `waited`, how long the image asked for of each
component has been asked for, and `calm`, whether the CR said `Running` when it was. They observe the
steps and constrain none; with them one can say whether the one clock of two components gave an image its time.

`Instances.tla`: CRs are told apart by UID; `log` is the sequence of CR
states the informer has still to move past, so a pass may read any CR state as old as
the bound `MaxLag`. `grant[n][k]` is the owner stamp on n's object of kind `k`
(`None`, `Unstamped`, or a UID), `seen` the informer's copy, `old` the agent
ClusterRole under its former unqualified name, `series[n]` the CR whose metric
values the process exports under n's labels. Each kind is applied in a step of
its own, cleanup fails for any subset of the kinds.

`Postgres.tla`: the finalizer and the pass up to the agent's credential hash, with
`secretSeen`, `podSeen` and `revision` (the StatefulSet's `updateRevision`, which `isPGPodStale` reads) as the
caches; StatefulSet controller, kubelet, PVC protection and garbage collector are actions of their own.
A Secret has its keys under the new or the Helm names or lost them; a volume's storage class allows expansion or not.
A failed read in `pgCredentialHash` (event `hash`) and a refused resize (`resize`, or `noexpand` for the
storage class) do not end the pass, as in the code. A server started
on a data directory of another major version is the pod phase `Crash`.

`Features.tla`: `Reconcile(on)` is the sequence of API calls a pass makes
for the switches `on`; each call is a step, so a pass can break off between any
two. Every object is absent, `made`, a `user`'s, `adopted` from a user, or
`alien` (controlled by another controller, which `SetControllerReference`
refuses). `EditByHand` is a user who deletes an object or makes one of their own where there is none. Agent and render pods keep the token they were started with.

`Login.tla`: how a browser gets to the agent. The pass makes the `ws-token`
Secret, applies the agent Deployment, and in `reconcileUI` the OAuth Secret, the
nginx Secret, the UI Deployment, the Route and the OAuthClient, each a step of
its own. `secrets` and `deps` are the stored objects, `seen` and `depsSeen` the
informers' copies, Route and OAuthClient are read live. `detected` is
`cachedClusterInfo`, lost when the operator restarts. All three places that call
`DetectClusterInfo` (agent, the controller itself, UI) may fail to read: in an outage the Ingress and any of ImageStream and ACM
namespace, with the event `misread` any subset of the three. Random values are numbers, the rendered configuration is the token and the Helm
runner image in it, a hash is what it is a hash of. Pods keep the template they were made from and what they
read when they started: `uiPod.of` is the template with its hash, `uiPod.conf` the text mounted. `lost` is a history variable: what users deleted or changed
by hand.

`RollbackPolicy.tla` is the abstract specification of automatic rollback, without passes,
caches, Deployments or clocks: per component the image wanted, the last
healthy one, the record that sends it back, and the images that have proved themselves.
A record is made once for a wanted image, leads to a proven image, and
stays until another image is wanted. `Upgrade!Policy` instantiates it with the CR
in the API server (`requestedImage`, `lastHealthy`, `rollback`) and the history
`proven`; `ImplementsPolicy` is its specification.

`MCUpgrade`, `MCWindow`, `MCInstances` and `MCPostgres` define the constants that a `.cfg`
cannot express; `Features` and `Login` are checked directly.

The proofs are in modules of their own, each extending the module it is about:
`UpgradeProofs` and, on top of it, `PolicyProofs` (records, gate, window and the refinement);
`RollbackPolicyProofs`; `InstancesProofs` (finalizer, objects, series) and, on top of
it, `AdmissionProofs` (who is chosen); `PostgresProofs`; `FeaturesProofs`; `LoginProofs`.

Operators named `X_Something` are variants of `X` with one plausible mistake;
each property is known to fail when one of them replaces `X`.

## 3. Runs

| Run | Shows | Instance |
|---|---|---|
| `upgrade_safe` | `RollbackTargetProven`, `ImplementsPolicy`, `WindowFromRunning`, `RolledBackImageStaysOut`, `GatedImageNotRolledBack`, types | agent, two images, gate, lag, one failed pass, 3 edits (1.8 M states) |
| `upgrade_live` | `BadImageReplaced`, `OutageReported`, with old pods still serving | UI with a surge slot, an operator release that pins a bad image, lag, one failure (pass, pod, Route or database) |
| `upgrade_install` | `InstallCompletes` | agent and UI on an empty cluster or over a Helm Deployment, database and Route not up yet, one edit (an image, or a minimum version that may hold the agent back), one failure (a failed pass or a deleted Deployment) |
| `upgrade_v_stalegate` | a violation: section 6 | agent, gate, a bad image |
| `instances_safe` | `NoOrphans`, `SoleHolder`, `NoGhostSeries`, `ChosenKeepsGrants`, `ExistingInstallKeepsWorking`, types | two names in one namespace, three CRs over time, CR cache up to two writes behind |
| `instances_takeover` | `ChosenIsSetUp`, `DeletionCompletes` | the same, with object caches behind |
| `instances_moves` | `NoOrphans`, `RejectedLosesGrants` | one name in two namespaces, legacy grants, MCP switched, Pulse namespace changed |
| `postgres_changes` | `CredentialsAgree`, `DataMajorKept`, `RolloutUnblocked`, types | Secret rotated, emptied or deleted, two majors and an image that never schedules, lag, eviction, one failure |
| `postgres_lifecycle` | `DataKeepsCredentials`, `TeardownErasesData`, `VolumeGrows`, `CredentialsAgree` | Helm adoption, sizes up, down, invalid and refused, volumes that expand and that do not, deletion with and without data, re-creation; 4 edits, one failure (a pass, a resize, or either deletion) |
| `features_safe` | `DependenciesFirst`, `PreviewWorks`, `AgentComesBack`, types | four switches, 4 edits, user and alien objects, eviction, objects deleted and made by hand |
| `features_converge` | `TurnedOffIsRemoved`, `TurnedOnIsComplete` | the switches of render, MCP and the Temporal UI, lag, slow Deployment controller, a failed pass |
| `login_converge` | `SignInWorks`, `ConfigurationSettles`, `DetectionSettles`, `ClientSecretKept`, `UserSettingsKept`, types | an empty namespace or an older operator's install, two hosts, one edit of any kind, one failure of any kind, lag (0.55 M states) |

Every module has a constant `Events` that says which environment events an
instance includes, so that a run can combine those its question needs.

**Bounds.** `MaxEdits` and `MaxFaults` bound user edits and environment failures;
everything else is unbounded but finite. Three edits are what the longest known
scenario of each module needs (change, change back, change again; create, delete,
create again), and one failure is enough to break a pass at every point while
recovery is checked from there. `login_converge` has one edit and one failure, at any
point of a pass and with any lag, from a first install and from an older operator's
objects: each copy of a secret has one writer, so a second edit starts from what the
first has left. `Timeout` is one tick: the code only compares the
clock with the timeout. Two images suffice because the code compares images for
equality only with the last healthy one and the rolled-back one; the proofs have
no such bound. UI runs use one replica and a surge slot; more replicas are covered by the
proof of `RollbackTargetProven`.

**Fairness.** Weak fairness of the pass: a finished pass is requeued after at
most 30 s (5 min for a rejected CR), a failed one is retried with
back-off. `Instances` needs strong fairness of reading each CR, because the work
queue is shared: every key that is due is eventually handed out. Informers,
Deployment and StatefulSet controllers, kubelet and garbage collector make progress. `OperatorFairSpec`
assumes nothing of pods, so `upgrade_live` holds even if they never
move again. Users and failures are never fair; their bounds make them stop, which is
what "in the end" means in the convergence properties.

`upgrade_safe` leaves out hand-deleted Deployments: a pass that read the CR before a
rollback record was written recreates a Deployment deleted under it with the old image, and the next pass
corrects it. `features_safe` has no lag: a lagging Secret cache lets a pass
skip minting a token that has just been deleted, and the next pass mints it.
The theorems about these two properties (section 4) assume the same.

## 4. Proofs

Each invariant and each action property of a passing run is also a theorem. The run shows
it on a small instance; the theorem for every value of the constants that the module's named
assumption admits: any images, releases, replica counts and timeout, any set of
CRs and namespaces, any lag, any bounds on edits and failures, and every set of
`Events` but those the last column excludes.

| Theorem | States | Inductive invariant | Except with the events |
|---|---|---|---|
| `UpgradeProofs!TypeCorrect` | `TypeOK` | itself | |
| `UpgradeProofs!RollbackTargetIsProven` | `RollbackTargetProven` | `Provenance` | |
| `RollbackPolicyProofs!PolicyIsSafe` | `Safe`, of the policy itself | itself | |
| `PolicyProofs!PolicyImplemented` | `ImplementsPolicy` | `Provenance`, `CurrentCopies` | |
| `PolicyProofs!WindowIsFull` | `WindowFromRunning` | `Clocks`, `CurrentCopies`, `WindowOpen` | |
| `PolicyProofs!GatedImageIsKept` | `GatedImageNotRolledBack` | `CurrentCopies`, `GateKnown` | |
| `PolicyProofs!RollbackIsNotUndone` | `RolledBackImageStaysOut` | these three and `OldCopies` | `lag` together with `delete` |
| `InstancesProofs!TypeCorrect` | `TypeOK` | itself | |
| `InstancesProofs!NoSeriesOfTheDeleted` | `NoGhostSeries` | `FinalizerInv` | |
| `InstancesProofs!NothingIsOrphaned` | `NoOrphans` | `ObjectInv` | `objlag` |
| `AdmissionProofs!InstallKeepsWorking` | `ExistingInstallKeepsWorking` | `AdmissionInv` | `tie`, `legacy` |
| `AdmissionProofs!OneHolder` | `SoleHolder` | `HolderInv` | `tie`, `legacy`, `objlag` |
| `AdmissionProofs!ChosenIsNotRobbed` | `ChosenKeepsGrants` | `HolderInv` | `tie`, `legacy`, `objlag` |
| `PostgresProofs!TypeCorrect` | `TypeOK` | itself | |
| `PostgresProofs!ServerMatchesData` | `DataMajorKept` | `OneStatefulSet`, `OneMajor` | `delete`, `helm` |
| `PostgresProofs!RetainedDataHasItsSecret` | `DataKeepsCredentials` | `SecretsHavePasswords`, `DataOnVolume`, `Paired` | `secret` |
| `FeaturesProofs!TypeCorrect` | `TypeOK` | `TodoFits` | |
| `FeaturesProofs!NeedsComeFirst` | `DependenciesFirst` | `TokenFirst`, `PolicyFirst` | `lag` |
| `LoginProofs!TypeCorrect` | `TypeOK` | itself | |
| `LoginProofs!ClientSecretIsKept` | `ClientSecretKept` | `OneClientSecret` | |
| `LoginProofs!UserSettingsAreKept` | `UserSettingsKept` | `TypeOK` suffices | |

**Why the exceptions.** With the event the property is false, in the model as in the code,
and TLC has a counterexample: `objlag`, `tie` and PostgreSQL's `delete` are
in section 6; `lag` with `delete` in `Upgrade` and `lag` in `Features` at the end of section 3. `legacy`
starts from two installed CRs with unstamped objects, so two holders are there from the
start. `helm` starts PostgreSQL from a Helm release, whose StatefulSet the operator deletes and
makes anew without comparing versions. With `secret`, users delete `pg-auth` themselves. `ServerMatchesData` also assumes
`MajorInName = Major`, that every image reference names the version it contains: the guard looks
at nothing else, and lets a reference without a version pass.

**Rollback.** `RollbackTargetProven` speaks of the CR in the API server and is not inductive: a pass writes status
from its own copy, which came from the cache, and calls an image healthy because of a
Deployment it read back, perhaps from before the template changed. The
inductive invariant `Provenance` therefore says the same of `cr`, `cache` and
`mem` (`CRProven`), that any Deployment view that reads as rolled out, current or stale,
shows a proven image (`DeploymentProven`), and that pods that fully run an
image have been recorded (`PodsProven`). The key steps are `SyncProven` (the only
place `lastHealthy` changes), the rollback step (its target is
`lastHealthy`), and `ReportStatus`, where counts of pods become Deployment status.

The refinement needs one more invariant. A status write is computed from `mem`,
but the policy's `Judge` starts from the CR as it is; the two agree on images, last healthy
images, records and gate whenever the write is accepted (`CurrentCopies`: a copy
whose `resourceVersion` is current has the current ones). Then `StatusStepImages` says what
a status step does to the three fields, `ResolvedIsTarget` that the image a pass resolved is the
policy's `Target`, and `Provenance` that what was read as rolled out is proven;
together they make `FinishPass` a `Judge` step. User edits and operator releases are `Request`,
pods that come to run an image are `Prove`, all else stutters.

The window needs a fact about every copy and one about the CR. `Clocks`: a copy that says `Running`, in the API server, the
cache or the pass, has no clock, so an image asked for under `Running` starts from none, whichever copy a later
status write comes from. `WindowOpen`: for such an image the CR's clock is never older than `waited`. The pass that gives up
on it compares its own copy's clock with the timeout, which `CurrentCopies` makes the CR's when the write is accepted.

For the gate, `GateKnown` adds that after the agent's step the copy carries the verdict on its own
`minOperatorVersion`; with `CurrentCopies` it is the verdict on the CR the write lands on.
`RolledBackImageStaysOut` needs to know what copies from before a rollback record can
still do (`OldCopies`). One that would bring the given-up image back was read before the
record was written, so the Deployment has not left that image (`RetriesAreOld`); what
a pass applied stays in the Deployment until it ends (`AppliedStays`), so a record
is never made for a Deployment that shows something else; and a Helm Deployment
that is to be replaced has not been judged (`ForeignUnjudged`).

**Instances.** Series and grants of a deleted CR can only be left behind if the finalizer goes
before a cleanup, or a pass applies objects for a CR that has gone. `FinalizerHolds` says that any
copy in the informer's future that is live and has the finalizer is of the CR that exists,
which still has it; `PassKnows` carries that into the pass, through the conflict that a write from an old
copy meets; `SeriesHeld` and `CleanedUp` tie series and objects to it. Only the removal of a finalizer
after cleanup ends the claim, and there `CleanedUp` needs live reads of the objects.

Admission compares ages in a cached list. That an instance which is set up stays the
oldest in *every* list the cache may yet show is `Senior`; it is kept because UIDs and
timestamps are fresh (`FreshIdentity`) and because the log preserves the order of creation
(`Chronicle`): a list that lacks a later CR has only older ones. `PassFollows` brings
this to the pass, `SetUpSenior` and `HolderSenior` to CRs that are active or hold objects, and
`RejectedNotSetUp` and `RejectedNotHolder` to the pass that rejects one.

**PostgreSQL.** `DataMajorKept` speaks of the pod and its volume; the guard speaks of the StatefulSet.
`OneMajor` joins the three, and holds as long as the StatefulSet, once made, is never replaced
(`OneStatefulSet`). `Paired` lists the only ways in which data can be without a Secret: the volume is
going, or the deletion that took the Secret asked for the data to go and is not
done, so that the volume's deletion will be tried again.

**Optional parts.** `PolicyFirst` and `TokenFirst` say of what is *left* of a
pass that the object a later call needs exists, or its call comes first; they have to
be stated for every suffix because a pass breaks off anywhere.

**Login.** `OneClientSecret` says that, until somebody deletes the OAuth Secret, the informer's copy and the
OAuthClient hold the stored client secret or none: a lagging informer shows no secret rather than another
one, and a pass that then wants to create it fails, because it exists.

**Only model-checked:** everything "in the end": `BadImageReplaced`, `OutageReported`, `InstallCompletes`,
`ChosenIsSetUp`, `DeletionCompletes`, `RejectedLosesGrants`, `CredentialsAgree`, `RolloutUnblocked`,
`VolumeGrows`, `TeardownErasesData`, `TurnedOffIsRemoved`, `TurnedOnIsComplete`, `PreviewWorks`,
`AgentComesBack`, `SignInWorks`, `ConfigurationSettles`, `DetectionSettles`. They rest on fairness and
`ENABLED`, which the proof system does not handle.

## 5. Not modelled, and why

Object contents that nothing in the control flow reads: RBAC rules, the fixed part of nginx.conf, pod templates other than
image, hashes, restart annotation and mentions, probes, resources, security
contexts, the fixed NetworkPolicy rules. Objects that are created once and
never read again: service accounts, the agent's memory volume and Service, the UI's CA bundle.

Pod diagnosis (`deployment_selfheal.go:40-118`) and the version skew report (`skew.go`) are
pure functions whose result is the message of a condition no code acts on;
events and the values of metrics are output, also the five-minute interval between memory samples.
`cmd/main.go` wires controller-runtime; `zz_generated.deepcopy.go` is generated.
Time is a tick that ages `upgradeStartedAt`; requeue delays are fairness.

## 6. Where the code departs from its documentation

`upgrade_v_stalegate` is kept as a run because it loses rollback for good
without any failure: `setAgentVersionCompatibleCondition` is called only while
`spec.agent.minOperatorVersion` is set (`agent_reconciler.go:895`), so removing the
field leaves `AgentVersionCompatible=False`, and `reconcileAutoRollback` treats the agent as
gated from then on.

Each of the following is violated after one change to a listed configuration, and has a counterexample:

* `FullWindow`, in `upgrade_safe`: `upgradeStartedAt` is only set when nil (`status.go:99`), so an image set
  while another is being timed inherits its clock and is rolled back early. An image change "is given" `upgradeHealthTimeout`
  "to reach Ready" says its comment (`status.go:17`). `WindowFromRunning` is what does hold.
* `NoOrphans`, adding `"objlag"` to `instances_safe`: cleanup reads a grant's absence from a cache that
  has not seen the previous pass create it, and the finalizer goes (`openshiftpulse_controller.go:345`).
* `ExistingInstallKeepsWorking` and `ChosenKeepsGrants`, adding `"tie"` to `instances_safe`: timestamps have
  one-second resolution, and the name breaks the tie (`admission.go:84`), so a CR that is set up is rejected for one created after it.
* `DataMajorKept`, adding `"delete"` and a third edit to `postgres_changes`: the guard compares with the
  existing StatefulSet (`postgresql_reconciler.go:329`), and after deletion there is none though the data is kept.
* `NotMadeKept`, added to `features_safe`: a user's object under a part's name is adopted while the part is on and
  deleted with it, although "turning a feature off can never remove something the operator did not make"
  (`remove_helpers.go:16`).
* `ForeignKept`, added to `features_safe` together with `"lag"`: `deleteOwned` judges a cached copy and deletes by name (`remove_helpers.go:29`),
  so what a user made in place of the object it saw is deleted.
* `PreviewWorks`, adding `"fail"` to `features_safe`: the token is deleted before the
  agent drops it (`render_reconciler.go:131`); a pass lost in between and render on again leave the agent with the old token.
* `AgentReachable`, added to `login_converge`: the template's hash is that of the wanted text (`ui_reconciler.go:780`). A pod that
  starts while another text is stored (one rendered without the token because its read failed, or one a
  stale cached copy kept from being replaced) is not rolled when the right one is stored, because the hash
  is the same. `ConfigurationSettles` is what does hold, of the stored text and the template.
* `DetectionSettles`, adding `"misread"` to `login_converge`: only the Ingress read decides what is kept
  (`cluster_detect.go:114`). A failed read of the ImageStream or the ACM namespace is taken for
  absence and kept until the operator restarts, although "a transient API error [...] does not permanently cache a
  bad value" (`cluster_detect.go:43`).
* `TurnedOffIsRemoved`, toggling `"monitoring"` in `features_converge`: monitoring
  off removes nothing.
* `ConfigurationSettles` without `"ws" \in lost` and `SignInWorks` without `"oauth" \in lost`: rotating by
  deleting the Secret (`README.md:1029`) reaches nginx, which rolls with its
  configuration, and the OAuthClient, but neither the agent's template nor the proxy's has a hash of
  the Secret it reads. The agent keeps the old token and the proxy the old client secret until
  somebody restarts them. `pg-auth` is handled: its hash is part of the templates.

And these, which the models' actions show without a property of their own: `Degraded`
becomes `Installing` in the next pass over the same outage (`status.go:143`); the early
status flush leaves `Progressing` as it was; the stale-pod check can delete the
replacement of the pod it judged; a data volume deleted on request can be made again,
empty, by the StatefulSet before that is collected; Temporal's Service is created after the agent's environment names it.

## 7. Plan

Done: the five modules, the upgrade window, the rollback policy and its refinement, and a theorem for every invariant and
action property the runs check. Next:

1. `Instances` with `objlag`: what still holds of orphans when object caches lag (an object without its
   CR was created by the pass whose finalizer went next), and, with `tie`, that at most the CRs of one second compete.
2. `Postgres` with `delete`: `DataMajorKept` for as long as one StatefulSet lives.
3. The safety facts the convergence properties rest on, each as an invariant of its own:
   for `CredentialsAgree`, that a template whose hash is current was made from the current Secret;
   for `DeletionCompletes`, that a CR being deleted keeps a pass due.
