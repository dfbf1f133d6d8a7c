------------------------------ MODULE Postgres ------------------------------
(***************************************************************************)
(* The PostgreSQL part of a pass: the pg-auth Secret, the StatefulSet, its *)
(* pod and data volume, the connection Secret, and the agent that uses it. *)
(*                                                                         *)
(* The Secret and the volume outlive the CR unless it carries the          *)
(* delete-data annotation.  A StatefulSet pod reads the Secret when it     *)
(* starts and runs the data directory it finds, so credentials, templates  *)
(* and data can drift apart; the pass has to bring them together again.    *)
(***************************************************************************)
EXTENDS Integers

CONSTANTS
  Images,       \* PostgreSQL image references
  Major,        \* Major[i]: the server version image i really contains
  MajorInName,  \* the version pgMajorVersion finds in the reference, or 0
  StuckImages,  \* images whose pods stay Pending
  HelmImage,    \* the image of a StatefulSet left by Helm
  Sizes,        \* quantities storageSize may have; 1 is the default
  MaxPasswords, \* bound on passwords ever set
  MaxEdits,     \* bound on creations, edits and deletions of the CR
  MaxFaults,    \* bound on failures of the environment
  Events        \* which environment events the instance includes

ASSUME PostgresAssumption ==
  /\ Major \in [Images -> Nat \ {0}]
  /\ MajorInName \in [Images -> Nat]
  /\ StuckImages \subseteq Images /\ HelmImage \in Images
  /\ Sizes \subseteq Nat \ {0} /\ 1 \in Sizes
  /\ MaxPasswords \in Nat /\ MaxEdits \in Nat /\ MaxFaults \in Nat

BadSize == 0    \* a storageSize that is not a quantity

\* The CR: its UID (0 when there is none), and what the pass reads of it.
CRs == [uid : Nat, finalizer : BOOLEAN, deleting : BOOLEAN,
        deleteData : BOOLEAN, image : Images, size : Sizes \cup {BadSize}]

\* pg-auth: the password, 0 when there is none, and its keys: "new" are the
\* POSTGRESQL_* ones, "old" the POSTGRES_* ones, "none" neither.
Secrets == [pw : Nat, keys : {"absent", "new", "old", "none"}]
NoSecret == [pw |-> 0, keys |-> "absent"]
Keyless == [pw |-> 0, keys |-> "none"]

\* The StatefulSet: id 0 when there is none; foreign when its selector is not
\* the operator's; image and hash are the pod template.
StatefulSets == [id : Nat, owner : Nat, foreign : BOOLEAN, terminating : BOOLEAN,
                 image : Images, hash : Secrets, size : Sizes]
\* pod-0: the StatefulSet and template it was made from, the password the
\* server runs with, and whether it is over pgPendingPodStaleThreshold old.
Pods == [sts : Nat, image : Images, hash : Secrets, pw : Nat, aged : BOOLEAN,
         phase : {"None", "Pending", "Running", "Crash"}]
\* The data volume: major is 0 while the directory is empty; expands when its
\* storage class allows expansion.
Volumes == [exists : BOOLEAN, terminating : BOOLEAN, major : Nat, size : Sizes,
            expands : BOOLEAN]

NoCR == [uid |-> 0, finalizer |-> FALSE, deleting |-> FALSE,
         deleteData |-> FALSE, image |-> HelmImage, size |-> 1]
NoVolume == [exists |-> FALSE, terminating |-> FALSE, major |-> 0, size |-> 1,
             expands |-> TRUE]
NoPod == [sts |-> 0, image |-> HelmImage, hash |-> NoSecret, pw |-> 0,
          aged |-> FALSE, phase |-> "None"]
NoSTS == [id |-> 0, owner |-> 0, foreign |-> FALSE, terminating |-> FALSE,
          image |-> HelmImage, hash |-> NoSecret, size |-> 1]
NoConn == [owner |-> 0, pw |-> 0]
NotLoaded == -1                               \* no pod of the agent runs
NoAgent == [hash |-> NotLoaded, pw |-> NotLoaded]

\* A controller revision: the pod template, whichever StatefulSet has it.
Revisions == [known : BOOLEAN, image : Images, hash : Secrets]
NoRevision == [known |-> FALSE, image |-> HelmImage, hash |-> NoSecret]

VARIABLES
  cr, secret,
  secretSeen,  \* the informer's copy of the Secret
  sts,
  revision,    \* status.updateRevision in the informer's copy of it
  pod,
  podSeen,     \* the informer's copy of the pod
  volume,
  conn,        \* the connection Secret: owner UID and the URL's password
  agent,       \* the agent's template hash and the password its pod loaded
  pc, mem, password,   \* the running pass: step, its CR, its password
  nextPw, nextSTS, edits, faults

passVars == <<pc, mem, password>>
storeVars == <<secret, secretSeen, conn, agent>>
stsVars == <<sts, revision, pod, podSeen, volume>>
boundVars == <<nextPw, nextSTS, edits, faults>>
vars == <<cr, storeVars, stsVars, passVars, boundVars>>

-----------------------------------------------------------------------------
(* Objects and their cached copies                                         *)

WriteSecret(new) ==
  /\ secret' = new
  /\ secretSeen' = IF "lag" \in Events THEN secretSeen ELSE new

WritePod(new) ==
  /\ pod' = new
  /\ podSeen' = IF "lag" \in Events THEN podSeen ELSE new

\* The revision the StatefulSet controller reports for s; a new StatefulSet has
\* none yet.
revisionOf(s) ==
  IF s.id = 0 THEN NoRevision
  ELSE [known |-> TRUE, image |-> s.image, hash |-> s.hash]

WriteSTS(new) ==
  /\ sts' = new
  /\ revision' = IF "lag" \in Events THEN revision ELSE revisionOf(new)

EndPass == pc' = "idle" /\ mem' = NoCR /\ password' = 0

GoOn(step) == pc' = step /\ UNCHANGED <<mem, password>>

-----------------------------------------------------------------------------
(* The pass                                                                *)

\* A request for a CR that is gone.
NothingToDo == pc = "idle" /\ cr.uid = 0 /\ UNCHANGED vars

\* The first pass for a CR only adds its finalizer.
AddFinalizer ==
  /\ pc = "idle" /\ cr.uid # 0 /\ ~cr.finalizer
  /\ cr' = [cr EXCEPT !.finalizer = TRUE]
  /\ UNCHANGED <<storeVars, stsVars, passVars, boundVars>>

\* Mutant: the keys keep their old names.
migratedKeys_Kept(s) == s

\* The POSTGRES_* keys renamed, the password kept.
migratedKeys(s) == [s EXCEPT !.keys = "new"]

\* reconcilePGSecret, on the Secret as the cache has it: return the stored
\* password, empty when neither key is there, migrating the old key names, or
\* generate one.
ReconcileSecret ==
  /\ pc = "idle" /\ cr.finalizer /\ ~cr.deleting
  /\ \/ /\ secretSeen.keys \in {"new", "none"}
        /\ pc' = "sts" /\ mem' = cr /\ password' = secretSeen.pw
        /\ UNCHANGED <<secret, secretSeen, nextPw>>
     \/ /\ secretSeen.keys = "old"
        /\ IF secretSeen = secret
           THEN /\ WriteSecret(migratedKeys(secret))
                /\ pc' = "sts" /\ mem' = cr /\ password' = secretSeen.pw
           ELSE UNCHANGED <<secret, secretSeen>> /\ EndPass
        /\ UNCHANGED nextPw
     \/ /\ secretSeen = NoSecret /\ nextPw <= MaxPasswords
        /\ IF secret = NoSecret
           THEN /\ WriteSecret([pw |-> nextPw, keys |-> "new"])
                /\ pc' = "sts" /\ mem' = cr /\ password' = nextPw
                /\ nextPw' = nextPw + 1
           ELSE UNCHANGED <<secret, secretSeen, nextPw>> /\ EndPass
  /\ UNCHANGED <<cr, conn, agent, stsVars, nextSTS, edits, faults>>

\* Mutant: any image may replace the running one.
guardPGMajorVersion_Off(current, desired) == desired

\* guardPGMajorVersion: keep the running image when both references name a
\* version and the versions differ.
guardPGMajorVersion(current, desired) ==
  IF 0 \in {MajorInName[current], MajorInName[desired]}
     \/ MajorInName[current] = MajorInName[desired]
  THEN desired ELSE current

\* Mutant: the credentials are not part of the template.
pgCredentialHash_None(seen, unread) == NoSecret

\* pgCredentialHash: of the Secret the cache has, "" when there is none or it
\* cannot be read.
pgCredentialHash(seen, unread) == IF unread THEN NoSecret ELSE seen

\* Mutant: the volume keeps the size it was created with.
expandPGVolume_Never(v, size, refused) == v

\* Mutant: takes the requested size for an increment.
expandPGVolume_Adds(v, size, refused) ==
  IF v.exists THEN [v EXCEPT !.size = @ + size] ELSE v

\* expandPGVolume: grow only; an unparsable size was reported instead.  So is
\* an update the API server refuses, and the pass goes on.
expandPGVolume(v, size, refused) ==
  IF v.exists /\ size > v.size /\ v.expands /\ ~refused
  THEN [v EXCEPT !.size = size] ELSE v

\* Reads and writes of reconcilePGStatefulSet whose failure does not end the
\* pass.
passedOver == IF faults < MaxFaults
              THEN SUBSET ({"hash", "resize"} \cap Events) ELSE {{}}

\* reconcilePGStatefulSet.  A terminating one is waited for, a Helm one is
\* replaced, one controlled by a deleted CR's UID is an error.
ApplyStatefulSet(bad) ==
  LET hash == pgCredentialHash(secretSeen, "hash" \in bad)
  IN \/ /\ sts.id # 0 /\ sts.terminating
        /\ EndPass /\ UNCHANGED <<sts, revision, volume, nextSTS>>
     \/ /\ sts.id # 0 /\ ~sts.terminating /\ sts.foreign
        /\ WriteSTS(NoSTS)
        /\ EndPass /\ UNCHANGED <<volume, nextSTS>>
     \/ /\ sts.id # 0 /\ ~sts.terminating /\ ~sts.foreign
        /\ IF sts.owner \in {0, mem.uid}
           THEN /\ WriteSTS([sts EXCEPT !.owner = mem.uid,
                     !.image = guardPGMajorVersion(sts.image, mem.image),
                     !.hash = hash])
                /\ volume' = expandPGVolume(volume, mem.size, "resize" \in bad)
                /\ GoOn("pod")
           ELSE EndPass /\ UNCHANGED <<sts, revision, volume>>
        /\ UNCHANGED nextSTS
     \/ /\ sts.id = 0 /\ mem.size = BadSize
        /\ EndPass /\ UNCHANGED <<sts, revision, volume, nextSTS>>
     \/ /\ sts.id = 0 /\ mem.size # BadSize
        /\ WriteSTS([id |-> nextSTS, owner |-> mem.uid, foreign |-> FALSE,
                     terminating |-> FALSE, image |-> mem.image, hash |-> hash,
                     size |-> mem.size])
        /\ nextSTS' = nextSTS + 1
        /\ volume' = expandPGVolume(volume, mem.size, "resize" \in bad)
        /\ GoOn("pod")

ReconcileStatefulSet ==
  /\ pc = "sts"
  /\ \E bad \in passedOver :
       /\ ApplyStatefulSet(bad)
       /\ faults' = IF bad = {} THEN faults ELSE faults + 1
  /\ UNCHANGED <<cr, storeVars, pod, podSeen, nextPw, edits>>

\* p was made from the template the StatefulSet has now.
current(p) == p.sts = sts.id /\ p.image = sts.image /\ p.hash = sts.hash

\* Mutant: Pending pods are left alone.
isPGPodStale_Never(p, rev) == FALSE

\* rev is the revision the informer's StatefulSet reports, if any.
isPGPodStale(p, rev) ==
  /\ p.phase = "Pending" /\ p.aged
  /\ rev.known /\ (p.image # rev.image \/ p.hash # rev.hash)

\* deletePendingPGPodIfStale: decides on the cached pod and the cached
\* revision, deletes by name.
DeletePendingPodIfStale ==
  /\ pc = "pod"
  /\ IF isPGPodStale(podSeen, revision) THEN WritePod(NoPod)
     ELSE UNCHANGED <<pod, podSeen>>
  /\ GoOn("conn")
  /\ UNCHANGED <<cr, storeVars, sts, revision, volume, boundVars>>

\* The connection Secret: created with an owner, later only its URL is kept
\* in step.
connAfter(c, uid, pw) ==
  IF c = NoConn THEN [owner |-> uid, pw |-> pw] ELSE [c EXCEPT !.pw = pw]

ReconcileConnection ==
  /\ pc = "conn"
  /\ conn' = connAfter(conn, mem.uid, password)
  /\ GoOn("agent")
  /\ UNCHANGED <<cr, secret, secretSeen, agent, stsVars, boundVars>>

\* reconcileAgent: the template carries a hash of the URL; a change of it
\* restarts the pod.
ReconcileAgent ==
  /\ pc = "agent"
  /\ agent' = IF agent.hash = password THEN agent
              ELSE [hash |-> password, pw |-> NotLoaded]
  /\ EndPass
  /\ UNCHANGED <<cr, secret, secretSeen, conn, stsVars, boundVars>>

failures == IF "fail" \in Events /\ faults < MaxFaults
            THEN SUBSET {"secret", "volume"} ELSE {{}}

\* Mutant: the finalizer goes although the volume could not be deleted.
teardownDone_Partial(bad) == "secret" \notin bad

teardownDone(bad) == bad = {}

\* The deletion pass.  With the annotation, deletePGDataOnRequest deletes the
\* Secret and the volume, each of which may fail; then the CR is let go.
FinalizeCR ==
  /\ pc = "idle" /\ cr.deleting
  /\ \E bad \in IF cr.deleteData THEN failures ELSE {{}} :
       /\ IF cr.deleteData /\ "secret" \notin bad THEN WriteSecret(NoSecret)
          ELSE UNCHANGED <<secret, secretSeen>>
       /\ volume' = IF cr.deleteData /\ "volume" \notin bad /\ volume.exists
                    THEN IF pod.phase = "None" THEN NoVolume
                         ELSE [volume EXCEPT !.terminating = TRUE]
                    ELSE volume
       /\ cr' = IF teardownDone(bad) THEN NoCR ELSE cr
       /\ faults' = IF bad = {} THEN faults ELSE faults + 1
  /\ UNCHANGED <<conn, agent, sts, revision, pod, podSeen, passVars, nextPw, nextSTS,
                 edits>>

\* An API error or a restart ends the pass where it is.
PassFails ==
  /\ "fail" \in Events /\ faults < MaxFaults /\ pc # "idle"
  /\ EndPass
  /\ faults' = faults + 1
  /\ UNCHANGED <<cr, storeVars, stsVars, nextPw, nextSTS, edits>>

-----------------------------------------------------------------------------
(* Users                                                                   *)

CreateCR(i, s) ==
  /\ cr.uid = 0 /\ edits < MaxEdits
  /\ cr' = [NoCR EXCEPT !.uid = edits + 1, !.image = i, !.size = s]
  /\ edits' = edits + 1
  /\ UNCHANGED <<storeVars, stsVars, passVars, nextPw, nextSTS, faults>>

EditCR(new) ==
  /\ cr.uid # 0 /\ ~cr.deleting /\ new # cr /\ edits < MaxEdits
  /\ cr' = new
  /\ edits' = edits + 1
  /\ UNCHANGED <<storeVars, stsVars, passVars, nextPw, nextSTS, faults>>

\* Without a finalizer the CR is gone at once.
DeleteCR(data) ==
  /\ "delete" \in Events
  /\ EditCR(IF cr.finalizer
            THEN [cr EXCEPT !.deleting = TRUE, !.deleteData = data] ELSE NoCR)

\* Someone sets another password in pg-auth, drops its keys, or deletes it.
ChangeSecret(new) ==
  /\ "secret" \in Events /\ edits < MaxEdits
  /\ secret # NoSecret /\ new # secret
  /\ WriteSecret(new)
  /\ nextPw' = IF new.pw = 0 THEN nextPw ELSE nextPw + 1
  /\ edits' = edits + 1
  /\ UNCHANGED <<cr, conn, agent, stsVars, passVars, nextSTS, faults>>

-----------------------------------------------------------------------------
(* StatefulSet controller, kubelet, garbage collector, informers           *)

\* The storage class of the cluster, or of the day, may not allow expansion.
newVolumes ==
  {[NoVolume EXCEPT !.exists = TRUE, !.expands = e] :
     e \in IF "noexpand" \in Events THEN BOOLEAN ELSE {TRUE}}

CreatePod ==
  /\ sts.id # 0 /\ ~sts.terminating /\ pod.phase = "None" /\ ~volume.terminating
  /\ WritePod([NoPod EXCEPT !.sts = sts.id, !.image = sts.image, !.hash = sts.hash,
                 !.phase = "Pending"])
  /\ volume' \in IF volume.exists THEN {volume}
                 ELSE {[v EXCEPT !.size = sts.size] : v \in newVolumes}
  /\ UNCHANGED <<cr, storeVars, sts, revision, passVars, boundVars>>

\* The image initialises an empty directory, applies the Secret's password at
\* every start, and refuses a directory of another major version.
PodStarts ==
  /\ pod.phase = "Pending" /\ pod.image \notin StuckImages
  /\ secret.keys = "new"
  /\ IF volume.major \in {0, Major[pod.image]}
     THEN /\ WritePod([pod EXCEPT !.phase = "Running", !.pw = secret.pw])
          /\ volume' = [volume EXCEPT !.major = Major[pod.image]]
     ELSE WritePod([pod EXCEPT !.phase = "Crash"]) /\ UNCHANGED volume
  /\ UNCHANGED <<cr, storeVars, sts, revision, passVars, boundVars>>

PodAges ==
  /\ pod.phase = "Pending" /\ ~pod.aged
  /\ WritePod([pod EXCEPT !.aged = TRUE])
  /\ UNCHANGED <<cr, storeVars, sts, revision, volume, passVars, boundVars>>

\* A rolling update replaces the pod only once it runs.
RollPod ==
  /\ pod.phase = "Running" /\ pod.sts = sts.id /\ ~current(pod)
  /\ WritePod(NoPod)
  /\ UNCHANGED <<cr, storeVars, sts, revision, volume, passVars, boundVars>>

PodEvicted ==
  /\ "evict" \in Events /\ faults < MaxFaults
  /\ pod.phase = "Running"
  /\ WritePod(NoPod)
  /\ faults' = faults + 1
  /\ UNCHANGED <<cr, storeVars, sts, revision, volume, passVars, nextPw, nextSTS,
                 edits>>

CollectPod ==
  /\ pod.phase # "None" /\ pod.sts # sts.id
  /\ WritePod(NoPod)
  /\ UNCHANGED <<cr, storeVars, sts, revision, volume, passVars, boundVars>>

CollectVolume ==
  /\ volume.terminating /\ pod.phase = "None"
  /\ volume' = NoVolume
  /\ UNCHANGED <<cr, storeVars, sts, revision, pod, podSeen, passVars, boundVars>>

\* The StatefulSet goes with its CR, at once or after a foreground deletion.
CollectStatefulSet ==
  /\ sts.id # 0
  /\ sts.terminating \/ sts.owner \notin {0, cr.uid}
  /\ \/ WriteSTS(NoSTS)
     \/ ~sts.terminating /\ WriteSTS([sts EXCEPT !.terminating = TRUE])
  /\ UNCHANGED <<cr, storeVars, pod, podSeen, volume, passVars, boundVars>>

\* So do the connection Secret and, with it, the agent.
CollectConnection ==
  /\ conn # NoConn /\ conn.owner # cr.uid
  /\ conn' = NoConn /\ agent' = NoAgent
  /\ UNCHANGED <<cr, secret, secretSeen, stsVars, passVars, boundVars>>

AgentStarts ==
  /\ agent # NoAgent /\ agent.pw = NotLoaded /\ conn # NoConn
  /\ agent' = [agent EXCEPT !.pw = conn.pw]
  /\ UNCHANGED <<cr, secret, secretSeen, conn, stsVars, passVars, boundVars>>

SecretSync ==
  /\ secretSeen # secret /\ secretSeen' = secret
  /\ UNCHANGED <<cr, secret, conn, agent, stsVars, passVars, boundVars>>

PodSync ==
  /\ podSeen # pod /\ podSeen' = pod
  /\ UNCHANGED <<cr, storeVars, sts, revision, pod, volume, passVars, boundVars>>

\* The StatefulSet controller reports a revision, or the informer sees it.
RevisionSync ==
  /\ revision # revisionOf(sts) /\ revision' = revisionOf(sts)
  /\ UNCHANGED <<cr, storeVars, sts, pod, podSeen, volume, passVars, boundVars>>

-----------------------------------------------------------------------------

Empty ==
  /\ secret = NoSecret /\ sts = NoSTS /\ pod = NoPod /\ volume = NoVolume
  /\ nextPw = 1 /\ nextSTS = 1

\* A Helm release: its StatefulSet, pod, volume and Secret with the old keys.
HelmRelease ==
  /\ secret = [pw |-> 1, keys |-> "old"]
  /\ sts = [NoSTS EXCEPT !.id = 1, !.foreign = TRUE]
  /\ pod = [NoPod EXCEPT !.sts = 1, !.pw = 1, !.phase = "Running"]
  /\ volume \in {[v EXCEPT !.major = Major[HelmImage]] : v \in newVolumes}
  /\ nextPw = 2 /\ nextSTS = 2

Init ==
  /\ IF "helm" \in Events THEN HelmRelease ELSE Empty
  /\ cr = NoCR
  /\ secretSeen = secret /\ podSeen = pod /\ revision = revisionOf(sts)
  /\ conn = NoConn /\ agent = NoAgent
  /\ pc = "idle" /\ mem = NoCR /\ password = 0
  /\ edits = 0 /\ faults = 0

Pass ==
  \/ AddFinalizer \/ ReconcileSecret
  \/ ReconcileStatefulSet \/ DeletePendingPodIfStale
  \/ ReconcileConnection \/ ReconcileAgent \/ FinalizeCR

PodStep == CreatePod \/ PodStarts \/ RollPod \/ CollectVolume

Cluster ==
  \/ PodStep \/ PodAges \/ CollectPod
  \/ CollectStatefulSet \/ CollectConnection \/ AgentStarts
  \/ SecretSync \/ PodSync \/ RevisionSync

Users ==
  \/ \E i \in Images, s \in Sizes : CreateCR(i, s)
  \/ \E i \in Images : EditCR([cr EXCEPT !.image = i])
  \/ \E s \in Sizes \cup {BadSize} : EditCR([cr EXCEPT !.size = s])
  \/ \E data \in BOOLEAN : DeleteCR(data)
  \/ \E new \in {NoSecret, Keyless} \cup
                (IF nextPw <= MaxPasswords
                 THEN {[pw |-> nextPw, keys |-> "new"]} ELSE {}) :
       ChangeSecret(new)

Next == Pass \/ NothingToDo \/ Cluster \/ Users \/ PassFails \/ PodEvicted

Spec == Init /\ [][Next]_vars

\* Passes are requeued or retried; controllers, kubelet, garbage collector and
\* informers keep going.  No two steps of PodStep are enabled together, so each
\* of them is taken.
Fairness ==
  /\ WF_vars(Pass)
  /\ WF_vars(PodStep) /\ WF_vars(PodAges) /\ WF_vars(CollectPod)
  /\ WF_vars(CollectStatefulSet) /\ WF_vars(CollectConnection)
  /\ WF_vars(AgentStarts) /\ WF_vars(SecretSync) /\ WF_vars(PodSync)
  /\ WF_vars(RevisionSync)

FairSpec == Spec /\ Fairness

-----------------------------------------------------------------------------
(* Properties                                                              *)

\* The type invariant.
TypeOK ==
  /\ cr \in CRs /\ mem \in CRs
  /\ secret \in Secrets /\ secretSeen \in Secrets
  /\ sts \in StatefulSets /\ revision \in Revisions
  /\ pod \in Pods /\ podSeen \in Pods
  /\ volume \in Volumes
  /\ conn \in [owner : Nat, pw : Nat]
  /\ agent \in [hash : Nat \cup {NotLoaded}, pw : Nat \cup {NotLoaded}]
  /\ pc \in {"idle", "sts", "pod", "conn", "agent"}
  /\ password \in Nat
  /\ nextPw \in Nat /\ nextSTS \in Nat /\ edits \in Nat /\ faults \in Nat

\* The database, the Secret and the agent use one password.
Agree ==
  /\ pod.phase = "Running"
  /\ pod.pw = secret.pw /\ conn.pw = secret.pw /\ agent.pw = secret.pw

\* The credentials come together again after a rotated or deleted Secret, a
\* stale read of it, a failed pass, an eviction, an adopted Helm release or a
\* recreated CR (README, "{name}-pg-auth": "all three restart with it").  Only
\* an invalid storageSize on a CR without StatefulSet, a Secret left without
\* its keys, or an image that never starts, stops it.
CredentialsAgree ==
  <>[](/\ cr.uid # 0 /\ ~cr.deleting /\ (sts.id # 0 \/ cr.size # BadSize)
       /\ sts.image \notin StuckImages /\ secret.keys # "none")
    => <>[]Agree

\* No server is started on a data directory of another major version
\* (guardPGMajorVersion).
DataMajorKept == pod.phase # "Crash"

\* Data never outlives the credentials it is retained with (reconcilePGSecret,
\* "keeping data and credentials as a pair with the same lifetime"): once the
\* CR is gone, a data directory that stays has its Secret, and a torn-down
\* Secret leaves no data.
DataKeepsCredentials ==
  cr.uid = 0 /\ volume.major # 0 /\ ~volume.terminating => secret # NoSecret

\* A pod stuck Pending on an outdated template does not block the rollout
\* (deletePendingPGPodIfStale).
RolloutUnblocked ==
  (pod.phase = "Pending" /\ ~current(pod)) ~>
    (pod.phase # "Pending" \/ current(pod) \/ cr.uid = 0)

\* A volume whose storage class allows it follows an increase of storageSize
\* (expandPGVolume), whatever invalid sizes come in between, although an update
\* the API server refuses is passed over and the pass reports success.
VolumeGrows ==
  (cr.uid # 0 /\ volume.exists /\ volume.expands /\ cr.size > volume.size) ~>
    (~volume.exists \/ cr.size <= volume.size \/ cr.deleting)

\* Deleting a CR with the delete-data annotation erases its data in the end
\* (deletePGDataOnRequest), although the volume is deleted while the pod that
\* mounts it still runs and the volume can only go after it, and whatever CR is
\* created meanwhile.  A Helm StatefulSet no pass has replaced keeps its pod.
TeardownErasesData ==
  (cr.deleting /\ cr.deleteData /\ ~sts.foreign) ~> (volume.major = 0)

=============================================================================
