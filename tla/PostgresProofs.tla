--------------------------- MODULE PostgresProofs ---------------------------
(***************************************************************************)
(* Proofs about Postgres, for every set of images, sizes and events and    *)
(* all bounds: the data directory meets one major version of the server    *)
(* while its StatefulSet lives, and the retained data keeps its Secret.    *)
(***************************************************************************)
EXTENDS Postgres, TLAPS

USE PostgresAssumption

-----------------------------------------------------------------------------
(* The inductive invariants                                                *)

\* Nobody deletes the CR: the pass works on the one there is, and the
\* StatefulSet, once created, is its own.
OneStatefulSet ==
  /\ ~cr.deleting /\ (cr.finalizer => cr.uid # 0)
  /\ pc # "idle" => mem.uid = cr.uid /\ cr.uid # 0
  /\ sts.id # 0 => /\ sts.owner = cr.uid /\ cr.uid # 0
                   /\ ~sts.terminating /\ ~sts.foreign

\* Template, pod and data directory have one major version.
OneMajor ==
  /\ sts.id = 0 => pod.phase = "None" /\ volume.major = 0
  /\ sts.id # 0 => volume.major \in {0, Major[sts.image]}
  /\ pod.phase # "None" => Major[pod.image] = Major[sts.image]

\* Every Secret has a password.
SecretsHavePasswords ==
  /\ nextPw > 0
  /\ secret # NoSecret => secret.pw # 0

\* Only a CR that exists is being deleted, and data is on a volume, which is
\* there while a pod mounts it.
DataOnVolume ==
  /\ cr.deleting => cr.uid # 0
  /\ ~volume.exists => volume.major = 0
  /\ pod.phase # "None" => volume.exists

\* Without a Secret there is no data, or it is going, or the deletion that took
\* the Secret is not done.
Paired ==
  secret = NoSecret =>
    volume.major = 0 \/ volume.terminating \/ (cr.deleting /\ cr.deleteData)

-----------------------------------------------------------------------------
(* Lemmas about the operators                                              *)

\* The missing objects are objects, so all the actions that reset one do.
LEMMA MissingTypes ==
  /\ NoCR \in CRs /\ NoSecret \in Secrets /\ NoVolume \in Volumes
  /\ NoPod \in Pods /\ NoSTS \in StatefulSets /\ NoRevision \in Revisions
  /\ NoConn \in [owner : Nat, pw : Nat]
<1>1. NoCR \in CRs  BY DEF NoCR, CRs
<1>2. NoSecret \in Secrets  BY DEF NoSecret, Secrets
<1>3. NoVolume \in Volumes  BY DEF NoVolume, Volumes
<1>4. NoPod \in Pods  BY <1>2 DEF NoPod, Pods
<1>5. NoSTS \in StatefulSets  BY <1>2 DEF NoSTS, StatefulSets
<1>6. NoConn \in [owner : Nat, pw : Nat]  BY DEF NoConn
<1>7. NoRevision \in Revisions  BY <1>2 DEF NoRevision, Revisions
<1> QED  BY <1>1, <1>2, <1>3, <1>4, <1>5, <1>6, <1>7

\* A written Secret and the informer's copy of it are Secrets.
LEMMA WriteSecretType ==
  ASSUME TypeOK, NEW new \in Secrets, WriteSecret(new)
  PROVE  secret' \in Secrets /\ secretSeen' \in Secrets
BY DEF WriteSecret, TypeOK

\* A written pod and the informer's copy of it are pods.
LEMMA WritePodType ==
  ASSUME TypeOK, NEW new \in Pods, WritePod(new)
  PROVE  pod' \in Pods /\ podSeen' \in Pods
BY DEF WritePod, TypeOK

\* The revision of a StatefulSet is a revision.
LEMMA RevisionType ==
  ASSUME NEW s \in StatefulSets
  PROVE  revisionOf(s) \in Revisions
BY MissingTypes DEF revisionOf, Revisions, StatefulSets

\* A written StatefulSet and the revision known of it are well formed.
LEMMA WriteSTSType ==
  ASSUME TypeOK, NEW new \in StatefulSets, WriteSTS(new)
  PROVE  sts' \in StatefulSets /\ revision' \in Revisions
BY RevisionType DEF WriteSTS, TypeOK

\* A new volume is empty and has a size; the StatefulSet sets another.
LEMMA NewVolume ==
  ASSUME NEW v \in newVolumes
  PROVE  v \in Volumes /\ v.exists /\ v.major = 0
<1>1. PICK e \in BOOLEAN : v = [NoVolume EXCEPT !.exists = TRUE, !.expands = e]
  BY DEF newVolumes
<1> QED  BY <1>1, MissingTypes DEF NoVolume, Volumes

\* The volume is as it was, or has the size the CR asks for.
VolumeResized ==
  \/ UNCHANGED volume
  \/ mem.size > volume.size /\ volume' = [volume EXCEPT !.size = mem.size]

\* It grows to a size a CR may have, and its data stays.
LEMMA ResizedVolume ==
  ASSUME TypeOK, VolumeResized
  PROVE  /\ volume' \in Volumes
         /\ volume'.exists = volume.exists /\ volume'.major = volume.major
         /\ volume'.terminating = volume.terminating
<1>1. volume \in Volumes /\ mem.size \in Sizes \cup {BadSize}  BY DEF TypeOK, CRs
<1>2. CASE mem.size > volume.size /\ volume' = [volume EXCEPT !.size = mem.size]
  <2>1. volume.size \in Nat /\ volume.size # 0  BY <1>1 DEF Volumes
  <2>2. mem.size \in Sizes  BY <1>1, <1>2, <2>1 DEF BadSize
  <2> QED  BY <1>1, <1>2, <2>2 DEF Volumes
<1> QED  BY <1>1, <1>2 DEF VolumeResized

\* The guard lets an image replace the running one only if it is of the same
\* major version, when references name the version they contain.
LEMMA GuardKeepsMajor ==
  ASSUME NEW i \in Images, NEW j \in Images
  PROVE  /\ guardPGMajorVersion(i, j) \in Images
         /\ MajorInName = Major => Major[guardPGMajorVersion(i, j)] = Major[i]
BY DEF guardPGMajorVersion

\* What a pass makes of a StatefulSet it may update, and of a missing one; h is
\* the credentials' hash.
UpdatedSTS(h) ==
  [sts EXCEPT !.owner = mem.uid, !.image = guardPGMajorVersion(sts.image, mem.image),
              !.hash = h]
CreatedSTS(h) ==
  [id |-> nextSTS, owner |-> mem.uid, foreign |-> FALSE, terminating |-> FALSE,
   image |-> mem.image, hash |-> h, size |-> mem.size]

\* All that reconcilePGStatefulSet does.
LEMMA StatefulSetShape ==
  ASSUME ReconcileStatefulSet
  PROVE  /\ pc = "sts" /\ (EndPass \/ GoOn("pod"))
         /\ VolumeResized
         /\ \/ UNCHANGED <<sts, revision>>
            \/ sts.id # 0 /\ sts.foreign /\ WriteSTS(NoSTS)
            \/ \E h \in {NoSecret, secretSeen} :
                 \/ sts.id # 0 /\ WriteSTS(UpdatedSTS(h))
                 \/ sts.id = 0 /\ mem.size # BadSize /\ WriteSTS(CreatedSTS(h))
         /\ nextSTS' \in {nextSTS, nextSTS + 1} /\ faults' \in {faults, faults + 1}
         /\ UNCHANGED <<cr, storeVars, pod, podSeen, nextPw, edits>>
<1>1. PICK bad \in passedOver :
        ApplyStatefulSet(bad) /\ faults' = IF bad = {} THEN faults ELSE faults + 1
  BY DEF ReconcileStatefulSet
<1>2. EndPass \/ GoOn("pod")  BY <1>1, Zenon DEF ApplyStatefulSet
<1>3. volume' \in {volume, expandPGVolume(volume, mem.size, "resize" \in bad)}
  BY <1>1 DEF ApplyStatefulSet
<1>4. nextSTS' \in {nextSTS, nextSTS + 1}  BY <1>1 DEF ApplyStatefulSet
<1> DEFINE h == pgCredentialHash(secretSeen, "hash" \in bad)
<1>5. \/ UNCHANGED <<sts, revision>>
      \/ sts.id # 0 /\ sts.foreign /\ WriteSTS(NoSTS)
      \/ sts.id # 0 /\ WriteSTS(UpdatedSTS(h))
      \/ sts.id = 0 /\ mem.size # BadSize /\ WriteSTS(CreatedSTS(h))
  BY <1>1, Zenon DEF ApplyStatefulSet, UpdatedSTS, CreatedSTS
<1>6. h \in {NoSecret, secretSeen}  BY DEF pgCredentialHash
<1>8. VolumeResized  BY <1>3 DEF VolumeResized, expandPGVolume
<1> HIDE DEF h
<1>9. pc = "sts" /\ UNCHANGED <<cr, storeVars, pod, podSeen, nextPw, edits>>
  BY DEF ReconcileStatefulSet
<1> QED  BY <1>1, <1>2, <1>4, <1>5, <1>6, <1>8, <1>9

-----------------------------------------------------------------------------
(* Type correctness                                                        *)

\* The end of a pass keeps its variables well formed, and so does going on.
LEMMA PassType ==
  ASSUME TypeOK, EndPass \/ \E step \in {"idle", "sts", "pod", "conn", "agent"} : GoOn(step)
  PROVE  pc' \in {"idle", "sts", "pod", "conn", "agent"} /\ mem' \in CRs /\ password' \in Nat
BY MissingTypes DEF EndPass, GoOn, TypeOK

\* The pass keeps the variables well formed.
LEMMA PassTypeStep ==
  ASSUME TypeOK, Pass
  PROVE  TypeOK'
<1> USE DEF storeVars, stsVars, passVars, boundVars
<1>1. CASE AddFinalizer
  <2>1. cr' \in CRs  BY <1>1 DEF AddFinalizer, TypeOK, CRs
  <2> QED  BY <1>1, <2>1 DEF AddFinalizer, TypeOK
<1>2. CASE ReconcileSecret
  <2>t. cr \in CRs /\ secret \in Secrets /\ secretSeen \in Secrets /\ nextPw \in Nat
    BY DEF TypeOK
  <2>1. \/ UNCHANGED <<secret, secretSeen>>
        \/ WriteSecret(migratedKeys(secret))
        \/ WriteSecret([pw |-> nextPw, keys |-> "new"])
    BY <1>2 DEF ReconcileSecret
  <2>2. migratedKeys(secret) \in Secrets /\ [pw |-> nextPw, keys |-> "new"] \in Secrets
    BY <2>t DEF migratedKeys, Secrets
  <2>3. secret' \in Secrets /\ secretSeen' \in Secrets
    BY <2>t, <2>1, <2>2, WriteSecretType
  <2>4. nextPw' \in Nat  BY <2>t, <1>2 DEF ReconcileSecret
  <2>5. EndPass \/ (pc' = "sts" /\ mem' = cr /\ password' \in {secretSeen.pw, nextPw})
    BY <1>2 DEF ReconcileSecret
  <2>6. pc' \in {"idle", "sts", "pod", "conn", "agent"} /\ mem' \in CRs /\ password' \in Nat
    <3>1. secretSeen.pw \in Nat  BY <2>t DEF Secrets
    <3> QED  BY <2>t, <2>5, <3>1, PassType
  <2>7. UNCHANGED <<cr, conn, agent, stsVars, nextSTS, edits, faults>>
    BY <1>2 DEF ReconcileSecret
  <2> QED  BY <2>3, <2>4, <2>6, <2>7 DEF TypeOK
<1>3. CASE ReconcileStatefulSet
  <2>t. /\ sts \in StatefulSets /\ mem \in CRs /\ volume \in Volumes /\ nextSTS \in Nat
        /\ secretSeen \in Secrets
    BY DEF TypeOK
  <2>2. pc' \in {"idle", "sts", "pod", "conn", "agent"} /\ mem' \in CRs /\ password' \in Nat
    BY <1>3, StatefulSetShape, PassType
  <2>4. volume' \in Volumes
    BY <1>3, StatefulSetShape, ResizedVolume
  <2>5. nextSTS' \in {nextSTS, nextSTS + 1} /\ faults' \in {faults, faults + 1}
    BY <1>3, StatefulSetShape
  <2>6. sts' \in StatefulSets /\ revision' \in Revisions
    <3>0. /\ mem.uid \in Nat /\ mem.image \in Images /\ sts.image \in Images
          /\ mem.size # BadSize => mem.size \in Sizes
      BY <2>t DEF CRs, StatefulSets
    <3>1. guardPGMajorVersion(sts.image, mem.image) \in Images
      BY <3>0, GuardKeepsMajor
    <3>2. ASSUME NEW h \in {NoSecret, secretSeen}, WriteSTS(UpdatedSTS(h))
          PROVE  sts' \in StatefulSets /\ revision' \in Revisions
      <4>1. UpdatedSTS(h) \in StatefulSets
        BY <2>t, <3>0, <3>1, MissingTypes DEF UpdatedSTS, StatefulSets
      <4> QED  BY <3>2, <4>1, WriteSTSType
    <3>3. ASSUME NEW h \in {NoSecret, secretSeen}, mem.size # BadSize, WriteSTS(CreatedSTS(h))
          PROVE  sts' \in StatefulSets /\ revision' \in Revisions
      <4>1. CreatedSTS(h) \in StatefulSets
        BY <2>t, <3>0, <3>3, MissingTypes DEF CreatedSTS, StatefulSets
      <4> QED  BY <3>3, <4>1, WriteSTSType
    <3>4. CASE WriteSTS(NoSTS)  BY <3>4, MissingTypes, WriteSTSType
    <3>5. CASE UNCHANGED <<sts, revision>>  BY <3>5 DEF TypeOK
    <3> QED  BY <1>3, <3>2, <3>3, <3>4, <3>5, StatefulSetShape
  <2>7. UNCHANGED <<cr, storeVars, pod, podSeen, nextPw, edits>>
    BY <1>3, StatefulSetShape
  <2> QED  BY <2>t, <2>2, <2>4, <2>5, <2>6, <2>7 DEF TypeOK
<1>4. CASE DeletePendingPodIfStale
  <2>1. pod' \in Pods /\ podSeen' \in Pods
    BY <1>4, MissingTypes, WritePodType DEF DeletePendingPodIfStale, TypeOK
  <2>2. pc' \in {"idle", "sts", "pod", "conn", "agent"} /\ mem' \in CRs /\ password' \in Nat
    BY <1>4, PassType DEF DeletePendingPodIfStale
  <2> QED  BY <1>4, <2>1, <2>2 DEF DeletePendingPodIfStale, TypeOK
<1>5. CASE ReconcileConnection
  <2>1. conn' \in [owner : Nat, pw : Nat]
    BY <1>5 DEF ReconcileConnection, connAfter, TypeOK, CRs
  <2>2. pc' \in {"idle", "sts", "pod", "conn", "agent"} /\ mem' \in CRs /\ password' \in Nat
    BY <1>5, PassType DEF ReconcileConnection
  <2> QED  BY <1>5, <2>1, <2>2 DEF ReconcileConnection, TypeOK
<1>6. CASE ReconcileAgent
  <2>1. agent' \in [hash : Nat \cup {NotLoaded}, pw : Nat \cup {NotLoaded}]
    BY <1>6 DEF ReconcileAgent, TypeOK
  <2>2. pc' \in {"idle", "sts", "pod", "conn", "agent"} /\ mem' \in CRs /\ password' \in Nat
    BY <1>6, PassType DEF ReconcileAgent
  <2> QED  BY <1>6, <2>1, <2>2 DEF ReconcileAgent, TypeOK
<1>7. CASE FinalizeCR
  <2>1. secret' \in Secrets /\ secretSeen' \in Secrets
    BY <1>7, MissingTypes, WriteSecretType DEF FinalizeCR, TypeOK
  <2>2. volume' \in Volumes
    <3>1. [volume EXCEPT !.terminating = TRUE] \in Volumes  BY DEF TypeOK, Volumes
    <3>2. volume' \in {volume, NoVolume, [volume EXCEPT !.terminating = TRUE]}
      BY <1>7 DEF FinalizeCR
    <3> QED  BY <3>1, <3>2, MissingTypes DEF TypeOK
  <2>3. cr' \in CRs  BY <1>7, MissingTypes DEF FinalizeCR, TypeOK
  <2>4. faults' \in Nat  BY <1>7 DEF FinalizeCR, TypeOK
  <2>5. UNCHANGED <<conn, agent, sts, revision, pod, podSeen, passVars, nextPw, nextSTS,
                   edits>>
    BY <1>7 DEF FinalizeCR
  <2> QED  BY <2>1, <2>2, <2>3, <2>4, <2>5 DEF TypeOK
<1> QED  BY <1>1, <1>2, <1>3, <1>4, <1>5, <1>6, <1>7 DEF Pass


\* So do the cluster's controllers and informers.
LEMMA ClusterTypeStep ==
  ASSUME TypeOK, Cluster \/ PodEvicted
  PROVE  TypeOK'
<1> USE DEF storeVars, stsVars, passVars, boundVars
<1>t. sts \in StatefulSets /\ pod \in Pods /\ volume \in Volumes /\ secret \in Secrets
  BY DEF TypeOK
<1>1. CASE CreatePod
  <2>1. [NoPod EXCEPT !.sts = sts.id, !.image = sts.image, !.hash = sts.hash,
                      !.phase = "Pending"] \in Pods
    BY <1>t, MissingTypes DEF Pods, StatefulSets
  <2>2. pod' \in Pods /\ podSeen' \in Pods  BY <1>1, <2>1, WritePodType DEF CreatePod
  <2>3. \A v \in newVolumes : [v EXCEPT !.size = sts.size] \in Volumes
    BY <1>t, NewVolume DEF Volumes, StatefulSets
  <2>4. volume' \in Volumes  BY <1>t, <1>1, <2>3 DEF CreatePod
  <2> QED  BY <1>1, <2>2, <2>4 DEF CreatePod, TypeOK
<1>2. CASE PodStarts
  <2>1. /\ [pod EXCEPT !.phase = "Running", !.pw = secret.pw] \in Pods
        /\ [pod EXCEPT !.phase = "Crash"] \in Pods
    BY <1>t DEF Pods, Secrets
  <2>2. pod' \in Pods /\ podSeen' \in Pods  BY <1>2, <2>1, WritePodType DEF PodStarts
  <2>3. [volume EXCEPT !.major = Major[pod.image]] \in Volumes
    BY <1>t DEF Volumes, Pods
  <2>4. volume' \in Volumes  BY <1>t, <1>2, <2>3 DEF PodStarts
  <2> QED  BY <1>2, <2>2, <2>4 DEF PodStarts, TypeOK
<1>3. CASE PodAges
  <2>1. [pod EXCEPT !.aged = TRUE] \in Pods  BY <1>t DEF Pods
  <2>2. pod' \in Pods /\ podSeen' \in Pods  BY <1>3, <2>1, WritePodType DEF PodAges
  <2> QED  BY <1>3, <2>2 DEF PodAges, TypeOK
<1>4. CASE RollPod \/ CollectPod \/ PodEvicted
  <2>1. WritePod(NoPod)  BY <1>4 DEF RollPod, CollectPod, PodEvicted
  <2>2. pod' \in Pods /\ podSeen' \in Pods  BY <2>1, MissingTypes, WritePodType
  <2>3. faults' \in {faults, faults + 1}  BY <1>4 DEF RollPod, CollectPod, PodEvicted
  <2>4. UNCHANGED <<cr, storeVars, sts, revision, volume, passVars, nextPw, nextSTS, edits>>
    BY <1>4 DEF RollPod, CollectPod, PodEvicted
  <2> QED  BY <2>2, <2>3, <2>4 DEF TypeOK
<1>5. CASE CollectVolume
  BY <1>5, MissingTypes DEF CollectVolume, TypeOK
<1>6. CASE CollectStatefulSet
  <2>1. [sts EXCEPT !.terminating = TRUE] \in StatefulSets  BY <1>t DEF StatefulSets
  <2>2. WriteSTS(NoSTS) \/ WriteSTS([sts EXCEPT !.terminating = TRUE])
    BY <1>6 DEF CollectStatefulSet
  <2>3. sts' \in StatefulSets /\ revision' \in Revisions
    BY <2>1, <2>2, MissingTypes, WriteSTSType
  <2> QED  BY <1>6, <2>3 DEF CollectStatefulSet, TypeOK
<1>7. CASE CollectConnection
  BY <1>7, MissingTypes DEF CollectConnection, NoAgent, TypeOK
<1>8. CASE AgentStarts
  <2>1. agent' \in [hash : Nat \cup {NotLoaded}, pw : Nat \cup {NotLoaded}]
    BY <1>8 DEF AgentStarts, TypeOK
  <2> QED  BY <1>8, <2>1 DEF AgentStarts, TypeOK
<1>9. CASE SecretSync \/ PodSync \/ RevisionSync
  BY <1>t, <1>9, RevisionType DEF SecretSync, PodSync, RevisionSync, TypeOK
<1> QED  BY <1>1, <1>2, <1>3, <1>4, <1>5, <1>6, <1>7, <1>8, <1>9 DEF Cluster, PodStep

\* What users make of the CR.
Created(new) ==
  /\ cr.uid = 0
  /\ \E i \in Images, s \in Sizes :
       new = [NoCR EXCEPT !.uid = edits + 1, !.image = i, !.size = s]
Changed(new) ==
  /\ cr.uid # 0 /\ ~cr.deleting
  /\ \/ \E i \in Images : new = [cr EXCEPT !.image = i]
     \/ \E s \in Sizes \cup {BadSize} : new = [cr EXCEPT !.size = s]
Deleted(new) ==
  /\ "delete" \in Events /\ cr.uid # 0 /\ ~cr.deleting
  /\ \/ new = NoCR
     \/ \E data \in BOOLEAN : new = [cr EXCEPT !.deleting = TRUE, !.deleteData = data]

\* What they do to the CR and to the Secret.
UserEdits ==
  /\ Created(cr') \/ Changed(cr') \/ Deleted(cr')
  /\ edits' = edits + 1
  /\ UNCHANGED <<storeVars, stsVars, passVars, nextPw, nextSTS, faults>>

UserSecrets ==
  /\ "secret" \in Events
  /\ \E new \in {NoSecret, Keyless, [pw |-> nextPw, keys |-> "new"]} : WriteSecret(new)
  /\ nextPw' \in {nextPw, nextPw + 1}
  /\ edits' = edits + 1
  /\ UNCHANGED <<cr, conn, agent, stsVars, passVars, nextSTS, faults>>

\* That is all they do.
LEMMA UsersEdit ==
  ASSUME Users
  PROVE  UserEdits \/ UserSecrets
<1>1. ASSUME NEW i \in Images, NEW s \in Sizes, CreateCR(i, s) PROVE UserEdits
  BY <1>1 DEF CreateCR, UserEdits, Created
<1>2. ASSUME NEW i \in Images, EditCR([cr EXCEPT !.image = i]) PROVE UserEdits
  BY <1>2 DEF EditCR, UserEdits, Changed
<1>3. ASSUME NEW s \in Sizes \cup {BadSize}, EditCR([cr EXCEPT !.size = s])
      PROVE  UserEdits
  BY <1>3 DEF EditCR, UserEdits, Changed
<1>4. ASSUME NEW data \in BOOLEAN, DeleteCR(data) PROVE UserEdits
  BY <1>4 DEF DeleteCR, EditCR, UserEdits, Deleted
<1>5. ASSUME NEW new \in {NoSecret, Keyless, [pw |-> nextPw, keys |-> "new"]}, ChangeSecret(new)
      PROVE  UserSecrets
  BY <1>5 DEF ChangeSecret, UserSecrets
<1> QED  BY <1>1, <1>2, <1>3, <1>4, <1>5 DEF Users

\* And it keeps the variables well formed.
LEMMA UsersTypeStep ==
  ASSUME TypeOK, Users
  PROVE  TypeOK'
<1> USE DEF storeVars, stsVars, passVars, boundVars
<1>t. cr \in CRs /\ edits \in Nat /\ nextPw \in Nat  BY DEF TypeOK
<1>1. CASE UserEdits
  <2>1. cr' \in CRs
    <3>1. CASE Created(cr')
      <4>1. PICK i \in Images, s \in Sizes :
              cr' = [NoCR EXCEPT !.uid = edits + 1, !.image = i, !.size = s]
        BY <3>1 DEF Created
      <4>2. edits + 1 \in Nat  BY <1>t
      <4> QED  BY <4>1, <4>2, MissingTypes DEF CRs
    <3>2. CASE Changed(cr')
      <4>1. CASE \E i \in Images : cr' = [cr EXCEPT !.image = i]
        <5>1. PICK i \in Images : cr' = [cr EXCEPT !.image = i]  BY <4>1
        <5> QED  BY <1>t, <5>1 DEF CRs
      <4>2. CASE \E s \in Sizes \cup {BadSize} : cr' = [cr EXCEPT !.size = s]
        <5>1. PICK s \in Sizes \cup {BadSize} : cr' = [cr EXCEPT !.size = s]  BY <4>2
        <5> QED  BY <1>t, <5>1 DEF CRs
      <4> QED  BY <3>2, <4>1, <4>2 DEF Changed
    <3>3. CASE Deleted(cr')
      <4>1. CASE cr' = NoCR  BY <4>1, MissingTypes
      <4>2. CASE cr' # NoCR
        <5>1. PICK data \in BOOLEAN :
                cr' = [cr EXCEPT !.deleting = TRUE, !.deleteData = data]
          BY <3>3, <4>2 DEF Deleted
        <5> QED  BY <1>t, <5>1 DEF CRs
      <4> QED  BY <4>1, <4>2
    <3> QED  BY <1>1, <3>1, <3>2, <3>3 DEF UserEdits
  <2>2. edits' \in Nat /\ UNCHANGED <<storeVars, stsVars, passVars, nextPw, nextSTS, faults>>
    BY <1>t, <1>1 DEF UserEdits
  <2> QED  BY <2>1, <2>2 DEF TypeOK
<1>2. CASE UserSecrets
  <2>1. /\ NoSecret \in Secrets /\ Keyless \in Secrets
        /\ [pw |-> nextPw, keys |-> "new"] \in Secrets
    BY <1>t, MissingTypes DEF Secrets, Keyless
  <2>2. secret' \in Secrets /\ secretSeen' \in Secrets
    BY <1>2, <2>1, WriteSecretType DEF UserSecrets
  <2>3. nextPw' \in Nat /\ edits' \in Nat
        /\ UNCHANGED <<cr, conn, agent, stsVars, passVars, nextSTS, faults>>
    BY <1>t, <1>2 DEF UserSecrets
  <2> QED  BY <2>2, <2>3 DEF TypeOK
<1> QED  BY <1>1, <1>2, UsersEdit

\* Every step keeps the variables well formed.
LEMMA TypeStep == TypeOK /\ [Next]_vars => TypeOK'
<1> SUFFICES ASSUME TypeOK, [Next]_vars PROVE TypeOK'  OBVIOUS
<1> USE DEF storeVars, stsVars, passVars, boundVars
<1>1. CASE UNCHANGED vars \/ NothingToDo  BY <1>1 DEF vars, NothingToDo, TypeOK
<1>2. CASE PassFails
  <2>1. pc' \in {"idle", "sts", "pod", "conn", "agent"} /\ mem' \in CRs /\ password' \in Nat
    BY <1>2, PassType DEF PassFails
  <2> QED  BY <1>2, <2>1 DEF PassFails, TypeOK
<1> QED
  BY <1>1, <1>2, PassTypeStep, ClusterTypeStep, UsersTypeStep DEF Next

\* Type correctness: CR, Secrets, StatefulSet, pod and volume stay well formed,
\* from an empty namespace or from a Helm release.
THEOREM TypeCorrect == Spec => []TypeOK
<1>1. Init => TypeOK
  <2> SUFFICES ASSUME Init PROVE TypeOK  OBVIOUS
  <2>0. /\ \A s \in StatefulSets : revisionOf(s) \in Revisions
        /\ NoAgent \in [hash : Nat \cup {NotLoaded}, pw : Nat \cup {NotLoaded}]
    BY RevisionType DEF NoAgent
  <2>1. CASE Empty
    BY <2>1, <2>0, MissingTypes DEF Init, Empty, TypeOK
  <2>2. CASE HelmRelease
    <3>1. secret \in Secrets  BY <2>2 DEF HelmRelease, Secrets
    <3>2. sts \in StatefulSets  BY <2>2, MissingTypes DEF HelmRelease, StatefulSets
    <3>3. pod \in Pods  BY <2>2, MissingTypes DEF HelmRelease, Pods
    <3>4. volume \in Volumes  BY <2>2, NewVolume DEF HelmRelease, Volumes
    <3> QED  BY <2>0, <2>2, <3>1, <3>2, <3>3, <3>4, MissingTypes DEF Init, HelmRelease, TypeOK
  <2> QED  BY <2>1, <2>2 DEF Init
<1> QED  BY <1>1, TypeStep, PTL DEF Spec


-----------------------------------------------------------------------------
(* One major version                                                       *)

\* While nobody deletes the CR and no Helm StatefulSet is adopted, a pass updates
\* the StatefulSet there is or creates the one that is missing.
LEMMA StatefulSetPass ==
  ASSUME TypeOK, OneStatefulSet, ReconcileStatefulSet
  PROVE  /\ pc = "sts" /\ UNCHANGED <<cr, pod>> /\ volume'.major = volume.major
         /\ EndPass \/ GoOn("pod")
         /\ \/ sts' = sts
            \/ \E h \in {NoSecret, secretSeen} :
                 \/ sts.id # 0 /\ sts' = UpdatedSTS(h)
                 \/ sts.id = 0 /\ sts' = CreatedSTS(h)
<1>3. volume'.major = volume.major  BY StatefulSetShape, ResizedVolume
<1>4. sts.id # 0 => ~sts.foreign  BY DEF OneStatefulSet
<1>5. \/ sts' = sts
      \/ \E h \in {NoSecret, secretSeen} :
           \/ sts.id # 0 /\ sts' = UpdatedSTS(h)
           \/ sts.id = 0 /\ sts' = CreatedSTS(h)
  BY <1>4, StatefulSetShape, Zenon DEF WriteSTS
<1> QED  BY <1>3, <1>5, StatefulSetShape

\* Every step keeps the one StatefulSet of the CR.
LEMMA OneStatefulSetStep ==
  ASSUME TypeOK, OneStatefulSet, "delete" \notin Events, [Next]_vars
  PROVE  OneStatefulSet'
<1> USE DEF storeVars, stsVars, passVars, boundVars
<1>t. cr \in CRs /\ edits \in Nat /\ sts \in StatefulSets  BY DEF TypeOK
<1>0. ASSUME UNCHANGED <<cr, sts>>, EndPass \/ (mem' = mem /\ (pc' # "idle" => pc # "idle"))
      PROVE  OneStatefulSet'
  BY <1>0 DEF OneStatefulSet, EndPass
<1>1. CASE AddFinalizer
  <2>1. /\ cr'.uid = cr.uid /\ cr'.deleting = cr.deleting
        /\ UNCHANGED <<sts, mem, pc>> /\ cr.uid # 0
    BY <1>t, <1>1 DEF AddFinalizer, CRs
  <2> QED  BY <2>1 DEF OneStatefulSet
<1>2. CASE ReconcileSecret
  <2>1. EndPass \/ (pc' = "sts" /\ mem' = cr)  BY <1>2 DEF ReconcileSecret
  <2>2. UNCHANGED <<cr, sts>> /\ cr.finalizer /\ pc = "idle"  BY <1>2 DEF ReconcileSecret
  <2> QED  BY <2>1, <2>2 DEF OneStatefulSet, EndPass
<1>3. CASE ReconcileStatefulSet
  <2>1. /\ pc = "sts" /\ UNCHANGED cr
        /\ EndPass \/ GoOn("pod")
        /\ \/ sts' = sts
           \/ \E h \in {NoSecret, secretSeen} :
                \/ sts.id # 0 /\ sts' = UpdatedSTS(h)
                \/ sts.id = 0 /\ sts' = CreatedSTS(h)
    BY <1>3, StatefulSetPass
  <2>2. mem.uid = cr.uid /\ cr.uid # 0  BY <2>1 DEF OneStatefulSet
  <2>3. ASSUME NEW h, sts.id # 0, sts' = UpdatedSTS(h) PROVE OneStatefulSet'
    <3>1. /\ sts'.owner = cr.uid /\ sts'.terminating = sts.terminating
          /\ sts'.foreign = sts.foreign
      BY <1>t, <2>2, <2>3 DEF UpdatedSTS, StatefulSets
    <3> QED  BY <2>1, <2>2, <2>3, <3>1 DEF OneStatefulSet, EndPass, GoOn
  <2>4. ASSUME NEW h, sts' = CreatedSTS(h) PROVE OneStatefulSet'
    <3>1. sts'.owner = cr.uid /\ ~sts'.terminating /\ ~sts'.foreign
      BY <2>2, <2>4 DEF CreatedSTS
    <3> QED  BY <2>1, <2>2, <3>1 DEF OneStatefulSet, EndPass, GoOn
  <2>5. CASE sts' = sts  BY <2>1, <2>2, <2>5 DEF OneStatefulSet, EndPass, GoOn
  <2> QED  BY <2>1, <2>3, <2>4, <2>5
<1>4. CASE DeletePendingPodIfStale \/ ReconcileConnection \/ ReconcileAgent \/ PassFails
  BY <1>0, <1>4
  DEF DeletePendingPodIfStale, ReconcileConnection, ReconcileAgent, PassFails, GoOn
<1>5. ASSUME FinalizeCR PROVE FALSE  BY <1>5 DEF FinalizeCR, OneStatefulSet
<1>6. CASE CreatePod \/ PodStarts \/ PodAges \/ RollPod \/ CollectPod \/ PodEvicted
  BY <1>0, <1>6 DEF CreatePod, PodStarts, PodAges, RollPod, CollectPod, PodEvicted
<1>7. CASE CollectVolume \/ CollectConnection \/ AgentStarts \/ SecretSync \/ PodSync \/ RevisionSync
  BY <1>0, <1>7 DEF CollectVolume, CollectConnection, AgentStarts, SecretSync, PodSync,
                   RevisionSync
<1>8. ASSUME CollectStatefulSet PROVE FALSE
  BY <1>8 DEF CollectStatefulSet, OneStatefulSet
<1>9. CASE UserEdits
  <2>1. UNCHANGED <<sts, pc, mem>>  BY <1>9 DEF UserEdits
  <2>2. CASE Created(cr')
    <3>1. PICK i \in Images, s \in Sizes :
            cr' = [NoCR EXCEPT !.uid = edits + 1, !.image = i, !.size = s]
      BY <2>2 DEF Created
    <3>2. ~cr'.deleting /\ ~cr'.finalizer  BY <3>1 DEF NoCR
    <3>3. pc = "idle" /\ sts.id = 0  BY <2>2 DEF Created, OneStatefulSet
    <3> QED  BY <2>1, <3>2, <3>3 DEF OneStatefulSet
  <2>3. CASE Changed(cr')
    <3>1. cr'.uid = cr.uid /\ cr'.deleting = cr.deleting /\ cr'.finalizer = cr.finalizer
      <4>1. CASE \E i \in Images : cr' = [cr EXCEPT !.image = i]
        <5>1. PICK i \in Images : cr' = [cr EXCEPT !.image = i]  BY <4>1
        <5> QED  BY <1>t, <5>1 DEF CRs
      <4>2. CASE \E s \in Sizes \cup {BadSize} : cr' = [cr EXCEPT !.size = s]
        <5>1. PICK s \in Sizes \cup {BadSize} : cr' = [cr EXCEPT !.size = s]  BY <4>2
        <5> QED  BY <1>t, <5>1 DEF CRs
      <4> QED  BY <2>3, <4>1, <4>2 DEF Changed
    <3> QED  BY <2>1, <3>1 DEF OneStatefulSet
  <2>4. ~Deleted(cr')  BY DEF Deleted
  <2> QED  BY <1>9, <2>2, <2>3, <2>4 DEF UserEdits
<1>10. CASE UserSecrets \/ UNCHANGED vars \/ NothingToDo
  BY <1>0, <1>10 DEF UserSecrets, vars, NothingToDo
<1> QED
  BY <1>1, <1>2, <1>3, <1>4, <1>5, <1>6, <1>7, <1>8, <1>9, <1>10, UsersEdit
  DEF Next, Pass, Cluster, PodStep

\* Every step keeps template, pod and data directory at one major version.
LEMMA OneMajorStep ==
  ASSUME TypeOK, OneStatefulSet, OneMajor, DataMajorKept, "delete" \notin Events,
         MajorInName = Major, [Next]_vars
  PROVE  OneMajor' /\ DataMajorKept'
<1> USE DEF storeVars, stsVars, passVars, boundVars
<1>t. /\ sts \in StatefulSets /\ pod \in Pods /\ volume \in Volumes /\ mem \in CRs
  BY DEF TypeOK
<1>i. sts.image \in Images /\ mem.image \in Images /\ pod.image \in Images
  BY <1>t DEF StatefulSets, CRs, Pods
<1>0. ASSUME UNCHANGED <<sts, volume>>, pod' \in {pod, NoPod}
      PROVE  OneMajor' /\ DataMajorKept'
  BY <1>0 DEF OneMajor, DataMajorKept, NoPod
<1>1. CASE ReconcileStatefulSet
  <2>1. /\ UNCHANGED pod /\ volume'.major = volume.major
        /\ \/ sts' = sts
           \/ \E h \in {NoSecret, secretSeen} :
                \/ sts.id # 0 /\ sts' = UpdatedSTS(h)
                \/ sts.id = 0 /\ sts' = CreatedSTS(h)
    BY <1>1, StatefulSetPass
  <2>2. CASE sts' = sts  BY <2>1, <2>2 DEF OneMajor, DataMajorKept
  <2>3. ASSUME NEW h, sts.id # 0, sts' = UpdatedSTS(h) PROVE OneMajor' /\ DataMajorKept'
    <3>1. sts'.id = sts.id /\ sts'.image = guardPGMajorVersion(sts.image, mem.image)
      BY <1>t, <2>3 DEF UpdatedSTS, StatefulSets
    <3>2. Major[sts'.image] = Major[sts.image]  BY <1>i, <3>1, GuardKeepsMajor
    <3> QED  BY <2>1, <2>3, <3>1, <3>2 DEF OneMajor, DataMajorKept
  <2>4. ASSUME NEW h, sts.id = 0, sts' = CreatedSTS(h) PROVE OneMajor' /\ DataMajorKept'
    <3>1. pod.phase = "None" /\ volume.major = 0  BY <2>4 DEF OneMajor
    <3> QED  BY <2>1, <3>1 DEF OneMajor, DataMajorKept
  <2> QED  BY <2>1, <2>2, <2>3, <2>4
<1>2. CASE CreatePod
  <2>1. sts.id # 0 /\ UNCHANGED sts  BY <1>2 DEF CreatePod
  <2>2. pod' = [NoPod EXCEPT !.sts = sts.id, !.image = sts.image, !.hash = sts.hash,
                             !.phase = "Pending"]
    BY <1>2 DEF CreatePod, WritePod
  <2>3. pod'.image = sts.image /\ pod'.phase = "Pending"  BY <2>2 DEF NoPod
  <2>4. volume'.major \in {0, volume.major}
    <3>1. CASE volume.exists  BY <1>2, <3>1 DEF CreatePod
    <3>2. CASE ~volume.exists
      <4>1. PICK v \in newVolumes : volume' = [v EXCEPT !.size = sts.size]
        BY <1>2, <3>2 DEF CreatePod
      <4> QED  BY <4>1, NewVolume DEF Volumes
    <3> QED  BY <3>1, <3>2
  <2> QED  BY <2>1, <2>3, <2>4 DEF OneMajor, DataMajorKept
<1>3. CASE PodStarts
  <2>1. pod.phase = "Pending" /\ UNCHANGED sts  BY <1>3 DEF PodStarts
  <2>2. sts.id # 0 /\ Major[pod.image] = Major[sts.image]
        /\ volume.major \in {0, Major[pod.image]}
    BY <2>1 DEF OneMajor
  <2>3. /\ pod' = [pod EXCEPT !.phase = "Running", !.pw = secret.pw]
        /\ volume' = [volume EXCEPT !.major = Major[pod.image]]
    BY <1>3, <2>2 DEF PodStarts, WritePod
  <2>4. pod'.image = pod.image /\ pod'.phase = "Running"
        /\ volume'.major = Major[pod.image]
    BY <1>t, <2>3 DEF Pods, Volumes
  <2> QED  BY <2>1, <2>2, <2>4 DEF OneMajor, DataMajorKept
<1>4. CASE PodAges
  <2>1. UNCHANGED <<sts, volume>> /\ pod' = [pod EXCEPT !.aged = TRUE]
    BY <1>4 DEF PodAges, WritePod
  <2>2. pod'.image = pod.image /\ pod'.phase = pod.phase  BY <1>t, <2>1 DEF Pods
  <2> QED  BY <2>1, <2>2 DEF OneMajor, DataMajorKept
<1>5. CASE CollectVolume
  <2>1. UNCHANGED <<sts, pod>> /\ volume' = NoVolume  BY <1>5 DEF CollectVolume
  <2>2. volume'.major = 0  BY <2>1 DEF NoVolume
  <2> QED  BY <2>1, <2>2 DEF OneMajor, DataMajorKept
<1>6. CASE RollPod \/ CollectPod \/ PodEvicted \/ DeletePendingPodIfStale
  BY <1>0, <1>6 DEF RollPod, CollectPod, PodEvicted, DeletePendingPodIfStale, WritePod
<1>7. CASE \/ AddFinalizer \/ ReconcileSecret \/ ReconcileConnection \/ ReconcileAgent
           \/ PassFails \/ CollectConnection \/ AgentStarts \/ SecretSync \/ PodSync \/ RevisionSync
  <2>1. UNCHANGED <<sts, volume, pod>>
    BY <1>7
    DEF AddFinalizer, ReconcileSecret, ReconcileConnection, ReconcileAgent, PassFails,
        CollectConnection, AgentStarts, SecretSync, PodSync, RevisionSync
  <2> QED  BY <1>0, <2>1
<1>8. ASSUME FinalizeCR \/ CollectStatefulSet PROVE FALSE
  BY <1>8 DEF FinalizeCR, CollectStatefulSet, OneStatefulSet
<1>9. CASE UserEdits \/ UserSecrets \/ UNCHANGED vars \/ NothingToDo
  BY <1>0, <1>9 DEF UserEdits, UserSecrets, vars, NothingToDo
<1> QED
  BY <1>1, <1>2, <1>3, <1>4, <1>5, <1>6, <1>7, <1>8, <1>9, UsersEdit
  DEF Next, Pass, Cluster, PodStep

\* No server is started on a data directory of another major version, through
\* edits of the image, evictions, rotated Secrets and failed passes, as long as
\* the CR that created the data stays and image references name the version they
\* contain: the two things guardPGMajorVersion compares.
THEOREM ServerMatchesData ==
  ASSUME "delete" \notin Events, "helm" \notin Events, MajorInName = Major
  PROVE  Spec => []DataMajorKept
<1> DEFINE Inv == TypeOK /\ OneStatefulSet /\ OneMajor /\ DataMajorKept
<1>1. Init /\ TypeOK => Inv
  BY DEF Init, Empty, NoCR, NoSTS, NoPod, NoVolume, OneStatefulSet, OneMajor, DataMajorKept
<1>2. Inv /\ [Next]_vars => Inv'
  BY TypeStep, OneStatefulSetStep, OneMajorStep
<1> QED  BY <1>1, <1>2, TypeCorrect, PTL DEF Spec


-----------------------------------------------------------------------------
(* Data and credentials                                                    *)

\* Only the operator writes the Secret: it generates or migrates one, and its
\* deletion is part of a teardown.
LEMMA SecretStep ==
  ASSUME TypeOK, SecretsHavePasswords, "secret" \notin Events, [Next]_vars
  PROVE  /\ \/ secret' = secret
            \/ secret' # NoSecret /\ ReconcileSecret
            \/ FinalizeCR
         /\ SecretsHavePasswords'
<1> USE DEF storeVars, stsVars, passVars, boundVars
<1>t. secret \in Secrets /\ nextPw \in Nat  BY DEF TypeOK
<1>0. ASSUME UNCHANGED <<secret, nextPw>> PROVE SecretsHavePasswords'
  BY <1>0 DEF SecretsHavePasswords
<1>1. CASE ReconcileSecret
  <2>1. nextPw' \in {nextPw, nextPw + 1}  BY <1>1 DEF ReconcileSecret
  <2>2. \/ secret' = secret
        \/ secret.keys = "old" /\ secret' = migratedKeys(secret)
        \/ secret' = [pw |-> nextPw, keys |-> "new"]
    BY <1>1 DEF ReconcileSecret, WriteSecret
  <2>3. nextPw # 0 /\ nextPw' > 0  BY <1>t, <2>1 DEF SecretsHavePasswords
  <2>4. CASE secret' = secret
    BY <1>1, <2>3, <2>4 DEF SecretsHavePasswords
  <2>5. CASE secret.keys = "old" /\ secret' = migratedKeys(secret)
    <3>1. secret # NoSecret  BY <2>5 DEF NoSecret
    <3>2. secret.pw # 0  BY <3>1 DEF SecretsHavePasswords
    <3>3. secret'.pw = secret.pw  BY <1>t, <2>5 DEF migratedKeys, Secrets
    <3>4. NoSecret.pw = 0  BY DEF NoSecret
    <3>5. secret' # NoSecret  BY <3>2, <3>3, <3>4
    <3> QED  BY <1>1, <2>3, <3>2, <3>3, <3>5 DEF SecretsHavePasswords
  <2>6. CASE secret' = [pw |-> nextPw, keys |-> "new"]
    <3>1. secret'.pw = nextPw  BY <2>6
    <3>2. NoSecret.pw = 0  BY DEF NoSecret
    <3> QED  BY <1>1, <2>3, <3>1, <3>2 DEF SecretsHavePasswords
  <2> QED  BY <2>2, <2>4, <2>5, <2>6
<1>2. CASE FinalizeCR
  <2>1. secret' \in {secret, NoSecret} /\ nextPw' = nextPw
    BY <1>2 DEF FinalizeCR, WriteSecret
  <2> QED  BY <1>2, <2>1 DEF SecretsHavePasswords
<1>3. CASE \/ AddFinalizer \/ ReconcileStatefulSet \/ DeletePendingPodIfStale
           \/ ReconcileConnection \/ ReconcileAgent \/ PassFails
  <2>1. UNCHANGED <<secret, nextPw>>
    BY <1>3
    DEF AddFinalizer, ReconcileStatefulSet, DeletePendingPodIfStale,
        ReconcileConnection, ReconcileAgent, PassFails
  <2> QED  BY <1>0, <2>1
<1>4. CASE Cluster \/ PodEvicted
  <2>1. UNCHANGED <<secret, nextPw>>
    BY <1>4
    DEF Cluster, PodStep, RevisionSync, CreatePod, PodStarts, PodAges, RollPod, CollectPod, CollectVolume,
        CollectStatefulSet, CollectConnection, AgentStarts, SecretSync, PodSync, PodEvicted
  <2> QED  BY <1>0, <2>1
<1>5. CASE UserEdits \/ UNCHANGED vars \/ NothingToDo
  <2>1. UNCHANGED <<secret, nextPw>>  BY <1>5 DEF UserEdits, vars, NothingToDo
  <2> QED  BY <1>0, <2>1
<1>6. ~UserSecrets  BY DEF UserSecrets
<1> QED  BY <1>1, <1>2, <1>3, <1>4, <1>5, <1>6, UsersEdit DEF Next, Pass

\* The volume and the data on it through the steps of everyone but the teardown:
\* the pod keeps its volume, the server writes only where there is a Secret.
LEMMA VolumeStep ==
  ASSUME TypeOK, DataOnVolume, [Next]_vars, ~FinalizeCR
  PROVE  /\ ~volume'.exists => volume'.major = 0
         /\ pod'.phase # "None" => volume'.exists
         /\ \/ volume'.major = 0
            \/ volume'.major = volume.major /\ volume'.terminating = volume.terminating
            \/ secret # NoSecret /\ UNCHANGED secret
<1> DEFINE Goal == /\ ~volume'.exists => volume'.major = 0
                   /\ pod'.phase # "None" => volume'.exists
                   /\ \/ volume'.major = 0
                      \/ /\ volume'.major = volume.major
                         /\ volume'.terminating = volume.terminating
                      \/ secret # NoSecret /\ UNCHANGED secret
<1> SUFFICES Goal  OBVIOUS
<1> USE DEF storeVars, stsVars, passVars, boundVars
<1>t. volume \in Volumes /\ pod \in Pods /\ mem \in CRs  BY DEF TypeOK
<1>0. ASSUME UNCHANGED volume, pod' = NoPod \/ pod'.phase = "None" \/ pod.phase # "None"
      PROVE  Goal
  BY <1>0 DEF DataOnVolume, NoPod
<1>1. CASE ReconcileStatefulSet
  <2>3. /\ volume'.exists = volume.exists /\ volume'.major = volume.major
        /\ volume'.terminating = volume.terminating
    BY <1>1, StatefulSetShape, ResizedVolume
  <2> QED  BY <1>1, <2>3, StatefulSetShape DEF DataOnVolume
<1>2. CASE CreatePod
  <2>1. CASE volume.exists
    BY <1>2, <2>1 DEF CreatePod, DataOnVolume
  <2>2. CASE ~volume.exists
    <3>1. PICK v \in newVolumes : volume' = [v EXCEPT !.size = sts.size]
      BY <1>2, <2>2 DEF CreatePod
    <3>2. volume'.exists /\ volume'.major = 0  BY <3>1, NewVolume DEF Volumes
    <3> QED  BY <3>2
  <2> QED  BY <2>1, <2>2
<1>3. CASE PodStarts
  <2>1. pod.phase = "Pending" /\ secret # NoSecret /\ UNCHANGED secret
    BY <1>3 DEF PodStarts, NoSecret
  <2>2. volume.exists  BY <2>1 DEF DataOnVolume
  <2>3. volume' \in {volume, [volume EXCEPT !.major = Major[pod.image]]}
    BY <1>3 DEF PodStarts
  <2>4. volume'.exists  BY <1>t, <2>2, <2>3 DEF Volumes
  <2> QED  BY <2>1, <2>4
<1>4. CASE PodAges
  <2>1. UNCHANGED volume /\ pod.phase = "Pending"  BY <1>4 DEF PodAges
  <2> QED  BY <1>0, <2>1
<1>5. CASE CollectVolume
  <2>1. volume'.major = 0 /\ pod' = pod /\ pod.phase = "None"
    BY <1>5 DEF CollectVolume, NoVolume
  <2> QED  BY <2>1
<1>6. CASE RollPod \/ CollectPod \/ PodEvicted \/ DeletePendingPodIfStale
  <2>1. UNCHANGED volume /\ (pod' = NoPod \/ pod' = pod)
    BY <1>6 DEF RollPod, CollectPod, PodEvicted, DeletePendingPodIfStale, WritePod
  <2> QED  BY <1>0, <2>1
<1>7. ASSUME UNCHANGED <<volume, pod>> PROVE Goal
  BY <1>0, <1>7
<1>8. CASE \/ AddFinalizer \/ ReconcileSecret \/ ReconcileConnection \/ ReconcileAgent
           \/ PassFails \/ CollectConnection \/ AgentStarts \/ SecretSync \/ PodSync \/ RevisionSync
           \/ CollectStatefulSet
  BY <1>7, <1>8
  DEF AddFinalizer, ReconcileSecret, ReconcileConnection, ReconcileAgent, PassFails,
      CollectConnection, AgentStarts, SecretSync, PodSync, RevisionSync,
      CollectStatefulSet
<1>9. CASE UserEdits \/ UserSecrets \/ UNCHANGED vars \/ NothingToDo
  BY <1>7, <1>9 DEF UserEdits, UserSecrets, vars, NothingToDo
<1> HIDE DEF Goal
<1> QED
  BY <1>1, <1>2, <1>3, <1>4, <1>5, <1>6, <1>8, <1>9, UsersEdit, Zenon
  DEF Next, Pass, Cluster, PodStep

\* Who changes what of a CR's deletion.
LEMMA DeletionStep ==
  ASSUME TypeOK, DataOnVolume, [Next]_vars, ~FinalizeCR
  PROVE  /\ cr'.deleting => cr'.uid # 0
         /\ cr.deleting => cr'.deleting /\ cr'.deleteData = cr.deleteData
<1> USE DEF storeVars, stsVars, passVars, boundVars
<1>t. cr \in CRs /\ edits \in Nat  BY DEF TypeOK
<1>0. ASSUME UNCHANGED cr
      PROVE  /\ cr'.deleting => cr'.uid # 0
             /\ cr.deleting => cr'.deleting /\ cr'.deleteData = cr.deleteData
  BY <1>0 DEF DataOnVolume
<1>1. CASE AddFinalizer
  <2>1. cr'.uid = cr.uid /\ cr'.deleting = cr.deleting /\ cr'.deleteData = cr.deleteData
    BY <1>t, <1>1 DEF AddFinalizer, CRs
  <2> QED  BY <2>1 DEF DataOnVolume
<1>2. CASE UserEdits
  <2>1. CASE Created(cr')
    <3>1. PICK i \in Images, s \in Sizes :
            cr' = [NoCR EXCEPT !.uid = edits + 1, !.image = i, !.size = s]
      BY <2>1 DEF Created
    <3>2. ~cr'.deleting /\ cr.uid = 0  BY <2>1, <3>1 DEF NoCR, Created
    <3> QED  BY <3>2 DEF DataOnVolume
  <2>2. CASE Changed(cr')
    <3>1. ~cr'.deleting
      <4>1. CASE \E i \in Images : cr' = [cr EXCEPT !.image = i]
        <5>1. PICK i \in Images : cr' = [cr EXCEPT !.image = i]  BY <4>1
        <5> QED  BY <1>t, <2>2, <5>1 DEF CRs, Changed
      <4>2. CASE \E s \in Sizes \cup {BadSize} : cr' = [cr EXCEPT !.size = s]
        <5>1. PICK s \in Sizes \cup {BadSize} : cr' = [cr EXCEPT !.size = s]  BY <4>2
        <5> QED  BY <1>t, <2>2, <5>1 DEF CRs, Changed
      <4> QED  BY <2>2, <4>1, <4>2 DEF Changed
    <3> QED  BY <2>2, <3>1 DEF Changed
  <2>3. CASE Deleted(cr')
    <3>1. ~cr.deleting /\ cr.uid # 0  BY <2>3 DEF Deleted
    <3>2. CASE cr' = NoCR  BY <3>1, <3>2 DEF NoCR
    <3>3. CASE cr' # NoCR
      <4>1. PICK data \in BOOLEAN :
              cr' = [cr EXCEPT !.deleting = TRUE, !.deleteData = data]
        BY <2>3, <3>3 DEF Deleted
      <4> QED  BY <1>t, <3>1, <4>1 DEF CRs
    <3> QED  BY <3>2, <3>3
  <2> QED  BY <1>2, <2>1, <2>2, <2>3 DEF UserEdits
<1>3. CASE \/ ReconcileSecret \/ ReconcileStatefulSet \/ DeletePendingPodIfStale
           \/ ReconcileConnection \/ ReconcileAgent \/ PassFails \/ PodEvicted
  <2>1. UNCHANGED cr
    BY <1>3
    DEF ReconcileSecret, ReconcileStatefulSet, DeletePendingPodIfStale,
        ReconcileConnection, ReconcileAgent, PassFails, PodEvicted
  <2> QED  BY <1>0, <2>1
<1>4. CASE Cluster
  <2>1. UNCHANGED cr
    BY <1>4
    DEF Cluster, PodStep, RevisionSync, CreatePod, PodStarts, PodAges, RollPod, CollectPod, CollectVolume,
        CollectStatefulSet, CollectConnection, AgentStarts, SecretSync, PodSync, RevisionSync
  <2> QED  BY <1>0, <2>1
<1>5. CASE UserSecrets \/ UNCHANGED vars \/ NothingToDo
  BY <1>0, <1>5 DEF UserSecrets, vars, NothingToDo
<1> QED  BY <1>1, <1>2, <1>3, <1>4, <1>5, UsersEdit DEF Next, Pass

\* Every step keeps data and credentials paired.
LEMMA PairedStep ==
  ASSUME TypeOK, SecretsHavePasswords, DataOnVolume, Paired, "secret" \notin Events,
         [Next]_vars
  PROVE  DataOnVolume' /\ Paired'
<1>t. volume \in Volumes /\ cr \in CRs  BY DEF TypeOK
<1>1. CASE ~FinalizeCR
  <2>1. DataOnVolume'  BY <1>1, VolumeStep, DeletionStep DEF DataOnVolume
  <2>2. CASE secret' = NoSecret
    <3>1. secret = NoSecret  BY <1>1, <2>2, SecretStep
    <3>2. \/ volume'.major = 0
          \/ volume'.major = volume.major /\ volume'.terminating = volume.terminating
      BY <1>1, <3>1, VolumeStep
    <3>3. cr.deleting => cr'.deleting /\ cr'.deleteData = cr.deleteData
      BY <1>1, DeletionStep
    <3> QED  BY <2>1, <3>1, <3>2, <3>3 DEF Paired
  <2>3. CASE secret' # NoSecret  BY <2>1, <2>3 DEF Paired
  <2> QED  BY <2>2, <2>3
<1>2. CASE FinalizeCR
  <2>1. PICK bad \in (IF cr.deleteData THEN failures ELSE {{}}) :
          /\ IF cr.deleteData /\ "secret" \notin bad THEN WriteSecret(NoSecret)
             ELSE UNCHANGED <<secret, secretSeen>>
          /\ volume' = IF cr.deleteData /\ "volume" \notin bad /\ volume.exists
                       THEN IF pod.phase = "None" THEN NoVolume
                            ELSE [volume EXCEPT !.terminating = TRUE]
                       ELSE volume
          /\ cr' = IF teardownDone(bad) THEN NoCR ELSE cr
    BY <1>2 DEF FinalizeCR
  <2>2. UNCHANGED pod /\ cr.deleting  BY <1>2 DEF FinalizeCR
  <2>3. \/ volume' = volume
        \/ cr.deleteData /\ pod.phase = "None" /\ volume' = NoVolume
        \/ cr.deleteData /\ volume.exists /\ volume' = [volume EXCEPT !.terminating = TRUE]
    BY <2>1
  <2>4. /\ ~volume'.exists => volume'.major = 0
        /\ pod'.phase # "None" => volume'.exists
    <3>1. CASE volume' = volume  BY <2>2, <3>1 DEF DataOnVolume
    <3>2. CASE pod.phase = "None" /\ volume' = NoVolume  BY <2>2, <3>2 DEF NoVolume
    <3>3. CASE volume.exists /\ volume' = [volume EXCEPT !.terminating = TRUE]
      BY <1>t, <3>3 DEF Volumes
    <3> QED  BY <2>3, <3>1, <3>2, <3>3
  <2>5. cr'.deleting => cr'.uid # 0  BY <2>1 DEF NoCR, DataOnVolume
  <2>6. DataOnVolume'  BY <2>4, <2>5 DEF DataOnVolume
  <2>7. Paired'
    <3>1. CASE ~cr.deleteData
      <4>1. UNCHANGED <<secret, volume>>  BY <2>1, <3>1
      <4> QED  BY <3>1, <4>1 DEF Paired
    <3>2. CASE cr.deleteData /\ bad # {}
      <4>1. cr' = cr  BY <2>1, <3>2 DEF teardownDone
      <4> QED  BY <2>2, <3>2, <4>1 DEF Paired
    <3>3. CASE cr.deleteData /\ bad = {} /\ volume.exists
      <4>1. volume' = NoVolume \/ volume' = [volume EXCEPT !.terminating = TRUE]
        BY <2>1, <3>3
      <4>2. volume'.major = 0 \/ volume'.terminating  BY <1>t, <4>1 DEF NoVolume, Volumes
      <4> QED  BY <4>2 DEF Paired
    <3>4. CASE cr.deleteData /\ bad = {} /\ ~volume.exists
      <4>1. volume' = volume  BY <2>1, <3>4
      <4> QED  BY <3>4, <4>1 DEF Paired, DataOnVolume
    <3> QED  BY <3>1, <3>2, <3>3, <3>4
  <2> QED  BY <2>6, <2>7
<1> QED  BY <1>1, <1>2

\* "Data and credentials as a pair with the same lifetime": when the CR is gone,
\* a data directory that stays has its Secret, whatever the order of deletions,
\* late pods, failed halves of a teardown, recreated CRs and stale reads of the
\* Secret, if nobody but the operator touches it.
THEOREM RetainedDataHasItsSecret ==
  ASSUME "secret" \notin Events
  PROVE  Spec => []DataKeepsCredentials
<1> DEFINE Inv == TypeOK /\ SecretsHavePasswords /\ DataOnVolume /\ Paired
<1>1. Init /\ TypeOK => Inv
  <2> SUFFICES ASSUME Init, TypeOK PROVE SecretsHavePasswords /\ DataOnVolume /\ Paired
    OBVIOUS
  <2>1. ~cr.deleting  BY DEF Init, NoCR
  <2>2. CASE Empty
    BY <2>1, <2>2
    DEF Empty, NoVolume, NoPod, SecretsHavePasswords, DataOnVolume, Paired
  <2>3. CASE HelmRelease
    <3>1. nextPw = 2 /\ secret.pw = 1  BY <2>3 DEF HelmRelease
    <3>2. volume.exists
      <4>1. PICK v \in newVolumes : volume = [v EXCEPT !.major = Major[HelmImage]]
        BY <2>3 DEF HelmRelease
      <4> QED  BY <4>1, NewVolume DEF Volumes
    <3>3. secret # NoSecret  BY <3>1 DEF NoSecret
    <3> QED  BY <2>1, <3>1, <3>2, <3>3 DEF SecretsHavePasswords, DataOnVolume, Paired
  <2> QED  BY <2>2, <2>3 DEF Init
<1>2. Inv /\ [Next]_vars => Inv'
  BY TypeStep, SecretStep, PairedStep
<1>3. Inv => DataKeepsCredentials
  BY DEF DataOnVolume, Paired, DataKeepsCredentials
<1> QED  BY <1>1, <1>2, <1>3, TypeCorrect, PTL DEF Spec

=============================================================================
