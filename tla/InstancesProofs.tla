-------------------------- MODULE InstancesProofs --------------------------
(***************************************************************************)
(* Proofs about Instances, for every set of keys, kinds, events and bounds.*)
(*                                                                         *)
(* They rest on the finalizer: a copy of a CR that has it and is not being *)
(* deleted, however old, is of the CR that exists, since only the operator *)
(* removes the finalizer, and only from a copy that is current and being   *)
(* deleted.                                                                *)
(***************************************************************************)
EXTENDS Instances, FiniteSetTheorems, TLAPS

USE InstancesAssumption DEF None

Entries == 1 .. Len(log)
Applying == {"agent", "mcp", "ui", "delegator", "oauth", "status"}
Deleting == {"cleanup", "finalize"}

-----------------------------------------------------------------------------
(* The inductive invariants                                                *)

\* A copy of a CR with the finalizer that is not being deleted is of the CR
\* that exists, which still has the finalizer.
FinalizerHolds ==
  \A i \in Entries, n \in Keys :
    log[i][n].uid # None /\ log[i][n].finalizer /\ ~log[i][n].deleting =>
      cr[n].uid = log[i][n].uid /\ cr[n].finalizer

\* What the running pass knows of its CR: a current copy is in every entry the
\* informer has yet to deliver, and a pass that applies objects does so for a CR
\* that exists and has the finalizer.
PassKnows ==
  /\ memFresh => pc # "idle" /\ \A i \in Entries : log[i][at] = mem
  /\ pc # "idle" => mem.uid # None /\ (mem.deleting <=> pc \in Deleting)
  /\ pc \in Applying \/ (pc = "admit" /\ mem.finalizer) =>
       mem.finalizer /\ cr[at].uid = mem.uid /\ cr[at].finalizer

\* Exported series are of CRs that exist and cannot go without a cleanup.
SeriesHeld ==
  \A n \in Keys : series[n] # None => cr[n].uid = series[n] /\ cr[n].finalizer

\* When the finalizer is about to go, nothing of the CR is left.
CleanedUp ==
  pc = "finalize" =>
    /\ \A k \in Kinds : ~ours(grant[at][k], mem.uid)
    /\ old[BaseName[at]] # mem.uid

-----------------------------------------------------------------------------
(* Lemmas about the operators                                              *)

\* A missing CR is a CR record, and so is a CR as Create makes it.
LEMMA NewCRType ==
  /\ NoCR \in CRs
  /\ \A u, c \in Nat : /\ [NoCR EXCEPT !.uid = u, !.created = c] \in CRs
                       /\ [NoCR EXCEPT !.uid = u, !.created = c, !.finalizer = TRUE,
                                       !.phase = "Active"] \in CRs
BY DEF NoCR, CRs

\* The cache and the API server's state are states of all CRs.
LEMMA EntryType ==
  ASSUME TypeOK
  PROVE  /\ Len(log) \in Nat /\ 1 \in Entries /\ Len(log) \in Entries
         /\ cr \in [Keys -> CRs] /\ cache \in [Keys -> CRs]
         /\ \A i \in Entries : log[i] \in [Keys -> CRs]
<1>1. log \in Seq([Keys -> CRs]) /\ log # <<>>  BY DEF TypeOK
<1>2. Len(log) \in Nat /\ Len(log) # 0  BY <1>1
<1>3. \A i \in Entries : log[i] \in [Keys -> CRs]  BY <1>1 DEF Entries
<1> QED  BY <1>2, <1>3 DEF Entries, cr, cache

\* What a write of one CR does to the log: a new last entry, or no change.
LEMMA WriteLog ==
  ASSUME TypeOK, NEW n \in Keys, NEW new \in CRs, WriteCR(n, new)
  PROVE  /\ log' \in Seq([Keys -> CRs]) /\ log' # <<>>
         /\ cr' = [cr EXCEPT ![n] = new]
         /\ Len(log') \in Nat /\ Len(log') \in Entries'
         /\ \A i \in Entries' :
              \/ i = Len(log') /\ log'[i] = cr'
              \/ i \in Entries /\ i <= Len(log') /\ log'[i] = log[i]
<1> DEFINE s == [cr EXCEPT ![n] = new]
<1>1. log \in Seq([Keys -> CRs]) /\ Len(log) \in Nat /\ Len(log) # 0 /\ s \in [Keys -> CRs]
  BY EntryType DEF TypeOK, Entries
<1>2. (s = cr /\ log' = log) \/ log' = Append(log, s) \/ log' = <<s>>
  BY DEF WriteCR
<1> HIDE DEF s
<1>3. CASE s = cr /\ log' = log
  BY <1>1, <1>3 DEF s, cr, Entries
<1>4. CASE log' = Append(log, s)
  <2>1. log' \in Seq([Keys -> CRs]) /\ Len(log') = Len(log) + 1  BY <1>1, <1>4
  <2>2. log'[Len(log) + 1] = s  BY <1>1, <1>4
  <2>3. \A i \in 1 .. Len(log) : log'[i] = log[i]  BY <1>1, <1>4
  <2>4. cr' = s  BY <2>1, <2>2 DEF cr
  <2>5. \A i \in 1 .. Len(log') : i = Len(log') \/ i \in 1 .. Len(log)  BY <1>1, <2>1
  <2> HIDE DEF cr
  <2> QED  BY <1>1, <2>1, <2>2, <2>3, <2>4, <2>5 DEF s, Entries
<1>5. CASE log' = <<s>>
  BY <1>1, <1>5 DEF s, cr, Entries
<1> QED  BY <1>2, <1>3, <1>4, <1>5

\* What the informer's next delivery does to it.
LEMMA SyncLog ==
  ASSUME TypeOK, CacheSync
  PROVE  /\ log' \in Seq([Keys -> CRs]) /\ log' # <<>>
         /\ cr' = cr
         /\ \A i \in Entries' : i + 1 \in Entries /\ log'[i] = log[i + 1]
<1>1. log \in Seq([Keys -> CRs]) /\ Len(log) \in Nat /\ Len(log) > 1 /\ log' = Tail(log)
  BY DEF TypeOK, CacheSync
<1>2. log' \in Seq([Keys -> CRs]) /\ Len(log') = Len(log) - 1
  BY <1>1
<1>3. \A i \in 1 .. Len(log') : log'[i] = log[i + 1]  BY <1>1, <1>2
<1>4. log'[Len(log')] = log[Len(log)]  BY <1>1, <1>2, <1>3
<1>5. cr' = cr  BY <1>4 DEF cr
<1>6. Len(log) \in Nat /\ Len(log) > 1 /\ Len(log') = Len(log) - 1  BY <1>1, <1>2
<1>7. Len(log') \in Nat /\ Len(log') # 0
      /\ \A i \in 1 .. Len(log') : i + 1 \in 1 .. Len(log)
  BY <1>6
<1>8. log' # <<>>  BY <1>2, <1>7
<1> QED  BY <1>2, <1>3, <1>5, <1>7, <1>8 DEF Entries

\* An Update of the pass keeps the CRs well formed.
LEMMA UpdateType ==
  ASSUME TypeOK, NEW new \in CRs, UpdateCR(new)
  PROVE  log' \in Seq([Keys -> CRs]) /\ log' # <<>> /\ nextUID' \in Nat /\ now' \in Nat
BY WriteLog DEF UpdateCR, TypeOK

\* The end of a pass keeps the pass variables well formed.
LEMMA EndPassType ==
  ASSUME TypeOK, EndPass
  PROVE  pc' \in Steps /\ at' \in Keys /\ mem' \in CRs /\ memFresh' \in BOOLEAN
BY NewCRType DEF EndPass, TypeOK, Steps

\* A step to one of the pass's steps keeps them too.
LEMMA GoOnType ==
  ASSUME TypeOK, NEW step \in Steps, pc' = step, UNCHANGED <<at, mem, memFresh>>
  PROVE  pc' \in Steps /\ at' \in Keys /\ mem' \in CRs /\ memFresh' \in BOOLEAN
BY DEF TypeOK

\* The CR the pass holds stays a CR whatever status it writes to it.
LEMMA MemType ==
  ASSUME TypeOK
  PROVE  /\ [mem EXCEPT !.phase = "Rejected"] \in CRs
         /\ [mem EXCEPT !.phase = "Active"] \in CRs
         /\ [mem EXCEPT !.finalizer = TRUE] \in CRs
BY DEF TypeOK, CRs

\* Writing stamps keeps the informer's copy of them well formed.
LEMMA WriteGrantsType ==
  ASSUME TypeOK, NEW new \in [Keys -> [Kinds -> Int]], WriteGrants(new)
  PROVE  grant' \in [Keys -> [Kinds -> Int]] /\ seen' \in [Keys -> [Kinds -> Int]]
BY DEF WriteGrants, TypeOK

\* Applying an object, or skipping it, keeps stamps and pass well formed.
LEMMA ApplyType ==
  ASSUME TypeOK, NEW k \in AllKinds, (k \in Kinds /\ apply(k)) \/ skip(k)
  PROVE  /\ grant' \in [Keys -> [Kinds -> Int]] /\ seen' \in [Keys -> [Kinds -> Int]]
         /\ pc' \in Steps /\ at' \in Keys /\ mem' \in CRs /\ memFresh' \in BOOLEAN
<1> DEFINE new == [grant EXCEPT ![at][k] = stamped(k, @, mem.uid)]
<1>1. \/ pc' = nextStep(k) /\ UNCHANGED <<at, mem, memFresh>>
      \/ EndPass
  BY DEF apply, skip
<1>2. \/ UNCHANGED <<grant, seen>> \/ (k \in Kinds /\ WriteGrants(new))
  BY DEF apply, skip
<1>3. nextStep(k) \in Steps  BY DEF nextStep, Steps
<1>4. pc' \in Steps /\ at' \in Keys /\ mem' \in CRs /\ memFresh' \in BOOLEAN
  BY <1>1, <1>3, GoOnType, EndPassType
<1>5. k \in Kinds => new \in [Keys -> [Kinds -> Int]]
  BY DEF stamped, TypeOK, CRs
<1> HIDE DEF new
<1>6. grant' \in [Keys -> [Kinds -> Int]] /\ seen' \in [Keys -> [Kinds -> Int]]
  BY <1>2, <1>5, WriteGrantsType DEF TypeOK
<1> QED  BY <1>4, <1>6

\* An old-named object is left or removed.
LEMMA OldType ==
  ASSUME TypeOK, NEW n \in Keys, NEW u
  PROVE  oldWithout(n, u) \in [BaseNames -> Nat]
BY DEF oldWithout, TypeOK

-----------------------------------------------------------------------------
(* Type correctness                                                        *)

\* A write by a user keeps every variable but the counters well formed.
LEMMA UserWriteType ==
  ASSUME TypeOK, NEW n \in Keys, NEW new \in CRs, UserWrite(n, new),
         nextUID' \in Nat, now' \in Nat, edits' \in Nat
  PROVE  TypeOK'
BY WriteLog DEF UserWrite, TypeOK, grantVars

\* Every step keeps the variables well formed.
LEMMA TypeStep == TypeOK /\ [Next]_vars => TypeOK'
<1> SUFFICES ASSUME TypeOK, [Next]_vars PROVE TypeOK'  OBVIOUS
<1> USE DEF TypeOK, crVars, grantVars, passVars
<1>1. ASSUME NEW n \in Keys, ReadCR(n) PROVE TypeOK'
  <2>1. mem' \in {mem, cache[n]} /\ at' \in {at, n} /\ pc' \in {pc, "cleanup", "admit"}
        /\ memFresh' \in {memFresh, cacheFresh(n)}
    BY <1>1 DEF ReadCR
  <2>2. cache[n] \in CRs /\ cacheFresh(n) \in BOOLEAN  BY EntryType DEF cacheFresh
  <2> QED  BY <1>1, <2>1, <2>2 DEF ReadCR, Steps
<1>2. CASE Admit
  <2>1. log' \in Seq([Keys -> CRs]) /\ log' # <<>> /\ nextUID' \in Nat /\ now' \in Nat
    BY <1>2, UpdateType, MemType DEF Admit
  <2>2. pc' \in Steps /\ at' \in Keys /\ mem' \in CRs /\ memFresh' \in BOOLEAN
    BY <1>2, EndPassType, GoOnType DEF Admit, Steps
  <2> QED  BY <1>2, <2>1, <2>2 DEF Admit
<1>3. ASSUME NEW step, NEW next \in Steps, Cleanup(step, next) PROVE TypeOK'
  <2>1. PICK bad \in failures :
          /\ deleteClusterScopedResources(bad)
          /\ afterCleanup(bad, next)
          /\ faults' = IF bad = {} THEN faults ELSE faults + 1
    BY <1>3 DEF Cleanup
  <2> DEFINE new == [grant EXCEPT ![at] = [k \in Kinds |->
       IF k \notin bad /\ ours(readGrant(at, k), mem.uid) THEN None ELSE @[k]]]
  <2>2. WriteGrants(new)  BY <2>1 DEF deleteClusterScopedResources
  <2>3. new \in [Keys -> [Kinds -> Int]]  OBVIOUS
  <2> HIDE DEF new
  <2>4. grant' \in [Keys -> [Kinds -> Int]] /\ seen' \in [Keys -> [Kinds -> Int]]
    BY <2>2, <2>3, WriteGrantsType
  <2>5. old' \in [BaseNames -> Nat]
    BY <2>1, OldType DEF deleteClusterScopedResources
  <2>6. pc' \in Steps /\ at' \in Keys /\ mem' \in CRs /\ memFresh' \in BOOLEAN
    BY <2>1, EndPassType, GoOnType DEF afterCleanup
  <2> QED  BY <1>3, <2>1, <2>4, <2>5, <2>6 DEF Cleanup
<1>4. CASE Finalize
  <2>1. series' \in [Keys -> Nat]  BY <1>4 DEF Finalize, forgetInstanceMetrics
  <2> QED  BY <1>4, <2>1, UpdateType, EndPassType, NewCRType DEF Finalize
<1>5. CASE RejectStatus
  BY <1>5, UpdateType, EndPassType, MemType DEF RejectStatus
<1>6. CASE ApplyAgentGrants
  BY <1>6, ApplyType, OldType DEF ApplyAgentGrants, AllKinds
<1>7. CASE ApplyMCPGrants
  <2>1. CASE ("mcp" \in Kinds /\ apply("mcp")) \/ skip("mcp")
    BY <1>7, <2>1, ApplyType DEF ApplyMCPGrants, AllKinds
  <2>2. CASE "mcp" \in Kinds /\ removeMCP
    <3> DEFINE new == [grant EXCEPT ![at]["mcp"] =
                         IF readGrant(at, "mcp") = mem.uid THEN None ELSE @]
    <3>1. WriteGrants(new)  BY <2>2 DEF removeMCP
    <3>2. new \in [Keys -> [Kinds -> Int]]  BY <2>2
    <3> HIDE DEF new
    <3>3. grant' \in [Keys -> [Kinds -> Int]] /\ seen' \in [Keys -> [Kinds -> Int]]
      BY <3>1, <3>2, WriteGrantsType
    <3>4. pc' = "ui" /\ UNCHANGED <<at, mem, memFresh>>
      BY <2>2 DEF removeMCP, nextStep
    <3> QED  BY <1>7, <3>3, <3>4 DEF ApplyMCPGrants, Steps
  <2> QED  BY <1>7, <2>1, <2>2 DEF ApplyMCPGrants
<1>8. CASE ApplyUIGrants
  BY <1>8, ApplyType DEF ApplyUIGrants, AllKinds
<1>9. CASE ApplyOAuthClient
  BY <1>9, ApplyType DEF ApplyOAuthClient, AllKinds
<1>10. CASE PassRequeues
  <2>1. log' \in Seq([Keys -> CRs]) /\ log' # <<>> /\ nextUID' \in Nat /\ now' \in Nat
    BY <1>10, UpdateType, MemType DEF PassRequeues
  <2>2. pc' \in Steps /\ at' \in Keys /\ mem' \in CRs /\ memFresh' \in BOOLEAN
    BY <1>10, EndPassType DEF PassRequeues
  <2>3. faults' \in Nat /\ UNCHANGED <<home, grant, seen, old, series, edits>>
    BY <1>10 DEF PassRequeues
  <2> QED  BY <2>1, <2>2, <2>3
<1>11. CASE FinishPass
  <2>1. series' \in [Keys -> Nat]
    BY <1>11 DEF FinishPass, reconcileObservedMemoryMetrics, CRs
  <2> QED  BY <1>11, <2>1, UpdateType, EndPassType, MemType DEF FinishPass
<1>12. CASE PassFails
  BY <1>12, EndPassType DEF PassFails, noSeries
<1>13. ASSUME NEW n \in Keys, Create(n) PROVE TypeOK'
  <2>1. nextUID' \in Nat /\ now' \in Nat /\ edits' \in Nat  BY <1>13 DEF Create
  <2> QED  BY <1>13, <2>1, NewCRType, UserWriteType DEF Create
<1>14. ASSUME NEW n \in Keys, Delete(n) PROVE TypeOK'
  <2>1. cr[n] \in CRs  BY EntryType
  <2>2. [cr[n] EXCEPT !.deleting = TRUE] \in CRs  BY <2>1 DEF CRs
  <2>3. PICK new \in CRs : UserWrite(n, new)
    BY <1>14, <2>2, NewCRType DEF Delete
  <2> QED  BY <1>14, <2>3, UserWriteType DEF Delete
<1>15. ASSUME NEW n \in Keys, SetMCP(n) PROVE TypeOK'
  <2>1. cr[n] \in CRs  BY EntryType
  <2>2. [cr[n] EXCEPT !.mcp = ~@] \in CRs  BY <2>1 DEF CRs
  <2>3. nextUID' \in Nat /\ now' \in Nat /\ edits' \in Nat
    <3>1. UNCHANGED <<nextUID, now>> /\ edits' = edits + 1  BY <1>15 DEF SetMCP
    <3> QED  BY <3>1
  <2> QED  BY <1>15, <2>2, <2>3, UserWriteType DEF SetMCP
<1>16. ASSUME NEW ns \in Namespaces, SetPulseNamespace(ns) PROVE TypeOK'
  BY <1>16, EndPassType DEF SetPulseNamespace, noSeries
<1>17. CASE CacheSync  BY <1>17, SyncLog DEF CacheSync
<1>18. CASE ObjectSync  BY <1>18 DEF ObjectSync
<1>19. CASE UNCHANGED vars  BY <1>19 DEF vars
<1>20. CASE CleanupDeleted \/ CleanupRejected
  BY <1>3, <1>20 DEF CleanupDeleted, CleanupRejected, Steps
<1> HIDE DEF TypeOK, crVars, grantVars, passVars
<1> QED
  BY <1>1, <1>2, <1>4, <1>5, <1>6, <1>7, <1>8, <1>9, <1>10, <1>11, <1>12, <1>13,
     <1>14, <1>15, <1>16, <1>17, <1>18, <1>19, <1>20
  DEF Next, Pass

\* The initial states are well formed.
LEMMA InitType == Init => TypeOK
<1> SUFFICES ASSUME Init PROVE TypeOK  OBVIOUS
<1>1. /\ home \in Namespaces /\ pc \in Steps /\ at \in Keys /\ mem \in CRs
      /\ memFresh \in BOOLEAN /\ edits \in Nat /\ faults \in Nat
      /\ series \in [Keys -> Nat]
  BY NewCRType DEF Init, Steps, noSeries
<1>2. CASE FreshStart
  <2>1. [n \in Keys |-> NoCR] \in [Keys -> CRs]  BY NewCRType
  <2>2. log \in Seq([Keys -> CRs]) /\ log # <<>>  BY <1>2, <2>1 DEF FreshStart
  <2> QED  BY <1>1, <1>2, <2>2 DEF Init, FreshStart, TypeOK
<1>3. CASE LegacyStart
  <2>1. Cardinality(Keys) \in Nat  BY FS_CardinalityType
  <2>2. PICK u \in [Keys -> 1 .. Cardinality(Keys)] : \E S \in SUBSET Keys :
          /\ log = <<[n \in Keys |-> [NoCR EXCEPT !.uid = u[n], !.created = u[n],
                                        !.finalizer = TRUE, !.phase = "Active"]]>>
          /\ grant = [n \in Keys |-> [k \in Kinds |->
                  IF k = "mcp" THEN None ELSE IF n \in S THEN u[n] ELSE Unstamped]]
          /\ old \in [BaseNames -> {u[n] : n \in Keys} \cup {None}]
          /\ nextUID = Cardinality(Keys) + 1
    BY <1>3 DEF LegacyStart
  <2>3. \A n \in Keys : u[n] \in Nat  BY <2>1
  <2>4. \A n \in Keys : [NoCR EXCEPT !.uid = u[n], !.created = u[n],
                                     !.finalizer = TRUE, !.phase = "Active"] \in CRs
    BY <2>3, NewCRType
  <2> DEFINE s == [n \in Keys |-> [NoCR EXCEPT !.uid = u[n], !.created = u[n],
                                       !.finalizer = TRUE, !.phase = "Active"]]
  <2>5. log \in Seq([Keys -> CRs]) /\ log # <<>>
    <3>1. s \in [Keys -> CRs]  BY <2>4
    <3>2. log = <<s>>  BY <2>2
    <3> HIDE DEF s
    <3> QED  BY <3>1, <3>2
  <2>6. grant \in [Keys -> [Kinds -> Int]]
    <3>1. PICK S \in SUBSET Keys :
            grant = [n \in Keys |-> [k \in Kinds |->
                  IF k = "mcp" THEN None ELSE IF n \in S THEN u[n] ELSE Unstamped]]
      BY <2>2
    <3> QED  BY <2>3, <3>1 DEF Unstamped
  <2>7. old \in [BaseNames -> Nat]
    <3>1. old \in [BaseNames -> {u[n] : n \in Keys} \cup {None}]  BY <2>2
    <3> QED  BY <2>3, <3>1
  <2>8. nextUID \in Nat
    <3>1. nextUID = Cardinality(Keys) + 1  BY <2>2
    <3> QED  BY <2>1, <3>1
  <2> QED  BY <1>1, <2>5, <2>6, <2>7, <2>8 DEF Init, TypeOK
<1> QED  BY <1>2, <1>3 DEF Init

\* CRs, stamps, series and the pass always have the shape the code gives them.
THEOREM TypeCorrect == Spec => []TypeOK
BY InitType, TypeStep, PTL DEF Spec

-----------------------------------------------------------------------------
(* The finalizer                                                           *)

\* Writing new over CR n leaves a CR that has the finalizer what it is.
Keeps(n, new) ==
  cr[n].uid # None /\ cr[n].finalizer => new.uid = cr[n].uid /\ new.finalizer

\* Users' writes do: deletion of a CR with the finalizer only marks it.
LEMMA UserKeeps ==
  ASSUME TypeOK, NEW n \in Keys, Create(n) \/ Delete(n) \/ SetMCP(n)
  PROVE  \E new \in CRs : UserWrite(n, new) /\ Keeps(n, new)
<1>t. cr[n] \in CRs /\ nextUID \in Nat /\ now \in Nat  BY EntryType DEF TypeOK
<1>1. CASE Create(n)
  <2> DEFINE new == [NoCR EXCEPT !.uid = nextUID, !.created = now]
  <2>1. new \in CRs /\ UserWrite(n, new)  BY <1>t, <1>1, NewCRType DEF Create
  <2>2. Keeps(n, new)  BY <1>1 DEF Create, Keeps
  <2> QED  BY <2>1, <2>2
<1>2. CASE Delete(n) /\ cr[n].finalizer
  <2> DEFINE new == [cr[n] EXCEPT !.deleting = TRUE]
  <2>1. new \in CRs /\ new.uid = cr[n].uid /\ new.finalizer = cr[n].finalizer
    BY <1>t DEF CRs
  <2>2. UserWrite(n, new)  BY <1>2 DEF Delete
  <2> QED  BY <1>2, <2>1, <2>2 DEF Keeps
<1>3. CASE Delete(n) /\ ~cr[n].finalizer
  BY <1>3, NewCRType DEF Delete, Keeps
<1>4. CASE SetMCP(n)
  <2> DEFINE new == [cr[n] EXCEPT !.mcp = ~@]
  <2>1. new \in CRs /\ new.uid = cr[n].uid /\ new.finalizer = cr[n].finalizer
    BY <1>t DEF CRs
  <2>2. UserWrite(n, new)  BY <1>4 DEF SetMCP
  <2> QED  BY <2>1, <2>2 DEF Keeps
<1> QED  BY <1>1, <1>2, <1>3, <1>4

\* The copy of a pass that may write is the CR.
LEMMA FreshIsCurrent ==
  ASSUME TypeOK, PassKnows, memFresh
  PROVE  cr[at] = mem
BY EntryType DEF PassKnows, cr

\* The writes of the pass, but for the one that removes the finalizer.
Statuses(m) ==
  {[m EXCEPT !.phase = "Rejected"], [m EXCEPT !.phase = "Active"],
   [m EXCEPT !.finalizer = TRUE]}

\* They leave identity, age, deletion and finalizer of the CR alone.
LEMMA StatusSame ==
  ASSUME TypeOK, NEW new \in Statuses(mem)
  PROVE  /\ new \in CRs /\ new.uid = mem.uid /\ new.created = mem.created
         /\ new.deleting = mem.deleting /\ (mem.finalizer => new.finalizer)
BY DEF TypeOK, Statuses, CRs

\* So they leave a CR that has the finalizer what it is.
LEMMA PassKeeps ==
  ASSUME TypeOK, PassKnows, NEW new \in Statuses(mem), UpdateCR(new)
  PROVE  UNCHANGED log \/ (new \in CRs /\ WriteCR(at, new) /\ Keeps(at, new))
<1>1. CASE memFresh
  BY <1>1, FreshIsCurrent, StatusSame DEF UpdateCR, Keeps
<1> QED  BY <1>1 DEF UpdateCR

\* All that can happen to the CRs in a step.
LEMMA CRStep ==
  ASSUME TypeOK, PassKnows, [Next]_vars
  PROVE  \/ UNCHANGED log
         \/ CacheSync
         \/ \E n \in Keys, new \in CRs : WriteCR(n, new) /\ Keeps(n, new)
         \/ Finalize /\ memFresh
<1> DEFINE Goal == \/ UNCHANGED log
                   \/ CacheSync
                   \/ \E n \in Keys, new \in CRs : WriteCR(n, new) /\ Keeps(n, new)
                   \/ Finalize /\ memFresh
<1> SUFFICES Goal  OBVIOUS
<1>t. at \in Keys  BY DEF TypeOK
<1>1. ASSUME NEW n \in Keys, Create(n) \/ Delete(n) \/ SetMCP(n) PROVE Goal
  BY <1>1, UserKeeps DEF UserWrite
<1>2. ASSUME NEW new \in Statuses(mem), UpdateCR(new) PROVE Goal
  BY <1>t, <1>2, PassKeeps
<1>3. CASE Finalize  BY <1>3 DEF Finalize, UpdateCR
<1>4. CASE RejectStatus \/ PassRequeues \/ FinishPass
  BY <1>2, <1>4 DEF RejectStatus, PassRequeues, FinishPass, Statuses
<1>5. CASE Admit
  <2>1. UNCHANGED log \/ UpdateCR([mem EXCEPT !.finalizer = TRUE])
    BY <1>5 DEF Admit, crVars
  <2> QED  BY <1>2, <2>1 DEF Statuses
<1>6. CASE CacheSync  BY <1>6
<1>7. ASSUME UNCHANGED log PROVE Goal  BY <1>7
<1> HIDE DEF Goal
<1>8. ASSUME NEW n \in Keys, Pass(n) PROVE Goal
  <2>1. CASE \/ ReadCR(n) \/ CleanupDeleted \/ CleanupRejected \/ ApplyAgentGrants
             \/ ApplyMCPGrants \/ ApplyUIGrants \/ ApplyOAuthClient
    <3>1. UNCHANGED log
      BY <2>1
      DEF ReadCR, CleanupDeleted, CleanupRejected, Cleanup, ApplyAgentGrants,
          ApplyMCPGrants, ApplyUIGrants, ApplyOAuthClient, crVars
    <3> QED  BY <1>7, <3>1
  <2> QED  BY <1>3, <1>4, <1>5, <1>8, <2>1, Zenon DEF Pass
<1>9. ASSUME NEW ns \in Namespaces, SetPulseNamespace(ns) PROVE Goal
  BY <1>7, <1>9 DEF SetPulseNamespace, crVars
<1>10. CASE PassFails \/ ObjectSync \/ UNCHANGED vars
  BY <1>7, <1>10 DEF PassFails, ObjectSync, vars, crVars
<1> QED  BY <1>1, <1>4, <1>6, <1>8, <1>9, <1>10, Zenon DEF Next

\* Every step keeps FinalizerHolds: only Finalize takes the finalizer away, and
\* its copy, in every entry, is of a CR being deleted.
LEMMA FinalizerHoldsStep ==
  TypeOK /\ PassKnows /\ FinalizerHolds /\ [Next]_vars => FinalizerHolds'
<1> SUFFICES ASSUME TypeOK, PassKnows, FinalizerHolds, [Next]_vars
             PROVE  FinalizerHolds'
  OBVIOUS
<1>1. CASE UNCHANGED log
  BY <1>1 DEF FinalizerHolds, Entries, cr
<1>2. CASE CacheSync
  <2>1. SUFFICES ASSUME NEW i \in Entries', NEW m \in Keys,
                        log'[i][m].uid # None, log'[i][m].finalizer, ~log'[i][m].deleting
                 PROVE  cr'[m].uid = log'[i][m].uid /\ cr'[m].finalizer
    BY DEF FinalizerHolds
  <2>2. PICK j \in Entries : log'[i] = log[j]  BY <1>2, SyncLog
  <2> QED  BY <1>2, <2>1, <2>2, SyncLog DEF FinalizerHolds
<1>3. ASSUME NEW n \in Keys, NEW new \in CRs, WriteCR(n, new), Keeps(n, new)
      PROVE  FinalizerHolds'
  <2>1. cr \in [Keys -> CRs] /\ cr' = [cr EXCEPT ![n] = new]  BY <1>3, WriteLog, EntryType
  <2>2. SUFFICES ASSUME NEW i \in Entries', NEW m \in Keys,
                        log'[i][m].uid # None, log'[i][m].finalizer, ~log'[i][m].deleting
                 PROVE  cr'[m].uid = log'[i][m].uid /\ cr'[m].finalizer
    BY DEF FinalizerHolds
  <2>3. CASE log'[i] = cr'
    BY <2>2, <2>3
  <2>4. CASE i \in Entries /\ log'[i] = log[i]
    <3>1. cr[m].uid = log[i][m].uid /\ cr[m].finalizer  BY <2>2, <2>4 DEF FinalizerHolds
    <3> QED  BY <1>3, <2>1, <2>2, <2>4, <3>1 DEF Keeps
  <2> QED  BY <1>3, <2>3, <2>4, WriteLog
<1>4. CASE Finalize /\ memFresh
  <2>1. WriteCR(at, NoCR) /\ NoCR \in CRs /\ at \in Keys
    BY <1>4, NewCRType DEF Finalize, UpdateCR, TypeOK
  <2>2. cr \in [Keys -> CRs] /\ cr' = [cr EXCEPT ![at] = NoCR]  BY <2>1, WriteLog, EntryType
  <2>3. \A i \in Entries : log[i][at].deleting
    BY <1>4 DEF Finalize, PassKnows, Deleting
  <2>4. SUFFICES ASSUME NEW i \in Entries', NEW m \in Keys,
                        log'[i][m].uid # None, log'[i][m].finalizer, ~log'[i][m].deleting
                 PROVE  cr'[m].uid = log'[i][m].uid /\ cr'[m].finalizer
    BY DEF FinalizerHolds
  <2>5. CASE log'[i] = cr'
    BY <2>4, <2>5
  <2>6. CASE i \in Entries /\ log'[i] = log[i]
    <3>1. m # at  BY <2>3, <2>4, <2>6
    <3>2. cr[m].uid = log[i][m].uid /\ cr[m].finalizer  BY <2>4, <2>6 DEF FinalizerHolds
    <3> QED  BY <2>2, <2>6, <3>1, <3>2
  <2> QED  BY <2>1, <2>5, <2>6, WriteLog
<1> QED  BY <1>1, <1>2, <1>3, <1>4, CRStep

\* A user's write of another CR, or of the pass's own, which is then stale,
\* leaves what the pass knows true.
LEMMA UserPassKnows ==
  ASSUME TypeOK, PassKnows, NEW n \in Keys, NEW new \in CRs, UserWrite(n, new),
         Keeps(n, new)
  PROVE  PassKnows'
<1>1. WriteCR(n, new) /\ UNCHANGED <<pc, at, mem>> /\ memFresh' = (memFresh /\ n # at)
  BY DEF UserWrite
<1>2. cr \in [Keys -> CRs] /\ cr' = [cr EXCEPT ![n] = new] /\ at \in Keys
  BY <1>1, WriteLog, EntryType DEF TypeOK
<1>3. ASSUME memFresh' PROVE pc' # "idle" /\ \A i \in Entries' : log'[i][at'] = mem'
  <2>1. memFresh /\ n # at  BY <1>1, <1>3
  <2>2. cr'[at] = mem  BY <1>2, <2>1, FreshIsCurrent
  <2>3. \A i \in Entries : log[i][at] = mem  BY <2>1 DEF PassKnows
  <2>4. \A i \in Entries' : log'[i] = cr' \/ (i \in Entries /\ log'[i] = log[i])
    BY <1>1, WriteLog
  <2> QED  BY <1>1, <2>1, <2>2, <2>3, <2>4 DEF PassKnows
<1>4. ASSUME pc \in Applying \/ (pc = "admit" /\ mem.finalizer)
      PROVE  cr'[at].uid = mem.uid /\ cr'[at].finalizer
  <2>1. cr[at].uid = mem.uid /\ cr[at].finalizer /\ mem.uid # None
    BY <1>4 DEF PassKnows, Applying
  <2> QED  BY <1>2, <2>1 DEF Keeps
<1> QED  BY <1>1, <1>3, <1>4 DEF PassKnows, Applying

\* Every step keeps what the pass knows.
LEMMA PassKnowsStep ==
  TypeOK /\ PassKnows /\ FinalizerHolds /\ [Next]_vars => PassKnows'
<1> SUFFICES ASSUME TypeOK, PassKnows, FinalizerHolds, [Next]_vars
             PROVE  PassKnows'
  OBVIOUS
<1>0. ASSUME EndPass PROVE PassKnows'
  BY <1>0 DEF EndPass, PassKnows, Applying
\* A pass that goes on, with the CRs as they are.
<1>1. ASSUME NEW step, pc' = step, step \in Applying => pc \in Applying,
             step # "idle", step # "admit", pc # "idle", step \in Deleting <=> pc \in Deleting,
             UNCHANGED <<log, at, mem, memFresh>>
      PROVE  PassKnows'
  BY <1>1 DEF PassKnows, Entries, cr
<1>2. ASSUME NEW n \in Keys, ReadCR(n) PROVE PassKnows'
  <2>1. CASE UNCHANGED passVars
    BY <1>2, <2>1 DEF ReadCR, passVars, crVars, PassKnows, Entries, cr
  <2>2. CASE /\ cache[n].uid # None /\ (cache[n].deleting => cache[n].finalizer)
             /\ at' = n /\ mem' = cache[n] /\ memFresh' = cacheFresh(n)
             /\ pc' = IF cache[n].deleting THEN "cleanup" ELSE "admit"
    <3>1. UNCHANGED log  BY <1>2 DEF ReadCR, crVars
    <3>2. 1 \in Entries /\ cache = log[1]  BY EntryType DEF cache
    <3>3. memFresh' => \A i \in Entries : log[i][n] = mem'
      BY <2>2, <3>2 DEF cacheFresh, Entries
    <3>4. pc' = "admit" /\ mem'.finalizer => cr[n].uid = mem'.uid /\ cr[n].finalizer
      BY <2>2, <3>2 DEF FinalizerHolds
    <3>5. pc' \in {"cleanup", "admit"} /\ (mem'.deleting <=> pc' = "cleanup")  BY <2>2
    <3> QED
      BY <2>2, <3>1, <3>3, <3>4, <3>5 DEF PassKnows, Applying, Deleting, Entries, cr
  <2> QED  BY <1>2, <2>1, <2>2 DEF ReadCR
<1>3. CASE Admit
  <2>1. CASE pc' = "reject" /\ UNCHANGED <<crVars, at, mem, memFresh>>
    BY <1>1, <1>3, <2>1 DEF Admit, crVars, Applying, Deleting
  <2>2. CASE mem.finalizer /\ pc' = "agent" /\ UNCHANGED <<crVars, at, mem, memFresh>>
    BY <1>3, <2>2 DEF Admit, crVars, PassKnows, Applying, Deleting, Entries, cr
  <2> QED  BY <1>0, <1>3, <2>1, <2>2 DEF Admit, hasFinalizer
<1>4. CASE CleanupDeleted
  <2>1. EndPass \/ (pc' = "finalize" /\ UNCHANGED <<at, mem, memFresh>>)
    BY <1>4 DEF CleanupDeleted, Cleanup, afterCleanup
  <2>2. pc = "cleanup" /\ UNCHANGED log  BY <1>4 DEF CleanupDeleted, Cleanup, crVars
  <2> QED  BY <1>0, <1>1, <2>1, <2>2 DEF Applying, Deleting
<1>5. CASE CleanupRejected
  <2>1. EndPass \/ (pc' = "rejectStatus" /\ UNCHANGED <<at, mem, memFresh>>)
    BY <1>5 DEF CleanupRejected, Cleanup, afterCleanup
  <2>2. pc = "reject" /\ UNCHANGED log  BY <1>5 DEF CleanupRejected, Cleanup, crVars
  <2> QED  BY <1>0, <1>1, <2>1, <2>2 DEF Applying, Deleting
<1>6. ASSUME NEW k \in AllKinds, apply(k) \/ skip(k) \/ (k = "mcp" /\ removeMCP),
             pc \in Applying, UNCHANGED crVars
      PROVE  PassKnows'
  <2>1. EndPass \/ (pc' = nextStep(k) /\ UNCHANGED <<at, mem, memFresh>>)
    BY <1>6 DEF apply, skip, removeMCP
  <2>2. nextStep(k) \in Applying  BY DEF nextStep, AllKinds, Applying
  <2> QED  BY <1>0, <1>1, <1>6, <2>1, <2>2 DEF Applying, Deleting, crVars
<1>7. CASE ApplyAgentGrants \/ ApplyMCPGrants \/ ApplyUIGrants \/ ApplyOAuthClient
  BY <1>6, <1>7
  DEF ApplyAgentGrants, ApplyMCPGrants, ApplyUIGrants, ApplyOAuthClient, AllKinds,
      Applying
<1>8. CASE Finalize \/ RejectStatus \/ PassRequeues \/ FinishPass \/ PassFails
  BY <1>0, <1>8 DEF Finalize, RejectStatus, PassRequeues, FinishPass, PassFails
<1>9. ASSUME NEW ns \in Namespaces, SetPulseNamespace(ns) PROVE PassKnows'
  BY <1>0, <1>9 DEF SetPulseNamespace
<1>10. ASSUME NEW n \in Keys, Create(n) \/ Delete(n) \/ SetMCP(n) PROVE PassKnows'
  BY <1>10, UserKeeps, UserPassKnows
<1>11. CASE CacheSync
  <2>1. UNCHANGED passVars  BY <1>11 DEF CacheSync
  <2>2. cr' = cr /\ \A i \in Entries' : \E j \in Entries : log'[i] = log[j]
    BY <1>11, SyncLog
  <2> QED  BY <2>1, <2>2 DEF PassKnows, passVars
<1>12. CASE ObjectSync \/ UNCHANGED vars
  BY <1>12 DEF ObjectSync, vars, passVars, crVars, PassKnows, Entries, cr
<1>13. ASSUME NEW n \in Keys, Pass(n) PROVE PassKnows'
  BY <1>2, <1>3, <1>4, <1>5, <1>7, <1>8, <1>13, Zenon DEF Pass
<1> QED  BY <1>8, <1>9, <1>10, <1>11, <1>12, <1>13, Zenon DEF Next

\* No step but the end of a cleanup takes the finalizer from a CR.
LEMMA FinalizerKept ==
  ASSUME TypeOK, PassKnows, [Next]_vars, NEW n \in Keys, cr[n].uid # None,
         cr[n].finalizer, ~(Finalize /\ memFresh /\ n = at)
  PROVE  cr'[n].uid = cr[n].uid /\ cr'[n].finalizer
<1>t. cr \in [Keys -> CRs] /\ at \in Keys  BY EntryType DEF TypeOK
<1>1. CASE UNCHANGED log  BY <1>1 DEF cr
<1>2. CASE CacheSync  BY <1>2, SyncLog
<1>3. ASSUME NEW m \in Keys, NEW new \in CRs, WriteCR(m, new), Keeps(m, new)
      PROVE  cr'[n].uid = cr[n].uid /\ cr'[n].finalizer
  <2>1. cr' = [cr EXCEPT ![m] = new]  BY <1>3, WriteLog
  <2> QED  BY <1>t, <1>3, <2>1 DEF Keeps
<1>4. CASE Finalize /\ memFresh
  <2>1. WriteCR(at, NoCR) /\ NoCR \in CRs  BY <1>4, NewCRType DEF Finalize, UpdateCR
  <2>2. cr' = [cr EXCEPT ![at] = NoCR]  BY <1>t, <2>1, WriteLog
  <2> QED  BY <1>t, <1>4, <2>2
<1> QED  BY <1>1, <1>2, <1>3, <1>4, CRStep

\* Every step keeps SeriesHeld: gauges are set for a CR that has the finalizer,
\* and forgotten before it goes.
LEMMA SeriesHeldStep ==
  TypeOK /\ PassKnows /\ SeriesHeld /\ [Next]_vars => SeriesHeld'
<1> SUFFICES ASSUME TypeOK, PassKnows, SeriesHeld, [Next]_vars,
                    NEW n \in Keys, series'[n] # None
             PROVE  cr'[n].uid = series'[n] /\ cr'[n].finalizer
  BY DEF SeriesHeld
<1>t. cr \in [Keys -> CRs] /\ at \in Keys /\ series \in [Keys -> Nat]
  BY EntryType DEF TypeOK
<1>2. CASE FinishPass /\ n = at
  <2>1. series'[n] = mem.uid
    BY <1>t, <1>2 DEF FinishPass, reconcileObservedMemoryMetrics
  <2>2. cr[at].uid = mem.uid /\ cr[at].finalizer /\ mem.uid # None
    BY <1>2 DEF FinishPass, PassKnows, Applying
  <2>3. ~Finalize  BY <1>2 DEF FinishPass, Finalize
  <2> QED  BY <1>2, <2>1, <2>2, <2>3, FinalizerKept
<1>3. CASE series'[n] = series[n] /\ ~(Finalize /\ n = at)
  BY <1>3, FinalizerKept DEF SeriesHeld
<1>4. CASE Finalize /\ n = at
  BY <1>t, <1>4 DEF Finalize, forgetInstanceMetrics
<1>5. \/ series'[n] = series[n] \/ (FinishPass /\ n = at) \/ (Finalize /\ n = at)
  <2>1. CASE Finalize
    BY <1>t, <2>1 DEF Finalize, forgetInstanceMetrics
  <2>2. CASE FinishPass
    BY <1>t, <2>2 DEF FinishPass, reconcileObservedMemoryMetrics
  <2>3. CASE PassFails
    BY <2>3 DEF PassFails, noSeries
  <2>4. ASSUME NEW ns \in Namespaces, SetPulseNamespace(ns) PROVE FALSE
    BY <2>4 DEF SetPulseNamespace, noSeries
  <2>5. ASSUME NEW m \in Keys, Create(m) \/ Delete(m) \/ SetMCP(m)
        PROVE  series' = series
    BY <2>5 DEF Create, Delete, SetMCP, UserWrite, grantVars
  <2>6. ASSUME NEW m \in Keys, Pass(m), ~Finalize, ~FinishPass
        PROVE  series' = series
    BY <2>6
    DEF Pass, ReadCR, Admit, CleanupDeleted, CleanupRejected, Cleanup, RejectStatus,
        ApplyAgentGrants, ApplyMCPGrants, ApplyUIGrants, ApplyOAuthClient, grantVars
  <2>7. CASE PassRequeues \/ CacheSync \/ ObjectSync \/ UNCHANGED vars
    BY <2>7 DEF PassRequeues, CacheSync, ObjectSync, vars, grantVars
  <2> QED  BY <2>1, <2>2, <2>3, <2>4, <2>5, <2>6, <2>7, Zenon DEF Next
<1> QED  BY <1>2, <1>3, <1>4, <1>5

\* The finalizer's invariant.
FinalizerInv == TypeOK /\ FinalizerHolds /\ PassKnows /\ SeriesHeld

\* It holds from the start, in a fresh cluster or with what an older operator
\* left, through every step.
LEMMA FinalizerInvariant == Spec => []FinalizerInv
<1>1. Init => FinalizerInv
  <2> SUFFICES ASSUME Init PROVE FinalizerInv  OBVIOUS
  <2>1. TypeOK  BY InitType
  <2>2. Len(log) = 1
    <3>1. \E s : log = <<s>>  BY DEF Init, FreshStart, LegacyStart
    <3> QED  BY <3>1
  <2>3. \A i \in Entries : log[i] = cr  BY <2>2 DEF Entries, cr
  <2>4. FinalizerHolds  BY <2>3 DEF FinalizerHolds
  <2>5. PassKnows /\ SeriesHeld  BY DEF Init, PassKnows, SeriesHeld, Applying, noSeries
  <2> QED  BY <2>1, <2>4, <2>5 DEF FinalizerInv
<1>2. FinalizerInv /\ [Next]_vars => FinalizerInv'
  BY TypeStep, FinalizerHoldsStep, PassKnowsStep, SeriesHeldStep DEF FinalizerInv
<1> QED  BY <1>1, <1>2, PTL DEF Spec

\* Whatever users delete and recreate, however late the informer and wherever a
\* pass fails, the operator exports no series of a CR that is gone or of one
\* that was there before under the same name.
THEOREM NoSeriesOfTheDeleted == Spec => []NoGhostSeries
<1>1. FinalizerInv => NoGhostSeries  BY DEF FinalizerInv, SeriesHeld, NoGhostSeries
<1> QED  BY <1>1, FinalizerInvariant, PTL

-----------------------------------------------------------------------------
(* Cluster-scoped objects                                                  *)

\* Read past the informers, or through informers that are up to date, a stamp
\* is what it is.
LEMMA ReadExact ==
  ASSUME "objlag" \notin Events, NEW n, NEW k
  PROVE  readGrant(n, k) = grant[n][k]
BY DEF readGrant

\* A cleanup removes stamps of the pass's CR and adds none; one that removed all
\* it should leaves nothing of that CR.
LEMMA CleanupGrants ==
  ASSUME TypeOK, "objlag" \notin Events, NEW step, NEW next, Cleanup(step, next)
  PROVE  /\ \A n \in Keys, k \in Kinds :
              \/ grant'[n][k] = grant[n][k]
              \/ n = at /\ ours(grant[n][k], mem.uid) /\ grant'[n][k] = None
         /\ \A b \in BaseNames : old'[b] \in {old[b], None}
         /\ EndPass \/ (pc' = next /\ UNCHANGED <<at, mem, memFresh>>)
         /\ EndPass \/ /\ \A k \in Kinds : ours(grant[at][k], mem.uid) => grant'[at][k] = None
                       /\ old'[BaseName[at]] = mem.uid => mem.uid = None
<1>t. grant \in [Keys -> [Kinds -> Int]] /\ at \in Keys /\ old \in [BaseNames -> Nat]
  BY DEF TypeOK
<1>1. PICK bad : deleteClusterScopedResources(bad) /\ afterCleanup(bad, next)
  BY DEF Cleanup
<1>2. grant' = [grant EXCEPT ![at] = [k \in Kinds |->
        IF k \notin bad /\ ours(grant[at][k], mem.uid) THEN None ELSE grant[at][k]]]
  BY <1>t, <1>1, ReadExact DEF deleteClusterScopedResources, WriteGrants
<1>3. old' = IF "old" \in bad THEN old ELSE oldWithout(at, mem.uid)
  BY <1>1 DEF deleteClusterScopedResources
<1>4. \A n \in Keys, k \in Kinds :
        grant'[n][k] = IF n = at /\ k \notin bad /\ ours(grant[at][k], mem.uid)
                       THEN None ELSE grant[n][k]
  BY <1>t, <1>2
<1>5. \A b \in BaseNames : old'[b] \in {old[b], None}
  BY <1>t, <1>3 DEF oldWithout
<1>6. EndPass \/ (bad = {} /\ pc' = next /\ UNCHANGED <<at, mem, memFresh>>)
  BY <1>1 DEF afterCleanup
<1>7. bad = {} => (old'[BaseName[at]] = mem.uid => mem.uid = None)
  BY <1>t, <1>3 DEF oldWithout, BaseNames
<1>8. bad = {} => \A k \in Kinds : ours(grant[at][k], mem.uid) => grant'[at][k] = None
  BY <1>t, <1>4
<1> QED  BY <1>4, <1>5, <1>6, <1>7, <1>8

\* Applying an object stamps it for the pass's CR, or leaves the stamp.
LEMMA ApplyGrants ==
  ASSUME TypeOK, NEW k \in AllKinds, (k \in Kinds /\ apply(k)) \/ skip(k)
  PROVE  \A n \in Keys, j \in Kinds :
           grant'[n][j] = grant[n][j] \/ (n = at /\ grant'[n][j] = mem.uid)
<1>t. grant \in [Keys -> [Kinds -> Int]] /\ at \in Keys  BY DEF TypeOK
<1>1. \/ grant' = grant
      \/ k \in Kinds /\ grant' = [grant EXCEPT ![at][k] = stamped(k, @, mem.uid)]
  BY DEF apply, skip, WriteGrants
<1> QED  BY <1>t, <1>1 DEF stamped

\* All that can happen to stamps in a step: they stay, are removed, or name the
\* CR of a pass that applies objects.
LEMMA GrantStep ==
  ASSUME TypeOK, "objlag" \notin Events, [Next]_vars
  PROVE  /\ \A n \in Keys, k \in Kinds :
              \/ grant'[n][k] \in {grant[n][k], None}
              \/ pc \in Applying /\ n = at /\ grant'[n][k] = mem.uid
         /\ \A b \in BaseNames : old'[b] \in {old[b], None}
<1> DEFINE G == \A n \in Keys, k \in Kinds :
                  \/ grant'[n][k] \in {grant[n][k], None}
                  \/ pc \in Applying /\ n = at /\ grant'[n][k] = mem.uid
           O == \A b \in BaseNames : old'[b] \in {old[b], None}
<1> SUFFICES G /\ O  OBVIOUS
<1>t. grant \in [Keys -> [Kinds -> Int]] /\ at \in Keys /\ old \in [BaseNames -> Nat]
  BY DEF TypeOK
<1>0. ASSUME UNCHANGED <<grant, old>> PROVE G /\ O  BY <1>0
<1>1. CASE CleanupDeleted \/ CleanupRejected
  BY <1>1, CleanupGrants DEF CleanupDeleted, CleanupRejected
<1>2. ASSUME NEW k \in AllKinds, (k \in Kinds /\ apply(k)) \/ skip(k), pc \in Applying
      PROVE  G
  BY <1>2, ApplyGrants
<1>3. CASE ApplyAgentGrants
  <2>1. O  BY <1>t, <1>3 DEF ApplyAgentGrants, oldWithout
  <2>2. G  BY <1>2, <1>3 DEF ApplyAgentGrants, AllKinds, Applying
  <2> QED  BY <2>1, <2>2
<1>4. CASE ApplyMCPGrants
  <2>1. CASE ("mcp" \in Kinds /\ apply("mcp")) \/ skip("mcp")
    BY <1>2, <1>4, <2>1 DEF ApplyMCPGrants, AllKinds, Applying
  <2>2. CASE "mcp" \in Kinds /\ removeMCP
    <3>1. grant' = [grant EXCEPT ![at]["mcp"] =
                      IF readGrant(at, "mcp") = mem.uid THEN None ELSE @]
      BY <2>2 DEF removeMCP, WriteGrants
    <3>2. G  BY <1>t, <2>2, <3>1
    <3> QED  BY <1>4, <3>2 DEF ApplyMCPGrants
  <2> QED  BY <1>4, <2>1, <2>2 DEF ApplyMCPGrants
<1>5. CASE ApplyUIGrants \/ ApplyOAuthClient
  BY <1>2, <1>5 DEF ApplyUIGrants, ApplyOAuthClient, AllKinds, Applying
<1> HIDE DEF G, O
<1>6. ASSUME NEW n \in Keys, Pass(n) PROVE G /\ O
  <2>1. CASE ReadCR(n) \/ Admit \/ Finalize \/ RejectStatus \/ FinishPass
    BY <1>0, <2>1 DEF ReadCR, Admit, Finalize, RejectStatus, FinishPass, grantVars
  <2> QED  BY <1>1, <1>3, <1>4, <1>5, <1>6, <2>1, Zenon DEF Pass
<1>7. ASSUME NEW n \in Keys, Create(n) \/ Delete(n) \/ SetMCP(n) PROVE G /\ O
  BY <1>0, <1>7 DEF Create, Delete, SetMCP, UserWrite, grantVars
<1>8. ASSUME NEW ns \in Namespaces, SetPulseNamespace(ns) PROVE G /\ O
  BY <1>0, <1>8 DEF SetPulseNamespace
<1>9. CASE PassRequeues \/ PassFails \/ CacheSync \/ ObjectSync \/ UNCHANGED vars
  BY <1>0, <1>9 DEF PassRequeues, PassFails, CacheSync, ObjectSync, vars, grantVars
<1> QED  BY <1>6, <1>7, <1>8, <1>9, Zenon DEF Next

\* Every step keeps CleanedUp: the pass gets to the finalizer only through a
\* cleanup without failures, and nobody else writes stamps.
LEMMA CleanedUpStep ==
  ASSUME TypeOK, PassKnows, CleanedUp, "objlag" \notin Events, [Next]_vars
  PROVE  CleanedUp'
<1>t. mem \in CRs /\ at \in Keys /\ grant \in [Keys -> [Kinds -> Int]]  BY DEF TypeOK
<1>0. ASSUME pc' # "finalize" PROVE CleanedUp'  BY <1>0 DEF CleanedUp
<1>1. ASSUME UNCHANGED <<pc, at, mem, grant, old>> PROVE CleanedUp'
  BY <1>1 DEF CleanedUp
<1>2. CASE CleanupDeleted
  <2>1. pc = "cleanup" /\ Cleanup("cleanup", "finalize")
    BY <1>2 DEF CleanupDeleted, Cleanup
  <2>2. CASE EndPass  BY <1>0, <2>2 DEF EndPass
  <2>3. CASE /\ UNCHANGED <<at, mem, memFresh>>
             /\ \A k \in Kinds : ours(grant[at][k], mem.uid) => grant'[at][k] = None
             /\ old'[BaseName[at]] = mem.uid => mem.uid = None
    <3>1. mem.uid # None /\ mem.uid \in Nat  BY <1>t, <2>1 DEF PassKnows, CRs
    <3>2. \A k \in Kinds :
            \/ ~ours(grant[at][k], mem.uid) /\ grant'[at][k] = grant[at][k]
            \/ grant'[at][k] = None
      BY <1>t, <2>1, <2>3, CleanupGrants
    <3>3. ~ours(None, mem.uid)  BY <3>1 DEF ours, Unstamped
    <3> QED  BY <2>3, <3>1, <3>2, <3>3 DEF CleanedUp
  <2> QED  BY <2>1, <2>2, <2>3, CleanupGrants
<1>3. CASE CleanupRejected
  <2>1. Cleanup("reject", "rejectStatus")  BY <1>3 DEF CleanupRejected
  <2>2. pc' \in {"idle", "rejectStatus"}  BY <2>1, CleanupGrants DEF EndPass
  <2> QED  BY <1>0, <2>2
<1>4. ASSUME NEW k, apply(k) \/ skip(k) \/ removeMCP PROVE CleanedUp'
  <2>1. pc' \in {"idle", "mcp", "ui", "delegator", "oauth", "status"}
    BY <1>4 DEF apply, skip, removeMCP, nextStep, EndPass
  <2> QED  BY <1>0, <2>1
<1>5. CASE ApplyAgentGrants \/ ApplyMCPGrants \/ ApplyUIGrants \/ ApplyOAuthClient
  BY <1>4, <1>5
  DEF ApplyAgentGrants, ApplyMCPGrants, ApplyUIGrants, ApplyOAuthClient
<1>6. ASSUME NEW n \in Keys, ReadCR(n) PROVE CleanedUp'
  BY <1>0, <1>6 DEF ReadCR, passVars
<1>7. CASE Admit
  BY <1>0, <1>7 DEF Admit, EndPass
<1>8. CASE Finalize \/ RejectStatus \/ FinishPass \/ PassRequeues \/ PassFails
  BY <1>0, <1>8 DEF Finalize, RejectStatus, FinishPass, PassRequeues, PassFails, EndPass
<1>9. ASSUME NEW n \in Keys, Create(n) \/ Delete(n) \/ SetMCP(n) PROVE CleanedUp'
  BY <1>1, <1>9 DEF Create, Delete, SetMCP, UserWrite, grantVars
<1>10. ASSUME NEW ns \in Namespaces, SetPulseNamespace(ns) PROVE CleanedUp'
  BY <1>0, <1>10 DEF SetPulseNamespace, EndPass
<1>11. CASE CacheSync \/ ObjectSync \/ UNCHANGED vars
  BY <1>1, <1>11 DEF CacheSync, ObjectSync, vars, passVars, grantVars
<1>12. ASSUME NEW n \in Keys, Pass(n) PROVE CleanedUp'
  BY <1>2, <1>3, <1>5, <1>6, <1>7, <1>8, <1>12, Zenon DEF Pass
<1> QED  BY <1>8, <1>9, <1>10, <1>11, <1>12, Zenon DEF Next

\* Every step keeps NoOrphans.
LEMMA NoOrphansStep ==
  ASSUME TypeOK, PassKnows, CleanedUp, NoOrphans, "objlag" \notin Events, [Next]_vars
  PROVE  NoOrphans'
<1>t. at \in Keys /\ mem \in CRs  BY DEF TypeOK
<1>1. ASSUME NEW n \in Keys, NEW k \in Kinds, grant'[n][k] # None
      PROVE  /\ cr'[n].uid # None /\ cr'[n].finalizer
             /\ grant'[n][k] \in {Unstamped, cr'[n].uid}
  <2>1. CASE grant'[n][k] = grant[n][k]
    <3>1. /\ cr[n].uid # None /\ cr[n].finalizer
          /\ grant[n][k] \in {Unstamped, cr[n].uid}
      BY <1>1, <2>1 DEF NoOrphans
    <3>2. ~(Finalize /\ memFresh /\ n = at)
      BY <3>1, FreshIsCurrent DEF Finalize, CleanedUp, ours
    <3> QED  BY <2>1, <3>1, <3>2, FinalizerKept
  <2>2. CASE pc \in Applying /\ n = at /\ grant'[n][k] = mem.uid
    <3>1. cr[at].uid = mem.uid /\ cr[at].finalizer /\ mem.uid # None
      BY <2>2 DEF PassKnows, Applying
    <3>2. ~Finalize  BY <2>2 DEF Finalize, Applying
    <3> QED  BY <1>t, <2>2, <3>1, <3>2, FinalizerKept
  <2> QED  BY <1>1, <2>1, <2>2, GrantStep
<1>2. ASSUME NEW b \in BaseNames, old'[b] # None
      PROVE  \E n \in Keys : BaseName[n] = b /\ cr'[n].uid = old'[b] /\ cr'[n].finalizer
  <2>1. old'[b] = old[b]  BY <1>2, GrantStep
  <2>2. PICK n \in Keys : BaseName[n] = b /\ cr[n].uid = old[b] /\ cr[n].finalizer
    BY <1>2, <2>1 DEF NoOrphans
  <2>3. ~(Finalize /\ memFresh /\ n = at)
    BY <2>2, FreshIsCurrent DEF Finalize, CleanedUp
  <2>4. cr'[n].uid = cr[n].uid /\ cr'[n].finalizer
    BY <1>2, <2>1, <2>2, <2>3, FinalizerKept
  <2> QED  BY <2>1, <2>2, <2>4
<1> QED  BY <1>1, <1>2 DEF NoOrphans

\* The invariant of the cluster-scoped objects.
ObjectInv == FinalizerInv /\ CleanedUp /\ NoOrphans

\* The objects an older operator left belong to CRs that have the finalizer.
LEMMA InitObjects == Init => CleanedUp /\ NoOrphans
<1> SUFFICES ASSUME Init PROVE CleanedUp /\ NoOrphans  OBVIOUS
<1>1. CleanedUp  BY DEF Init, CleanedUp
<1>2. CASE FreshStart
  <2>1. \A n \in Keys, k \in Kinds : grant[n][k] = None  BY <1>2 DEF FreshStart
  <2>2. \A b \in BaseNames : old[b] = None  BY <1>2 DEF FreshStart
  <2> QED  BY <1>1, <2>1, <2>2 DEF NoOrphans
<1>3. CASE LegacyStart
  <2>1. PICK u \in [Keys -> 1 .. Cardinality(Keys)] : \E S \in SUBSET Keys :
          /\ log = <<[n \in Keys |-> [NoCR EXCEPT !.uid = u[n], !.created = u[n],
                                        !.finalizer = TRUE, !.phase = "Active"]]>>
          /\ grant = [n \in Keys |-> [k \in Kinds |->
                  IF k = "mcp" THEN None ELSE IF n \in S THEN u[n] ELSE Unstamped]]
          /\ \A b \in BaseNames :
               old[b] # None => \E n \in Keys : BaseName[n] = b /\ old[b] = u[n]
    BY <1>3 DEF LegacyStart
  <2>2. Cardinality(Keys) \in Nat  BY FS_CardinalityType
  <2>3. cr = [n \in Keys |-> [NoCR EXCEPT !.uid = u[n], !.created = u[n],
                                !.finalizer = TRUE, !.phase = "Active"]]
    <3> DEFINE s == [n \in Keys |-> [NoCR EXCEPT !.uid = u[n], !.created = u[n],
                                       !.finalizer = TRUE, !.phase = "Active"]]
    <3>1. log = <<s>>  BY <2>1
    <3> HIDE DEF s
    <3>2. cr = s  BY <3>1 DEF cr
    <3> QED  BY <3>2 DEF s
  <2>4. \A n \in Keys : cr[n].uid = u[n] /\ cr[n].finalizer
    BY <2>3 DEF NoCR
  <2>5. \A n \in Keys : u[n] # None  BY <2>2
  <2>6. \A n \in Keys, k \in Kinds : grant[n][k] \in {None, Unstamped, u[n]}
    <3>1. PICK S \in SUBSET Keys : grant = [n \in Keys |-> [k \in Kinds |->
            IF k = "mcp" THEN None ELSE IF n \in S THEN u[n] ELSE Unstamped]]
      BY <2>1
    <3> QED  BY <3>1
  <2>7. \A b \in BaseNames :
          old[b] # None => \E n \in Keys : BaseName[n] = b /\ old[b] = u[n]
    BY <2>1
  <2> QED  BY <1>1, <2>4, <2>5, <2>6, <2>7 DEF NoOrphans
<1> QED  BY <1>2, <1>3, <1>1 DEF Init

\* It holds from the start through every step.
LEMMA ObjectInvariant ==
  ASSUME "objlag" \notin Events
  PROVE  Spec => []ObjectInv
<1>1. Init /\ FinalizerInv => ObjectInv  BY InitObjects DEF ObjectInv
<1>2. FinalizerInv' /\ ObjectInv /\ [Next]_vars => ObjectInv'
  BY CleanedUpStep, NoOrphansStep DEF ObjectInv, FinalizerInv
<1> QED  BY <1>1, <1>2, FinalizerInvariant, PTL DEF Spec

\* "No orphans on uninstall": each cluster-scoped object belongs to a CR that
\* exists and has the finalizer that will remove it, whatever is deleted,
\* recreated, moved or failing, and starting from what an older operator left,
\* provided that the informers of these objects are up to date when a pass
\* reads them.
THEOREM NothingIsOrphaned ==
  ASSUME "objlag" \notin Events
  PROVE  Spec => []NoOrphans
<1>1. ObjectInv => NoOrphans  BY DEF ObjectInv
<1> QED  BY <1>1, ObjectInvariant, PTL

=============================================================================
