----------------------------- MODULE Instances -----------------------------
(***************************************************************************)
(* Which OpenShiftPulse CR the operator acts on, and the cluster-scoped    *)
(* objects (ClusterRoles, bindings, OAuthClient) it creates for it.        *)
(*                                                                         *)
(* These objects cannot carry an OwnerReference to a namespaced CR, so the *)
(* garbage collector never removes them: a finalizer, an owner-UID         *)
(* annotation and the admission check are all that keep them in step with  *)
(* the CRs.  CRs are created, deleted and recreated under the same name    *)
(* while a pass is running on a copy of one of them.                       *)
(***************************************************************************)
EXTENDS Integers, Sequences, FiniteSets

CONSTANTS
  Keys,        \* namespace/name pairs of CRs; < orders names in a namespace
  NS,          \* NS[n]: the namespace of key n
  BaseName,    \* BaseName[n]: the name part of key n
  Kinds,       \* which kinds of cluster-scoped object the instance includes
  MaxCRs,      \* bound on CRs ever created
  MaxEdits,    \* bound on edits of specs and of PULSE_NAMESPACE
  MaxFaults,   \* bound on failed or requeued passes
  MaxLag,      \* bound on CR writes the informer has not delivered
  Events       \* which environment events the instance includes

AllKinds == {"agent", "mcp", "ui", "delegator", "oauth"}

ASSUME InstancesAssumption ==
  /\ Keys \subseteq Nat /\ Keys # {} /\ IsFiniteSet(Keys)
  /\ DOMAIN NS = Keys /\ DOMAIN BaseName = Keys
  /\ Kinds \subseteq AllKinds
  /\ MaxCRs \in Nat /\ MaxEdits \in Nat /\ MaxFaults \in Nat /\ MaxLag \in Nat

Namespaces == {NS[n] : n \in Keys}
BaseNames == {BaseName[n] : n \in Keys}

None == 0            \* no CR, no object
Unstamped == -1      \* an object without the owner-UID annotation
UIDs == Nat \ {0}

\* A CR: uid (None when it does not exist), creationTimestamp,
\* deletionTimestamp set, finalizer present, spec.agent.mcp.enabled, phase.
CRs == [uid : Nat, created : Nat, deleting : BOOLEAN, finalizer : BOOLEAN,
        mcp : BOOLEAN, phase : {"None", "Rejected", "Active"}]

NoCR == [uid |-> None, created |-> 0, deleting |-> FALSE, finalizer |-> FALSE,
         mcp |-> FALSE, phase |-> "None"]

VARIABLES
  log,      \* states of all CRs the informer has yet to move past: the first
            \* is the cache, the last is what the API server has
  home,     \* PULSE_NAMESPACE of the running operator
  grant,    \* grant[n][k]: the owner-UID stamp of n's object of kind k
  seen,     \* the informer's copy of grant
  old,      \* old[b]: owner of the agent ClusterRole named without namespace
  series,   \* series[n]: whose values the process exports under n's labels
  pc, at, mem, memFresh,   \* the running pass: step, key, in-memory CR, and
                           \* whether its resourceVersion is still current
  nextUID, now, edits, faults

crVars == <<log, nextUID, now>>
grantVars == <<grant, seen, old, series>>
passVars == <<pc, at, mem, memFresh>>
vars == <<crVars, home, grantVars, passVars, edits, faults>>

cr == log[Len(log)]
cache == log[1]

live(s, ns) == {n \in Keys : NS[n] = ns /\ s[n].uid # None /\ ~s[n].deleting}

-----------------------------------------------------------------------------
(* Admission                                                               *)

\* Mutant: the newest CR wins.
older_Newest(s, a, b) == s[a].created > s[b].created

\* The sort order of rejectionReason: oldest first, the name breaks a tie.
older(s, a, b) ==
  \/ s[a].created < s[b].created
  \/ s[a].created = s[b].created /\ a < b

\* Mutant: a newer CR replaces the accepted one.
rejectionReason_Newest(s, n, m) ==
  \/ NS[n] # home
  \/ \E a \in live(s, home) \ {n} : older(s, n, a)

\* Mutant: any other live CR is a reason to reject.
rejectionReason_AnyOther(s, n, m) ==
  NS[n] # home \/ live(s, home) \ {n} # {}

\* rejectionReason: m, read for key n, is not the cluster's instance.
rejectionReason(s, n, m) ==
  \/ NS[n] # home
  \/ /\ \E a, b \in live(s, home) : a # b
     /\ ~\E a \in live(s, home) :
           /\ s[a].uid = m.uid
           /\ \A b \in live(s, home) \ {a} : older(s, a, b)

-----------------------------------------------------------------------------
(* Writes of CRs and of cluster-scoped objects                             *)

WriteCR(n, new) ==
  LET s == [cr EXCEPT ![n] = new]
  IN log' = IF s = cr THEN log
            ELSE IF "lag" \in Events THEN Append(log, s) ELSE <<s>>

\* An Update by the running pass: refused when its copy is out of date.
UpdateCR(new) ==
  /\ IF memFresh THEN WriteCR(at, new) ELSE UNCHANGED log
  /\ UNCHANGED <<nextUID, now>>

\* The CR was not written since the copy the cache holds.
cacheFresh(n) == \A i \in 1 .. Len(log) : log[i][n] = cr[n]

\* OAuthClient is read as an unstructured object, past the informers.
readGrant(n, k) ==
  IF "objlag" \in Events /\ k # "oauth" THEN seen[n][k] ELSE grant[n][k]

WriteGrants(new) ==
  /\ grant' = new
  /\ seen' = IF "objlag" \in Events THEN seen ELSE new

EndPass ==
  /\ pc' = "idle" /\ at' = at
  /\ mem' = NoCR /\ memFresh' = FALSE

-----------------------------------------------------------------------------
(* One reconcile pass                                                      *)

\* Get the CR.  A missing one, and a deleted one without the finalizer,
\* needs nothing.
ReadCR(n) ==
  /\ pc = "idle"
  /\ IF cache[n].uid = None \/ (cache[n].deleting /\ ~cache[n].finalizer)
     THEN UNCHANGED passVars
     ELSE /\ at' = n /\ mem' = cache[n] /\ memFresh' = cacheFresh(n)
          /\ pc' = IF cache[n].deleting THEN "cleanup" ELSE "admit"
  /\ UNCHANGED <<crVars, home, grantVars, edits, faults>>

\* Mutant: only the stamp counts, objects from before it stay.
ours_StampOnly(stamp, uid) == stamp = uid

\* del's check: another CR's stamp protects an object, a missing one does not.
ours(stamp, uid) == stamp \in {Unstamped, uid}

\* deleteStaleUnqualifiedClusterScopedResource, for the agent's old name.
oldWithout(n, uid) ==
  [old EXCEPT ![BaseName[n]] = IF @ = uid THEN None ELSE @]

\* deleteClusterScopedResources, failing for the kinds in bad.
deleteClusterScopedResources(bad) ==
  /\ WriteGrants([grant EXCEPT ![at] = [k \in Kinds |->
       IF k \notin bad /\ ours(readGrant(at, k), mem.uid) THEN None ELSE @[k]]])
  /\ old' = IF "old" \in bad THEN old ELSE oldWithout(at, mem.uid)

failures == IF "fail" \in Events /\ faults < MaxFaults
            THEN SUBSET (Kinds \cup {"old"}) ELSE {{}}

\* Mutant: removes the finalizer although some deletion failed.
afterCleanup_Ignores(bad, next) == pc' = next /\ UNCHANGED <<at, mem, memFresh>>

\* Mutant: an object that is already gone counts as a failure.
afterCleanup_GoneFails(bad, next) ==
  IF \A k \in Kinds : k \notin bad /\ grant[at][k] # None
  THEN pc' = next /\ UNCHANGED <<at, mem, memFresh>> ELSE EndPass

\* Errors are collected; any of them ends the pass, which is then retried.
afterCleanup(bad, next) ==
  IF bad = {} THEN pc' = next /\ UNCHANGED <<at, mem, memFresh>> ELSE EndPass

Cleanup(step, next) ==
  /\ pc = step
  /\ \E bad \in failures :
       /\ deleteClusterScopedResources(bad)
       /\ afterCleanup(bad, next)
       /\ faults' = IF bad = {} THEN faults ELSE faults + 1
  /\ UNCHANGED <<crVars, home, series, edits>>

CleanupDeleted == Cleanup("cleanup", "finalize")
CleanupRejected == Cleanup("reject", "rejectStatus")

\* Mutant: the last values stay.
forgetInstanceMetrics_Never(n) == series

forgetInstanceMetrics(n) == [series EXCEPT ![n] = None]

\* forgetInstanceMetrics, RemoveFinalizer and Update: the API server then drops
\* the CR.
Finalize ==
  /\ pc = "finalize"
  /\ series' = forgetInstanceMetrics(at)
  /\ UpdateCR(NoCR)
  /\ EndPass
  /\ UNCHANGED <<home, grant, seen, old, edits, faults>>

\* reject's Status().Update.
RejectStatus ==
  /\ pc = "rejectStatus"
  /\ UpdateCR([mem EXCEPT !.phase = "Rejected"])
  /\ EndPass
  /\ UNCHANGED <<home, grantVars, edits, faults>>

\* Mutant: goes on to create objects before the finalizer is stored.
hasFinalizer_Assumed(m) == TRUE

hasFinalizer(m) == m.finalizer

\* The admission check, then the finalizer, which has a pass of its own.
Admit ==
  /\ pc = "admit"
  /\ \/ /\ rejectionReason(cache, at, mem)
        /\ pc' = "reject"
        /\ UNCHANGED <<crVars, at, mem, memFresh>>
     \/ /\ ~rejectionReason(cache, at, mem) /\ ~hasFinalizer(mem)
        /\ UpdateCR([mem EXCEPT !.finalizer = TRUE])
        /\ EndPass
     \/ /\ ~rejectionReason(cache, at, mem) /\ hasFinalizer(mem)
        /\ pc' = "agent"
        /\ UNCHANGED <<crVars, at, mem, memFresh>>
  /\ UNCHANGED <<home, grantVars, edits, faults>>

\* The stamp an existing or new object of kind k carries after uid applies it:
\* bindings to system:auth-delegator and OAuthClients are stamped only when
\* they are created.
stamped(k, stamp, uid) ==
  IF stamp = None \/ k \in {"agent", "mcp", "ui"} THEN uid ELSE stamp

\* Whether applying kind k, read as stamp, sends a write at all.
writes(k, stamp, uid) ==
  CASE k \in {"agent", "mcp"} -> stamp # uid
    [] k = "delegator" -> stamp = None
    [] OTHER -> TRUE

\* Mutant: the UI grants lead to a step that does not exist.
nextStep_Lost(k) ==
  CASE k = "agent" -> "mcp" [] k = "mcp" -> "ui" [] k = "ui" -> "delegator"
    [] k = "delegator" -> "route" [] OTHER -> "status"

nextStep(k) ==
  CASE k = "agent" -> "mcp" [] k = "mcp" -> "ui" [] k = "ui" -> "delegator"
    [] k = "delegator" -> "oauth" [] OTHER -> "status"

\* Create or update mem's object of kind k.  A write based on a stale read is
\* refused (AlreadyExists, Conflict or NotFound) and ends the pass.
apply(k) ==
  LET read == readGrant(at, k)
      goOn == pc' = nextStep(k) /\ UNCHANGED <<at, mem, memFresh>>
  IN IF ~writes(k, read, mem.uid) THEN goOn /\ UNCHANGED <<grant, seen>>
     ELSE IF read # grant[at][k] THEN EndPass /\ UNCHANGED <<grant, seen>>
     ELSE /\ goOn
          /\ WriteGrants([grant EXCEPT ![at][k] = stamped(k, @, mem.uid)])

skip(k) ==
  pc' = nextStep(k) /\ UNCHANGED <<at, mem, memFresh, grant, seen>>

\* removeMCP: deleteOwnedClusterScoped takes only what carries mem's stamp.
removeMCP ==
  /\ pc' = nextStep("mcp") /\ UNCHANGED <<at, mem, memFresh>>
  /\ WriteGrants([grant EXCEPT ![at]["mcp"] =
       IF readGrant(at, "mcp") = mem.uid THEN None ELSE @])

ApplyAgentGrants ==
  /\ pc = "agent"
  /\ IF "agent" \in Kinds THEN apply("agent") ELSE skip("agent")
  /\ old' = oldWithout(at, mem.uid)
  /\ UNCHANGED <<crVars, home, series, edits, faults>>

ApplyMCPGrants ==
  /\ pc = "mcp"
  /\ IF "mcp" \notin Kinds THEN skip("mcp")
     ELSE IF mem.mcp THEN apply("mcp") ELSE removeMCP
  /\ UNCHANGED <<crVars, home, old, series, edits, faults>>

ApplyUIGrants ==
  /\ pc \in {"ui", "delegator"}
  /\ IF pc \in Kinds THEN apply(pc) ELSE skip(pc)
  /\ UNCHANGED <<crVars, home, old, series, edits, faults>>

\* The OAuthClient, once the Route has a host.
ApplyOAuthClient ==
  /\ pc = "oauth"
  /\ IF "oauth" \in Kinds THEN apply("oauth") ELSE skip("oauth")
  /\ UNCHANGED <<crVars, home, old, series, edits, faults>>

\* flushInstallingStatus, when PostgreSQL's StatefulSet is being replaced, the
\* agent Deployment is being replaced or gated, or the Route has no host yet.
PassRequeues ==
  /\ faults < MaxFaults /\ pc \in {"agent", "mcp", "oauth"}
  /\ UpdateCR([mem EXCEPT !.phase = "Active"])
  /\ EndPass
  /\ faults' = faults + 1
  /\ UNCHANGED <<home, grantVars, edits>>

\* The gauges set under the labels of n: the requested memory in every pass,
\* like the readiness, the observed memory when it could be read.
reconcileObservedMemoryMetrics(n) == [series EXCEPT ![n] = mem.uid]

\* The gauges are set, and then the status is written, if it still can be.
FinishPass ==
  /\ pc = "status"
  /\ series' = reconcileObservedMemoryMetrics(at)
  /\ UpdateCR([mem EXCEPT !.phase = "Active"])
  /\ EndPass
  /\ UNCHANGED <<home, grant, seen, old, edits, faults>>

noSeries == [n \in Keys |-> None]

\* An API error or a restart of the operator ends the pass where it is; a new
\* process exports nothing yet.
PassFails ==
  /\ "fail" \in Events /\ faults < MaxFaults /\ pc # "idle"
  /\ EndPass
  /\ series' \in {series, noSeries}
  /\ faults' = faults + 1
  /\ UNCHANGED <<crVars, home, grant, seen, old, edits>>

-----------------------------------------------------------------------------
(* Users and the informers                                                 *)

UserWrite(n, new) ==
  /\ Len(log) <= MaxLag
  /\ WriteCR(n, new)
  /\ memFresh' = (memFresh /\ n # at)
  /\ UNCHANGED <<pc, at, mem, home, grantVars, faults>>

\* Creation timestamps have a resolution of one second.
Create(n) ==
  /\ cr[n].uid = None /\ nextUID <= MaxCRs
  /\ UserWrite(n, [NoCR EXCEPT !.uid = nextUID, !.created = now])
  /\ nextUID' = nextUID + 1
  /\ now' \in (IF "tie" \in Events THEN {now, now + 1} ELSE {now + 1})
  /\ UNCHANGED edits

Delete(n) ==
  /\ cr[n].uid # None /\ ~cr[n].deleting
  /\ UserWrite(n, IF cr[n].finalizer THEN [cr[n] EXCEPT !.deleting = TRUE]
                  ELSE NoCR)
  /\ UNCHANGED <<nextUID, now, edits>>

SetMCP(n) ==
  /\ "mcp" \in Kinds /\ edits < MaxEdits /\ cr[n].uid # None
  /\ UserWrite(n, [cr[n] EXCEPT !.mcp = ~@])
  /\ edits' = edits + 1
  /\ UNCHANGED <<nextUID, now>>

\* The Subscription sets another PULSE_NAMESPACE: the operator restarts.
SetPulseNamespace(ns) ==
  /\ "namespace" \in Events /\ edits < MaxEdits /\ ns # home
  /\ home' = ns
  /\ EndPass
  /\ series' = noSeries
  /\ edits' = edits + 1
  /\ UNCHANGED <<crVars, grant, seen, old, faults>>

CacheSync ==
  /\ Len(log) > 1
  /\ log' = Tail(log)
  /\ UNCHANGED <<nextUID, now, home, grantVars, passVars, edits, faults>>

ObjectSync ==
  /\ seen # grant
  /\ seen' = grant
  /\ UNCHANGED <<crVars, home, grant, old, series, passVars, edits, faults>>

-----------------------------------------------------------------------------

FreshStart ==
  /\ log = <<[n \in Keys |-> NoCR]>>
  /\ grant = [n \in Keys |-> [k \in Kinds |-> None]]
  /\ old = [b \in BaseNames |-> None]
  /\ nextUID = 1

\* What an operator from before the admission check left: every CR set up,
\* its objects stamped or not, and old-named ones some CR of that name wrote.
LegacyStart ==
  \E u \in [Keys -> 1 .. Cardinality(Keys)], S \in SUBSET Keys :
    /\ \A m, n \in Keys : m # n => u[m] # u[n]
    /\ log = <<[n \in Keys |-> [NoCR EXCEPT !.uid = u[n], !.created = u[n],
                                  !.finalizer = TRUE, !.phase = "Active"]]>>
    /\ grant = [n \in Keys |-> [k \in Kinds |->
                  IF k = "mcp" THEN None ELSE IF n \in S THEN u[n] ELSE Unstamped]]
    /\ old \in [BaseNames -> {u[n] : n \in Keys} \cup {None}]
    /\ \A b \in BaseNames :
         old[b] # None => \E n \in Keys : BaseName[n] = b /\ old[b] = u[n]
    /\ nextUID = Cardinality(Keys) + 1

Init ==
  /\ IF "legacy" \in Events THEN LegacyStart ELSE FreshStart
  /\ now = nextUID
  /\ home \in Namespaces
  /\ seen = grant /\ series = noSeries
  /\ pc = "idle" /\ at = (CHOOSE n \in Keys : TRUE) /\ mem = NoCR /\ memFresh = FALSE
  /\ edits = 0 /\ faults = 0

\* The steps of a pass on the CR n.
Pass(n) ==
  \/ ReadCR(n)
  \/ /\ at = n
     /\ \/ Admit \/ CleanupDeleted \/ CleanupRejected \/ Finalize \/ RejectStatus
        \/ ApplyAgentGrants \/ ApplyMCPGrants \/ ApplyUIGrants
        \/ ApplyOAuthClient \/ FinishPass

Next ==
  \/ \E n \in Keys : Pass(n) \/ Create(n) \/ Delete(n) \/ SetMCP(n)
  \/ \E ns \in Namespaces : SetPulseNamespace(ns)
  \/ PassRequeues \/ PassFails \/ CacheSync \/ ObjectSync

Spec == Init /\ [][Next]_vars

\* Every CR is looked at again: after 30s when set up, after 5 minutes when
\* rejected, with back-off when a pass failed, and at once when it changes.
\* A pass that began goes on.
Fairness ==
  /\ \A n \in Keys : SF_vars(ReadCR(n)) /\ WF_vars(pc # "idle" /\ Pass(n))
  /\ WF_vars(CacheSync) /\ WF_vars(ObjectSync)

FairSpec == Spec /\ Fairness

-----------------------------------------------------------------------------
(* Properties                                                              *)

Steps == {"idle", "admit", "cleanup", "finalize", "reject", "rejectStatus",
          "agent", "mcp", "ui", "delegator", "oauth", "status"}

\* The type invariant: the CRs, the objects' stamps and the pass.
TypeOK ==
  /\ log \in Seq([Keys -> CRs]) /\ log # <<>>
  /\ home \in Namespaces
  /\ grant \in [Keys -> [Kinds -> Int]] /\ seen \in [Keys -> [Kinds -> Int]]
  /\ old \in [BaseNames -> Nat] /\ series \in [Keys -> Nat]
  /\ pc \in Steps /\ at \in Keys /\ mem \in CRs /\ memFresh \in BOOLEAN
  /\ nextUID \in Nat /\ now \in Nat /\ edits \in Nat /\ faults \in Nat

\* n's CR holds cluster-wide objects.
Holds(n) == \E k \in Kinds : grant[n][k] # None

\* "No orphans on uninstall" (README): each cluster-scoped object belongs to a
\* CR that still exists and still has the finalizer, through recreation under
\* the same name, failed cleanups, stale copies of the CR and a changed
\* PULSE_NAMESPACE.
NoOrphans ==
  /\ \A n \in Keys, k \in Kinds :
       grant[n][k] # None =>
         /\ cr[n].uid # None /\ cr[n].finalizer
         /\ grant[n][k] \in {Unstamped, cr[n].uid}
  /\ \A b \in BaseNames :
       old[b] # None =>
         \E n \in Keys : BaseName[n] = b /\ cr[n].uid = old[b] /\ cr[n].finalizer

\* A deleted instance does not go on exporting its last values, "component_ready=0
\* among them, which looks like an outage" (forgetInstanceMetrics): not through a
\* pass that was under way or read an old copy, nor under a CR recreated with the
\* same name.
NoGhostSeries ==
  \A n \in Keys : series[n] # None => cr[n].uid = series[n]

\* One instance per cluster: of the CRs of a namespace, at most one that is
\* not being deleted holds cluster-wide objects (admission.go).
SoleHolder ==
  \A m, n \in Keys :
    (/\ m # n /\ NS[m] = NS[n]
     /\ cr[m].uid # None /\ ~cr[m].deleting /\ Holds(m)
     /\ cr[n].uid # None /\ ~cr[n].deleting) => ~Holds(n)

\* n is the CR that admission should accept now.
Chosen(n) ==
  /\ NS[n] = home
  /\ n \in live(cr, home)
  /\ \A m \in live(cr, home) \ {n} : older(cr, n, m)

\* "The answer is stable and an existing install keeps working"
\* (rejectionReason): a set-up instance in the Pulse namespace is not turned
\* into a rejected one while nobody deletes it.
ExistingInstallKeepsWorking ==
  [][\A n \in Keys :
       (/\ cr[n].uid # None /\ cr[n].phase = "Active" /\ NS[n] = home
        /\ cr'[n].uid = cr[n].uid)
         => cr'[n].phase # "Rejected"]_vars

\* What the chosen instance holds is never taken from it or given another
\* stamp, by a late pass, another CR's cleanup or a recreated CR; only the MCP
\* objects go, when MCP is off.
ChosenKeepsGrants ==
  [][\A n \in Keys, k \in Kinds \ {"mcp"} :
       Chosen(n) /\ grant[n][k] = cr[n].uid => grant'[n][k] = grant[n][k]]_vars

\* A CR being deleted does go away: the finalizer never wedges.
DeletionCompletes ==
  \A n \in Keys : cr[n].deleting ~> ~cr[n].deleting

\* A CR in another namespace, or one an older CR keeps out, does not keep
\* cluster-wide objects it holds from an earlier operator or namespace.
RejectedLosesGrants ==
  \A n \in Keys :
    (Holds(n) /\ ~Chosen(n)) ~> (~Holds(n) \/ Chosen(n))

\* "If the accepted instance is deleted, the next CR in the namespace takes
\* over" (Reconcile): the chosen CR ends up set up, with what it needs.
ChosenIsSetUp ==
  \A n \in Keys :
    Chosen(n) ~> (~Chosen(n) \/ (/\ cr[n].phase = "Active"
                                 /\ \A k \in Kinds \ {"mcp"} : grant[n][k] # None))

=============================================================================
