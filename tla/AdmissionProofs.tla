-------------------------- MODULE AdmissionProofs --------------------------
(***************************************************************************)
(* Proofs about the admission check of Instances: one instance, and it     *)
(* keeps working.                                                          *)
(*                                                                         *)
(* They rest on seniority.  The check reads a cache that may be old, while *)
(* CRs come and go.  But the log of CR states keeps the order of creation: *)
(* an older CR that the cache does not show is gone for good, and a newer  *)
(* one cannot outrank the accepted one.  So a CR that was the oldest when  *)
(* it was accepted is the oldest as long as it lives, in every state the   *)
(* informer may still deliver.                                             *)
(***************************************************************************)
EXTENDS InstancesProofs

USE InstancesAssumption DEF None

-----------------------------------------------------------------------------
(* The inductive invariants                                                *)

\* UIDs and creation timestamps are fresh, and no two CRs share either.
FreshIdentity ==
  /\ mem.uid < nextUID /\ 0 < now
  /\ \A i \in Entries, n \in Keys : log[i][n].uid < nextUID /\ log[i][n].created < now
  /\ \A i \in Entries, m, n \in Keys :
       log[i][m].uid # None /\ log[i][n].uid # None =>
         (log[i][m].uid = log[i][n].uid \/ log[i][m].created = log[i][n].created => m = n)

\* The log keeps the order of creation: an entry that does not have a CR of a
\* later entry has only older ones, and deletion is not undone.
Chronicle ==
  /\ \A i, j \in Entries : i <= j => \A n \in Keys :
       log[j][n].uid # None =>
         IF log[i][n].uid = log[j][n].uid
         THEN /\ log[i][n].created = log[j][n].created
              /\ log[i][n].deleting => log[j][n].deleting
         ELSE \A m \in Keys : log[i][m].created < log[j][n].created
  /\ \A i, j \in Entries : i <= j => \A n \in Keys :
       log[i][n].uid = cr[n].uid /\ cr[n].uid # None => log[j][n].uid = cr[n].uid

\* The copy the pass works on is in every entry, or the CR is another by now.
PassFollows ==
  pc # "idle" /\ cr[at].uid = mem.uid =>
    /\ \A i \in Entries : log[i][at].uid = mem.uid
    /\ pc \in Deleting => cr[at].deleting

\* n, if it is live, is older than every other live CR of its namespace, in
\* each state the informer has or will deliver.
Senior(n) ==
  cr[n].uid # None /\ ~cr[n].deleting =>
    \A i \in Entries :
      /\ log[i][n].uid = cr[n].uid
      /\ \A m \in live(log[i], NS[n]) \ {n} : log[i][n].created < log[i][m].created

\* A CR the operator sets up, or has set up, is the oldest.
SetUpSenior ==
  /\ pc \in Applying => Senior(at)
  /\ \A n \in Keys : cr[n].phase = "Active" => Senior(n)

\* So is one that holds cluster-wide objects.
HolderSenior == \A n \in Keys : Holds(n) => Senior(n)

\* A CR of the Pulse namespace that is being rejected has not been set up.
RejectedNotSetUp ==
  pc \in {"reject", "rejectStatus"} /\ NS[at] = home /\ cr[at].uid = mem.uid =>
    cr[at].deleting \/ cr[at].phase # "Active"

\* Nor does it hold cluster-wide objects.
RejectedNotHolder ==
  pc \in {"reject", "rejectStatus"} /\ NS[at] = home /\ cr[at].uid = mem.uid =>
    cr[at].deleting \/ ~Holds(at)

-----------------------------------------------------------------------------
(* The log of CRs                                                          *)

\* new is the CR n, no younger and no less deleted.
SameCR(n, new) ==
  /\ new.uid = cr[n].uid /\ new.created = cr[n].created
  /\ cr[n].deleting => new.deleting

\* What a write of CR n may make of it: the same CR, none, or a new one.
Ages(n, new) ==
  \/ SameCR(n, new) /\ UNCHANGED <<nextUID, now>>
  \/ new = NoCR /\ UNCHANGED <<nextUID, now>>
  \/ /\ new.uid = nextUID /\ new.created = now /\ new.phase = "None"
     /\ nextUID' = nextUID + 1 /\ now' = now + 1

\* Users' writes age the CR and leave its phase alone.
LEMMA UserAges ==
  ASSUME TypeOK, "tie" \notin Events, NEW n \in Keys, Create(n) \/ Delete(n) \/ SetMCP(n)
  PROVE  \E new \in CRs :
           UserWrite(n, new) /\ Ages(n, new) /\ new.phase \in {"None", cr[n].phase}
<1>t. cr[n] \in CRs /\ nextUID \in Nat /\ now \in Nat  BY EntryType DEF TypeOK
<1>1. CASE Create(n)
  <2> DEFINE new == [NoCR EXCEPT !.uid = nextUID, !.created = now]
  <2>1. new \in CRs /\ UserWrite(n, new)  BY <1>t, <1>1, NewCRType DEF Create
  <2>2. new.uid = nextUID /\ new.created = now /\ new.phase = "None"  BY DEF NoCR
  <2>3. nextUID' = nextUID + 1 /\ now' = now + 1  BY <1>1 DEF Create
  <2> HIDE DEF new
  <2> QED  BY <2>1, <2>2, <2>3 DEF Ages
<1>2. CASE Delete(n) /\ cr[n].finalizer
  <2> DEFINE new == [cr[n] EXCEPT !.deleting = TRUE]
  <2>1. new \in CRs /\ SameCR(n, new) /\ new.phase = cr[n].phase
    BY <1>t DEF CRs, SameCR
  <2>2. UserWrite(n, new) /\ UNCHANGED <<nextUID, now>>  BY <1>2 DEF Delete
  <2> HIDE DEF new
  <2> QED  BY <2>1, <2>2 DEF Ages
<1>3. CASE Delete(n) /\ ~cr[n].finalizer
  <2>1. UserWrite(n, NoCR) /\ UNCHANGED <<nextUID, now>>  BY <1>3 DEF Delete
  <2>2. NoCR \in CRs /\ NoCR.uid = None /\ NoCR.phase = "None"  BY NewCRType DEF NoCR
  <2> QED  BY <2>1, <2>2 DEF Ages
<1>4. CASE SetMCP(n)
  <2> DEFINE new == [cr[n] EXCEPT !.mcp = ~@]
  <2>1. new \in CRs /\ SameCR(n, new) /\ new.phase = cr[n].phase
    BY <1>t DEF CRs, SameCR
  <2>2. UserWrite(n, new) /\ UNCHANGED <<nextUID, now>>  BY <1>4 DEF SetMCP
  <2> HIDE DEF new
  <2> QED  BY <2>1, <2>2 DEF Ages
<1> QED  BY <1>1, <1>2, <1>3, <1>4

\* The writes of the pass make no other CR of it, and set it Active only when
\* the pass applies objects.
LEMMA PassAges ==
  ASSUME TypeOK, PassKnows, NEW new \in Statuses(mem) \cup {NoCR}, UpdateCR(new)
  PROVE  UNCHANGED crVars \/ (new \in CRs /\ WriteCR(at, new) /\ Ages(at, new))
<1>1. CASE memFresh /\ new \in Statuses(mem)
  BY <1>1, FreshIsCurrent, StatusSame DEF UpdateCR, Ages, SameCR
<1>2. CASE memFresh /\ new = NoCR
  BY <1>2, NewCRType DEF UpdateCR, Ages, NoCR
<1>3. CASE ~memFresh  BY <1>3 DEF UpdateCR, crVars
<1> QED  BY <1>1, <1>2, <1>3

\* All that can happen to identity, age and phase of CRs in a step.
LEMMA AgeStep ==
  ASSUME TypeOK, PassKnows, "tie" \notin Events, [Next]_vars
  PROVE  \/ UNCHANGED crVars
         \/ CacheSync
         \/ \E n \in Keys, new \in CRs :
              /\ WriteCR(n, new) /\ Ages(n, new)
              /\ new.phase = "Active" =>
                   cr[n].phase = "Active" \/ (n = at /\ pc \in Applying)
              /\ new.phase = "Rejected" =>
                   cr[n].phase = "Rejected" \/ (n = at /\ memFresh /\ RejectStatus)
<1> DEFINE Goal == \/ UNCHANGED crVars
                   \/ CacheSync
                   \/ \E n \in Keys, new \in CRs :
                        /\ WriteCR(n, new) /\ Ages(n, new)
                        /\ new.phase = "Active" =>
                             cr[n].phase = "Active" \/ (n = at /\ pc \in Applying)
                        /\ new.phase = "Rejected" =>
                             cr[n].phase = "Rejected" \/ (n = at /\ memFresh /\ RejectStatus)
<1> SUFFICES Goal  OBVIOUS
<1>t. at \in Keys /\ mem \in CRs  BY DEF TypeOK
<1>1. ASSUME NEW n \in Keys, Create(n) \/ Delete(n) \/ SetMCP(n) PROVE Goal
  BY <1>1, UserAges DEF UserWrite
<1>2. ASSUME NEW new \in Statuses(mem) \cup {NoCR}, UpdateCR(new),
             memFresh /\ new.phase = "Active" => cr[at].phase = "Active" \/ pc \in Applying,
             memFresh /\ new.phase = "Rejected" => cr[at].phase = "Rejected" \/ RejectStatus
      PROVE  Goal
  <2>1. CASE memFresh  BY <1>t, <1>2, <2>1, PassAges
  <2>2. CASE ~memFresh  BY <1>2, <2>2 DEF UpdateCR, crVars
  <2> QED  BY <2>1, <2>2
<1>3. CASE Finalize  BY <1>2, <1>3 DEF Finalize, NoCR
<1>4. CASE RejectStatus
  <2>1. [mem EXCEPT !.phase = "Rejected"].phase = "Rejected"  BY <1>t DEF CRs
  <2> QED  BY <1>2, <1>4, <2>1 DEF RejectStatus, Statuses
<1>5. CASE PassRequeues \/ FinishPass
  <2>1. [mem EXCEPT !.phase = "Active"].phase = "Active"  BY <1>t DEF CRs
  <2> QED  BY <1>2, <1>5, <2>1 DEF PassRequeues, FinishPass, Statuses, Applying
<1>6. CASE Admit
  <2>1. UNCHANGED crVars \/ UpdateCR([mem EXCEPT !.finalizer = TRUE])
    BY <1>6 DEF Admit
  <2>2. [mem EXCEPT !.finalizer = TRUE].phase = mem.phase  BY <1>t DEF CRs
  <2>3. memFresh => cr[at] = mem  BY FreshIsCurrent
  <2> QED  BY <1>2, <2>1, <2>2, <2>3 DEF Statuses
<1>7. CASE CacheSync  BY <1>7
<1>8. ASSUME UNCHANGED crVars PROVE Goal  BY <1>8
<1> HIDE DEF Goal
<1>9. ASSUME NEW n \in Keys, Pass(n) PROVE Goal
  <2>1. CASE \/ ReadCR(n) \/ CleanupDeleted \/ CleanupRejected \/ ApplyAgentGrants
             \/ ApplyMCPGrants \/ ApplyUIGrants \/ ApplyOAuthClient
    <3>1. UNCHANGED crVars
      BY <2>1
      DEF ReadCR, CleanupDeleted, CleanupRejected, Cleanup, ApplyAgentGrants,
          ApplyMCPGrants, ApplyUIGrants, ApplyOAuthClient
    <3> QED  BY <1>8, <3>1
  <2> QED  BY <1>3, <1>4, <1>5, <1>6, <1>9, <2>1, Zenon DEF Pass
<1>10. ASSUME NEW ns \in Namespaces, SetPulseNamespace(ns) PROVE Goal
  BY <1>8, <1>10 DEF SetPulseNamespace
<1>11. CASE PassFails \/ ObjectSync \/ UNCHANGED vars
  BY <1>8, <1>11 DEF PassFails, ObjectSync, vars
<1> QED  BY <1>1, <1>5, <1>7, <1>9, <1>10, <1>11, Zenon DEF Next

\* Every step keeps UIDs and creation timestamps fresh and unique.
LEMMA FreshIdentityStep ==
  ASSUME TypeOK, PassKnows, FreshIdentity, "tie" \notin Events, [Next]_vars
  PROVE  FreshIdentity'
<1> DEFINE Known(s, u, t) ==
      /\ \A n \in Keys : s[n].uid < u /\ s[n].created < t
      /\ \A m, n \in Keys :
           s[m].uid # None /\ s[n].uid # None =>
             (s[m].uid = s[n].uid \/ s[m].created = s[n].created => m = n)
<1>t. /\ nextUID \in Nat /\ now \in Nat /\ mem \in CRs /\ cr \in [Keys -> CRs]
      /\ \A i \in Entries : log[i] \in [Keys -> CRs]
      /\ 1 \in Entries /\ Len(log) \in Entries /\ cr = log[Len(log)]
  BY EntryType DEF TypeOK, cr
<1>k. \A i \in Entries : Known(log[i], nextUID, now)  BY DEF FreshIdentity
<1>1. /\ 0 < now' /\ nextUID' \in {nextUID, nextUID + 1}
      /\ \A i \in Entries' : Known(log'[i], nextUID', now')
  <2>1. CASE UNCHANGED crVars
    BY <1>k, <2>1, <1>t DEF crVars, Entries, FreshIdentity
  <2>2. CASE CacheSync
    <3>1. UNCHANGED <<nextUID, now>>  BY <2>2 DEF CacheSync
    <3>2. \A i \in Entries' : \E j \in Entries : log'[i] = log[j]  BY <2>2, SyncLog
    <3> QED  BY <1>k, <3>1, <3>2 DEF FreshIdentity
  <2>3. ASSUME NEW n \in Keys, NEW new \in CRs, WriteCR(n, new), Ages(n, new)
        PROVE  /\ 0 < now' /\ nextUID' \in {nextUID, nextUID + 1}
               /\ \A i \in Entries' : Known(log'[i], nextUID', now')
    <3>1. cr' = [cr EXCEPT ![n] = new]  BY <2>3, WriteLog
    <3>2. \A i \in Entries' : log'[i] = cr' \/ \E j \in Entries : log'[i] = log[j]
      BY <2>3, WriteLog
    <3>3. /\ nextUID' \in {nextUID, nextUID + 1} /\ now' \in {now, now + 1}
      BY <2>3 DEF Ages
    <3>4. ASSUME NEW s \in [Keys -> CRs], Known(s, nextUID, now)
          PROVE  Known(s, nextUID', now')
      <4>1. \A m \in Keys : s[m].uid \in Nat /\ s[m].created \in Nat  BY <3>4 DEF CRs
      <4>2. \A m \in Keys : s[m].uid < nextUID' /\ s[m].created < now'
        BY <1>t, <3>3, <3>4, <4>1
      <4> QED  BY <3>4, <4>2
    <3>5. Known(cr', nextUID', now')
      <4>1. Known(cr, nextUID, now)  BY <1>t, <1>k
      <4>2. \A m \in Keys : cr[m].uid \in Nat /\ cr[m].created \in Nat  BY <1>t DEF CRs
      <4>3. CASE SameCR(n, new) /\ UNCHANGED <<nextUID, now>>
        <5>1. \A m \in Keys : cr'[m].uid = cr[m].uid /\ cr'[m].created = cr[m].created
          BY <1>t, <3>1, <4>3 DEF SameCR
        <5> QED  BY <4>1, <4>3, <5>1
      <4>4. CASE new = NoCR /\ UNCHANGED <<nextUID, now>>
        <5>1. \A m \in Keys : m # n => cr'[m] = cr[m]  BY <1>t, <3>1
        <5>2. cr'[n] = new  BY <1>t, <3>1
        <5>3. 0 < nextUID  BY <1>t, <4>1, <4>2
        <5>4. \A m \in Keys : m # n => cr'[m].uid < nextUID' /\ cr'[m].created < now'
          BY <4>1, <4>4, <5>1
        <5>5. cr'[n].uid = 0 /\ cr'[n].uid < nextUID' /\ cr'[n].created < now'
          BY <4>4, <5>2, <5>3 DEF NoCR, FreshIdentity
        <5>6. \A m, q \in Keys :
                cr'[m].uid # None /\ cr'[q].uid # None =>
                  (cr'[m].uid = cr'[q].uid \/ cr'[m].created = cr'[q].created => m = q)
          <6> SUFFICES ASSUME NEW m \in Keys, NEW q \in Keys,
                              cr'[m].uid # None, cr'[q].uid # None,
                              cr'[m].uid = cr'[q].uid \/ cr'[m].created = cr'[q].created
                       PROVE  m = q
            OBVIOUS
          <6>1. m # n /\ q # n  BY <5>5
          <6>2. cr'[m] = cr[m] /\ cr'[q] = cr[q]  BY <5>1, <6>1
          <6> HIDE DEF Known
          <6>3. /\ cr[m].uid # None /\ cr[q].uid # None
                /\ cr[m].uid = cr[q].uid \/ cr[m].created = cr[q].created
            BY <6>2
          <6> QED  BY <4>1, <6>3 DEF Known
        <5> QED  BY <5>4, <5>5, <5>6
      <4>5. CASE /\ new.uid = nextUID /\ new.created = now /\ new.phase = "None"
                 /\ nextUID' = nextUID + 1 /\ now' = now + 1
        <5>1. \A m \in Keys : m # n => cr'[m] = cr[m]  BY <1>t, <3>1
        <5>2. cr'[n].uid = nextUID /\ cr'[n].created = now  BY <1>t, <3>1, <4>5
        <5>3. \A m \in Keys : m # n => cr'[m].uid < nextUID /\ cr'[m].created < now
          BY <4>1, <5>1
        <5>4. \A m \in Keys : cr'[m].uid < nextUID' /\ cr'[m].created < now'
          BY <1>t, <4>2, <4>5, <5>1, <5>2, <5>3
        <5>5. \A m, q \in Keys :
                cr'[m].uid # None /\ cr'[q].uid # None =>
                  (cr'[m].uid = cr'[q].uid \/ cr'[m].created = cr'[q].created => m = q)
          <6> SUFFICES ASSUME NEW m \in Keys, NEW q \in Keys,
                              cr'[m].uid # None, cr'[q].uid # None,
                              cr'[m].uid = cr'[q].uid \/ cr'[m].created = cr'[q].created
                       PROVE  m = q
            OBVIOUS
          <6>1. CASE m # n /\ q # n
            <7>1. cr'[m] = cr[m] /\ cr'[q] = cr[q]  BY <5>1, <6>1
            <7>2. /\ cr[m].uid # None /\ cr[q].uid # None
                  /\ cr[m].uid = cr[q].uid \/ cr[m].created = cr[q].created
              BY <7>1
            <7> QED  BY <4>1, <7>2
          <6>2. ASSUME m = n, q # n PROVE FALSE
            BY <1>t, <4>2, <5>1, <5>2, <5>3, <6>2
          <6>3. ASSUME q = n, m # n PROVE FALSE
            BY <1>t, <4>2, <5>1, <5>2, <5>3, <6>3
          <6> QED  BY <6>1, <6>2, <6>3
        <5> QED  BY <5>4, <5>5
      <4> QED  BY <2>3, <4>3, <4>4, <4>5 DEF Ages
    <3> HIDE DEF Known
    <3>6. 0 < now'  BY <1>t, <3>3 DEF FreshIdentity
    <3> QED  BY <1>t, <1>k, <3>2, <3>3, <3>4, <3>5, <3>6
  <2> HIDE DEF Known
  <2> QED  BY <2>1, <2>2, <2>3, AgeStep
<1>2. mem'.uid < nextUID'
  <2>1. mem' = mem \/ mem' = NoCR \/ \E n \in Keys : mem' = log[1][n]
    <3>1. ASSUME NEW n \in Keys, Create(n) \/ Delete(n) \/ SetMCP(n) PROVE mem' = mem
      BY <3>1 DEF Create, Delete, SetMCP, UserWrite
    <3>2. ASSUME NEW n \in Keys, Pass(n)
          PROVE  mem' = mem \/ mem' = NoCR \/ mem' = log[1][n]
      <4>1. CASE ReadCR(n)  BY <4>1 DEF ReadCR, passVars, cache
      <4>2. CASE Admit \/ CleanupDeleted \/ CleanupRejected
        BY <4>2 DEF Admit, CleanupDeleted, CleanupRejected, Cleanup, afterCleanup, EndPass
      <4>3. CASE Finalize \/ RejectStatus \/ FinishPass
        BY <4>3 DEF Finalize, RejectStatus, FinishPass, EndPass
      <4>4. CASE ApplyAgentGrants \/ ApplyMCPGrants \/ ApplyUIGrants \/ ApplyOAuthClient
        BY <4>4
        DEF ApplyAgentGrants, ApplyMCPGrants, ApplyUIGrants, ApplyOAuthClient, apply,
            skip, removeMCP, EndPass
      <4> QED  BY <3>2, <4>1, <4>2, <4>3, <4>4, Zenon DEF Pass
    <3>3. ASSUME NEW ns \in Namespaces, SetPulseNamespace(ns) PROVE mem' = NoCR
      BY <3>3 DEF SetPulseNamespace, EndPass
    <3>4. CASE PassRequeues \/ PassFails \/ CacheSync \/ ObjectSync \/ UNCHANGED vars
      BY <3>4 DEF PassRequeues, PassFails, CacheSync, ObjectSync, vars, passVars, EndPass
    <3> QED  BY <3>1, <3>2, <3>3, <3>4, Zenon DEF Next
  <2>2. /\ mem.uid < nextUID /\ \A n \in Keys : log[1][n].uid < nextUID
    BY <1>t, <1>k DEF FreshIdentity
  <2>3. mem.uid \in Nat /\ \A n \in Keys : log[1][n].uid \in Nat  BY <1>t DEF CRs
  <2>4. NoCR.uid = 0  BY DEF NoCR
  <2> QED  BY <1>t, <1>1, <2>1, <2>2, <2>3, <2>4
<1> QED  BY <1>1, <1>2 DEF FreshIdentity

\* Every step keeps the log in the order of creation.
LEMMA ChronicleStep ==
  ASSUME TypeOK, PassKnows, FreshIdentity, Chronicle, "tie" \notin Events, [Next]_vars
  PROVE  Chronicle'
<1> DEFINE Before(s, t, n) ==
      t[n].uid # None =>
        IF s[n].uid = t[n].uid
        THEN /\ s[n].created = t[n].created
             /\ s[n].deleting => t[n].deleting
        ELSE \A m \in Keys : s[m].created < t[n].created
<1>t. /\ nextUID \in Nat /\ now \in Nat /\ cr \in [Keys -> CRs]
      /\ \A i \in Entries : log[i] \in [Keys -> CRs]
      /\ Len(log) \in Entries /\ cr = log[Len(log)] /\ \A i \in Entries : i <= Len(log)
  BY EntryType DEF TypeOK, cr, Entries
<1>c. /\ \A i, j \in Entries : i <= j => \A n \in Keys : Before(log[i], log[j], n)
      /\ \A i, j \in Entries : i <= j => \A n \in Keys :
           log[i][n].uid = cr[n].uid /\ cr[n].uid # None => log[j][n].uid = cr[n].uid
  BY DEF Chronicle
<1>1. CASE UNCHANGED crVars
  BY <1>1 DEF crVars, Chronicle, Entries, cr
<1>2. CASE CacheSync
  <2>1. cr' = cr /\ \A i \in Entries' : i + 1 \in Entries /\ log'[i] = log[i + 1]
    BY <1>2, SyncLog
  <2>2. SUFFICES ASSUME NEW i \in Entries', NEW j \in Entries', i <= j, NEW n \in Keys
                 PROVE  /\ Before(log'[i], log'[j], n)
                        /\ log'[i][n].uid = cr'[n].uid /\ cr'[n].uid # None
                             => log'[j][n].uid = cr'[n].uid
    BY DEF Chronicle
  <2>3. i + 1 \in Entries /\ j + 1 \in Entries /\ i + 1 <= j + 1
    BY <2>1, <2>2 DEF Entries
  <2> HIDE DEF Before
  <2> QED  BY <1>c, <2>1, <2>3
<1>3. ASSUME NEW k \in Keys, NEW new \in CRs, WriteCR(k, new), Ages(k, new)
      PROVE  Chronicle'
  <2>1. /\ cr' = [cr EXCEPT ![k] = new]
        /\ \A i \in Entries' : \/ i = Len(log') /\ log'[i] = cr'
                               \/ i \in Entries /\ i <= Len(log') /\ log'[i] = log[i]
        /\ Len(log') \in Nat
    BY <1>3, WriteLog
  <2>2. SUFFICES ASSUME NEW i \in Entries', NEW j \in Entries', i <= j, NEW n \in Keys
                 PROVE  /\ Before(log'[i], log'[j], n)
                        /\ log'[i][n].uid = cr'[n].uid /\ cr'[n].uid # None
                             => log'[j][n].uid = cr'[n].uid
    BY DEF Chronicle
  <2>3. CASE i = j
    <3>1. log'[i] = log'[j]  BY <2>3
    <3> QED  BY <3>1
  <2>4. CASE i # j
    <3>1. i \in Entries /\ log'[i] = log[i]
      BY <2>1, <2>2, <2>4 DEF Entries
    \* CR n in the entries up to now is older than the new entry makes it.
    <3>2. Before(log[i], cr', n)
      <4>1. Before(log[i], cr, n)  BY <1>t, <1>c, <3>1
      <4>2. CASE n # k
        BY <1>t, <2>1, <4>1, <4>2
      <4>3. CASE n = k /\ SameCR(k, new)
        BY <1>t, <2>1, <4>1, <4>3 DEF SameCR
      <4>4. CASE n = k /\ new = NoCR
        BY <1>t, <2>1, <4>4 DEF NoCR
      <4>5. CASE n = k /\ new.uid = nextUID /\ new.created = now
        <5>1. \A m \in Keys : log[i][m].uid < nextUID /\ log[i][m].created < now
          BY <3>1 DEF FreshIdentity
        <5>2. cr'[n].uid = nextUID /\ cr'[n].created = now  BY <1>t, <2>1, <4>5
        <5>3. log[i][n].uid # nextUID  BY <1>t, <3>1, <5>1 DEF CRs
        <5> QED  BY <5>1, <5>2, <5>3
      <4> HIDE DEF Before
      <4> QED  BY <1>3, <4>2, <4>3, <4>4, <4>5 DEF Ages
    <3>3. CASE log'[j] = cr'
      <4> HIDE DEF Before
      <4> QED  BY <3>1, <3>2, <3>3
    <3>4. CASE j \in Entries /\ log'[j] = log[j]
      <4>1. Before(log'[i], log'[j], n)
        <5> HIDE DEF Before
        <5> QED  BY <1>c, <2>2, <3>1, <3>4
      <4>2. ASSUME log'[i][n].uid = cr'[n].uid, cr'[n].uid # None
            PROVE  log'[j][n].uid = cr'[n].uid
        <5>1. cr'[n].uid = cr[n].uid
          <6>1. CASE n # k  BY <1>t, <2>1, <6>1
          <6>2. CASE n = k
            <7>1. log[i][n].uid < nextUID /\ log[i][n].uid \in Nat
              BY <1>t, <3>1 DEF FreshIdentity, CRs
            <7>2. cr'[n].uid = new.uid  BY <1>t, <2>1, <6>2
            <7> QED  BY <1>t, <1>3, <3>1, <4>2, <6>2, <7>1, <7>2 DEF Ages, SameCR, NoCR
          <6> QED  BY <6>1, <6>2
        <5> QED  BY <1>c, <2>2, <3>1, <3>4, <4>2, <5>1
      <4> QED  BY <4>1, <4>2
    <3> QED  BY <2>1, <3>3, <3>4
  <2> QED  BY <2>3, <2>4
<1> QED  BY <1>1, <1>2, <1>3, AgeStep

\* How a step treats the running pass: it ends it, starts it from the cache, goes
\* on with the CRs and PULSE_NAMESPACE as they are, or leaves it alone.
LEMMA PassStep ==
  ASSUME TypeOK, [Next]_vars
  PROVE  \/ EndPass
         \/ \E n \in Keys : ReadCR(n) /\ at' = n /\ mem' = cache[n]
                            /\ pc' = IF cache[n].deleting THEN "cleanup" ELSE "admit"
         \/ /\ UNCHANGED <<crVars, at, mem, memFresh, home>>
            /\ \/ Admit /\ pc' = "reject" /\ rejectionReason(cache, at, mem)
               \/ Admit /\ pc' = "agent" /\ ~rejectionReason(cache, at, mem) /\ mem.finalizer
               \/ CleanupDeleted /\ pc' = "finalize"
               \/ CleanupRejected /\ pc' = "rejectStatus"
               \/ pc \in Applying /\ pc' \in Applying
         \/ UNCHANGED <<pc, at, mem, home>>
<1> DEFINE On ==
      /\ UNCHANGED <<crVars, at, mem, memFresh, home>>
      /\ \/ Admit /\ pc' = "reject" /\ rejectionReason(cache, at, mem)
         \/ Admit /\ pc' = "agent" /\ ~rejectionReason(cache, at, mem) /\ mem.finalizer
         \/ CleanupDeleted /\ pc' = "finalize"
         \/ CleanupRejected /\ pc' = "rejectStatus"
         \/ pc \in Applying /\ pc' \in Applying
<1> DEFINE Start ==
      \E n \in Keys : ReadCR(n) /\ at' = n /\ mem' = cache[n]
                      /\ pc' = IF cache[n].deleting THEN "cleanup" ELSE "admit"
<1> DEFINE Goal == EndPass \/ Start \/ On \/ UNCHANGED <<pc, at, mem, home>>
<1> SUFFICES Goal  OBVIOUS
<1>1. ASSUME NEW n \in Keys, ReadCR(n) PROVE Goal
  BY <1>1 DEF ReadCR, passVars
<1>2. CASE Admit
  BY <1>2 DEF Admit, hasFinalizer
<1>3. CASE CleanupDeleted
  <2>1. EndPass \/ (pc' = "finalize" /\ UNCHANGED <<at, mem, memFresh>>)
    BY <1>3 DEF CleanupDeleted, Cleanup, afterCleanup
  <2>2. UNCHANGED <<crVars, home>>  BY <1>3 DEF CleanupDeleted, Cleanup
  <2> QED  BY <1>3, <2>1, <2>2
<1>4. CASE CleanupRejected
  <2>1. EndPass \/ (pc' = "rejectStatus" /\ UNCHANGED <<at, mem, memFresh>>)
    BY <1>4 DEF CleanupRejected, Cleanup, afterCleanup
  <2>2. UNCHANGED <<crVars, home>>  BY <1>4 DEF CleanupRejected, Cleanup
  <2> QED  BY <1>4, <2>1, <2>2
<1>5. ASSUME NEW k \in AllKinds, apply(k) \/ skip(k) \/ (k = "mcp" /\ removeMCP),
             pc \in Applying, UNCHANGED <<crVars, home>>
      PROVE  Goal
  <2>1. EndPass \/ (pc' = nextStep(k) /\ UNCHANGED <<at, mem, memFresh>>)
    BY <1>5 DEF apply, skip, removeMCP
  <2>2. nextStep(k) \in Applying  BY DEF nextStep, AllKinds, Applying
  <2> QED  BY <1>5, <2>1, <2>2
<1>6. CASE ApplyAgentGrants \/ ApplyMCPGrants \/ ApplyUIGrants \/ ApplyOAuthClient
  BY <1>5, <1>6
  DEF ApplyAgentGrants, ApplyMCPGrants, ApplyUIGrants, ApplyOAuthClient, AllKinds,
      Applying
<1>7. CASE Finalize \/ RejectStatus \/ PassRequeues \/ FinishPass \/ PassFails
  BY <1>7 DEF Finalize, RejectStatus, PassRequeues, FinishPass, PassFails
<1>8. ASSUME NEW ns \in Namespaces, SetPulseNamespace(ns) PROVE Goal
  BY <1>8 DEF SetPulseNamespace
<1>9. ASSUME NEW n \in Keys, Create(n) \/ Delete(n) \/ SetMCP(n) PROVE Goal
  BY <1>9 DEF Create, Delete, SetMCP, UserWrite
<1>10. CASE CacheSync \/ ObjectSync \/ UNCHANGED vars
  BY <1>10 DEF CacheSync, ObjectSync, vars, passVars
<1> HIDE DEF Goal
<1>11. ASSUME NEW n \in Keys, Pass(n) PROVE Goal
  BY <1>1, <1>2, <1>3, <1>4, <1>6, <1>7, <1>11, Zenon DEF Pass
<1> QED  BY <1>7, <1>8, <1>9, <1>10, <1>11, Zenon DEF Next

\* Every step keeps PassFollows.
LEMMA PassFollowsStep ==
  ASSUME TypeOK, PassKnows, FreshIdentity, Chronicle, PassFollows, "tie" \notin Events,
         [Next]_vars
  PROVE  PassFollows'
<1>t. /\ cr \in [Keys -> CRs] /\ mem \in CRs /\ at \in Keys /\ nextUID \in Nat
      /\ 1 \in Entries /\ Len(log) \in Entries /\ cr = log[Len(log)] /\ cache = log[1]
      /\ \A i \in Entries : 1 <= i /\ i <= Len(log)
  BY EntryType DEF TypeOK, cr, cache, Entries
<1>1. CASE EndPass  BY <1>1 DEF EndPass, PassFollows
<1>2. ASSUME NEW n \in Keys, ReadCR(n), at' = n, mem' = cache[n],
             pc' = IF cache[n].deleting THEN "cleanup" ELSE "admit"
      PROVE  PassFollows'
  <2>1. UNCHANGED log /\ cr' = cr /\ Entries' = Entries
    BY <1>2 DEF ReadCR, crVars, cr, Entries
  <2>2. SUFFICES ASSUME cr[n].uid = cache[n].uid
                 PROVE  /\ \A i \in Entries : log[i][n].uid = cache[n].uid
                        /\ pc' \in Deleting => cr[n].deleting
    BY <1>2, <2>1 DEF PassFollows
  <2>3. cache[n].uid # None \/ UNCHANGED passVars  BY <1>2 DEF ReadCR
  <2>4. pc = "idle" /\ pc' # "idle"  BY <1>2 DEF ReadCR
  <2>5. cache[n].uid # None  BY <2>3, <2>4 DEF passVars
  <2>6. \A i \in Entries : log[i][n].uid = cr[n].uid
    BY <1>t, <2>2, <2>5 DEF Chronicle
  <2>7. cache[n].deleting => cr[n].deleting
    BY <1>t, <2>2, <2>5 DEF Chronicle
  <2> QED  BY <1>2, <2>2, <2>6, <2>7 DEF Deleting
<1>3. CASE /\ UNCHANGED <<crVars, at, mem>> /\ pc # "idle"
           /\ pc' \in Deleting => pc \in Deleting
  BY <1>3 DEF PassFollows, crVars, Entries, cr
<1>4. CASE UNCHANGED <<pc, at, mem, home>>
  <2>1. CASE UNCHANGED crVars
    BY <1>4, <2>1 DEF crVars, PassFollows, Entries, cr
  <2>2. CASE CacheSync
    <3>1. cr' = cr /\ \A i \in Entries' : \E j \in Entries : log'[i] = log[j]
      BY <2>2, SyncLog
    <3> QED  BY <1>4, <3>1 DEF PassFollows
  <2>3. ASSUME NEW n \in Keys, NEW new \in CRs, WriteCR(n, new), Ages(n, new)
        PROVE  PassFollows'
    <3>1. /\ cr' = [cr EXCEPT ![n] = new]
          /\ \A i \in Entries' : log'[i] = cr' \/ (i \in Entries /\ log'[i] = log[i])
      BY <2>3, WriteLog
    <3>2. SUFFICES ASSUME pc # "idle", cr'[at].uid = mem.uid
                   PROVE  /\ \A i \in Entries' : log'[i][at].uid = mem.uid
                          /\ pc \in Deleting => cr'[at].deleting
      BY <1>4 DEF PassFollows
    <3>3. mem.uid # None /\ mem.uid # nextUID
      BY <1>t, <3>2 DEF PassKnows, FreshIdentity, CRs
    <3>4. cr[at].uid = mem.uid /\ (cr[at].deleting => cr'[at].deleting)
      <4>1. CASE n # at  BY <1>t, <3>1, <3>2, <4>1
      <4>2. CASE n = at
        <5>1. cr'[at] = new  BY <1>t, <3>1, <4>2
        <5> QED  BY <2>3, <3>2, <3>3, <4>2, <5>1 DEF Ages, SameCR, NoCR
      <4> QED  BY <4>1, <4>2
    <3> QED  BY <3>1, <3>2, <3>4 DEF PassFollows
  <2> QED  BY <2>1, <2>2, <2>3, AgeStep
<1>5. \/ EndPass
      \/ \E n \in Keys : ReadCR(n) /\ at' = n /\ mem' = cache[n]
                         /\ pc' = IF cache[n].deleting THEN "cleanup" ELSE "admit"
      \/ /\ UNCHANGED <<crVars, at, mem>> /\ pc # "idle"
         /\ pc' \in Deleting => pc \in Deleting
      \/ UNCHANGED <<pc, at, mem, home>>
  BY PassStep
  DEF Admit, CleanupDeleted, CleanupRejected, Cleanup, Applying, Deleting
<1> QED  BY <1>1, <1>2, <1>3, <1>4, <1>5

-----------------------------------------------------------------------------
(* Seniority                                                               *)

\* A CR that is the oldest stays the oldest, in every step but the one that
\* creates it.
LEMMA SeniorStep ==
  ASSUME TypeOK, PassKnows, FreshIdentity, "tie" \notin Events, [Next]_vars,
         NEW n \in Keys, Senior(n), cr'[n].uid = cr[n].uid
  PROVE  Senior(n)'
<1>t. /\ cr \in [Keys -> CRs] /\ nextUID \in Nat /\ now \in Nat
      /\ Len(log) \in Entries /\ cr = log[Len(log)]
  BY EntryType DEF TypeOK, cr
<1>1. CASE UNCHANGED crVars
  BY <1>1 DEF crVars, Senior, Entries, cr
<1>2. CASE CacheSync
  <2>1. cr' = cr /\ \A i \in Entries' : \E j \in Entries : log'[i] = log[j]
    BY <1>2, SyncLog
  <2> QED  BY <2>1 DEF Senior
<1>3. ASSUME NEW k \in Keys, NEW new \in CRs, WriteCR(k, new), Ages(k, new)
      PROVE  Senior(n)'
  <2>1. /\ cr' = [cr EXCEPT ![k] = new]
        /\ \A i \in Entries' : log'[i] = cr' \/ (i \in Entries /\ log'[i] = log[i])
    BY <1>3, WriteLog
  <2>2. SUFFICES ASSUME cr'[n].uid # None, ~cr'[n].deleting, NEW i \in Entries'
                 PROVE  /\ log'[i][n].uid = cr'[n].uid
                        /\ \A m \in live(log'[i], NS[n]) \ {n} :
                             log'[i][n].created < log'[i][m].created
    BY DEF Senior
  <2>3. cr[n].uid \in Nat /\ cr[n].uid < nextUID /\ cr[n].created < now
    BY <1>t DEF FreshIdentity, CRs
  <2>4. cr'[n].created = cr[n].created /\ ~cr[n].deleting
    <3>1. CASE k # n  BY <1>t, <2>1, <2>2, <3>1
    <3>2. CASE k = n
      <4>1. cr'[n] = new  BY <1>t, <2>1, <3>2
      <4>2. SameCR(n, new)  BY <1>t, <1>3, <2>2, <2>3, <3>2, <4>1 DEF Ages, NoCR
      <4> QED  BY <2>2, <4>1, <4>2 DEF SameCR
    <3> QED  BY <3>1, <3>2
  <2>5. CASE i \in Entries /\ log'[i] = log[i]
    BY <2>2, <2>4, <2>5 DEF Senior
  <2>6. CASE log'[i] = cr'
    <3>1. ASSUME NEW m \in live(cr', NS[n]) \ {n}
          PROVE  cr'[n].created < cr'[m].created
      <4>t. m \in Keys /\ NS[m] = NS[n] /\ cr'[m].uid # None /\ ~cr'[m].deleting /\ m # n
        BY <3>1 DEF live
      <4>1. CASE /\ cr'[m].created = cr[m].created /\ cr[m].uid # None /\ ~cr[m].deleting
        <5>1. m \in live(cr, NS[n]) \ {n}  BY <4>t, <4>1 DEF live
        <5>2. cr[n].created < cr[m].created  BY <1>t, <2>2, <2>4, <5>1 DEF Senior
        <5> QED  BY <2>4, <4>1, <5>2
      <4>2. CASE m # k  BY <1>t, <2>1, <4>t, <4>1, <4>2
      <4>3. CASE m = k
        <5>1. cr'[m] = new  BY <1>t, <2>1, <4>t, <4>3
        <5>2. CASE SameCR(k, new)  BY <4>t, <4>1, <4>3, <5>1, <5>2 DEF SameCR
        <5>3. CASE new.created = now  BY <2>3, <2>4, <5>1, <5>3
        <5>4. new # NoCR  BY <4>t, <5>1 DEF NoCR
        <5> QED  BY <1>3, <5>2, <5>3, <5>4 DEF Ages
      <4> QED  BY <4>2, <4>3
    <3> QED  BY <2>2, <2>6, <3>1
  <2> QED  BY <2>1, <2>5, <2>6
<1> QED  BY <1>1, <1>2, <1>3, AgeStep

\* A pass that accepts its CR, on whatever the cache shows, has the oldest one.
LEMMA AcceptedIsSenior ==
  ASSUME TypeOK, PassKnows, FreshIdentity, Chronicle, PassFollows, pc = "admit",
         ~rejectionReason(cache, at, mem), mem.finalizer
  PROVE  Senior(at)
<1>t. /\ cr \in [Keys -> CRs] /\ at \in Keys /\ 1 \in Entries /\ Len(log) \in Entries
      /\ cr = log[Len(log)] /\ cache = log[1]
      /\ \A i \in Entries : 1 <= i /\ i <= Len(log)
      /\ \A i \in Entries, m \in Keys : log[i][m].created \in Nat
  <2>1. \A i \in Entries, m \in Keys : log[i][m].created \in Nat  BY EntryType DEF CRs
  <2> QED  BY <2>1, EntryType DEF TypeOK, cr, cache, Entries
<1>1. SUFFICES ASSUME cr[at].uid # None, ~cr[at].deleting, NEW i \in Entries
               PROVE  /\ log[i][at].uid = cr[at].uid
                      /\ \A m \in live(log[i], NS[at]) \ {at} :
                           log[i][at].created < log[i][m].created
  BY DEF Senior
<1>2. cr[at].uid = mem.uid  BY DEF PassKnows
<1>3. \A j \in Entries : log[j][at].uid = mem.uid  BY <1>2 DEF PassFollows
<1>4. ~cache[at].deleting  BY <1>t, <1>1, <1>2, <1>3 DEF Chronicle
<1>5. NS[at] = home /\ at \in live(cache, home)
  BY <1>t, <1>1, <1>2, <1>3, <1>4 DEF rejectionReason, live
<1>6. \A b \in live(cache, home) \ {at} : cache[at].created < cache[b].created
  <2>1. \A b \in live(cache, home) \ {at} : older(cache, at, b)
    <3>1. CASE \A a, b \in live(cache, home) : a = b
      BY <1>5, <3>1
    <3>2. CASE \E a \in live(cache, home) :
                 /\ cache[a].uid = mem.uid
                 /\ \A b \in live(cache, home) \ {a} : older(cache, a, b)
      <4>1. PICK a \in live(cache, home) :
                 /\ cache[a].uid = mem.uid
                 /\ \A b \in live(cache, home) \ {a} : older(cache, a, b)
        BY <3>2
      <4>2. a \in Keys /\ cache[a].uid # None  BY <4>1 DEF live
      <4>3. a = at  BY <1>t, <1>3, <4>1, <4>2 DEF FreshIdentity
      <4> QED  BY <4>1, <4>3
    <3> QED  BY <3>1, <3>2 DEF rejectionReason
  <2>2. SUFFICES ASSUME NEW b \in live(cache, home) \ {at}
                 PROVE  cache[at].created < cache[b].created
    OBVIOUS
  <2>3. b \in Keys /\ b # at /\ cache[b].uid # None /\ cache[at].uid # None
    BY <1>5 DEF live
  <2>4. cache[at].created # cache[b].created  BY <1>t, <2>3 DEF FreshIdentity
  <2> QED  BY <2>1, <2>4 DEF older
<1>7. ASSUME NEW m \in live(log[i], NS[at]) \ {at}
      PROVE  log[i][at].created < log[i][m].created
  <2>t. m \in Keys /\ m # at /\ NS[m] = home /\ log[i][m].uid # None /\ ~log[i][m].deleting
    BY <1>5 DEF live
  <2>1. log[i][at].created = cache[at].created
    BY <1>t, <1>1, <1>2, <1>3 DEF Chronicle
  <2>2. CASE cache[m].uid = log[i][m].uid
    <3>1. cache[m].created = log[i][m].created /\ ~cache[m].deleting
      BY <1>t, <2>t, <2>2 DEF Chronicle
    <3>2. m \in live(cache, home)  BY <2>t, <2>2, <3>1 DEF live
    <3> QED  BY <1>6, <2>t, <2>1, <3>1, <3>2
  <2>3. CASE cache[m].uid # log[i][m].uid
    BY <1>t, <2>t, <2>1, <2>3 DEF Chronicle
  <2> QED  BY <2>2, <2>3
<1> QED  BY <1>2, <1>3, <1>7

\* A pass that rejects its CR, still live and in the Pulse namespace, does not
\* have the oldest one.
LEMMA RejectedIsNotSenior ==
  ASSUME TypeOK, Chronicle, rejectionReason(cache, at, mem), NS[at] = home,
         cr[at].uid = mem.uid, mem.uid # None, ~cr[at].deleting
  PROVE  ~Senior(at)
<1>t. /\ at \in Keys /\ 1 \in Entries /\ Len(log) \in Entries
      /\ cr = log[Len(log)] /\ cache = log[1]
      /\ \A i \in Entries : 1 <= i /\ i <= Len(log)
  BY EntryType DEF TypeOK, cr, cache, Entries
<1> SUFFICES ASSUME Senior(at) PROVE FALSE  OBVIOUS
<1>1. /\ cache[at].uid = mem.uid
      /\ \A m \in live(cache, home) \ {at} : cache[at].created < cache[m].created
  BY <1>t DEF Senior
<1>2. ~cache[at].deleting  BY <1>t, <1>1 DEF Chronicle
<1>3. at \in live(cache, home)  BY <1>t, <1>1, <1>2 DEF live
<1> QED  BY <1>1, <1>3 DEF rejectionReason, older

-----------------------------------------------------------------------------
(* The CRs that are set up, hold objects or are rejected                   *)

\* A CR that there is after a step, and was known before it, was there before
\* it; its deletion is not undone, and it is Active only if it was, or if the
\* pass that writes it applies objects.
LEMMA Onward ==
  ASSUME TypeOK, PassKnows, FreshIdentity, "tie" \notin Events, [Next]_vars,
         NEW n \in Keys, cr'[n].uid # None
  PROVE  /\ cr'[n].uid < nextUID =>
              cr'[n].uid = cr[n].uid /\ (cr[n].deleting => cr'[n].deleting)
         /\ cr'[n].phase = "Active" =>
              /\ cr'[n].uid = cr[n].uid
              /\ cr[n].phase = "Active" \/ (n = at /\ pc \in Applying)
         /\ cr'[n].phase = "Rejected" =>
              cr[n].phase = "Rejected" \/ (n = at /\ memFresh /\ RejectStatus)
<1>t. cr \in [Keys -> CRs] /\ nextUID \in Nat  BY EntryType DEF TypeOK
<1>1. ASSUME cr' = cr
      PROVE  cr'[n] = cr[n]
  BY <1>1
<1>2. CASE UNCHANGED crVars  BY <1>2, <1>1 DEF crVars, cr
<1>3. CASE CacheSync  BY <1>3, <1>1, SyncLog
<1>4. ASSUME NEW k \in Keys, NEW new \in CRs, WriteCR(k, new), Ages(k, new),
             new.phase = "Active" => cr[k].phase = "Active" \/ (k = at /\ pc \in Applying),
             new.phase = "Rejected" =>
               cr[k].phase = "Rejected" \/ (k = at /\ memFresh /\ RejectStatus), n = k
      PROVE  /\ cr'[n].uid < nextUID =>
                  cr'[n].uid = cr[n].uid /\ (cr[n].deleting => cr'[n].deleting)
             /\ cr'[n].phase = "Active" =>
                  /\ cr'[n].uid = cr[n].uid
                  /\ cr[n].phase = "Active" \/ (n = at /\ pc \in Applying)
             /\ cr'[n].phase = "Rejected" =>
                  cr[n].phase = "Rejected" \/ (n = at /\ memFresh /\ RejectStatus)
  <2>1. cr' = [cr EXCEPT ![k] = new]  BY <1>4, WriteLog
  <2>2. cr'[n] = new  BY <1>t, <1>4, <2>1
  <2>3. new # NoCR  BY <2>2 DEF NoCR
  <2>4. CASE SameCR(n, new)  BY <1>4, <2>2, <2>4 DEF SameCR
  <2>5. CASE new.uid = nextUID /\ new.phase = "None"  BY <1>t, <2>2, <2>5
  <2> QED  BY <1>4, <2>3, <2>4, <2>5 DEF Ages
<1>5. ASSUME NEW k \in Keys, NEW new \in CRs, WriteCR(k, new), n # k
      PROVE  cr'[n] = cr[n]
  <2>1. cr' = [cr EXCEPT ![k] = new]  BY <1>5, WriteLog
  <2> QED  BY <1>t, <1>5, <2>1
<1>6. CASE cr'[n] = cr[n]  BY <1>6
<1> QED  BY <1>1, <1>2, <1>3, <1>4, <1>5, <1>6, AgeStep

\* Every step keeps SetUpSenior.
LEMMA SetUpSeniorStep ==
  ASSUME TypeOK, PassKnows, FreshIdentity, Chronicle, PassFollows, SetUpSenior,
         "tie" \notin Events, [Next]_vars
  PROVE  SetUpSenior'
<1>t. at \in Keys /\ cr \in [Keys -> CRs]  BY EntryType DEF TypeOK
<1>1. ASSUME pc' \in Applying PROVE Senior(at)'
  <2>1. ~EndPass  BY <1>1 DEF EndPass, Applying
  <2>2. ~\E n \in Keys : pc' = IF cache[n].deleting THEN "cleanup" ELSE "admit"
    BY <1>1 DEF Applying
  <2>3. CASE /\ UNCHANGED <<crVars, at, mem, memFresh, home>>
             /\ \/ Admit /\ pc' = "agent" /\ ~rejectionReason(cache, at, mem) /\ mem.finalizer
                \/ pc \in Applying /\ pc' \in Applying
    <3>1. Senior(at)
      BY <2>3, AcceptedIsSenior DEF Admit, SetUpSenior
    <3> QED  BY <2>3, <3>1 DEF Senior, crVars, cr, Entries
  <2>4. CASE UNCHANGED <<pc, at, mem, home>>
    <3>1. Senior(at) /\ pc \in Applying  BY <1>1, <2>4 DEF SetUpSenior
    <3>2. cr[at].uid # None /\ cr[at].finalizer /\ ~Finalize
      BY <3>1 DEF PassKnows, Finalize, Applying
    <3>3. cr'[at].uid = cr[at].uid  BY <1>t, <3>2, FinalizerKept
    <3>4. \A n \in Keys : n = at => Senior(n)'  BY <1>t, <3>1, <3>3, SeniorStep
    <3> QED  BY <1>t, <2>4, <3>4 DEF Senior
  <2>5. \/ EndPass
        \/ \E n \in Keys : pc' = IF cache[n].deleting THEN "cleanup" ELSE "admit"
        \/ /\ UNCHANGED <<crVars, at, mem, memFresh, home>>
           /\ \/ Admit /\ pc' = "agent" /\ ~rejectionReason(cache, at, mem) /\ mem.finalizer
              \/ pc \in Applying /\ pc' \in Applying
        \/ UNCHANGED <<pc, at, mem, home>>
    BY <1>1, PassStep DEF Applying
  <2> QED  BY <2>1, <2>2, <2>3, <2>4, <2>5
<1>2. ASSUME NEW n \in Keys, cr'[n].phase = "Active" PROVE Senior(n)'
  <2>1. CASE cr'[n].uid = None  BY <2>1 DEF Senior
  <2>2. CASE cr'[n].uid # None
    <3>1. /\ cr'[n].uid = cr[n].uid
          /\ cr[n].phase = "Active" \/ (n = at /\ pc \in Applying)
      BY <1>2, <2>2, Onward
    <3>2. Senior(n)  BY <3>1 DEF SetUpSenior
    <3> QED  BY <3>1, <3>2, SeniorStep
  <2> QED  BY <2>1, <2>2
<1> QED  BY <1>1, <1>2 DEF SetUpSenior


Rejecting == {"reject", "rejectStatus"}

\* A pass that rejects a CR of the Pulse namespace began to do so on a CR that
\* was not the oldest, or has been doing so with the same CR.
LEMMA RejectingStep ==
  ASSUME TypeOK, PassKnows, FreshIdentity, Chronicle, "tie" \notin Events, [Next]_vars,
         pc' \in Rejecting, (NS[at] = home)', (cr[at].uid = mem.uid)'
  PROVE  /\ at' = at /\ mem' = mem /\ cr[at].uid = mem.uid /\ NS[at] = home
         /\ mem.uid # None /\ pc \notin Applying
         /\ cr[at].deleting => cr'[at].deleting
         /\ cr[at].deleting \/ ~Senior(at) \/ pc \in Rejecting
<1>t. at \in Keys /\ mem \in CRs /\ cr \in [Keys -> CRs] /\ nextUID \in Nat
  BY EntryType DEF TypeOK
<1>1. ~EndPass  BY DEF EndPass, Rejecting
<1>2. ~\E n \in Keys : pc' = IF cache[n].deleting THEN "cleanup" ELSE "admit"
  BY DEF Rejecting
<1>3. CASE UNCHANGED <<crVars, at, mem, home>> /\ Admit /\ rejectionReason(cache, at, mem)
  <2>1. cr' = cr  BY <1>3 DEF crVars, cr
  <2>2. cr[at].uid = mem.uid /\ NS[at] = home  BY <1>3, <2>1
  <2>3. pc = "admit" /\ mem.uid # None  BY <1>3 DEF Admit, PassKnows
  <2>4. cr[at].deleting \/ ~Senior(at)  BY <1>3, <2>2, <2>3, RejectedIsNotSenior
  <2> QED  BY <1>3, <2>1, <2>2, <2>3, <2>4 DEF Applying
<1>4. CASE UNCHANGED <<crVars, at, mem, home>> /\ CleanupRejected
  <2>1. cr' = cr  BY <1>4 DEF crVars, cr
  <2>2. pc = "reject" /\ mem.uid # None
    BY <1>4 DEF CleanupRejected, Cleanup, PassKnows
  <2> QED  BY <1>4, <2>1, <2>2 DEF Applying, Rejecting
<1>5. CASE UNCHANGED <<pc, at, mem, home>>
  <2>1. pc \in Rejecting /\ mem.uid # None /\ mem.uid < nextUID
    BY <1>5 DEF PassKnows, FreshIdentity, Rejecting
  <2>2. cr'[at].uid = mem.uid /\ NS[at] = home  BY <1>5
  <2>3. cr'[at].uid = cr[at].uid /\ (cr[at].deleting => cr'[at].deleting)
    BY <1>t, <2>1, <2>2, Onward
  <2> QED  BY <1>5, <2>1, <2>2, <2>3 DEF Applying, Rejecting
<1>6. \/ EndPass
      \/ \E n \in Keys : pc' = IF cache[n].deleting THEN "cleanup" ELSE "admit"
      \/ UNCHANGED <<crVars, at, mem, home>> /\ Admit /\ rejectionReason(cache, at, mem)
      \/ UNCHANGED <<crVars, at, mem, home>> /\ CleanupRejected
      \/ UNCHANGED <<pc, at, mem, home>>
  BY PassStep DEF Applying, Rejecting
<1> QED  BY <1>1, <1>2, <1>3, <1>4, <1>5, <1>6

\* Every step keeps RejectedNotSetUp.
LEMMA RejectedNotSetUpStep ==
  ASSUME TypeOK, PassKnows, FreshIdentity, Chronicle, SetUpSenior, RejectedNotSetUp,
         "tie" \notin Events, [Next]_vars
  PROVE  RejectedNotSetUp'
<1> SUFFICES ASSUME pc' \in Rejecting, (NS[at] = home)', (cr[at].uid = mem.uid)',
                    (cr[at].phase = "Active")'
             PROVE  cr'[at'].deleting
  BY DEF RejectedNotSetUp, Rejecting
<1>t. at \in Keys  BY DEF TypeOK
<1>1. /\ at' = at /\ mem' = mem /\ cr[at].uid = mem.uid /\ NS[at] = home
      /\ mem.uid # None /\ pc \notin Applying
      /\ cr[at].deleting => cr'[at].deleting
      /\ cr[at].deleting \/ ~Senior(at) \/ pc \in Rejecting
  BY RejectingStep
<1>2. cr[at].phase = "Active"
  <2>1. cr'[at].uid # None  BY <1>1
  <2> QED  BY <1>t, <1>1, <2>1, Onward
<1>3. cr[at].deleting  BY <1>t, <1>1, <1>2 DEF SetUpSenior, RejectedNotSetUp, Rejecting
<1> QED  BY <1>1, <1>3

\* Every step keeps HolderSenior: a CR with objects keeps its identity until they
\* are gone, and only a pass that applies objects adds some.
LEMMA HolderSeniorStep ==
  ASSUME TypeOK, PassKnows, CleanedUp, NoOrphans, FreshIdentity, SetUpSenior, HolderSenior,
         "tie" \notin Events, "objlag" \notin Events, [Next]_vars
  PROVE  HolderSenior'
<1>t. at \in Keys  BY DEF TypeOK
<1> SUFFICES ASSUME NEW n \in Keys, NEW k \in Kinds, grant'[n][k] # None
             PROVE  Senior(n)'
  BY DEF HolderSenior, Holds
<1>1. CASE grant'[n][k] = grant[n][k]
  <2>1. Senior(n)  BY <1>1 DEF HolderSenior, Holds
  <2>2. /\ cr[n].uid # None /\ cr[n].finalizer
        /\ grant[n][k] \in {Unstamped, cr[n].uid}
    BY <1>1 DEF NoOrphans
  <2>3. ~(Finalize /\ memFresh /\ n = at)
    BY <2>2, FreshIsCurrent DEF Finalize, CleanedUp, ours
  <2>4. cr'[n].uid = cr[n].uid  BY <2>2, <2>3, FinalizerKept
  <2> QED  BY <2>1, <2>4, SeniorStep
<1>2. CASE pc \in Applying /\ n = at
  <2>1. Senior(n)  BY <1>2 DEF SetUpSenior
  <2>2. cr[n].uid # None /\ cr[n].finalizer /\ ~Finalize
    BY <1>2 DEF PassKnows, Finalize, Applying
  <2>3. cr'[n].uid = cr[n].uid  BY <2>2, FinalizerKept
  <2> QED  BY <2>1, <2>3, SeniorStep
<1> QED  BY <1>1, <1>2, GrantStep

\* Every step keeps RejectedNotHolder.
LEMMA RejectedNotHolderStep ==
  ASSUME TypeOK, PassKnows, FreshIdentity, Chronicle, HolderSenior, RejectedNotHolder,
         "tie" \notin Events, "objlag" \notin Events, [Next]_vars
  PROVE  RejectedNotHolder'
<1> SUFFICES ASSUME pc' \in Rejecting, (NS[at] = home)', (cr[at].uid = mem.uid)',
                    Holds(at)'
             PROVE  cr'[at'].deleting
  BY DEF RejectedNotHolder, Rejecting
<1>t. at \in Keys  BY DEF TypeOK
<1>1. /\ at' = at /\ mem' = mem /\ cr[at].uid = mem.uid /\ NS[at] = home
      /\ mem.uid # None /\ pc \notin Applying
      /\ cr[at].deleting => cr'[at].deleting
      /\ cr[at].deleting \/ ~Senior(at) \/ pc \in Rejecting
  BY RejectingStep
<1>2. PICK k \in Kinds : grant'[at][k] # None  BY <1>1 DEF Holds
<1>3. Holds(at)  BY <1>t, <1>1, <1>2, GrantStep DEF Holds
<1>4. cr[at].deleting  BY <1>t, <1>1, <1>3 DEF HolderSenior, RejectedNotHolder, Rejecting
<1> QED  BY <1>1, <1>4


-----------------------------------------------------------------------------
(* The theorems                                                            *)

\* The invariant of the admission check.
AdmissionInv ==
  /\ FinalizerInv /\ FreshIdentity /\ Chronicle /\ PassFollows
  /\ SetUpSenior /\ RejectedNotSetUp

\* It holds from the start of a fresh cluster through every step.
LEMMA AdmissionInvariant ==
  ASSUME "legacy" \notin Events, "tie" \notin Events
  PROVE  Spec => []AdmissionInv
<1>1. Init /\ FinalizerInv => AdmissionInv
  <2> SUFFICES ASSUME Init, FinalizerInv PROVE AdmissionInv  OBVIOUS
  <2>1. /\ log = <<[n \in Keys |-> NoCR]>> /\ nextUID = 1 /\ now = 1
        /\ pc = "idle" /\ mem = NoCR
    BY DEF Init, FreshStart
  <2>2. Len(log) = 1 /\ log[1] = [n \in Keys |-> NoCR]  BY <2>1
  <2>3. \A i \in Entries : i = 1  BY <2>2 DEF Entries
  <2>4. \A i \in Entries, n \in Keys : log[i][n] = NoCR
    <3>1. \A n \in Keys : log[1][n] = NoCR  BY <2>2
    <3> QED  BY <2>3, <3>1
  <2>5. \A n \in Keys : cr[n] = NoCR  BY <2>2 DEF cr
  <2>6. FreshIdentity
    <3>1. NoCR.uid = 0 /\ NoCR.created = 0  BY DEF NoCR
    <3>2. mem.uid < nextUID /\ 0 < now /\ nextUID = 1 /\ now = 1  BY <2>1, <3>1
    <3>3. \A i \in Entries, n \in Keys : log[i][n].uid = 0 /\ log[i][n].created = 0
      BY <2>4, <3>1
    <3> QED  BY <3>2, <3>3 DEF FreshIdentity
  <2>7. Chronicle  BY <2>4, <2>5 DEF Chronicle, NoCR
  <2>8. PassFollows /\ SetUpSenior /\ RejectedNotSetUp
    BY <2>1, <2>5 DEF PassFollows, SetUpSenior, RejectedNotSetUp, NoCR, Applying
  <2> QED  BY <2>6, <2>7, <2>8 DEF AdmissionInv
<1>2. AdmissionInv /\ [Next]_vars /\ FinalizerInv' => AdmissionInv'
  BY FreshIdentityStep, ChronicleStep, PassFollowsStep, SetUpSeniorStep,
     RejectedNotSetUpStep
  DEF AdmissionInv, FinalizerInv
<1> QED  BY <1>1, <1>2, FinalizerInvariant, PTL DEF Spec

\* The invariant with the objects the CRs hold.
HolderInv == AdmissionInv /\ ObjectInv /\ HolderSenior /\ RejectedNotHolder

\* It holds too, when the informers of these objects are up to date.
LEMMA HolderInvariant ==
  ASSUME "legacy" \notin Events, "tie" \notin Events, "objlag" \notin Events
  PROVE  Spec => []HolderInv
<1>1. Init /\ AdmissionInv /\ ObjectInv => HolderInv
  <2> SUFFICES ASSUME Init, AdmissionInv, ObjectInv PROVE HolderInv  OBVIOUS
  <2>1. \A n \in Keys : ~Holds(n)  BY DEF Init, FreshStart, Holds
  <2> QED  BY <2>1 DEF Init, HolderInv, HolderSenior, RejectedNotHolder
<1>2. HolderInv /\ [Next]_vars /\ AdmissionInv' /\ ObjectInv' => HolderInv'
  BY HolderSeniorStep, RejectedNotHolderStep
  DEF HolderInv, AdmissionInv, ObjectInv, FinalizerInv
<1> QED  BY <1>1, <1>2, AdmissionInvariant, ObjectInvariant, PTL DEF Spec

\* "The answer is stable and an existing install keeps working": with creation
\* timestamps that tell CRs apart, a pass that works on an old cache never turns
\* a set-up instance of the Pulse namespace into a rejected one.
THEOREM InstallKeepsWorking ==
  ASSUME "legacy" \notin Events, "tie" \notin Events
  PROVE  Spec => ExistingInstallKeepsWorking
<1>1. ASSUME AdmissionInv, [Next]_vars, NEW n \in Keys, cr[n].uid # None,
             cr[n].phase = "Active", NS[n] = home, cr'[n].uid = cr[n].uid
      PROVE  cr'[n].phase # "Rejected"
  <2> SUFFICES ASSUME cr'[n].phase = "Rejected" PROVE FALSE  OBVIOUS
  <2>1. n = at /\ memFresh /\ pc = "rejectStatus"
    BY <1>1, Onward DEF AdmissionInv, FinalizerInv, RejectStatus
  <2>2. cr[at] = mem  BY <1>1, <2>1, FreshIsCurrent DEF AdmissionInv, FinalizerInv
  <2>3. ~cr[at].deleting
    BY <1>1, <2>1, <2>2 DEF AdmissionInv, FinalizerInv, PassKnows, Deleting
  <2> QED  BY <1>1, <2>1, <2>2, <2>3 DEF AdmissionInv, RejectedNotSetUp
<1>2. AdmissionInv /\ [Next]_vars =>
        [\A n \in Keys :
           (/\ cr[n].uid # None /\ cr[n].phase = "Active" /\ NS[n] = home
            /\ cr'[n].uid = cr[n].uid)
             => cr'[n].phase # "Rejected"]_vars
  BY <1>1
<1> QED  BY <1>2, AdmissionInvariant, PTL DEF Spec, ExistingInstallKeepsWorking

\* One instance per cluster: of the CRs of a namespace, at most one that is not
\* being deleted holds cluster-wide objects.
THEOREM OneHolder ==
  ASSUME "legacy" \notin Events, "tie" \notin Events, "objlag" \notin Events
  PROVE  Spec => []SoleHolder
<1>1. HolderInv => SoleHolder
  <2> SUFFICES ASSUME HolderInv, NEW m \in Keys, NEW n \in Keys, m # n, NS[m] = NS[n],
                      cr[m].uid # None, ~cr[m].deleting, Holds(m),
                      cr[n].uid # None, ~cr[n].deleting, Holds(n)
               PROVE  FALSE
    BY DEF SoleHolder
  <2>1. Len(log) \in Entries /\ log[Len(log)] = cr /\ cr \in [Keys -> CRs]
    BY EntryType DEF HolderInv, AdmissionInv, FinalizerInv, cr
  <2>2. n \in live(cr, NS[m]) \ {m} /\ m \in live(cr, NS[n]) \ {n}  BY DEF live
  <2>3. Senior(m) /\ Senior(n)  BY DEF HolderInv, HolderSenior
  <2>4. cr[m].created < cr[n].created  BY <2>1, <2>2, <2>3 DEF Senior
  <2>5. cr[n].created < cr[m].created  BY <2>1, <2>2, <2>3 DEF Senior
  <2>6. cr[m].created \in Nat /\ cr[n].created \in Nat  BY <2>1 DEF CRs
  <2> QED  BY <2>4, <2>5, <2>6
<1> QED  BY <1>1, HolderInvariant, PTL

\* A stamp changes only by a cleanup of the CR it names, or of an unstamped
\* object, by a pass that applies the object, or as one of MCP's.
LEMMA GrantChange ==
  ASSUME TypeOK, "objlag" \notin Events, [Next]_vars, NEW n \in Keys,
         NEW k \in Kinds \ {"mcp"}, grant'[n][k] # grant[n][k]
  PROVE  /\ n = at
         /\ \/ (CleanupDeleted \/ CleanupRejected) /\ ours(grant[n][k], mem.uid)
            \/ pc \in Applying /\ grant'[n][k] = mem.uid
<1> DEFINE Goal == /\ n = at
                   /\ \/ (CleanupDeleted \/ CleanupRejected) /\ ours(grant[n][k], mem.uid)
                      \/ pc \in Applying /\ grant'[n][k] = mem.uid
<1> SUFFICES Goal  OBVIOUS
<1>t. grant \in [Keys -> [Kinds -> Int]] /\ at \in Keys  BY DEF TypeOK
<1>0. ASSUME UNCHANGED grant PROVE FALSE  BY <1>0
<1>1. CASE CleanupDeleted \/ CleanupRejected
  BY <1>1, CleanupGrants DEF CleanupDeleted, CleanupRejected
<1>2. ASSUME NEW j \in AllKinds, (j \in Kinds /\ apply(j)) \/ skip(j), pc \in Applying
      PROVE  Goal
  BY <1>2, ApplyGrants
<1>3. CASE ApplyAgentGrants
  BY <1>2, <1>3 DEF ApplyAgentGrants, AllKinds, Applying
<1>4. CASE ApplyMCPGrants
  <2>1. CASE ("mcp" \in Kinds /\ apply("mcp")) \/ skip("mcp")
    BY <1>2, <1>4, <2>1 DEF ApplyMCPGrants, AllKinds, Applying
  <2>2. CASE "mcp" \in Kinds /\ removeMCP
    <3>1. grant' = [grant EXCEPT ![at]["mcp"] =
                      IF readGrant(at, "mcp") = mem.uid THEN None ELSE @]
      BY <2>2 DEF removeMCP, WriteGrants
    <3>2. grant'[n][k] = grant[n][k]  BY <1>t, <2>2, <3>1
    <3> QED  BY <3>2
  <2> QED  BY <1>4, <2>1, <2>2 DEF ApplyMCPGrants
<1>5. CASE ApplyUIGrants \/ ApplyOAuthClient
  BY <1>2, <1>5 DEF ApplyUIGrants, ApplyOAuthClient, AllKinds, Applying
<1> HIDE DEF Goal
<1>6. ASSUME NEW m \in Keys, Pass(m) PROVE Goal
  <2>1. CASE ReadCR(m) \/ Admit \/ Finalize \/ RejectStatus \/ FinishPass
    BY <1>0, <2>1 DEF ReadCR, Admit, Finalize, RejectStatus, FinishPass, grantVars
  <2> QED  BY <1>1, <1>3, <1>4, <1>5, <1>6, <2>1, Zenon DEF Pass
<1>7. ASSUME NEW m \in Keys, Create(m) \/ Delete(m) \/ SetMCP(m) PROVE Goal
  BY <1>0, <1>7 DEF Create, Delete, SetMCP, UserWrite, grantVars
<1>8. ASSUME NEW ns \in Namespaces, SetPulseNamespace(ns) PROVE Goal
  BY <1>0, <1>8 DEF SetPulseNamespace
<1>9. CASE PassRequeues \/ PassFails \/ CacheSync \/ ObjectSync \/ UNCHANGED vars
  BY <1>0, <1>9 DEF PassRequeues, PassFails, CacheSync, ObjectSync, vars, grantVars
<1> QED  BY <1>6, <1>7, <1>8, <1>9, Zenon DEF Next

\* What the chosen instance holds is never taken from it or given another stamp:
\* a late cleanup of a CR before it under the same name does not match its
\* stamp, and a pass that rejects it, though it worked on an old cache, found an
\* older CR that is still there.
THEOREM ChosenIsNotRobbed ==
  ASSUME "legacy" \notin Events, "tie" \notin Events, "objlag" \notin Events
  PROVE  Spec => ChosenKeepsGrants
<1>1. ASSUME HolderInv, [Next]_vars, NEW n \in Keys, NEW k \in Kinds \ {"mcp"},
             Chosen(n), grant[n][k] = cr[n].uid, grant'[n][k] # grant[n][k]
      PROVE  FALSE
  <2>t. TypeOK /\ PassKnows /\ PassFollows /\ RejectedNotHolder
    BY <1>1 DEF HolderInv, AdmissionInv, FinalizerInv
  <2>1. /\ n = at
        /\ \/ (CleanupDeleted \/ CleanupRejected) /\ ours(grant[n][k], mem.uid)
           \/ pc \in Applying /\ grant'[n][k] = mem.uid
    BY <1>1, <2>t, GrantChange
  <2>2. cr[n].uid # None /\ ~cr[n].deleting /\ NS[n] = home  BY <1>1 DEF Chosen, live
  <2>3. cr[n].uid \in Nat  BY <1>1, <2>t, EntryType DEF CRs
  <2>4. CASE pc \in Applying /\ grant'[n][k] = mem.uid
    BY <1>1, <2>t, <2>1, <2>4 DEF PassKnows
  <2>5. CASE (CleanupDeleted \/ CleanupRejected) /\ ours(grant[n][k], mem.uid)
    <3>1. cr[at].uid = mem.uid  BY <1>1, <2>1, <2>3, <2>5 DEF ours, Unstamped
    <3>2. pc \in {"cleanup", "reject"}
      BY <2>5 DEF CleanupDeleted, CleanupRejected, Cleanup
    <3>3. pc # "cleanup"  BY <2>t, <2>1, <2>2, <3>1 DEF PassFollows, Deleting
    <3>4. Holds(at)  BY <1>1, <2>1, <2>2 DEF Holds
    <3> QED  BY <2>t, <2>1, <2>2, <3>1, <3>2, <3>3, <3>4 DEF RejectedNotHolder
  <2> QED  BY <2>1, <2>4, <2>5
<1>2. HolderInv /\ [Next]_vars =>
        [\A n \in Keys, k \in Kinds \ {"mcp"} :
           Chosen(n) /\ grant[n][k] = cr[n].uid => grant'[n][k] = grant[n][k]]_vars
  BY <1>1
<1> QED  BY <1>2, HolderInvariant, PTL DEF Spec, ChosenKeepsGrants

=============================================================================
