------------------------ MODULE RollbackPolicyProofs ------------------------
(* What every implementation of RollbackPolicy can be relied on for.       *)
EXTENDS RollbackPolicy, TLAPS

\* The history is a set of images per component.
ProvenType == proven \in [Components -> SUBSET Images]

\* The policy's steps keep the history well formed and the promise true.
LEMMA PolicyStep == ProvenType /\ Safe /\ [Next]_policyVars => ProvenType' /\ Safe'
<1> SUFFICES ASSUME ProvenType, Safe, [Next]_policyVars PROVE ProvenType' /\ Safe'
  OBVIOUS
<1>1. CASE Request  BY <1>1 DEF Request, ProvenType, Safe
<1>2. CASE Prove
  <2>1. ProvenType' /\ \A c \in Components : proven[c] \subseteq proven'[c]
    BY <1>2 DEF Prove, ProvenType
  <2> QED  BY <1>2, <2>1 DEF Prove, Safe
<1>3. CASE Judge
  <2>1. ASSUME NEW c \in Components
        PROVE  /\ healthy'[c] \in proven[c] \cup {NoImage}
               /\ record'[c] # NoRecord =>
                    record'[c].to \in proven[c] /\ record'[c].from # record'[c].to
    <3>1. healthy'[c] \in proven[c] \cup {NoImage}  BY <1>3 DEF Judge, Learn, Safe
    <3>2. CASE Keep(c)  BY <3>1, <3>2 DEF Keep, Safe
    <3>3. CASE Drop(c)  BY <3>1, <3>3 DEF Drop
    <3>4. CASE GiveUp(c)  BY <3>1, <3>4 DEF GiveUp, Safe
    <3> QED  BY <1>3, <3>2, <3>3, <3>4 DEF Judge
  <2> QED  BY <1>3, <2>1 DEF Judge, ProvenType, Safe
<1>4. CASE UNCHANGED policyVars  BY <1>4 DEF policyVars, ProvenType, Safe
<1> QED  BY <1>1, <1>2, <1>3, <1>4 DEF Next

\* Rollback as the policy describes it leads only to images that proved
\* themselves, and never back to the image given up.
THEOREM PolicyIsSafe == Spec => []Safe
<1>1. Init => ProvenType /\ Safe  BY DEF Init, ProvenType, Safe
<1> QED  BY <1>1, PolicyStep, PTL DEF Spec
=============================================================================
