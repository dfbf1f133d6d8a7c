--------------------------- MODULE FeaturesProofs ---------------------------
(***************************************************************************)
(* Proofs about Features, for every choice of switches, of objects that    *)
(* are not the operator's, of events and bounds: a pass makes its calls in *)
(* an order that puts what a pod needs before the pod.                     *)
(***************************************************************************)
EXTENDS Features, SequenceTheorems, TLAPS

USE FeaturesAssumption

-----------------------------------------------------------------------------
(* The inductive invariants                                                *)

TokenCall == [do |-> "apply", on |-> "renderToken"]
DropCall == [do |-> "remove", on |-> "renderToken"]
PolicyCall == [do |-> "wire", on |-> "pgPolicy"]
TemporalCall == [do |-> "apply", on |-> "temporalDeploy"]

\* The calls a pass with the switches on may have to make: the token is not
\* removed when render is on, nor Temporal made when it is off.
CallsFor(on) ==
  {c \in Calls : /\ c = DropCall => "render" \notin on
                 /\ c = TemporalCall => "temporal" \in on}

\* The calls left are such calls.
TodoFits == todo \in Seq(CallsFor(mem))

\* PostgreSQL's policy is written before Temporal's Deployment.
PolicyBefore(s) ==
  \E j \in 1 .. Len(s) : s[j] = PolicyCall /\ \A i \in 1 .. j : s[i] # TemporalCall

\* A pass with Temporal on has the policy written, or yet to write in time.
PolicyFirst ==
  todo # <<>> /\ "temporal" \in mem =>
    "temporal" \in wired["pgPolicy"] \/ PolicyBefore(todo)

\* A pass with render on has the token, or is about to make it.
TokenFirst ==
  todo # <<>> /\ "render" \in mem => token # 0 \/ Head(todo) = TokenCall

-----------------------------------------------------------------------------
(* The calls of a pass                                                     *)

\* calls makes one call of the kind for each name.
LEMMA CallsSeq ==
  ASSUME NEW S, NEW T, NEW do, NEW on \in Seq(T),
         \A x \in T : [do |-> do, on |-> x] \in S
  PROVE  /\ calls(do, on) \in Seq(S) /\ Len(calls(do, on)) = Len(on)
         /\ \A i \in 1 .. Len(on) : calls(do, on)[i] = [do |-> do, on |-> on[i]]
<1>1. Len(on) \in Nat /\ DOMAIN on = 1 .. Len(on) /\ \A i \in 1 .. Len(on) : on[i] \in T
  BY LenProperties
<1>2. calls(do, on) = [i \in 1 .. Len(on) |-> [do |-> do, on |-> on[i]]]
  BY <1>1 DEF calls
<1>3. calls(do, on) \in [1 .. Len(on) -> S]  BY <1>1, <1>2
<1>4. calls(do, on) \in Seq(S)  BY <1>1, <1>3, SeqDef
<1>5. Len(calls(do, on)) = Len(on)
  <2>1. DOMAIN calls(do, on) = 1 .. Len(on)  BY <1>2
  <2>2. Len(calls(do, on)) \in Nat /\ DOMAIN calls(do, on) = 1 .. Len(calls(do, on))
    BY <1>4, LenProperties
  <2> QED  BY <1>1, <2>1, <2>2
<1> QED  BY <1>2, <1>4, <1>5

\* There are as many, in the same order.
LEMMA CallsEach ==
  ASSUME NEW T, NEW do, NEW on \in Seq(T)
  PROVE  /\ Len(calls(do, on)) = Len(on)
         /\ \A i \in 1 .. Len(on) : calls(do, on)[i] = [do |-> do, on |-> on[i]]
<1> DEFINE S == {[do |-> do, on |-> x] : x \in T}
<1>1. \A x \in T : [do |-> do, on |-> x] \in S  OBVIOUS
<1> HIDE DEF S
<1>2. calls(do, on) \in Seq(S)  BY <1>1, CallsSeq
<1>3. Len(on) \in Nat /\ DOMAIN on = 1 .. Len(on)  BY LenProperties
<1>4. calls(do, on) = [i \in 1 .. Len(on) |-> [do |-> do, on |-> on[i]]]
  BY <1>3 DEF calls
<1>5. /\ Len(calls(do, on)) \in Nat
      /\ DOMAIN calls(do, on) = 1 .. Len(calls(do, on))
  BY <1>2, LenProperties
<1>6. Len(calls(do, on)) = Len(on)  BY <1>3, <1>4, <1>5
<1> QED  BY <1>4, <1>6

\* Which calls fit the switches.
LEMMA CallsFit ==
  ASSUME NEW on
  PROVE  /\ \A o \in Objects : o # "temporalDeploy" => [do |-> "apply", on |-> o] \in CallsFor(on)
         /\ \A o \in Objects : "temporal" \in on => [do |-> "apply", on |-> o] \in CallsFor(on)
         /\ \A o \in Objects : o # "renderToken" => [do |-> "remove", on |-> o] \in CallsFor(on)
         /\ \A o \in Objects : "render" \notin on => [do |-> "remove", on |-> o] \in CallsFor(on)
         /\ \A p \in Places : [do |-> "wire", on |-> p] \in CallsFor(on)
BY DEF CallsFor, Calls, DropCall, TemporalCall

\* Each reconciler's calls fit the switches.
LEMMA PartsFit ==
  ASSUME NEW on
  PROVE  /\ reconcileRender(on) \in Seq(CallsFor(on))
         /\ reconcileAgent(on) \in Seq(CallsFor(on))
         /\ reconcileNetworkPolicies(on) \in Seq(CallsFor(on))
         /\ reconcileUIPodsDisruptionBudget(on) \in Seq(CallsFor(on))
         /\ reconcileMonitoring(on) \in Seq(CallsFor(on))
         /\ reconcileMCP(on) \in Seq(CallsFor(on))
         /\ reconcileTemporal(on) \in Seq(CallsFor(on))
         /\ removeTemporal(on) \in Seq(CallsFor(on))
         /\ reconcileUI(on) \in Seq(CallsFor(on))
<1> DEFINE S == CallsFor(on)
           Plain == Objects \ {"renderToken", "temporalDeploy"}
<1>1. \A o \in Plain : /\ [do |-> "apply", on |-> o] \in S
                       /\ [do |-> "remove", on |-> o] \in S
  BY CallsFit
<1>2. \A s \in Seq(Plain) : calls("apply", s) \in Seq(S) /\ calls("remove", s) \in Seq(S)
  <2> TAKE s \in Seq(Plain)
  <2> HIDE DEF S, Plain
  <2> QED  BY <1>1, CallsSeq
<1>3. \A s \in Seq(Places) : calls("wire", s) \in Seq(S)
  <2> TAKE s \in Seq(Places)
  <2>1. \A p \in Places : [do |-> "wire", on |-> p] \in S  BY CallsFit
  <2> HIDE DEF S
  <2> QED  BY <2>1, CallsSeq
<1>4. {"agent", "uiPolicy", "pgPolicy", "uiService", "nginx"} \subseteq Places
  BY DEF Places, Mentions
<1>5. <<>> \in Seq(S)  BY EmptySeq
<1> HIDE DEF S
<1>6. reconcileRender(on) \in Seq(S)
  <2>1. CASE "render" \in on
    <3>1. \A o \in Render : [do |-> "apply", on |-> o] \in S
      BY CallsFit DEF S, Objects, Render
    <3>2. <<"renderToken", "renderDeploy", "renderService", "renderPolicy">> \in Seq(Render)
      BY DEF Render
    <3> QED  BY <2>1, <3>1, <3>2, CallsSeq DEF reconcileRender
  <2>2. CASE "render" \notin on
    <3>1. \A o \in Render : [do |-> "remove", on |-> o] \in S
      BY <2>2, CallsFit DEF S, Objects, Render
    <3>2. <<"renderDeploy", "renderService", "renderPolicy", "renderToken">> \in Seq(Render)
      BY DEF Render
    <3> QED  BY <2>2, <3>1, <3>2, CallsSeq DEF reconcileRender
  <2> QED  BY <2>1, <2>2
<1>7. reconcileAgent(on) \in Seq(S)
  <2>1. <<"agent">> \in Seq(Places)  BY <1>4
  <2> QED  BY <1>3, <2>1 DEF reconcileAgent
<1>8. reconcileNetworkPolicies(on) \in Seq(S)
  <2>1. <<"uiPolicy", "pgPolicy">> \in Seq(Places)  BY <1>4
  <2> QED  BY <1>3, <2>1 DEF reconcileNetworkPolicies
<1>9. reconcileUIPodsDisruptionBudget(on) \in Seq(S)
  <2>1. <<"budget">> \in Seq(Plain)  BY DEF Objects
  <2> QED  BY <1>2, <2>1 DEF reconcileUIPodsDisruptionBudget
<1>10. reconcileMonitoring(on) \in Seq(S)
  <2>1. <<"serviceMonitor", "prometheusRule">> \in Seq(Plain)  BY DEF Objects, Monitoring
  <2> QED  BY <1>2, <1>5, <2>1 DEF reconcileMonitoring
<1>11. reconcileMCP(on) \in Seq(S)
  <2>0. MCP \subseteq Plain  BY DEF Objects, MCP
  <2>1. <<"mcpAccount", "mcpConfig", "mcpDeploy", "mcpService", "mcpPolicy">> \in Seq(Plain)
    BY <2>0 DEF MCP
  <2>2. <<"mcpDeploy", "mcpConfig", "mcpService", "mcpPolicy", "mcpAccount">> \in Seq(Plain)
    BY <2>0 DEF MCP
  <2> QED  BY <1>2, <2>1, <2>2 DEF reconcileMCP
<1>12. reconcileTemporal(on) \in Seq(S)
  <2>1. CASE "temporal" \in on
    <3> DEFINE T == Temporal \cup TemporalUI
    <3>1. \A o \in T : [do |-> "apply", on |-> o] \in S
      BY <2>1, CallsFit DEF S, Objects
    <3>2. <<"temporalDeploy", "temporalService", "temporalPolicy">> \in Seq(T)
      BY DEF Temporal
    <3>3. <<"temporalUIDeploy", "temporalUIService">> \in Seq(T)  BY DEF TemporalUI
    <3>4. <<>> \in Seq(T)  BY EmptySeq
    <3> HIDE DEF T
    <3>5. <<"temporalDeploy", "temporalService", "temporalPolicy">>
             \o (IF uiOn(on) THEN <<"temporalUIDeploy", "temporalUIService">> ELSE <<>>)
           \in Seq(T)
      BY <3>2, <3>3, <3>4, ConcatProperties
    <3> QED  BY <2>1, <3>1, <3>5, CallsSeq DEF reconcileTemporal
  <2>2. CASE "temporal" \notin on  BY <1>5, <2>2 DEF reconcileTemporal
  <2> QED  BY <2>1, <2>2
<1>13. removeTemporal(on) \in Seq(S)
  <2> DEFINE T == Temporal \cup TemporalUI
  <2>1. \A o \in T : [do |-> "remove", on |-> o] \in S
    BY CallsFit DEF S, Objects, Temporal, TemporalUI
  <2>2. <<"temporalUIDeploy", "temporalUIService">> \in Seq(T)  BY DEF TemporalUI
  <2>3. <<"temporalPolicy", "temporalUIDeploy", "temporalUIService",
          "temporalDeploy", "temporalService">> \in Seq(T)
    BY DEF Temporal, TemporalUI
  <2> HIDE DEF T
  <2> QED  BY <1>5, <2>1, <2>2, <2>3, CallsSeq DEF removeTemporal
<1>14. reconcileUI(on) \in Seq(S)
  <2>1. <<"uiService", "nginx">> \in Seq(Places)  BY <1>4
  <2> QED  BY <1>3, <2>1 DEF reconcileUI
<1> QED
  BY <1>6, <1>7, <1>8, <1>9, <1>10, <1>11, <1>12, <1>13, <1>14 DEF S


\* Further calls change neither what is called first nor what precedes Temporal.
LEMMA MoreCalls ==
  ASSUME NEW S, NEW s \in Seq(S), NEW t \in Seq(S)
  PROVE  /\ s \o t \in Seq(S)
         /\ Len(s) > 0 => Len(s \o t) > 0 /\ (s \o t)[1] = s[1]
         /\ PolicyBefore(s) => PolicyBefore(s \o t)
<1>1. Len(s) \in Nat /\ Len(t) \in Nat  BY LenProperties
<1>2. /\ s \o t \in Seq(S)
      /\ Len(s \o t) = Len(s) + Len(t)
      /\ \A i \in 1 .. Len(s) + Len(t) : (s \o t)[i] =
                     IF i <= Len(s) THEN s[i] ELSE t[i - Len(s)]
  BY ConcatProperties
<1> DEFINE u == s \o t
<1>3. u \in Seq(S) /\ Len(u) = Len(s) + Len(t) /\ \A i \in 1 .. Len(s) : u[i] = s[i]
  <2>1. \A i \in 1 .. Len(s) : i \in 1 .. Len(s) + Len(t) /\ i <= Len(s)  BY <1>1
  <2> QED  BY <1>2, <2>1
<1> HIDE DEF u
<1>4. Len(s) > 0 => Len(u) > 0 /\ u[1] = s[1]  BY <1>1, <1>3
<1>5. ASSUME PolicyBefore(s) PROVE PolicyBefore(u)
  <2>1. PICK j \in 1 .. Len(s) : s[j] = PolicyCall /\ \A i \in 1 .. j : s[i] # TemporalCall
    BY <1>5 DEF PolicyBefore
  <2>2. j \in 1 .. Len(u) /\ \A i \in 1 .. j : i \in 1 .. Len(s)  BY <1>1, <1>3
  <2> QED  BY <1>3, <2>1, <2>2 DEF PolicyBefore
<1> QED  BY <1>3, <1>4, <1>5 DEF u

\* A pass's calls fit its switches, begin with the token when render is on, and
\* write PostgreSQL's policy before Temporal's Deployment.
LEMMA ReconcileCalls ==
  ASSUME NEW on
  PROVE  /\ Reconcile(on) \in Seq(CallsFor(on))
         /\ "render" \in on => Reconcile(on)[1] = TokenCall
         /\ PolicyBefore(Reconcile(on))
<1> DEFINE S == CallsFor(on)
           Others == Calls \ {TemporalCall}
           s1 == reconcileRender(on) \o reconcileAgent(on)
           s2 == s1 \o reconcileNetworkPolicies(on)
           s3 == s2 \o reconcileUIPodsDisruptionBudget(on)
           s4 == s3 \o reconcileMonitoring(on)
           s5 == s4 \o reconcileMCP(on)
           s6 == s5 \o reconcileTemporal(on)
           s7 == s6 \o removeTemporal(on)
           s8 == s7 \o reconcileUI(on)
           Begins(s) == Len(s) > 0 /\ ("render" \in on => s[1] = TokenCall)
           Good(s) == s \in Seq(S) /\ Begins(s) /\ PolicyBefore(s)
<1>0. Reconcile(on) = s8  BY DEF Reconcile
\* No call of the render service or the agent makes Temporal's Deployment.
<1>1. /\ reconcileRender(on) \in Seq(Others)
      /\ Begins(reconcileRender(on))
  <2> DEFINE a == <<"renderToken", "renderDeploy", "renderService", "renderPolicy">>
             b == <<"renderDeploy", "renderService", "renderPolicy", "renderToken">>
  <2>1. \A o \in Render : /\ [do |-> "apply", on |-> o] \in Others
                          /\ [do |-> "remove", on |-> o] \in Others
    BY DEF Calls, TemporalCall, Objects, Render
  <2>2. a \in Seq(Render) /\ Len(a) = 4 /\ a[1] = "renderToken"  BY DEF Render
  <2>3. b \in Seq(Render) /\ Len(b) = 4  BY DEF Render
  <2>4. reconcileRender(on) = IF "render" \in on THEN calls("apply", a)
                              ELSE calls("remove", b)
    BY DEF reconcileRender
  <2> HIDE DEF a, b, Others
  <2>5. /\ calls("apply", a) \in Seq(Others) /\ Len(calls("apply", a)) = Len(a)
        /\ \A i \in 1 .. Len(a) : calls("apply", a)[i] = [do |-> "apply", on |-> a[i]]
    <3>1. a \in Seq(Render) /\ \A o \in Render : [do |-> "apply", on |-> o] \in Others
      BY <2>1, <2>2
    <3>2. calls("apply", a) \in Seq(Others)  BY <3>1, CallsSeq
    <3>3. Len(calls("apply", a)) = Len(a)  BY <3>1, CallsEach
    <3>4. \A i \in 1 .. Len(a) : calls("apply", a)[i] = [do |-> "apply", on |-> a[i]]
      BY <3>1, CallsEach
    <3> QED  BY <3>2, <3>3, <3>4
  <2>6. calls("remove", b) \in Seq(Others) /\ Len(calls("remove", b)) = Len(b)
    <3>1. b \in Seq(Render) /\ \A o \in Render : [do |-> "remove", on |-> o] \in Others
      BY <2>1, <2>3
    <3>2. calls("remove", b) \in Seq(Others)  BY <3>1, CallsSeq
    <3>3. Len(calls("remove", b)) = Len(b)  BY <3>1, CallsEach
    <3> QED  BY <3>2, <3>3
  <2>7. calls("apply", a)[1] = TokenCall  BY <2>2, <2>5 DEF TokenCall
  <2> QED  BY <2>2, <2>3, <2>4, <2>5, <2>6, <2>7
<1>2. /\ reconcileAgent(on) \in Seq(Others)
      /\ reconcileNetworkPolicies(on) \in Seq(Others)
      /\ Len(reconcileNetworkPolicies(on)) = 2
      /\ reconcileNetworkPolicies(on)[2] = PolicyCall
  <2>1. \A p \in Places : [do |-> "wire", on |-> p] \in Others
    BY DEF Calls, TemporalCall
  <2>2. {"agent", "uiPolicy", "pgPolicy"} \subseteq Places  BY DEF Places, Mentions
  <2> DEFINE a == <<"agent">>
             b == <<"uiPolicy", "pgPolicy">>
  <2>3. a \in Seq(Places)  BY <2>2
  <2>4. b \in Seq(Places) /\ Len(b) = 2 /\ b[2] = "pgPolicy"  BY <2>2
  <2>5. reconcileAgent(on) = calls("wire", a)  BY DEF reconcileAgent
  <2>6. reconcileNetworkPolicies(on) = calls("wire", b)  BY DEF reconcileNetworkPolicies
  <2> HIDE DEF a, b, Others
  <2>7. calls("wire", a) \in Seq(Others)  BY <2>1, <2>3, CallsSeq
  <2>8. /\ calls("wire", b) \in Seq(Others) /\ Len(calls("wire", b)) = Len(b)
        /\ \A i \in 1 .. Len(b) : calls("wire", b)[i] = [do |-> "wire", on |-> b[i]]
    <3>1. b \in Seq(Places) /\ \A p \in Places : [do |-> "wire", on |-> p] \in Others
      BY <2>1, <2>4
    <3>2. calls("wire", b) \in Seq(Others)  BY <3>1, CallsSeq
    <3>3. Len(calls("wire", b)) = Len(b)  BY <3>1, CallsEach
    <3>4. \A i \in 1 .. Len(b) : calls("wire", b)[i] = [do |-> "wire", on |-> b[i]]
      BY <3>1, CallsEach
    <3> QED  BY <3>2, <3>3, <3>4
  <2>9. calls("wire", b)[2] = PolicyCall  BY <2>4, <2>8 DEF PolicyCall
  <2> QED  BY <2>4, <2>5, <2>6, <2>7, <2>8, <2>9
<1>3. s1 \in Seq(Others)  BY <1>1, <1>2, MoreCalls
<1>4. PolicyBefore(s2)
  <2> DEFINE n == reconcileNetworkPolicies(on)
  <2>1. Len(s1) \in Nat  BY <1>3, LenProperties
  <2> HIDE DEF s1, n
  <2>2. /\ s1 \o n \in Seq(Others)
        /\ Len(s1 \o n) = Len(s1) + Len(n)
        /\ \A i \in 1 .. Len(s1) + Len(n) : (s1 \o n)[i] =
                     IF i <= Len(s1) THEN s1[i] ELSE n[i - Len(s1)]
    BY <1>2, <1>3, ConcatProperties DEF n
  <2>3. s2 = s1 \o n  BY DEF n
  <2> HIDE DEF s2
  <2>4. Len(n) = 2 /\ n[2] = PolicyCall  BY <1>2 DEF n
  <2>5. /\ Len(s1) + 2 \in 1 .. Len(s1) + Len(n) /\ ~(Len(s1) + 2 <= Len(s1))
        /\ (Len(s1) + 2) - Len(s1) = 2
    BY <2>1, <2>4
  <2>6. s2[Len(s1) + 2] = PolicyCall  BY <2>2, <2>3, <2>4, <2>5
  <2>7. Len(s1) + 2 = Len(s2)  BY <2>2, <2>3, <2>4
  <2>8. \A i \in 1 .. Len(s2) : s2[i] # TemporalCall
    BY <2>2, <2>3, ElementOfSeq DEF Others
  <2> QED  BY <2>1, <2>6, <2>7, <2>8 DEF PolicyBefore
<1>5. Good(s2)
  <2>1. reconcileRender(on) \in Seq(S) /\ reconcileAgent(on) \in Seq(S)
        /\ reconcileNetworkPolicies(on) \in Seq(S)
    BY PartsFit
  <2> HIDE DEF S
  <2>2. s1 \in Seq(S) /\ Begins(s1)  BY <1>1, <2>1, MoreCalls
  <2> HIDE DEF s1
  <2>3. s2 \in Seq(S) /\ Begins(s2)  BY <2>1, <2>2, MoreCalls
  <2> QED  BY <1>4, <2>3
<1>6. ASSUME NEW s, NEW t \in Seq(S), Good(s) PROVE Good(s \o t)
  <2> HIDE DEF S
  <2> QED  BY <1>6, MoreCalls
<1> HIDE DEF Good, s2
<1>7. Good(s3)  BY <1>5, <1>6, PartsFit
<1> HIDE DEF s3
<1>8. Good(s4)  BY <1>6, <1>7, PartsFit
<1> HIDE DEF s4
<1>9. Good(s5)  BY <1>6, <1>8, PartsFit
<1> HIDE DEF s5
<1>10. Good(s6)  BY <1>6, <1>9, PartsFit
<1> HIDE DEF s6
<1>11. Good(s7)  BY <1>6, <1>10, PartsFit
<1> HIDE DEF s7
<1>12. Good(s8)  BY <1>6, <1>11, PartsFit
<1> HIDE DEF s8
<1> QED  BY <1>0, <1>12 DEF Good, Begins, S


-----------------------------------------------------------------------------
(* Types                                                                   *)

\* The next call is one of the pass's, and the rest follow it in order.
LEMMA NextCall ==
  ASSUME TodoFits, todo # <<>>
  PROVE  /\ Head(todo) = todo[1] /\ Head(todo) \in CallsFor(mem)
         /\ Head(todo) \in Calls
         /\ Tail(todo) \in Seq(CallsFor(mem))
         /\ Len(todo) \in Nat /\ Len(todo) >= 1 /\ Len(Tail(todo)) = Len(todo) - 1
         /\ \A i \in 1 .. Len(Tail(todo)) : Tail(todo)[i] = todo[i + 1]
<1> DEFINE S == CallsFor(mem)
<1>1. todo \in Seq(S)  BY DEF TodoFits
<1>2. S \subseteq Calls  BY DEF CallsFor
<1> HIDE DEF S
<1>3. Len(todo) \in Nat /\ Len(todo) >= 1
  BY <1>1, LenProperties, EmptySeq
<1>4. /\ Head(todo) \in S /\ Head(todo) = todo[1]
      /\ Tail(todo) \in Seq(S) /\ Len(Tail(todo)) = Len(todo) - 1
      /\ \A i \in 1 .. Len(Tail(todo)) : Tail(todo)[i] = todo[i + 1]
  BY <1>1, HeadTailProperties
<1> QED  BY <1>2, <1>3, <1>4 DEF S

\* The calls left fit the pass's switches in every step.
LEMMA TodoStep ==
  ASSUME TypeOK, TodoFits, [Next]_vars
  PROVE  TodoFits' /\ (todo \in Seq(Calls))'
<1>1. TodoFits'
  <2>1. CASE UNCHANGED passVars
    BY <2>1 DEF TodoFits, passVars
  <2>2. CASE EndPass
    BY <2>2, EmptySeq DEF EndPass, TodoFits
  <2>3. CASE todo # <<>> /\ GoOn
    BY <2>3, NextCall DEF GoOn, TodoFits
  <2>4. CASE BeginPass
    BY <2>4, ReconcileCalls DEF BeginPass, TodoFits
  <2>5. \/ UNCHANGED passVars \/ EndPass
        \/ (todo # <<>> /\ GoOn) \/ BeginPass
    <3>1. CASE Apply  BY <3>1 DEF Apply
    <3>2. CASE ApplyToken  BY <3>2 DEF ApplyToken
    <3>3. CASE Remove  BY <3>3 DEF Remove
    <3>4. CASE Wire  BY <3>4 DEF Wire
    <3>5. CASE PassFails  BY <3>5 DEF PassFails
    <3>6. CASE Toggle \/ EditByHand \/ Cluster \/ PodEvicted
      BY <3>6 DEF Toggle, EditByHand, Cluster, PodEvicted, CacheSync,
         AgentPodReplaced, AgentPodStarts, RenderPodStarts, RenderPodCollected
    <3>7. CASE UNCHANGED vars  BY <3>7 DEF vars
    <3> QED
      BY <3>1, <3>2, <3>3, <3>4, <3>5, <3>6, <3>7 DEF Next, Pass
  <2> QED  BY <2>1, <2>2, <2>3, <2>4, <2>5
<1>2. CallsFor(mem') \subseteq Calls  BY DEF CallsFor
<1> QED  BY <1>1, <1>2, SeqMonotonic DEF TodoFits

\* A Write keeps the owners well typed and changes one object.
LEMMA WriteType ==
  ASSUME TypeOK, NEW o \in Objects, NEW owner \in Owners, Write(o, owner)
  PROVE  /\ objs' \in [Objects -> Owners] /\ seen' \in [Objects -> Owners]
         /\ objs'[o] = owner
         /\ \A x \in Objects : x # o => objs'[x] = objs[x]
BY DEF Write, TypeOK

\* The parts of TypeOK that are neither the calls left nor the token.
OwnersOK == objs \in [Objects -> Owners] /\ seen \in [Objects -> Owners]
TokenOK ==
  /\ token \in Nat /\ minted \in Nat /\ token \in {0, minted}
  /\ token # 0 <=> objs["renderToken"] # "absent"
WiredOK ==
  /\ wired \in [Places -> SUBSET Switches]
  /\ \A p \in Places : wired[p] \subseteq Mentions[p]
PodsOK == agentPod \in Pods /\ renderPod \in Pods
RestOK ==
  /\ spec \subseteq Switches /\ mem \subseteq Switches
  /\ edits \in 0 .. MaxEdits /\ faults \in 0 .. MaxFaults

\* They are all of it.
LEMMA TypeParts ==
  TypeOK <=> OwnersOK /\ TokenOK /\ WiredOK /\ PodsOK /\ RestOK /\ todo \in Seq(Calls)
<1>1. ((token # 0) = (objs["renderToken"] # "absent"))
        <=> (token # 0 <=> objs["renderToken"] # "absent")
  OBVIOUS
<1> QED  BY <1>1 DEF TypeOK, OwnersOK, TokenOK, WiredOK, PodsOK, RestOK

\* The same of the next state.
LEMMA TypePartsNext ==
  (OwnersOK /\ TokenOK /\ WiredOK /\ PodsOK /\ RestOK /\ todo \in Seq(Calls))' => TypeOK'
<1>1. ((token # 0) = (objs["renderToken"] # "absent"))'
        <=> (token # 0 <=> objs["renderToken"] # "absent")'
  OBVIOUS
<1> QED  BY <1>1 DEF TypeOK, OwnersOK, TokenOK, WiredOK, PodsOK, RestOK

\* Every action keeps the owners, and the token with its Secret.
LEMMA OwnersStep ==
  ASSUME TypeOK, TodoFits, [Next]_vars
  PROVE  OwnersOK' /\ TokenOK'
<1>t. OwnersOK /\ TokenOK  BY TypeParts
<1>r. "renderToken" \in Objects  BY DEF Objects, Render
<1>1. CASE UNCHANGED objVars
  BY <1>1, <1>t DEF objVars, OwnersOK, TokenOK
<1>2. CASE Apply
  <2> DEFINE o == Head(todo).on
  <2>1. o \in Objects /\ o # "renderToken"
    BY <1>2, NextCall DEF Apply, Calls
  <2>2. UNCHANGED <<token, minted>>  BY <1>2 DEF Apply
  <2>3. UNCHANGED <<objs, seen>> \/ Write(o, applied(o))  BY <1>2 DEF Apply
  <2>4. CASE UNCHANGED <<objs, seen>>
    BY <2>2, <2>4, <1>1 DEF objVars
  <2>5. CASE Write(o, applied(o))
    <3>1. applied(o) \in Owners
      BY <2>1, <1>t DEF applied, OwnersOK, Owners
    <3> HIDE DEF o
    <3>2. /\ objs' \in [Objects -> Owners] /\ seen' \in [Objects -> Owners]
          /\ objs'["renderToken"] = objs["renderToken"]
      BY <1>r, <2>1, <2>5, <3>1, WriteType
    <3> QED  BY <1>t, <2>2, <3>2 DEF OwnersOK, TokenOK
  <2> QED  BY <2>3, <2>4, <2>5
<1>3. CASE ApplyToken
  <2>1. \/ UNCHANGED objVars
        \/ /\ Write("renderToken", "made")
           /\ minted' = minted + 1 /\ token' = minted + 1
    BY <1>3 DEF ApplyToken
  <2>2. CASE Write("renderToken", "made") /\ minted' = minted + 1 /\ token' = minted + 1
    <3>1. /\ objs' \in [Objects -> Owners] /\ seen' \in [Objects -> Owners]
          /\ objs'["renderToken"] = "made"
      <4>1. "made" \in Owners  BY DEF Owners
      <4> QED  BY <1>r, <2>2, <4>1, WriteType
    <3> QED  BY <1>t, <2>2, <3>1 DEF OwnersOK, TokenOK
  <2> QED  BY <2>1, <2>2, <1>1
<1>4. CASE Remove
  <2> DEFINE o == Head(todo).on
  <2>1. o \in Objects
    BY <1>4, NextCall DEF Remove, Calls
  <2>2. minted' = minted  BY <1>4 DEF Remove
  <2>3. \/ UNCHANGED <<objs, seen, token>>
        \/ /\ Write(o, "absent")
           /\ token' = IF o = "renderToken" THEN 0 ELSE token
    BY <1>4 DEF Remove
  <2>4. CASE UNCHANGED <<objs, seen, token>>
    BY <2>2, <2>4, <1>1 DEF objVars
  <2>5. CASE /\ Write(o, "absent")
             /\ token' = IF o = "renderToken" THEN 0 ELSE token
    <3> HIDE DEF o
    <3>1. /\ objs' \in [Objects -> Owners] /\ seen' \in [Objects -> Owners]
          /\ objs'[o] = "absent"
          /\ \A x \in Objects : x # o => objs'[x] = objs[x]
      <4>1. "absent" \in Owners  BY DEF Owners
      <4> QED  BY <2>1, <2>5, <4>1, WriteType
    <3> QED  BY <1>t, <1>r, <2>2, <2>5, <3>1 DEF OwnersOK, TokenOK
  <2> QED  BY <2>3, <2>4, <2>5
<1>5. CASE EditByHand
  <2>1. PICK o \in Objects \ {"renderToken"}, owner \in {"absent", "user"} :
          Write(o, owner)
    BY <1>5 DEF EditByHand
  <2>2. UNCHANGED <<token, minted>>  BY <1>5 DEF EditByHand
  <2>3. /\ objs' \in [Objects -> Owners] /\ seen' \in [Objects -> Owners]
        /\ objs'["renderToken"] = objs["renderToken"]
    <3>1. owner \in Owners  BY DEF Owners
    <3> QED  BY <1>r, <2>1, <3>1, WriteType
  <2> QED  BY <1>t, <2>2, <2>3 DEF OwnersOK, TokenOK
<1>6. CASE CacheSync
  BY <1>6, <1>t DEF CacheSync, OwnersOK, TokenOK
<1>7. \/ Apply \/ ApplyToken \/ Remove \/ EditByHand \/ CacheSync
      \/ UNCHANGED objVars
  <2>1. CASE BeginPass \/ Wire \/ PassFails \/ Toggle \/ PodEvicted
    BY <2>1 DEF BeginPass, Wire, PassFails, Toggle, PodEvicted
  <2>2. CASE AgentPodReplaced \/ AgentPodStarts \/ RenderPodStarts \/ RenderPodCollected
    BY <2>2 DEF AgentPodReplaced, AgentPodStarts, RenderPodStarts, RenderPodCollected
  <2>3. CASE UNCHANGED vars  BY <2>3 DEF vars
  <2> QED  BY <2>1, <2>2, <2>3 DEF Next, Pass, Cluster
<1> QED  BY <1>1, <1>2, <1>3, <1>4, <1>5, <1>6, <1>7


\* Every action keeps what the places mention.
LEMMA WiredStep ==
  ASSUME TypeOK, TodoFits, [Next]_vars
  PROVE  WiredOK'
<1>t. WiredOK /\ RestOK  BY TypeParts
<1>1. CASE UNCHANGED wired
  BY <1>1, <1>t DEF WiredOK
<1>2. CASE Wire
  <2> DEFINE p == Head(todo).on
  <2>1. wired' = [wired EXCEPT ![p] = mentioned(p)]  BY <1>2 DEF Wire
  <2>2. mentioned(p) \subseteq Mentions[p] /\ mentioned(p) \subseteq Switches
    BY <1>t DEF mentioned, RestOK
  <2> HIDE DEF p
  <2>3. wired' \in [Places -> SUBSET Switches]
    BY <1>t, <2>1, <2>2 DEF WiredOK
  <2>4. ASSUME NEW q \in Places PROVE wired'[q] \subseteq Mentions[q]
    BY <1>t, <2>1, <2>2 DEF WiredOK
  <2> QED  BY <2>3, <2>4 DEF WiredOK
<1>3. Wire \/ UNCHANGED wired
  <2>1. CASE BeginPass \/ Apply \/ ApplyToken \/ Remove
    BY <2>1 DEF BeginPass, Apply, ApplyToken, Remove
  <2>2. CASE PassFails \/ Toggle \/ EditByHand \/ PodEvicted
    BY <2>2 DEF PassFails, Toggle, EditByHand, PodEvicted
  <2>3. CASE Cluster
    BY <2>3 DEF Cluster, CacheSync, AgentPodReplaced, AgentPodStarts, RenderPodStarts,
       RenderPodCollected
  <2>4. CASE UNCHANGED vars  BY <2>4 DEF vars
  <2> QED  BY <2>1, <2>2, <2>3, <2>4 DEF Next, Pass
<1> QED  BY <1>1, <1>2, <1>3

\* Every action keeps the pods.
LEMMA PodsStep ==
  ASSUME TypeOK, TodoFits, [Next]_vars
  PROVE  PodsOK'
<1>t. PodsOK /\ RestOK /\ WiredOK /\ token \in Nat  BY TypeParts DEF TokenOK
<1>a. "agent" \in Places /\ wired["agent"] \subseteq Switches
  <2>1. "agent" \in Places  BY DEF Places, Mentions
  <2> QED  BY <1>t, <2>1 DEF WiredOK
<1>n. NoPod \in Pods /\ [NoPod EXCEPT !.phase = "Running", !.token = token] \in Pods
  BY <1>t DEF NoPod, Pods
<1>w. ASSUME NEW m \in SUBSET Switches
      PROVE  /\ [NoPod EXCEPT !.phase = "Waiting", !.mentions = m] \in Pods
             /\ replaced(m) \in Pods
  <2>1. [NoPod EXCEPT !.phase = "Waiting", !.mentions = m] \in Pods  BY DEF NoPod, Pods
  <2> QED  BY <2>1, <1>t DEF replaced, PodsOK
<1>1. CASE UNCHANGED podVars
  BY <1>1, <1>t DEF podVars, PodsOK
<1>2. CASE Remove
  <2>1. agentPod' = agentPod  BY <1>2 DEF Remove
  <2>2. \/ renderPod' = renderPod
        \/ renderPod' = [renderPod EXCEPT !.old = @ \/ renderPod.phase # "None"]
    BY <1>2 DEF Remove
  <2>3. [renderPod EXCEPT !.old = @ \/ renderPod.phase # "None"] \in Pods
    BY <1>t DEF PodsOK, Pods
  <2> QED  BY <1>t, <2>1, <2>2, <2>3 DEF PodsOK
<1>3. CASE Wire
  <2>1. renderPod' = renderPod  BY <1>3 DEF Wire
  <2>2. agentPod' = agentPod \/ agentPod' = replaced(mentioned(Head(todo).on))
    BY <1>3 DEF Wire
  <2>3. mentioned(Head(todo).on) \in SUBSET Switches  BY <1>t DEF mentioned, RestOK
  <2> QED  BY <1>t, <1>w, <2>1, <2>2, <2>3 DEF PodsOK
<1>4. CASE AgentPodReplaced
  BY <1>4, <1>t, <1>a, <1>w DEF AgentPodReplaced, PodsOK
<1>5. CASE AgentPodStarts
  <2>1. renderPod' = renderPod  BY <1>5 DEF AgentPodStarts
  <2>2. agentPod' \in Pods
    BY <1>5, <1>t DEF AgentPodStarts, PodsOK, Pods
  <2> QED  BY <1>t, <2>1, <2>2 DEF PodsOK
<1>6. CASE RenderPodStarts
  BY <1>6, <1>t, <1>n DEF RenderPodStarts, PodsOK
<1>7. CASE RenderPodCollected
  BY <1>7, <1>t, <1>n DEF RenderPodCollected, PodsOK
<1>8. CASE PodEvicted
  BY <1>8, <1>t, <1>a, <1>n, <1>w DEF PodEvicted, PodsOK
<1>9. \/ Remove \/ Wire \/ AgentPodReplaced \/ AgentPodStarts \/ RenderPodStarts
      \/ RenderPodCollected \/ PodEvicted \/ UNCHANGED podVars
  <2>1. CASE BeginPass \/ Apply \/ ApplyToken
    BY <2>1 DEF BeginPass, Apply, ApplyToken
  <2>2. CASE PassFails \/ Toggle \/ EditByHand \/ CacheSync
    BY <2>2 DEF PassFails, Toggle, EditByHand, CacheSync
  <2>3. CASE UNCHANGED vars  BY <2>3 DEF vars
  <2> QED  BY <2>1, <2>2, <2>3 DEF Next, Pass, Cluster
<1> QED  BY <1>1, <1>2, <1>3, <1>4, <1>5, <1>6, <1>7, <1>8, <1>9

\* Every action keeps the switches and the counters in their bounds.
LEMMA RestStep ==
  ASSUME TypeOK, TodoFits, [Next]_vars
  PROVE  RestOK'
<1>t. RestOK  BY TypeParts
<1>1. (spec \subseteq Switches)'
  <2>1. CASE Toggle  BY <1>t, <2>1 DEF Toggle, RestOK
  <2>2. spec' = spec \/ Toggle
    BY DEF Next, Pass, Cluster, BeginPass, Apply, ApplyToken, Remove, Wire, PassFails,
       EditByHand, CacheSync, AgentPodReplaced, AgentPodStarts, RenderPodStarts,
       RenderPodCollected, PodEvicted, vars
  <2> QED  BY <1>t, <2>1, <2>2 DEF RestOK
<1>2. (mem \subseteq Switches)'
  <2>1. mem' \in {mem, spec, {}}
    BY DEF Next, Pass, Cluster, BeginPass, Apply, ApplyToken, Remove, Wire, PassFails,
       GoOn, EndPass, Toggle, EditByHand, CacheSync, AgentPodReplaced, AgentPodStarts,
       RenderPodStarts, RenderPodCollected, PodEvicted, vars, passVars
  <2> QED  BY <1>t, <2>1 DEF RestOK
<1>3. (edits \in 0 .. MaxEdits)'
  <2>1. edits' = edits \/ (edits < MaxEdits /\ edits' = edits + 1)
    BY DEF Next, Pass, Cluster, BeginPass, Apply, ApplyToken, Remove, Wire, PassFails,
       Toggle, EditByHand, CacheSync, AgentPodReplaced, AgentPodStarts,
       RenderPodStarts, RenderPodCollected, PodEvicted, vars
  <2> QED  BY <1>t, <2>1 DEF RestOK
<1>4. (faults \in 0 .. MaxFaults)'
  <2>1. faults' = faults \/ (faults < MaxFaults /\ faults' = faults + 1)
    BY DEF Next, Pass, Cluster, BeginPass, Apply, ApplyToken, Remove, Wire, PassFails,
       Toggle, EditByHand, CacheSync, AgentPodReplaced, AgentPodStarts,
       RenderPodStarts, RenderPodCollected, PodEvicted, vars
  <2> QED  BY <1>t, <2>1 DEF RestOK
<1> QED  BY <1>1, <1>2, <1>3, <1>4 DEF RestOK

\* To begin with, too.
LEMMA TypeInit == Init => TypeOK /\ TodoFits
<1> SUFFICES ASSUME Init PROVE TypeOK /\ TodoFits  OBVIOUS
<1>1. OwnersOK /\ TokenOK
  <2>1. objs \in [Objects -> Owners] /\ objs["renderToken"] = "absent"
    BY DEF Init, Owners, Objects, Render
  <2> QED  BY <2>1 DEF Init, OwnersOK, TokenOK
<1>2. WiredOK  BY DEF Init, WiredOK
<1>3. PodsOK  BY DEF Init, PodsOK, Pods, NoPod
<1>4. RestOK  BY DEF Init, RestOK
<1>5. todo = <<>> /\ todo \in Seq(Calls) /\ TodoFits  BY EmptySeq DEF Init, TodoFits
<1> QED  BY <1>1, <1>2, <1>3, <1>4, <1>5, TypeParts

\* Types are kept, and the calls left fit the pass's switches.
LEMMA TypeStep ==
  ASSUME TypeOK, TodoFits, [Next]_vars
  PROVE  TypeOK' /\ TodoFits'
BY OwnersStep, WiredStep, PodsStep, RestStep, TodoStep, TypePartsNext

\* A token exists exactly while its Secret does and is the last one generated,
\* no place mentions a part that is none of its business, and the calls left are
\* well formed, through every toggle, failed pass and stale cache.
THEOREM TypeCorrect == Spec => []TypeOK
<1>1. TypeOK /\ TodoFits /\ [Next]_vars => (TypeOK /\ TodoFits)'  BY TypeStep
<1> QED  BY TypeInit, <1>1, PTL DEF Spec

-----------------------------------------------------------------------------
(* What a pod needs comes first                                            *)

\* A step of a pass that goes on leaves the policy written, or yet to write
\* before Temporal's Deployment.
LEMMA PolicyStep ==
  ASSUME TypeOK, TodoFits, PolicyFirst, [Next]_vars
  PROVE  PolicyFirst'
<1> SUFFICES ASSUME todo' # <<>>, "temporal" \in mem'
             PROVE  "temporal" \in wired'["pgPolicy"] \/ PolicyBefore(todo')
  BY DEF PolicyFirst
<1>1. CASE BeginPass  BY <1>1, ReconcileCalls DEF BeginPass
<1>2. CASE UNCHANGED <<passVars, wired>>
  BY <1>2 DEF PolicyFirst, passVars
<1>3. CASE EndPass  BY <1>3 DEF EndPass
<1>4. ASSUME todo # <<>>, GoOn, wired'["pgPolicy"] = wired["pgPolicy"], Head(todo) # PolicyCall
      PROVE  "temporal" \in wired'["pgPolicy"] \/ PolicyBefore(todo')
  <2>1. "temporal" \in wired["pgPolicy"] \/ PolicyBefore(todo)
    BY <1>4 DEF PolicyFirst, GoOn
  <2>2. CASE PolicyBefore(todo)
    <3>1. PICK j \in 1 .. Len(todo) :
            todo[j] = PolicyCall /\ \A i \in 1 .. j : todo[i] # TemporalCall
      BY <2>2 DEF PolicyBefore
    <3>2. /\ Head(todo) = todo[1] /\ Len(todo) \in Nat /\ Len(Tail(todo)) = Len(todo) - 1
          /\ \A i \in 1 .. Len(Tail(todo)) : Tail(todo)[i] = todo[i + 1]
      BY <1>4, NextCall
    <3>3. j # 1  BY <1>4, <3>1, <3>2
    <3>4. j - 1 \in 1 .. Len(Tail(todo)) /\ (j - 1) + 1 = j  BY <3>2, <3>3
    <3>5. Tail(todo)[j - 1] = PolicyCall
      <4>1. Tail(todo)[j - 1] = todo[(j - 1) + 1]  BY <3>2, <3>4
      <4> QED  BY <3>1, <3>4, <4>1
    <3>6. ASSUME NEW i \in 1 .. j - 1 PROVE Tail(todo)[i] # TemporalCall
      <4>1. i \in 1 .. Len(Tail(todo)) /\ i + 1 \in 1 .. j  BY <3>2, <3>4
      <4>2. Tail(todo)[i] = todo[i + 1]  BY <3>2, <4>1
      <4> QED  BY <3>1, <4>1, <4>2
    <3>7. todo' = Tail(todo)  BY <1>4 DEF GoOn
    <3> QED  BY <3>4, <3>5, <3>6, <3>7 DEF PolicyBefore
  <2> QED  BY <1>4, <2>1, <2>2
<1>5. CASE Wire
  <2> DEFINE p == Head(todo).on
  <2>1. todo # <<>> /\ GoOn /\ wired' = [wired EXCEPT ![p] = mentioned(p)]
    BY <1>5 DEF Wire
  <2>2. p \in Places /\ Head(todo) = [do |-> "wire", on |-> p]
    BY <1>5, NextCall DEF Wire, Calls
  <2>3. CASE p = "pgPolicy"
    <3>1. "temporal" \in mentioned("pgPolicy")  BY <2>1 DEF mentioned, Mentions, GoOn
    <3> QED  BY <2>1, <2>2, <2>3, <3>1 DEF TypeOK
  <2>4. CASE p # "pgPolicy"
    <3>1. Head(todo) # PolicyCall  BY <2>2, <2>4 DEF PolicyCall
    <3>2. wired'["pgPolicy"] = wired["pgPolicy"]
      <4>1. "pgPolicy" \in Places  BY DEF Places, Mentions
      <4> QED  BY <2>1, <2>4, <4>1 DEF TypeOK
    <3> HIDE DEF p
    <3> QED  BY <1>4, <2>1, <3>1, <3>2
  <2> QED  BY <2>3, <2>4
<1>6. CASE Apply \/ ApplyToken \/ Remove
  <2>1. todo # <<>> /\ wired' = wired /\ Head(todo).do # "wire" /\ (GoOn \/ EndPass)
    <3>1. CASE Apply  BY <3>1 DEF Apply
    <3>2. CASE ApplyToken  BY <3>2 DEF ApplyToken
    <3>3. CASE Remove  BY <3>3 DEF Remove
    <3> QED  BY <1>6, <3>1, <3>2, <3>3
  <2>2. Head(todo) # PolicyCall  BY <2>1 DEF PolicyCall
  <2> QED  BY <1>3, <1>4, <2>1, <2>2
<1>7. CASE PassFails  BY <1>3, <1>7 DEF PassFails
<1>8. CASE Toggle \/ EditByHand \/ PodEvicted
  BY <1>2, <1>8 DEF Toggle, EditByHand, PodEvicted
<1>9. CASE Cluster
  BY <1>2, <1>9 DEF Cluster, CacheSync, AgentPodReplaced, AgentPodStarts,
     RenderPodStarts, RenderPodCollected
<1>10. CASE UNCHANGED vars  BY <1>2, <1>10 DEF vars
<1> QED  BY <1>1, <1>5, <1>6, <1>7, <1>8, <1>9, <1>10 DEF Next, Pass

\* Where the informers keep up, they show what there is.
LEMMA UpToDate ==
  ASSUME "lag" \notin Events, TypeOK, TodoFits, seen = objs, [Next]_vars
  PROVE  seen' = objs'
<1>1. CASE UNCHANGED <<objs, seen>>  BY <1>1
<1>2. ASSUME NEW o, NEW owner, Write(o, owner) PROVE seen' = objs'  BY <1>2 DEF Write
<1>3. CASE Apply  BY <1>1, <1>2, <1>3 DEF Apply
<1>4. CASE ApplyToken  BY <1>1, <1>2, <1>4 DEF ApplyToken, objVars
<1>5. CASE Remove  BY <1>1, <1>2, <1>5 DEF Remove
<1>6. CASE EditByHand  BY <1>2, <1>6 DEF EditByHand
<1>7. CASE CacheSync  BY <1>7 DEF CacheSync
<1>8. CASE BeginPass \/ Wire \/ PassFails \/ Toggle \/ PodEvicted
  BY <1>1, <1>8 DEF BeginPass, Wire, PassFails, Toggle, PodEvicted, objVars
<1>9. CASE AgentPodReplaced \/ AgentPodStarts \/ RenderPodStarts \/ RenderPodCollected
  BY <1>1, <1>9 DEF AgentPodReplaced, AgentPodStarts, RenderPodStarts, RenderPodCollected,
     objVars
<1>10. CASE UNCHANGED vars  BY <1>1, <1>10 DEF vars, objVars
<1> QED
  BY <1>3, <1>4, <1>5, <1>6, <1>7, <1>8, <1>9, <1>10 DEF Next, Pass, Cluster

\* A pass with render on begins with the token and never removes it.
LEMMA TokenStep ==
  ASSUME "lag" \notin Events, TypeOK, TodoFits, seen = objs, TokenFirst, [Next]_vars
  PROVE  TokenFirst'
<1> SUFFICES ASSUME todo' # <<>>, "render" \in mem'
             PROVE  token' # 0 \/ Head(todo') = TokenCall
  BY DEF TokenFirst
<1>t. TokenOK  BY TypeParts
<1>1. CASE BeginPass
  <2>1. todo' = Reconcile(mem') /\ mem' = spec  BY <1>1 DEF BeginPass
  <2>2. todo' \in Seq(CallsFor(mem')) /\ todo'[1] = TokenCall  BY <2>1, ReconcileCalls
  <2>3. Head(todo') = todo'[1]
    <3> DEFINE S == CallsFor(mem')
    <3>1. todo' \in Seq(S)  BY <2>2
    <3> HIDE DEF S
    <3> QED  BY <3>1, HeadTailProperties
  <2> QED  BY <2>2, <2>3
<1>2. CASE UNCHANGED <<passVars, token>>
  BY <1>2 DEF TokenFirst, passVars
<1>3. CASE EndPass  BY <1>3 DEF EndPass
<1>4. ASSUME todo # <<>>, GoOn, Head(todo) # TokenCall PROVE token # 0
  BY <1>4 DEF TokenFirst, GoOn
<1>5. CASE Apply
  <2>1. todo # <<>> /\ Head(todo).on # "renderToken" /\ token' = token /\ (GoOn \/ EndPass)
    BY <1>5 DEF Apply
  <2>2. Head(todo) # TokenCall  BY <2>1 DEF TokenCall
  <2> QED  BY <1>3, <1>4, <2>1, <2>2
<1>6. CASE ApplyToken
  <2>1. CASE seen["renderToken"] # "absent"
    BY <1>6, <1>t, <2>1 DEF ApplyToken, objVars, TokenOK
  <2>2. CASE seen["renderToken"] = "absent" /\ refused("renderToken")
    BY <1>3, <1>6, <2>2 DEF ApplyToken
  <2>3. CASE seen["renderToken"] = "absent" /\ ~refused("renderToken")
    BY <1>6, <1>t, <2>3 DEF ApplyToken, TokenOK
  <2> QED  BY <2>1, <2>2, <2>3
<1>7. CASE Remove
  <2> DEFINE o == Head(todo).on
  <2>1. /\ todo # <<>> /\ Head(todo).do = "remove" /\ GoOn
        /\ token' = token \/ (o = "renderToken" /\ token' = 0)
    BY <1>7 DEF Remove
  <2>2. Head(todo) # TokenCall  BY <2>1 DEF TokenCall
  <2>3. o # "renderToken"
    <3>1. Head(todo) \in Calls /\ Head(todo) \in CallsFor(mem) /\ "render" \in mem
      BY <2>1, NextCall DEF GoOn
    <3>2. o = "renderToken" => Head(todo) = DropCall  BY <2>1, <3>1 DEF Calls, DropCall
    <3> QED  BY <3>1, <3>2 DEF CallsFor
  <2> QED  BY <1>4, <2>1, <2>2, <2>3
<1>8. CASE Wire
  <2>1. todo # <<>> /\ Head(todo).do = "wire" /\ GoOn /\ token' = token
    BY <1>8 DEF Wire, objVars
  <2>2. Head(todo) # TokenCall  BY <2>1 DEF TokenCall
  <2> QED  BY <1>4, <2>1, <2>2
<1>9. CASE PassFails  BY <1>3, <1>9 DEF PassFails
<1>10. CASE Toggle \/ EditByHand \/ PodEvicted
  BY <1>2, <1>10 DEF Toggle, EditByHand, PodEvicted, objVars
<1>11. CASE Cluster
  BY <1>2, <1>11 DEF Cluster, CacheSync, AgentPodReplaced, AgentPodStarts,
     RenderPodStarts, RenderPodCollected, objVars
<1>12. CASE UNCHANGED vars  BY <1>2, <1>12 DEF vars, objVars
<1> QED
  BY <1>1, <1>5, <1>6, <1>7, <1>8, <1>9, <1>10, <1>11, <1>12 DEF Next, Pass

\* The agent starts to refer to the render token only once there is one.
LEMMA TokenBeforeAgent ==
  ASSUME TypeOK, TodoFits, TokenFirst, [Next]_vars,
         "render" \in wired'["agent"] \ wired["agent"]
  PROVE  token # 0
<1>1. wired' # wired  OBVIOUS
<1>2. Wire
  <2>1. CASE BeginPass \/ Apply \/ ApplyToken \/ Remove
    BY <1>1, <2>1 DEF BeginPass, Apply, ApplyToken, Remove
  <2>2. CASE PassFails \/ Toggle \/ EditByHand \/ PodEvicted
    BY <1>1, <2>2 DEF PassFails, Toggle, EditByHand, PodEvicted
  <2>3. CASE Cluster
    BY <1>1, <2>3 DEF Cluster, CacheSync, AgentPodReplaced, AgentPodStarts,
       RenderPodStarts, RenderPodCollected
  <2>4. CASE UNCHANGED vars  BY <1>1, <2>4 DEF vars
  <2> QED  BY <2>1, <2>2, <2>3, <2>4 DEF Next, Pass
<1> DEFINE p == Head(todo).on
<1>3. /\ todo # <<>> /\ Head(todo).do = "wire"
      /\ wired' = [wired EXCEPT ![p] = mentioned(p)]
  BY <1>2 DEF Wire
<1>4. "agent" \in Places  BY DEF Places, Mentions
<1>5. "render" \in mentioned(p)
  <2> HIDE DEF p
  <2> QED  BY <1>3, <1>4 DEF TypeOK
<1>6. "render" \in mem  BY <1>5 DEF mentioned
<1>7. Head(todo) # TokenCall  BY <1>3 DEF TokenCall
<1> QED  BY <1>3, <1>6, <1>7 DEF TokenFirst

\* Temporal's Deployment is made only once PostgreSQL's policy admits it.
LEMMA PolicyBeforeTemporal ==
  ASSUME TypeOK, TodoFits, PolicyFirst, [Next]_vars,
         objs["temporalDeploy"] = "absent", objs'["temporalDeploy"] = "made"
  PROVE  "temporal" \in wired["pgPolicy"]
<1>t. "temporalDeploy" \in Objects /\ objs' # objs  BY DEF Objects, Temporal
<1>w. ASSUME NEW o \in Objects, NEW owner \in Owners, Write(o, owner)
      PROVE  o = "temporalDeploy" /\ owner = "made"
  <2>1. /\ objs'[o] = owner
        /\ \A x \in Objects : x # o => objs'[x] = objs[x]
    BY <1>w, WriteType
  <2> QED  BY <1>t, <2>1
<1>a. "absent" \in Owners /\ "made" \in Owners  BY DEF Owners
<1>1. Apply
  <2>1. ~ApplyToken
    <3>1. "renderToken" \in Objects  BY DEF Objects, Render
    <3> QED  BY <1>t, <1>w, <1>a, <3>1 DEF ApplyToken, objVars
  <2>2. ~Remove
    <3> SUFFICES ASSUME Remove PROVE FALSE  OBVIOUS
    <3>1. Head(todo).on \in Objects  BY NextCall DEF Remove, Calls
    <3>2. Write(Head(todo).on, "absent")  BY <1>t DEF Remove
    <3>3. "absent" = "made"  BY <1>w, <1>a, <3>1, <3>2
    <3> QED  BY <3>3
  <2>3. ~EditByHand
    <3> SUFFICES ASSUME EditByHand PROVE FALSE  OBVIOUS
    <3>1. PICK o \in Objects, owner \in {"absent", "user"} : Write(o, owner)
      BY DEF EditByHand
    <3>2. owner \in Owners  BY DEF Owners
    <3>3. owner = "made"  BY <1>w, <3>1, <3>2
    <3> QED  BY <3>1, <3>3
  <2>4. CASE BeginPass \/ Wire \/ PassFails \/ Toggle \/ PodEvicted
    BY <1>t, <2>4 DEF BeginPass, Wire, PassFails, Toggle, PodEvicted, objVars
  <2>5. CASE Cluster
    BY <1>t, <2>5 DEF Cluster, CacheSync, AgentPodReplaced, AgentPodStarts,
       RenderPodStarts, RenderPodCollected, objVars
  <2>6. CASE UNCHANGED vars  BY <1>t, <2>6 DEF vars, objVars
  <2> QED  BY <2>1, <2>2, <2>3, <2>4, <2>5, <2>6 DEF Next, Pass
<1> DEFINE o == Head(todo).on
<1>2. todo # <<>> /\ Head(todo).do = "apply" /\ Write(o, applied(o))
  BY <1>1, <1>t DEF Apply
<1>3. o \in Objects /\ Head(todo) = [do |-> "apply", on |-> o]
  BY <1>2, NextCall DEF Calls
<1>4. applied(o) \in Owners
  <2>1. objs[o] \in Owners  BY <1>3 DEF TypeOK
  <2> QED  BY <2>1 DEF applied, Owners
<1>5. Head(todo) = TemporalCall
  <2>1. o = "temporalDeploy"
    <3> HIDE DEF o
    <3> QED  BY <1>w, <1>2, <1>3, <1>4
  <2> QED  BY <1>3, <2>1 DEF TemporalCall
<1>6. "temporal" \in mem  BY <1>2, <1>5, NextCall DEF CallsFor
<1>7. ~PolicyBefore(todo)
  <2> SUFFICES ASSUME PolicyBefore(todo) PROVE FALSE  OBVIOUS
  <2>1. PICK j \in 1 .. Len(todo) : \A i \in 1 .. j : todo[i] # TemporalCall
    BY DEF PolicyBefore
  <2>2. todo[1] = TemporalCall /\ Len(todo) \in Nat  BY <1>2, <1>5, NextCall
  <2>3. 1 \in 1 .. j  BY <2>2
  <2> QED  BY <2>1, <2>2, <2>3
<1> QED  BY <1>2, <1>6, <1>7 DEF PolicyFirst

\* The agent's Deployment refers to the render token only once the Secret is
\* there, and Temporal is made only once the database admits it, wherever
\* earlier passes broke off and whatever was toggled since.  Informers keep up:
\* a copy that still shows a deleted token lets the pass go on without one.
THEOREM NeedsComeFirst ==
  ASSUME "lag" \notin Events
  PROVE  Spec => DependenciesFirst
<1> DEFINE Inv == TypeOK /\ TodoFits /\ seen = objs /\ PolicyFirst /\ TokenFirst
<1>1. Init => Inv
  BY TypeInit DEF Init, PolicyFirst, TokenFirst
<1>2. Inv /\ [Next]_vars => Inv'
  BY TypeStep, UpToDate, PolicyStep, TokenStep
<1>3. Inv /\ [Next]_vars =>
        [/\ "render" \in wired'["agent"] \ wired["agent"] => token # 0
         /\ objs["temporalDeploy"] = "absent" /\ objs'["temporalDeploy"] = "made"
              => "temporal" \in wired["pgPolicy"]]_vars
  BY TokenBeforeAgent, PolicyBeforeTemporal
<1> HIDE DEF Inv
<1> QED  BY <1>1, <1>2, <1>3, PTL DEF Spec, DependenciesFirst

=============================================================================
