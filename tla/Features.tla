------------------------------ MODULE Features ------------------------------
(***************************************************************************)
(* The optional parts of an installation: the render service, the MCP      *)
(* server, Temporal and its Web UI, monitoring, and the UI's disruption    *)
(* budget.  A switch of the CR turns each on or off; a pass creates or     *)
(* removes its objects one API call at a time, and rewrites the objects    *)
(* that are always there and mention it (the agent's environment, network  *)
(* policies, the UI's nginx and Service).                                  *)
(*                                                                         *)
(* The render service and the agent share a token Secret, read once when a *)
(* pod starts, so the order of these calls, and where a pass breaks off,   *)
(* decides whether the two can talk.                                       *)
(***************************************************************************)
EXTENDS Naturals, Sequences

CONSTANTS
  Toggled,      \* the switches users flip
  OnFirst,      \* the switches that are on to begin with
  UserObjects,  \* objects users make, with no controller: before the CR, or later
  AlienObjects, \* objects another controller owns
  MaxEdits,     \* bound on edits of the CR and of the objects
  MaxFaults,    \* bound on failed passes and evicted pods
  Events        \* which environment events the instance includes

\* "replicas" is on when the UI runs more than one.
Switches == {"render", "mcp", "temporal", "temporalUI", "monitoring", "replicas"}

Render == {"renderToken", "renderDeploy", "renderService", "renderPolicy"}
MCP == {"mcpAccount", "mcpConfig", "mcpDeploy", "mcpService", "mcpPolicy"}
Temporal == {"temporalDeploy", "temporalService", "temporalPolicy"}
TemporalUI == {"temporalUIDeploy", "temporalUIService"}
Monitoring == {"serviceMonitor", "prometheusRule"}
Objects == Render \cup MCP \cup Temporal \cup TemporalUI \cup Monitoring \cup {"budget"}

ASSUME FeaturesAssumption ==
  /\ Toggled \subseteq Switches /\ OnFirst \subseteq Switches
  /\ UserObjects \subseteq Objects \ {"renderToken"}
  /\ AlienObjects \subseteq Objects \ {"renderToken"}
  /\ MaxEdits \in Nat /\ MaxFaults \in Nat

\* An object is the operator's (made by it, and the CR controls it), a user's,
\* a user's the CR has become the controller of, or another controller's.
Owners == {"absent", "made", "user", "adopted", "alien"}
Controlled == {"made", "adopted"}

\* The objects that are always there, and the optional parts they mention.
Mentions ==
  [agent     |-> {"render", "mcp", "temporal"},
   uiPolicy  |-> {"render"},
   pgPolicy  |-> {"temporal"},
   uiService |-> {"render"},
   nginx     |-> {"render"}]
Places == DOMAIN Mentions

Pods == [phase : {"None", "Waiting", "Running"}, mentions : SUBSET Switches,
         token : Nat, old : BOOLEAN]
NoPod == [phase |-> "None", mentions |-> {}, token |-> 0, old |-> FALSE]

VARIABLES
  spec,       \* the switches that are on in the CR
  objs,       \* who owns each object
  seen,       \* the informers' copy of objs
  wired,      \* what each place mentions
  token,      \* the token in the render Secret, 0 when there is none
  minted,     \* the last token generated
  agentPod,
  renderPod,
  mem,        \* the switches the running pass read
  todo,       \* the API calls it still has to make
  edits, faults

passVars == <<mem, todo>>
podVars == <<agentPod, renderPod>>
objVars == <<objs, seen, token, minted>>
vars == <<spec, objVars, wired, podVars, passVars, edits, faults>>

-----------------------------------------------------------------------------
(* The calls of a pass                                                     *)

calls(do, on) == [i \in DOMAIN on |-> [do |-> do, on |-> on[i]]]

\* reconcileRender: the token first, both pods read it; removeRender ends
\* with it.
reconcileRender(on) ==
  IF "render" \in on
  THEN calls("apply", <<"renderToken", "renderDeploy", "renderService", "renderPolicy">>)
  ELSE calls("remove", <<"renderDeploy", "renderService", "renderPolicy", "renderToken">>)

\* The agent's Deployment; then the UI's and PostgreSQL's NetworkPolicy.
reconcileAgent(on) == calls("wire", <<"agent">>)
reconcileNetworkPolicies(on) == calls("wire", <<"uiPolicy", "pgPolicy">>)

\* A budget over a single replica would block node drains.
reconcileUIPodsDisruptionBudget(on) ==
  calls(IF "replicas" \in on THEN "apply" ELSE "remove", <<"budget">>)

\* Nothing removes these two.
reconcileMonitoring(on) ==
  IF "monitoring" \in on THEN calls("apply", <<"serviceMonitor", "prometheusRule">>)
  ELSE <<>>

\* reconcileMCP or removeMCP (their cluster-wide roles are in Instances).
reconcileMCP(on) ==
  IF "mcp" \in on
  THEN calls("apply", <<"mcpAccount", "mcpConfig", "mcpDeploy", "mcpService", "mcpPolicy">>)
  ELSE calls("remove", <<"mcpDeploy", "mcpConfig", "mcpService", "mcpPolicy", "mcpAccount">>)

uiOn(on) == {"temporal", "temporalUI"} \subseteq on

reconcileTemporal(on) ==
  IF "temporal" \notin on THEN <<>>
  ELSE calls("apply",
         <<"temporalDeploy", "temporalService", "temporalPolicy">>
           \o (IF uiOn(on) THEN <<"temporalUIDeploy", "temporalUIService">> ELSE <<>>))

\* Mutant: the Web UI is kept as long as Temporal is on.
removeTemporal_KeepsUI(on) ==
  IF "temporal" \in on THEN <<>>
  ELSE calls("remove", <<"temporalPolicy", "temporalUIDeploy", "temporalUIService",
                         "temporalDeploy", "temporalService">>)

\* Mutant: the Web UI's switch is not looked at.
removeTemporal_Always(on) ==
  calls("remove",
    IF "temporal" \in on THEN <<"temporalUIDeploy", "temporalUIService">>
    ELSE <<"temporalPolicy", "temporalUIDeploy", "temporalUIService",
           "temporalDeploy", "temporalService">>)

\* Runs after reconcileTemporal in every pass.
removeTemporal(on) ==
  IF uiOn(on) THEN <<>>
  ELSE calls("remove",
         IF "temporal" \in on THEN <<"temporalUIDeploy", "temporalUIService">>
         ELSE <<"temporalPolicy", "temporalUIDeploy", "temporalUIService",
                "temporalDeploy", "temporalService">>)

\* reconcileUI: the Service, the nginx configuration and the Deployment that
\* carries its hash.
reconcileUI(on) == calls("wire", <<"uiService", "nginx">>)

\* Mutant: the agent before the render service.
Reconcile_AgentFirst(on) ==
  reconcileAgent(on) \o reconcileRender(on) \o reconcileNetworkPolicies(on)
    \o reconcileUIPodsDisruptionBudget(on) \o reconcileMonitoring(on)
    \o reconcileMCP(on) \o reconcileTemporal(on) \o removeTemporal(on) \o reconcileUI(on)

\* Reconcile, in its order.
Reconcile(on) ==
  reconcileRender(on) \o reconcileAgent(on) \o reconcileNetworkPolicies(on)
    \o reconcileUIPodsDisruptionBudget(on) \o reconcileMonitoring(on)
    \o reconcileMCP(on) \o reconcileTemporal(on) \o removeTemporal(on) \o reconcileUI(on)

-----------------------------------------------------------------------------
(* The API calls                                                           *)

GoOn == todo' = Tail(todo) /\ UNCHANGED mem
EndPass == todo' = <<>> /\ mem' = {}

\* The monitoring kinds are read from the API server, the rest from the cache.
read(o) == IF o \in Monitoring THEN objs[o] ELSE seen[o]

Write(o, owner) ==
  /\ objs' = [objs EXCEPT ![o] = owner]
  /\ seen' = IF "lag" \in Events THEN seen ELSE objs'

\* The kinds written with SetControllerReference inside CreateOrUpdate; the
\* others set it only on an object they create.
Adopting == Objects \ (Monitoring \cup {"renderToken", "mcpService"})

\* The call is refused: the copy it read is out of date, or the object has
\* another controller.
refused(o) ==
  \/ read(o) # objs[o]
  \/ o \in Adopting /\ objs[o] = "alien"

\* An object after a create-or-update.
applied(o) ==
  CASE objs[o] = "absent" -> "made"
    [] objs[o] = "user" /\ o \in Adopting -> "adopted"
    [] OTHER -> objs[o]

\* Create or update one object.  An error ends the pass.
Apply ==
  /\ todo # <<>> /\ Head(todo).do = "apply" /\ Head(todo).on # "renderToken"
  /\ LET o == Head(todo).on IN
       IF refused(o) THEN EndPass /\ UNCHANGED <<objs, seen>>
                     ELSE GoOn /\ Write(o, applied(o))
  /\ UNCHANGED <<spec, token, minted, wired, podVars, edits, faults>>

\* reconcileTokenSecret: generated once, then left alone.
ApplyToken ==
  /\ todo # <<>> /\ Head(todo) = [do |-> "apply", on |-> "renderToken"]
  /\ CASE seen["renderToken"] # "absent" -> GoOn /\ UNCHANGED objVars
       [] seen["renderToken"] = "absent" /\ refused("renderToken") ->
            EndPass /\ UNCHANGED objVars
       [] OTHER ->
            /\ GoOn /\ Write("renderToken", "made")
            /\ minted' = minted + 1 /\ token' = minted + 1
  /\ UNCHANGED <<spec, wired, podVars, edits, faults>>

\* IsControlledBy.
controlledBy(owner) == owner \in Controlled

\* deleteOwned: delete the object of that name if the copy read is controlled
\* by the CR.
Remove ==
  /\ todo # <<>> /\ Head(todo).do = "remove"
  /\ GoOn
  /\ LET o == Head(todo).on IN
       IF controlledBy(seen[o])
       THEN /\ Write(o, "absent")
            /\ token' = IF o = "renderToken" THEN 0 ELSE token
            /\ renderPod' = IF o = "renderDeploy"
                            THEN [renderPod EXCEPT !.old = @ \/ renderPod.phase # "None"]
                            ELSE renderPod
       ELSE UNCHANGED <<objs, seen, token, renderPod>>
  /\ UNCHANGED <<spec, minted, wired, agentPod, edits, faults>>

\* Mutant: every place mentions everything that is on.
mentioned_All(p) == mem

\* Mutant: what is already mentioned stays.
mentioned_Grows(p) == wired[p] \cup (Mentions[p] \cap mem)

\* What a place is made to mention.
mentioned(p) == Mentions[p] \cap mem

\* The agent's new pod when its Deployment's template becomes m: strategy
\* Recreate, so the old pod goes first.
replaced(m) ==
  IF agentPod.mentions = m THEN agentPod
  ELSE [NoPod EXCEPT !.phase = "Waiting", !.mentions = m]

\* Rewrite an object that is always there.  The Deployment controller rolls
\* the agent at once, or in a step of its own ("slow").
Wire ==
  /\ todo # <<>> /\ Head(todo).do = "wire"
  /\ LET p == Head(todo).on IN
       /\ wired' = [wired EXCEPT ![p] = mentioned(p)]
       /\ agentPod' = IF p = "agent" /\ "slow" \notin Events
                      THEN replaced(mentioned(p)) ELSE agentPod
  /\ GoOn
  /\ UNCHANGED <<spec, objVars, renderPod, edits, faults>>

BeginPass ==
  /\ todo = <<>>
  /\ mem' = spec /\ todo' = Reconcile(spec)
  /\ UNCHANGED <<spec, objVars, wired, podVars, edits, faults>>

\* A call fails, or the operator restarts, and the rest of the pass is lost.
PassFails ==
  /\ "fail" \in Events /\ faults < MaxFaults /\ todo # <<>>
  /\ EndPass /\ faults' = faults + 1
  /\ UNCHANGED <<spec, objVars, wired, podVars, edits>>

-----------------------------------------------------------------------------
(* Users and the cluster                                                   *)

Toggle ==
  /\ edits < MaxEdits /\ edits' = edits + 1
  /\ \E s \in Toggled :
       spec' = IF s \in spec THEN spec \ {s} ELSE spec \cup {s}
  /\ UNCHANGED <<objVars, wired, podVars, passVars, faults>>

\* Somebody deletes an object, or makes one of their own where there is none.
EditByHand ==
  /\ "byhand" \in Events /\ edits < MaxEdits /\ edits' = edits + 1
  /\ \/ \E o \in Objects \ {"renderToken", "renderDeploy"} :
          objs[o] \in Controlled \cup {"user"} /\ Write(o, "absent")
     \/ \E o \in UserObjects : objs[o] = "absent" /\ Write(o, "user")
  /\ UNCHANGED <<spec, token, minted, wired, podVars, passVars, faults>>

CacheSync ==
  /\ seen # objs /\ seen' = objs
  /\ UNCHANGED <<spec, objs, token, minted, wired, podVars, passVars, edits, faults>>

AgentPodReplaced ==
  /\ agentPod.mentions # wired["agent"]
  /\ agentPod' = replaced(wired["agent"])
  /\ UNCHANGED <<spec, objVars, wired, renderPod, passVars, edits, faults>>

\* A pod that refers to a missing Secret waits; the value is read once.
AgentPodStarts ==
  /\ agentPod.phase = "Waiting"
  /\ "render" \in agentPod.mentions => token # 0
  /\ agentPod' = [agentPod EXCEPT !.phase = "Running",
                    !.token = IF "render" \in agentPod.mentions THEN token ELSE 0]
  /\ UNCHANGED <<spec, objVars, wired, renderPod, passVars, edits, faults>>

RenderPodStarts ==
  /\ renderPod.phase = "None" /\ objs["renderDeploy"] \in Controlled /\ token # 0
  /\ renderPod' = [NoPod EXCEPT !.phase = "Running", !.token = token]
  /\ UNCHANGED <<spec, objVars, wired, agentPod, passVars, edits, faults>>

\* The garbage collector removes the pod of a deleted Deployment.
RenderPodCollected ==
  /\ renderPod.old /\ renderPod' = NoPod
  /\ UNCHANGED <<spec, objVars, wired, agentPod, passVars, edits, faults>>

\* A pod is evicted and its controller makes another.
PodEvicted ==
  /\ "evict" \in Events /\ faults < MaxFaults /\ faults' = faults + 1
  /\ \/ /\ agentPod.phase = "Running"
        /\ agentPod' = [NoPod EXCEPT !.phase = "Waiting", !.mentions = wired["agent"]]
        /\ UNCHANGED renderPod
     \/ renderPod.phase = "Running" /\ renderPod' = NoPod /\ UNCHANGED agentPod
  /\ UNCHANGED <<spec, objVars, wired, passVars, edits>>

-----------------------------------------------------------------------------
Init ==
  /\ spec = OnFirst
  /\ objs = [o \in Objects |-> IF o \in UserObjects THEN "user"
                               ELSE IF o \in AlienObjects THEN "alien" ELSE "absent"]
  /\ seen = objs
  /\ wired = [p \in Places |-> {}]
  /\ token = 0 /\ minted = 0
  /\ agentPod = [NoPod EXCEPT !.phase = "Running"] /\ renderPod = NoPod
  /\ mem = {} /\ todo = <<>>
  /\ edits = 0 /\ faults = 0

Pass == BeginPass \/ Apply \/ ApplyToken \/ Remove \/ Wire
Cluster ==
  CacheSync \/ AgentPodReplaced \/ AgentPodStarts \/ RenderPodStarts \/ RenderPodCollected

Next == Pass \/ PassFails \/ Toggle \/ EditByHand \/ Cluster \/ PodEvicted

Spec == Init /\ [][Next]_vars

\* A pass that started goes on, and another follows it (the 30-second requeue,
\* or the retry of a failed one); informers and kubelets make progress.
FairSpec ==
  /\ Spec /\ WF_vars(Pass)
  /\ WF_vars(CacheSync) /\ WF_vars(AgentPodReplaced) /\ WF_vars(AgentPodStarts)
  /\ WF_vars(RenderPodStarts) /\ WF_vars(RenderPodCollected)

-----------------------------------------------------------------------------
(* Properties                                                              *)

Calls == [do : {"apply", "remove"}, on : Objects] \cup [do : {"wire"}, on : Places]

\* The type invariant: the switches, what exists and who holds it, what the
\* Deployments mention, and the calls the pass has left.
TypeOK ==
  /\ spec \subseteq Switches /\ mem \subseteq Switches
  /\ objs \in [Objects -> Owners] /\ seen \in [Objects -> Owners]
  /\ wired \in [Places -> SUBSET Switches]
  /\ \A p \in Places : wired[p] \subseteq Mentions[p]
  /\ token \in Nat /\ minted \in Nat /\ token \in {0, minted}
  /\ (token # 0) = (objs["renderToken"] # "absent")
  /\ agentPod \in Pods /\ renderPod \in Pods
  /\ todo \in Seq(Calls)
  /\ edits \in 0..MaxEdits /\ faults \in 0..MaxFaults

\* What a pod needs is there before it ("a pod referencing a missing Secret will
\* not start"): the agent's Deployment starts to refer to the render token only
\* once the Secret exists, and Temporal's, whose first start sets up the schema,
\* is made only once PostgreSQL's NetworkPolicy admits it.
DependenciesFirst ==
  [][/\ "render" \in wired'["agent"] \ wired["agent"] => token # 0
     /\ objs["temporalDeploy"] = "absent" /\ objs'["temporalDeploy"] = "made"
          => "temporal" \in wired["pgPolicy"]]_vars

\* "Turning a feature off can never remove something the operator did not make"
\* (deleteOwned): a pass deletes no object a user or another controller made,
\* the ones the CR became the controller of included.
NotMadeKept ==
  [][todo' # todo =>
       \A o \in Objects :
         objs[o] \in {"user", "alien", "adopted"} => objs'[o] # "absent"]_vars

\* The same of the objects the CR does not control at that moment, which may
\* have taken the place of one the pass still sees.
ForeignKept ==
  [][todo' # todo =>
       \A o \in Objects :
         objs[o] \in {"user", "alien"} => objs'[o] # "absent"]_vars

\* What an optional part consists of.
parts(s) ==
  CASE s = "render" -> Render
    [] s = "mcp" -> MCP
    [] s = "temporal" -> Temporal
    [] s = "temporalUI" -> TemporalUI
    [] s = "monitoring" -> Monitoring
    [] s = "replicas" -> {"budget"}

enabled(s) == s \in spec /\ (s = "temporalUI" => "temporal" \in spec)

gone(s) ==
  /\ \A o \in parts(s) : objs[o] \notin Controlled
  /\ \A p \in Places : s \notin wired[p]

inPlace(s) ==
  /\ \A o \in parts(s) : objs[o] \in Controlled
  /\ \A p \in Places : s \in Mentions[p] => s \in wired[p]

\* An optional part that stays off is taken away completely, and nothing goes
\* on mentioning it ("Turning it off removes the render Deployment, Service,
\* NetworkPolicy and token Secret, the agent env vars, and the UI listener"),
\* whatever passes broke off and whatever the caches showed them.
TurnedOffIsRemoved ==
  \A s \in Toggled : <>[](~enabled(s)) => <>[]gone(s)

\* An optional part that stays on is complete, and stays so.
TurnedOnIsComplete ==
  \A s \in Toggled : <>[]enabled(s) => <>[]inPlace(s)

\* With render on, the agent and the render service end up running and
\* sharing the token the Secret holds.
PreviewWorks ==
  <>[](enabled("render"))
    => <>[](/\ agentPod.phase = "Running" /\ "render" \in agentPod.mentions
            /\ renderPod.phase = "Running" /\ ~renderPod.old
            /\ token # 0 /\ agentPod.token = token /\ renderPod.token = token)

\* The agent is never left waiting for a Secret no pass will make.
AgentComesBack == []<>(agentPod.phase = "Running")
=============================================================================
