------------------------------- MODULE Login -------------------------------
(***************************************************************************)
(* How a browser gets to the agent: the Route, the OAuthClient and the     *)
(* proxy that sign the user in, nginx that forwards the call with a shared *)
(* token, and the agent that checks it.                                    *)
(*                                                                         *)
(* The token, the client secret and the cookie secret are generated once,  *)
(* kept in Secrets, copied into other objects, and read by pods when they  *)
(* start.  A pass refreshes the copies one object at a time, from informer *)
(* caches, while users delete Secrets, touch the Route and restart pods.   *)
(* What a pod template says also depends on the cluster facts the operator *)
(* detects once per process.                                               *)
(***************************************************************************)
EXTENDS Naturals

CONSTANTS
  ClusterProxy,  \* the proxy image the cluster's ImageStream names
  HasACM,        \* ACM observability is installed
  EnvRunner,     \* "release" when the release pins a Helm runner, or "none"
  Hosts,         \* hostnames the router may assign
  MaxEdits,      \* bound on edits by users
  MaxFaults,     \* bound on failures of the environment
  Events         \* which environment events the instance includes

ASSUME LoginAssumption ==
  /\ HasACM \in BOOLEAN
  /\ EnvRunner \in {"release", "none"}
  /\ Hosts \subseteq Nat \ {0} /\ Hosts # {}
  /\ MaxEdits \in Nat /\ MaxFaults \in Nat

FirstHost == CHOOSE h \in Hosts : TRUE

DefaultProxy == "default"
Proxies == {ClusterProxy, DefaultProxy, "custom"}

\* spec.ui: the Helm runner image (digest-pinned or not) and the proxy image.
Specs == [runner : {"unset", "pinned", "loose"}, proxy : {"unset", "custom"}]

\* ClusterInfo.
Infos == [domain : BOOLEAN, proxy : Proxies, acm : BOOLEAN]
NoInfo == [domain |-> FALSE, proxy |-> DefaultProxy, acm |-> FALSE]

\* The rendered nginx.conf: the token and the runner image in it.
Confs == [made : BOOLEAN, token : Nat, runner : {"none", "release", "cr"}]
NoConf == [made |-> FALSE, token |-> 0, runner |-> "none"]

\* The Secrets: ws-token (0 when absent), oauth-secrets (client 0 when absent;
\* cookie 0 when it is not 32 printable bytes) and nginx.
Secrets == [ws : Nat, client : Nat, cookie : Nat, nginx : Confs]

\* The pod templates; restart is the restartedAt annotation.
AgentDeps == [made : BOOLEAN, acm : BOOLEAN, restart : Nat]
UIDeps == [made : BOOLEAN, conf : Confs, proxy : Proxies, restart : Nat]
Deps == [agent : AgentDeps, ui : UIDeps]
NoDeps == [agent |-> [made |-> FALSE, acm |-> FALSE, restart |-> 0],
           ui |-> [made |-> FALSE, conf |-> NoConf, proxy |-> DefaultProxy, restart |-> 0]]

\* Pods: up, the template they were made from, and what they read at start.
NoAgentPod == [up |-> FALSE, of |-> NoDeps.agent, token |-> 0]
NoUIPod == [up |-> FALSE, of |-> NoDeps.ui, conf |-> NoConf, client |-> 0]

\* The Route: host 0 until admitted; managed when target, port and TLS mode are
\* the operator's; extra when somebody added TLS keys of their own.
NoRoute == [made |-> FALSE, host |-> 0, managed |-> FALSE, extra |-> FALSE]

\* The OAuthClient: secret 0 when there is none.
NoClient == [secret |-> 0, redirect |-> 0]

VARIABLES
  spec,
  secrets, seen,       \* the Secrets and the informer's copy of them
  deps, depsSeen,      \* the Deployments and the informer's copy of them
  agentPod, uiPod,
  route, client,       \* Route and OAuthClient, always read live
  legacyMap,           \* the ConfigMap an older operator kept nginx.conf in
  detected,            \* the process's cached ClusterInfo, NoInfo before
  pc, mem,             \* the running pass and its local variables
  minted,              \* random values generated so far
  lost,                \* history: what users deleted or changed by hand
  edits, faults

objVars == <<secrets, seen, deps, depsSeen, route, client, legacyMap>>
podVars == <<agentPod, uiPod>>
passVars == <<pc, mem, detected>>
vars == <<spec, objVars, podVars, passVars, minted, lost, edits, faults>>

NoMem == [spec |-> [runner |-> "unset", proxy |-> "unset"],
          proxy |-> DefaultProxy, conf |-> NoConf, host |-> 0]

-----------------------------------------------------------------------------
(* Reads and writes                                                        *)

WriteSecrets(new) ==
  /\ secrets' = new
  /\ seen' = IF "lag" \in Events THEN seen ELSE new

WriteDeps(new) ==
  /\ deps' = new
  /\ depsSeen' = IF "lag" \in Events THEN depsSeen ELSE new

EndPass == pc' = "idle" /\ mem' = NoMem
GoOn(step) == pc' = step /\ UNCHANGED mem

mayFail == "fail" \in Events /\ faults < MaxFaults
Fault(happens) == faults' = IF happens THEN faults + 1 ELSE faults

\* Mutant: remembers the first answer, complete or not.
fullyDetected_Once(bad) == TRUE

\* Only the Ingress read decides whether the answer is kept.
fullyDetected(bad) == "ingress" \notin bad

\* DetectClusterInfo, when the reads in bad fail: a miss of the ImageStream or
\* of ACM looks like its absence.
DetectClusterInfo(bad) ==
  IF detected # NoInfo THEN detected
  ELSE [domain |-> "ingress" \notin bad,
        proxy |-> IF "stream" \in bad THEN DefaultProxy ELSE ClusterProxy,
        acm |-> HasACM /\ "acm" \notin bad]

Remember(bad) ==
  detected' = IF fullyDetected(bad) THEN DetectClusterInfo(bad) ELSE detected

\* The reads of one call that fail together: an outage takes the Ingress with
\* it, a "misread" may hit any of them.
badReads ==
  IF mayFail /\ detected = NoInfo
  THEN {bad \in SUBSET {"ingress", "stream", "acm"} :
          bad = {} \/ "ingress" \in bad \/ "misread" \in Events}
  ELSE {{}}

-----------------------------------------------------------------------------
(* The pass: the agent                                                     *)

\* A pass reads the CR; its first step here, reconcileWSTokenSecret, makes the
\* token's Secret when the cache has none, and otherwise leaves it alone.
ReconcileWSTokenSecret ==
  /\ pc = "idle"
  /\ \/ /\ seen.ws # 0
        /\ pc' = "agent" /\ mem' = [NoMem EXCEPT !.spec = spec]
        /\ UNCHANGED <<secrets, seen, minted>>
     \/ /\ seen.ws = 0 /\ secrets.ws = 0
        /\ WriteSecrets([secrets EXCEPT !.ws = minted + 1]) /\ minted' = minted + 1
        /\ pc' = "agent" /\ mem' = [NoMem EXCEPT !.spec = spec]
  /\ UNCHANGED <<spec, deps, depsSeen, route, client, legacyMap, podVars, detected,
                 lost, edits, faults>>

\* Mutant: the template is rebuilt from scratch.
keepRestartedAt_Dropped(previous, desired) == desired

keepRestartedAt(previous, desired) == [desired EXCEPT !.restart = previous.restart]

\* The copy d was read from is out of date: Update or Create is refused.
conflict(d) == depsSeen[d] # deps[d]

\* AgentReconciler.reconcileDeployment, which always sends an Update.
ReconcileAgentDeployment ==
  /\ pc = "agent"
  /\ \E bad \in badReads :
       /\ Remember(bad) /\ Fault(bad # {})
       /\ IF conflict("agent") THEN EndPass /\ UNCHANGED <<deps, depsSeen>>
          ELSE /\ GoOn("detect")
               /\ WriteDeps([deps EXCEPT !.agent =
                    keepRestartedAt(depsSeen.agent,
                      [made |-> TRUE, acm |-> DetectClusterInfo(bad).acm, restart |-> 0])])
  /\ UNCHANGED <<spec, secrets, seen, route, client, legacyMap, podVars, minted,
                 lost, edits>>

\* Reconcile asks for the topology itself, for the optional parts in between.
DetectTopology ==
  /\ pc = "detect"
  /\ \E bad \in badReads : Remember(bad) /\ Fault(bad # {})
  /\ GoOn("secrets")
  /\ UNCHANGED <<spec, objVars, podVars, minted, lost, edits>>

-----------------------------------------------------------------------------
(* The pass: reconcileUI                                                   *)

isValidCookieSecret(cookie) == cookie # 0

\* Mutant: a malformed cookie secret makes the whole Secret new.
repaired_Whole(s) == [s EXCEPT !.cookie = minted + 1, !.client = minted + 1]

\* Only the malformed key is replaced.
repaired(s) == [s EXCEPT !.cookie = minted + 1]

oauthConflict == <<seen.client, seen.cookie>> # <<secrets.client, secrets.cookie>>

\* DetectClusterInfo, then reconcileUIOAuthSecrets.
ReconcileUIOAuthSecrets ==
  /\ pc = "secrets"
  /\ \E bad \in badReads :
       /\ Remember(bad) /\ Fault(bad # {})
       /\ IF seen.client # 0 /\ isValidCookieSecret(seen.cookie)
          THEN /\ pc' = "nginx" /\ mem' = [mem EXCEPT !.proxy = DetectClusterInfo(bad).proxy]
               /\ UNCHANGED <<secrets, seen, minted>>
          ELSE IF oauthConflict THEN EndPass /\ UNCHANGED <<secrets, seen, minted>>
          ELSE /\ WriteSecrets(
                    IF seen.client # 0 THEN repaired(secrets)
                    ELSE [secrets EXCEPT !.client = minted + 1, !.cookie = minted + 1])
               /\ minted' = minted + 1
               /\ pc' = "nginx" /\ mem' = [mem EXCEPT !.proxy = DetectClusterInfo(bad).proxy]
  /\ UNCHANGED <<spec, deps, depsSeen, route, client, legacyMap, podVars, lost, edits>>

\* Mutant: whatever is set is served.
resolveHelmRunner_Raw(runner) == runner

\* resolveHelmRunner: a runner image that is not pinned by digest is not served,
\* and not replaced by the release's either.
resolveHelmRunner(runner) ==
  CASE runner = "unset" -> EnvRunner [] runner = "pinned" -> "cr" [] OTHER -> "none"

\* The configuration rendered from the token read (0 when the read fails).
rendered(token) ==
  [made |-> TRUE, token |-> token, runner |-> resolveHelmRunner(mem.spec.runner)]

\* reconcileUINginxConfigMap: nothing is sent when the cached copy already has
\* the wanted content; then the ConfigMap of older operators is deleted.
ReconcileUINginx ==
  /\ pc = "nginx"
  /\ \E failed \in (IF mayFail THEN BOOLEAN ELSE {FALSE}) :
       LET conf == rendered(IF failed THEN 0 ELSE seen.ws)
       IN /\ Fault(failed)
          /\ IF seen.nginx # conf /\ seen.nginx # secrets.nginx
             THEN EndPass /\ UNCHANGED <<secrets, seen, legacyMap>>
             ELSE /\ pc' = "ui" /\ mem' = [mem EXCEPT !.conf = conf]
                  /\ legacyMap' = FALSE
                  /\ IF seen.nginx = conf THEN UNCHANGED <<secrets, seen>>
                     ELSE WriteSecrets([secrets EXCEPT !.nginx = conf])
  /\ UNCHANGED <<spec, deps, depsSeen, route, client, podVars, detected, minted,
                 lost, edits>>

resolvedOAuthProxyImage(s, proxy) == IF s.proxy = "custom" THEN "custom" ELSE proxy

\* Mutant: the configuration is not part of the template.
confHash_None(conf) == NoConf

\* The nginx-config-hash annotation.
confHash(conf) == conf

\* reconcileUIDeployment: CreateOrUpdate sends nothing when the copy it read
\* already is what it wants.
ReconcileUIDeployment ==
  LET desired == keepRestartedAt(depsSeen.ui,
        [made |-> TRUE, conf |-> confHash(mem.conf),
         proxy |-> resolvedOAuthProxyImage(mem.spec, mem.proxy), restart |-> 0])
  IN /\ pc = "ui"
     /\ mem' = NoMem
     /\ CASE desired = depsSeen.ui -> pc' = "route" /\ UNCHANGED <<deps, depsSeen>>
          [] desired # depsSeen.ui /\ conflict("ui") -> pc' = "idle" /\ UNCHANGED <<deps, depsSeen>>
          [] OTHER -> pc' = "route" /\ WriteDeps([deps EXCEPT !.ui = desired])
     /\ UNCHANGED <<spec, secrets, seen, route, client, legacyMap, podVars, detected,
                    minted, lost, edits, faults>>

\* Drift is corrected key by key; host and foreign TLS keys are left alone.
corrected(r) == [r EXCEPT !.managed = TRUE]

\* reconcileUIRoute: create and come back, or correct, and go on with the host.
ReconcileUIRoute ==
  /\ pc = "route"
  /\ IF ~route.made
     THEN route' = [NoRoute EXCEPT !.made = TRUE, !.managed = TRUE] /\ EndPass
     ELSE /\ route' = corrected(route)
          /\ IF route.host = 0 THEN EndPass
             ELSE pc' = "client" /\ mem' = [mem EXCEPT !.host = route.host]
  /\ UNCHANGED <<spec, secrets, seen, deps, depsSeen, client, legacyMap, podVars,
                 detected, minted, lost, edits, faults>>

\* Mutant: an existing OAuthClient is left as it is.
registered_Once(c, secret, host) ==
  IF c.secret # 0 THEN c ELSE [secret |-> secret, redirect |-> host]

registered(c, secret, host) == [secret |-> secret, redirect |-> host]

\* getOAuthClientSecret from the cache, then reconcileOAuthClient.
ReconcileOAuthClient ==
  /\ pc = "client"
  /\ client' = IF seen.client = 0 THEN client
               ELSE registered(client, seen.client, mem.host)
  /\ EndPass
  /\ UNCHANGED <<spec, secrets, seen, deps, depsSeen, route, legacyMap, podVars,
                 detected, minted, lost, edits, faults>>

\* An API error ends the pass where it is.
PassFails ==
  /\ mayFail /\ pc # "idle"
  /\ EndPass /\ Fault(TRUE)
  /\ UNCHANGED <<spec, objVars, podVars, detected, minted, lost, edits>>

\* The operator restarts: new caches, and detection starts over.
OperatorRestarts ==
  /\ mayFail
  /\ EndPass /\ Fault(TRUE)
  /\ detected' = NoInfo /\ seen' = secrets /\ depsSeen' = deps
  /\ UNCHANGED <<spec, secrets, deps, route, client, legacyMap, podVars, minted,
                 lost, edits>>

-----------------------------------------------------------------------------
(* Users                                                                   *)

Edit(event) == event \in Events /\ edits < MaxEdits /\ edits' = edits + 1

EditSpec ==
  /\ Edit("spec")
  /\ \E s \in Specs \ {spec} :
       (s.runner = spec.runner \/ s.proxy = spec.proxy) /\ spec' = s
  /\ UNCHANGED <<objVars, podVars, passVars, minted, lost, faults>>

\* Deleting a Secret is the documented way to rotate what it holds.
DeleteSecret ==
  /\ Edit("rotate")
  /\ \/ /\ secrets.ws # 0
        /\ WriteSecrets([secrets EXCEPT !.ws = 0]) /\ lost' = lost \cup {"ws"}
     \/ /\ secrets.client # 0
        /\ WriteSecrets([secrets EXCEPT !.client = 0, !.cookie = 0])
        /\ lost' = lost \cup {"oauth"}
  /\ UNCHANGED <<spec, deps, depsSeen, route, client, legacyMap, podVars, passVars,
                 minted, faults>>

SpoilCookie ==
  /\ Edit("cookie")
  /\ secrets.client # 0 /\ secrets.cookie # 0
  /\ WriteSecrets([secrets EXCEPT !.cookie = 0])
  /\ UNCHANGED <<spec, deps, depsSeen, route, client, legacyMap, podVars, passVars,
                 minted, lost, faults>>

\* oc rollout restart.
RolloutRestart ==
  /\ Edit("restart")
  /\ \E d \in {"agent", "ui"} :
       deps[d].made /\ WriteDeps([deps EXCEPT ![d].restart = @ + 1])
  /\ UNCHANGED <<spec, secrets, seen, route, client, legacyMap, podVars, passVars,
                 minted, lost, faults>>

TouchRoute ==
  /\ Edit("route") /\ route.made
  /\ \/ route' = NoRoute /\ lost' = lost \cup {"route"}
     \/ route' = [route EXCEPT !.managed = FALSE, !.extra = TRUE] /\ UNCHANGED lost
  /\ UNCHANGED <<spec, secrets, seen, deps, depsSeen, client, legacyMap, podVars,
                 passVars, minted, faults>>

TouchClient ==
  /\ Edit("client") /\ client.secret # 0
  /\ client' \in {NoClient, [client EXCEPT !.redirect = 0]} \ {client}
  /\ lost' = lost \cup {"client"}
  /\ UNCHANGED <<spec, secrets, seen, deps, depsSeen, route, legacyMap, podVars,
                 passVars, minted, faults>>

-----------------------------------------------------------------------------
(* Informers, router, Deployment controller                                *)

SecretSync ==
  /\ seen # secrets /\ seen' = secrets
  /\ UNCHANGED <<spec, secrets, deps, depsSeen, route, client, legacyMap, podVars,
                 passVars, minted, lost, edits, faults>>

DeploymentSync ==
  /\ depsSeen # deps /\ depsSeen' = deps
  /\ UNCHANGED <<spec, secrets, seen, deps, route, client, legacyMap, podVars,
                 passVars, minted, lost, edits, faults>>

\* The host follows from name and domain; a Route made again may get another.
RouteAdmitted ==
  /\ route.made /\ route.host = 0
  /\ \E h \in IF "route" \in lost THEN Hosts ELSE {FirstHost} :
       route' = [route EXCEPT !.host = h]
  /\ UNCHANGED <<spec, secrets, seen, deps, depsSeen, client, legacyMap, podVars,
                 passVars, minted, lost, edits, faults>>

\* The agent is replaced with Recreate and reads the token when it starts.
StopAgent ==
  /\ agentPod.up /\ agentPod.of # deps.agent
  /\ agentPod' = NoAgentPod
  /\ UNCHANGED <<spec, objVars, uiPod, passVars, minted, lost, edits, faults>>

StartAgent ==
  /\ ~agentPod.up /\ deps.agent.made /\ secrets.ws # 0
  /\ agentPod' = [up |-> TRUE, of |-> deps.agent, token |-> secrets.ws]
  /\ UNCHANGED <<spec, objVars, uiPod, passVars, minted, lost, edits, faults>>

\* The UI's new pod takes over once it runs: it needs both Secrets and a usable
\* cookie secret.  nginx.conf is a subPath mount, which is never refreshed.
StartUI ==
  /\ deps.ui.made /\ (~uiPod.up \/ uiPod.of # deps.ui)
  /\ secrets.nginx.made /\ secrets.client # 0 /\ isValidCookieSecret(secrets.cookie)
  /\ uiPod' = [up |-> TRUE, of |-> deps.ui, conf |-> secrets.nginx,
               client |-> secrets.client]
  /\ UNCHANGED <<spec, objVars, agentPod, passVars, minted, lost, edits, faults>>

PodEvicted ==
  /\ "evict" \in Events /\ faults < MaxFaults /\ Fault(TRUE)
  /\ \/ agentPod.up /\ agentPod' = NoAgentPod /\ UNCHANGED uiPod
     \/ uiPod.up /\ uiPod' = NoUIPod /\ UNCHANGED agentPod
  /\ UNCHANGED <<spec, objVars, passVars, minted, lost, edits>>

-----------------------------------------------------------------------------
\* An empty namespace.
Fresh ==
  /\ secrets = [ws |-> 0, client |-> 0, cookie |-> 0, nginx |-> NoConf]
  /\ deps = NoDeps /\ route = NoRoute /\ client = NoClient
  /\ agentPod = NoAgentPod
  /\ ~legacyMap /\ minted = 0

\* What an older operator left: a cookie secret in a format the proxy refuses,
\* nginx.conf in a ConfigMap, templates without its hash.
OlderInstall ==
  /\ secrets = [ws |-> 1, client |-> 2, cookie |-> 0, nginx |-> NoConf]
  /\ deps = [NoDeps EXCEPT !.agent.made = TRUE, !.ui.made = TRUE]
  /\ agentPod = [up |-> TRUE, of |-> deps.agent, token |-> 1]
  /\ route = [NoRoute EXCEPT !.made = TRUE, !.host = FirstHost, !.managed = TRUE]
  /\ client = [secret |-> 2, redirect |-> FirstHost]
  /\ legacyMap /\ minted = 2

Init ==
  /\ spec = NoMem.spec
  /\ legacyMap \in BOOLEAN /\ minted \in {0, 2}
  /\ Fresh \/ ("old" \in Events /\ OlderInstall)
  /\ seen = secrets /\ depsSeen = deps
  /\ uiPod = NoUIPod
  /\ detected = NoInfo /\ pc = "idle" /\ mem = NoMem
  /\ lost = {}
  /\ edits = 0 /\ faults = 0

Pass ==
  \/ ReconcileWSTokenSecret \/ ReconcileAgentDeployment \/ DetectTopology
  \/ ReconcileUIOAuthSecrets \/ ReconcileUINginx \/ ReconcileUIDeployment
  \/ ReconcileUIRoute \/ ReconcileOAuthClient

Users ==
  \/ EditSpec \/ DeleteSecret \/ SpoilCookie \/ RolloutRestart \/ TouchRoute \/ TouchClient

Cluster == SecretSync \/ DeploymentSync \/ RouteAdmitted \/ StopAgent \/ StartAgent \/ StartUI

Next == Pass \/ PassFails \/ OperatorRestarts \/ Users \/ Cluster \/ PodEvicted

Spec == Init /\ [][Next]_vars

\* A pass that started goes on and another follows; informers, router and
\* Deployment controller keep going.  Users and failures stop at their bounds.
FairSpec ==
  /\ Spec /\ WF_vars(Pass)
  /\ WF_vars(SecretSync) /\ WF_vars(DeploymentSync) /\ WF_vars(RouteAdmitted)
  /\ WF_vars(StopAgent) /\ WF_vars(StartAgent) /\ WF_vars(StartUI)

-----------------------------------------------------------------------------
(* Properties                                                              *)

\* The type invariant: Secrets, Deployments, pods, Route, OAuthClient and the
\* pass have the shape the code gives them.
TypeOK ==
  /\ spec \in Specs
  /\ secrets \in Secrets /\ seen \in Secrets /\ deps \in Deps /\ depsSeen \in Deps
  /\ agentPod \in [up : BOOLEAN, of : AgentDeps, token : Nat]
  /\ uiPod \in [up : BOOLEAN, of : UIDeps, conf : Confs, client : Nat]
  /\ route \in [made : BOOLEAN, host : Hosts \cup {0}, managed : BOOLEAN, extra : BOOLEAN]
  /\ client \in [secret : Nat, redirect : Hosts \cup {0}]
  /\ legacyMap \in BOOLEAN /\ detected \in Infos
  /\ pc \in {"idle", "agent", "detect", "secrets", "nginx", "ui", "route", "client"}
  /\ mem \in [spec : Specs, proxy : Proxies, conf : Confs, host : Hosts \cup {0}]
  /\ minted \in Nat /\ lost \subseteq {"ws", "oauth", "client", "route"}
  /\ edits \in Nat /\ faults \in Nat

\* Route, OAuthClient and the Secret agree, and the cookie secret is usable.
Registered ==
  /\ route.made /\ route.managed /\ route.host # 0
  /\ client = [secret |-> secrets.client, redirect |-> route.host]
  /\ secrets.client # 0 /\ isValidCookieSecret(secrets.cookie)

\* Users can sign in in the end, after lost Routes, edited OAuthClients,
\* malformed cookie secrets, failed passes and stale reads.  The running proxy
\* holds the registered client secret as long as nobody deleted its Secret:
\* the template has no hash of it.
SignInWorks ==
  <>[](/\ Registered /\ ~legacyMap
       /\ uiPod.up /\ ("oauth" \in lost \/ uiPod.client = client.secret))

\* The configuration the CR and the token ask for, in the end.
settled(conf) ==
  conf = [made |-> TRUE, token |-> secrets.ws, runner |-> resolveHelmRunner(spec.runner)]

\* The configuration settles: the Secret comes to hold the text the CR and the
\* token ask for, the UI to run the template that carries its hash, and the
\* agent to run with the token in it.  A token read that failed, an edit of the
\* runner image and a stale copy of a Secret are all made good in the objects;
\* what the UI pod mounted is AgentReachable's.  Only an agent whose token
\* Secret was deleted under it keeps the old token.
ConfigurationSettles ==
  <>[](/\ settled(secrets.nginx) /\ uiPod.up /\ uiPod.of.conf = secrets.nginx
       /\ agentPod.up /\ ("ws" \in lost \/ agentPod.token = secrets.nginx.token))

\* nginx comes to serve that text ("the hash drives automatic rollout when
\* config changes"), so that it calls the agent with the agent's token.
AgentReachable ==
  <>[](uiPod.up /\ settled(uiPod.conf))

\* Detection comes to an end, and both pod templates come to follow the cluster:
\* what a failed read made it look like is not kept ("a transient API error (e.g.
\* during operator startup) does not permanently cache a bad value").
DetectionSettles ==
  <>[](/\ detected.domain
       /\ deps.agent.acm = HasACM
       /\ deps.ui.proxy = resolvedOAuthProxyImage(spec, ClusterProxy))

\* The OAuthClient's secret changes only after somebody deleted it or the
\* Secret: no repair, retry or stale read rotates it ("client-secret is never
\* rotated").
ClientSecretKept ==
  [][client.secret # 0 /\ client'.secret # client.secret
       => lost' \cap {"oauth", "client"} # {}]_vars

\* What users set on the operator's objects stays: a rollout restart is not
\* undone, nor TLS keys and the assigned host of a Route overwritten.
UserSettingsKept ==
  [][/\ \A d \in {"agent", "ui"} : deps'[d].restart >= deps[d].restart
     /\ (route.made /\ route'.made) =>
          /\ route.extra => route'.extra
          /\ route.host # 0 => route'.host = route.host]_vars

=============================================================================
