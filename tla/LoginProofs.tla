---------------------------- MODULE LoginProofs ----------------------------
(* Proofs about Login, for every set of hosts, images, events and bounds.  *)
EXTENDS Login, TLAPS

USE LoginAssumption

-----------------------------------------------------------------------------
(* Lemmas about the operators                                              *)

\* What is detected is a ClusterInfo, and so is what is remembered of it.
LEMMA DetectedType ==
  ASSUME TypeOK, NEW bad
  PROVE  /\ DetectClusterInfo(bad) \in Infos
         /\ Remember(bad) => detected' \in Infos
<1> DEFINE d == "ingress" \notin bad
<1> DEFINE a == HasACM /\ "acm" \notin bad
<1> DEFINE p == IF "stream" \in bad THEN DefaultProxy ELSE ClusterProxy
<1>1. d \in BOOLEAN /\ a \in BOOLEAN  OBVIOUS
<1>2. p \in Proxies  BY DEF Proxies
<1>3. DetectClusterInfo(bad) = IF detected # NoInfo THEN detected
                              ELSE [domain |-> d, proxy |-> p, acm |-> a]
  BY DEF DetectClusterInfo
<1>4. detected \in Infos  BY DEF TypeOK
<1> HIDE DEF d, a, p
<1>5. DetectClusterInfo(bad) \in Infos  BY <1>1, <1>2, <1>3, <1>4 DEF Infos
<1> QED  BY <1>4, <1>5 DEF Remember

\* The constants of the model are well formed.
LEMMA ConstantsType ==
  /\ NoConf \in Confs /\ NoInfo \in Infos /\ NoDeps \in Deps
  /\ NoDeps.agent \in AgentDeps /\ NoDeps.ui \in UIDeps
  /\ NoMem \in [spec : Specs, proxy : Proxies, conf : Confs, host : Hosts \cup {0}]
  /\ NoAgentPod \in [up : BOOLEAN, of : AgentDeps, token : Nat]
  /\ NoUIPod \in [up : BOOLEAN, of : UIDeps, conf : Confs, client : Nat]
  /\ FirstHost \in Hosts
BY DEF NoConf, Confs, NoInfo, Infos, NoDeps, Deps, AgentDeps, UIDeps, NoMem, Specs,
       Proxies, DefaultProxy, NoAgentPod, NoUIPod, FirstHost

\* What the operator and users make of the Secrets are well-formed Secrets.
LEMMA SecretsEdited ==
  ASSUME NEW s \in Secrets, NEW n \in Nat, NEW c \in Confs
  PROVE  /\ [s EXCEPT !.ws = n] \in Secrets /\ [s EXCEPT !.cookie = n] \in Secrets
         /\ [s EXCEPT !.client = n, !.cookie = n] \in Secrets
         /\ [s EXCEPT !.nginx = c] \in Secrets
BY DEF Secrets

\* Writing well-formed Secrets keeps the informer's copy well formed.
LEMMA WriteSecretsType ==
  ASSUME TypeOK, NEW new \in Secrets, WriteSecrets(new)
  PROVE  secrets' \in Secrets /\ seen' \in Secrets
BY DEF TypeOK, WriteSecrets

\* So does writing Deployments.
LEMMA WriteDepsType ==
  ASSUME TypeOK, NEW new \in Deps, WriteDeps(new)
  PROVE  deps' \in Deps /\ depsSeen' \in Deps
BY DEF TypeOK, WriteDeps

-----------------------------------------------------------------------------
(* Type correctness                                                        *)

\* Every step keeps the variables well formed.
LEMMA TypeStep == TypeOK /\ [Next]_vars => TypeOK'
<1> SUFFICES ASSUME TypeOK, [Next]_vars PROVE TypeOK'  OBVIOUS
<1> USE DEF TypeOK
<1>1. CASE ReconcileWSTokenSecret
  <2>1. [secrets EXCEPT !.ws = minted + 1] \in Secrets  BY DEF Secrets
  <2>2. secrets' \in Secrets /\ seen' \in Secrets /\ minted' \in Nat
    BY <1>1, <2>1, WriteSecretsType DEF ReconcileWSTokenSecret
  <2>3. [NoMem EXCEPT !.spec = spec] \in
          [spec : Specs, proxy : Proxies, conf : Confs, host : Hosts \cup {0}]
    BY ConstantsType
  <2> QED  BY <1>1, <2>2, <2>3 DEF ReconcileWSTokenSecret, podVars
<1>2. CASE ReconcileAgentDeployment
  <2>1. PICK bad \in badReads :
          /\ Remember(bad) /\ Fault(bad # {})
          /\ IF conflict("agent") THEN EndPass /\ UNCHANGED <<deps, depsSeen>>
             ELSE /\ GoOn("detect")
                  /\ WriteDeps([deps EXCEPT !.agent =
                       keepRestartedAt(depsSeen.agent,
                         [made |-> TRUE, acm |-> DetectClusterInfo(bad).acm, restart |-> 0])])
    BY <1>2 DEF ReconcileAgentDeployment
  <2> DEFINE new == [deps EXCEPT !.agent =
                       keepRestartedAt(depsSeen.agent,
                         [made |-> TRUE, acm |-> DetectClusterInfo(bad).acm, restart |-> 0])]
  <2>2. detected' \in Infos /\ faults' \in Nat  BY <2>1, DetectedType DEF Fault
  <2>3. new \in Deps
    BY DetectedType DEF Deps, AgentDeps, keepRestartedAt, Infos
  <2> HIDE DEF new
  <2>4. deps' \in Deps /\ depsSeen' \in Deps  BY <2>1, <2>3, WriteDepsType DEF new
  <2>5. pc' \in {"idle", "detect"} /\ mem' \in {mem, NoMem}
    BY <2>1 DEF EndPass, GoOn
  <2> QED
    BY <1>2, <2>2, <2>4, <2>5, ConstantsType DEF ReconcileAgentDeployment, podVars
<1>3. CASE ReconcileUIOAuthSecrets
  <2>1. PICK bad \in badReads :
          /\ Remember(bad) /\ Fault(bad # {})
          /\ \/ /\ pc' = "nginx" /\ mem' = [mem EXCEPT !.proxy = DetectClusterInfo(bad).proxy]
                /\ UNCHANGED <<secrets, seen, minted>>
             \/ EndPass /\ UNCHANGED <<secrets, seen, minted>>
             \/ /\ WriteSecrets(IF seen.client # 0 THEN repaired(secrets)
                     ELSE [secrets EXCEPT !.client = minted + 1, !.cookie = minted + 1])
                /\ minted' = minted + 1
                /\ pc' = "nginx" /\ mem' = [mem EXCEPT !.proxy = DetectClusterInfo(bad).proxy]
    BY <1>3 DEF ReconcileUIOAuthSecrets
  <2>2. detected' \in Infos /\ faults' \in Nat  BY <2>1, DetectedType DEF Fault
  <2>3. /\ repaired(secrets) \in Secrets
        /\ [secrets EXCEPT !.client = minted + 1, !.cookie = minted + 1] \in Secrets
    <3> DEFINE n == minted + 1
    <3>1. n \in Nat /\ secrets \in Secrets  OBVIOUS
    <3>2. NoConf \in Confs  BY ConstantsType
    <3> HIDE DEF TypeOK, n
    <3>3. /\ [secrets EXCEPT !.cookie = n] \in Secrets
          /\ [secrets EXCEPT !.client = n, !.cookie = n] \in Secrets
      BY <3>1, <3>2, SecretsEdited
    <3> QED  BY <3>3 DEF repaired, n
  <2>4. secrets' \in Secrets /\ seen' \in Secrets /\ minted' \in Nat
    BY <2>1, <2>3, WriteSecretsType
  <2>5. [mem EXCEPT !.proxy = DetectClusterInfo(bad).proxy] \in
          [spec : Specs, proxy : Proxies, conf : Confs, host : Hosts \cup {0}]
    BY DetectedType DEF Infos
  <2>6. pc' \in {"idle", "nginx"}
        /\ mem' \in [spec : Specs, proxy : Proxies, conf : Confs, host : Hosts \cup {0}]
    BY <2>1, <2>5, ConstantsType DEF EndPass
  <2> QED  BY <1>3, <2>2, <2>4, <2>6 DEF ReconcileUIOAuthSecrets, podVars
<1>4. CASE ReconcileUINginx
  <2>1. PICK failed \in BOOLEAN :
          LET conf == rendered(IF failed THEN 0 ELSE seen.ws)
          IN /\ Fault(failed)
             /\ \/ EndPass /\ UNCHANGED <<secrets, seen, legacyMap>>
                \/ /\ pc' = "ui" /\ mem' = [mem EXCEPT !.conf = conf]
                   /\ legacyMap' = FALSE
                   /\ \/ UNCHANGED <<secrets, seen>>
                      \/ WriteSecrets([secrets EXCEPT !.nginx = conf])
    <3> HIDE DEF TypeOK
    <3> QED  BY <1>4, Zenon DEF ReconcileUINginx
  <2> DEFINE conf == rendered(IF failed THEN 0 ELSE seen.ws)
  <2>2. conf \in Confs
    BY DEF rendered, Confs, Secrets, resolveHelmRunner
  <2> HIDE DEF conf
  <2>3. /\ [secrets EXCEPT !.nginx = conf] \in Secrets
        /\ [mem EXCEPT !.conf = conf] \in
             [spec : Specs, proxy : Proxies, conf : Confs, host : Hosts \cup {0}]
    BY <2>2 DEF Secrets
  <2>4. secrets' \in Secrets /\ seen' \in Secrets
    BY <2>1, <2>3, WriteSecretsType DEF conf
  <2>5. /\ pc' \in {"idle", "ui"} /\ legacyMap' \in BOOLEAN /\ faults' \in Nat
        /\ mem' \in [spec : Specs, proxy : Proxies, conf : Confs, host : Hosts \cup {0}]
    <3>1. mem' \in {NoMem, [mem EXCEPT !.conf = conf]}  BY <2>1 DEF EndPass, conf
    <3>2. pc' \in {"idle", "ui"} /\ legacyMap' \in {legacyMap, FALSE}  BY <2>1 DEF EndPass
    <3>3. faults' \in Nat  BY <2>1 DEF Fault
    <3> QED  BY <2>3, <3>1, <3>2, <3>3, ConstantsType
  <2> QED  BY <1>4, <2>4, <2>5 DEF ReconcileUINginx, podVars
<1>5. CASE ReconcileUIDeployment
  <2> DEFINE desired == keepRestartedAt(depsSeen.ui,
        [made |-> TRUE, conf |-> confHash(mem.conf),
         proxy |-> resolvedOAuthProxyImage(mem.spec, mem.proxy), restart |-> 0])
  <2>1. desired \in UIDeps
    BY DEF keepRestartedAt, UIDeps, Deps, confHash, resolvedOAuthProxyImage, Proxies, Specs
  <2>2. /\ mem' = NoMem /\ pc' \in {"idle", "route"}
        /\ UNCHANGED <<deps, depsSeen>> \/ WriteDeps([deps EXCEPT !.ui = desired])
    BY <1>5 DEF ReconcileUIDeployment
  <2> HIDE DEF desired
  <2>3. [deps EXCEPT !.ui = desired] \in Deps  BY <2>1 DEF Deps
  <2>4. deps' \in Deps /\ depsSeen' \in Deps  BY <2>2, <2>3, WriteDepsType
  <2> QED  BY <1>5, <2>2, <2>4, ConstantsType DEF ReconcileUIDeployment, podVars
<1>6. CASE ReconcileUIRoute
  <2>1. route' \in [made : BOOLEAN, host : Hosts \cup {0}, managed : BOOLEAN, extra : BOOLEAN]
    BY <1>6 DEF ReconcileUIRoute, corrected, NoRoute
  <2>2. mem' \in {NoMem, [mem EXCEPT !.host = route.host]} /\ pc' \in {"idle", "client"}
    BY <1>6 DEF ReconcileUIRoute, EndPass
  <2> QED  BY <1>6, <2>1, <2>2, ConstantsType DEF ReconcileUIRoute, podVars
<1>7. CASE ReconcileOAuthClient
  BY <1>7, ConstantsType DEF ReconcileOAuthClient, registered, Secrets, EndPass, podVars
<1>8. CASE PassFails
  BY <1>8, ConstantsType DEF PassFails, EndPass, Fault, objVars, podVars
<1>9. CASE OperatorRestarts
  BY <1>9, ConstantsType DEF OperatorRestarts, EndPass, Fault, podVars
<1>10. CASE EditSpec
  BY <1>10 DEF EditSpec, Edit, objVars, podVars, passVars
<1>11. CASE DeleteSecret
  <2>1. /\ [secrets EXCEPT !.ws = 0] \in Secrets
        /\ [secrets EXCEPT !.client = 0, !.cookie = 0] \in Secrets
    BY DEF Secrets
  <2>2. secrets' \in Secrets /\ seen' \in Secrets
    BY <1>11, <2>1, WriteSecretsType DEF DeleteSecret
  <2> QED  BY <1>11, <2>2 DEF DeleteSecret, Edit, podVars, passVars
<1>12. CASE SpoilCookie
  <2>1. [secrets EXCEPT !.cookie = 0] \in Secrets  BY DEF Secrets
  <2>2. secrets' \in Secrets /\ seen' \in Secrets
    BY <1>12, <2>1, WriteSecretsType DEF SpoilCookie
  <2> QED  BY <1>12, <2>2 DEF SpoilCookie, Edit, podVars, passVars
<1>13. CASE RolloutRestart
  <2>1. \A d \in {"agent", "ui"} : [deps EXCEPT ![d].restart = @ + 1] \in Deps
    BY DEF Deps, AgentDeps, UIDeps
  <2>2. deps' \in Deps /\ depsSeen' \in Deps
    BY <1>13, <2>1, WriteDepsType DEF RolloutRestart
  <2> QED  BY <1>13, <2>2 DEF RolloutRestart, Edit, podVars, passVars
<1>14. CASE TouchRoute
  <2>1. route' \in [made : BOOLEAN, host : Hosts \cup {0}, managed : BOOLEAN, extra : BOOLEAN]
    <3>1. NoRoute \in [made : BOOLEAN, host : Hosts \cup {0}, managed : BOOLEAN, extra : BOOLEAN]
      BY DEF NoRoute
    <3>2. [route EXCEPT !.managed = FALSE, !.extra = TRUE] \in
            [made : BOOLEAN, host : Hosts \cup {0}, managed : BOOLEAN, extra : BOOLEAN]
      OBVIOUS
    <3> QED  BY <1>14, <3>1, <3>2 DEF TouchRoute
  <2>2. lost' \subseteq {"ws", "oauth", "client", "route"}  BY <1>14 DEF TouchRoute
  <2> QED  BY <1>14, <2>1, <2>2 DEF TouchRoute, Edit, podVars, passVars
<1>15. CASE TouchClient
  BY <1>15 DEF TouchClient, Edit, NoClient, podVars, passVars
<1>16. CASE SecretSync \/ DeploymentSync
  BY <1>16 DEF SecretSync, DeploymentSync, podVars, passVars
<1>17. CASE RouteAdmitted
  BY <1>17, ConstantsType DEF RouteAdmitted, podVars, passVars
<1>18. CASE StopAgent \/ StartAgent
  <2>1. agentPod' \in [up : BOOLEAN, of : AgentDeps, token : Nat]
    <3>1. deps.agent \in AgentDeps /\ secrets.ws \in Nat  BY DEF Deps, Secrets
    <3>2. CASE StopAgent  BY <3>2, ConstantsType DEF StopAgent
    <3>3. CASE StartAgent  BY <3>1, <3>3 DEF StartAgent
    <3> QED  BY <1>18, <3>2, <3>3
  <2> QED  BY <1>18, <2>1 DEF StopAgent, StartAgent, objVars, passVars
<1>19. CASE StartUI
  BY <1>19 DEF StartUI, Deps, Secrets, objVars, passVars
<1>20. CASE PodEvicted
  BY <1>20, ConstantsType DEF PodEvicted, Fault, objVars, passVars
<1>21. CASE DetectTopology
  <2>1. detected' \in Infos /\ faults' \in Nat
    BY <1>21, DetectedType DEF DetectTopology, Fault
  <2> QED  BY <1>21, <2>1 DEF DetectTopology, GoOn, objVars, podVars
<1>22. CASE UNCHANGED vars
  BY <1>22 DEF vars, objVars, podVars, passVars
<1> QED
  BY <1>1, <1>2, <1>3, <1>4, <1>5, <1>6, <1>7, <1>8, <1>9, <1>10, <1>11, <1>12,
     <1>13, <1>14, <1>15, <1>16, <1>17, <1>18, <1>19, <1>20, <1>21, <1>22
  DEF Next, Pass, Users, Cluster

\* An empty namespace and an older operator's install are well formed.
LEMMA InitType == Init => TypeOK
<1> SUFFICES ASSUME Init PROVE TypeOK  OBVIOUS
<1> USE ConstantsType DEF Init
<1>1. CASE Fresh
  BY <1>1 DEF Fresh, TypeOK, Secrets, NoRoute, NoClient, NoMem
<1>2. CASE OlderInstall
  <2>1. deps \in Deps /\ deps.agent \in AgentDeps
    BY <1>2 DEF OlderInstall, Deps, AgentDeps, UIDeps
  <2> QED  BY <1>2, <2>1 DEF OlderInstall, TypeOK, Secrets, NoRoute, NoMem
<1> QED  BY <1>1, <1>2

\* Secrets, Deployments, pods, Route, OAuthClient and the pass always have the
\* shape the code gives them.
THEOREM TypeCorrect == Spec => []TypeOK
BY InitType, TypeStep, PTL DEF Spec

-----------------------------------------------------------------------------
(* The client secret                                                       *)

\* As long as nobody deleted the OAuth Secret, a client secret the informer
\* shows, and one the OAuthClient holds, is the one in the Secret: an informer
\* that lags shows none rather than another.
OneClientSecret ==
  "oauth" \notin lost =>
    /\ seen.client \in {0, secrets.client}
    /\ client.secret \in {0, secrets.client}

\* Writing Secrets that keep the client secret keeps the copies consistent.
LEMMA WriteKeepsClient ==
  ASSUME OneClientSecret, NEW new, new.client = secrets.client, WriteSecrets(new),
         UNCHANGED <<client, lost>>
  PROVE  OneClientSecret'
BY DEF OneClientSecret, WriteSecrets

\* Every step keeps the copies of the client secret consistent.
LEMMA OneClientSecretStep == TypeOK /\ OneClientSecret /\ [Next]_vars => OneClientSecret'
<1> SUFFICES ASSUME TypeOK, OneClientSecret, [Next]_vars PROVE OneClientSecret'
  OBVIOUS
<1>t. secrets \in Secrets /\ seen \in Secrets /\ minted \in Nat  BY DEF TypeOK
<1>0. ASSUME UNCHANGED <<secrets, seen, client, lost>> PROVE OneClientSecret'
  BY <1>0 DEF OneClientSecret
<1>1. CASE ReconcileWSTokenSecret
  <2>1. [secrets EXCEPT !.ws = minted + 1].client = secrets.client
    BY <1>t DEF Secrets
  <2> QED  BY <1>0, <1>1, <2>1, WriteKeepsClient DEF ReconcileWSTokenSecret
<1>2. CASE ReconcileUIOAuthSecrets
  <2>1. CASE UNCHANGED <<secrets, seen>>
    BY <1>0, <1>2, <2>1 DEF ReconcileUIOAuthSecrets
  \* A malformed cookie secret is replaced beside the client secret.
  <2>2. CASE seen.client # 0 /\ WriteSecrets(repaired(secrets))
    <3>1. repaired(secrets).client = secrets.client  BY <1>t DEF repaired, Secrets
    <3> QED  BY <1>2, <2>2, <3>1, WriteKeepsClient DEF ReconcileUIOAuthSecrets
  \* A new client secret is made when the informer shows none and is up to date,
  \* and then the OAuthClient holds none.
  <2>3. CASE /\ seen.client = 0 /\ ~oauthConflict
             /\ WriteSecrets([secrets EXCEPT !.client = minted + 1, !.cookie = minted + 1])
    <3> DEFINE new == [secrets EXCEPT !.client = minted + 1, !.cookie = minted + 1]
    <3>1. secrets.client = 0  BY <2>3 DEF oauthConflict
    <3>2. UNCHANGED <<client, lost>>  BY <1>2 DEF ReconcileUIOAuthSecrets
    <3>3. "oauth" \notin lost' => client'.secret = 0
      BY <3>1, <3>2 DEF OneClientSecret
    <3>4. secrets' = new /\ seen' \in {new, seen}  BY <2>3 DEF WriteSecrets
    <3> HIDE DEF new
    <3> QED  BY <2>3, <3>3, <3>4 DEF OneClientSecret
  <2> QED  BY <1>2, <2>1, <2>2, <2>3 DEF ReconcileUIOAuthSecrets
<1>3. CASE ReconcileUINginx
  <2>1. \A c : [secrets EXCEPT !.nginx = c].client = secrets.client
    BY <1>t DEF Secrets
  <2>2. UNCHANGED <<client, lost>>  BY <1>3 DEF ReconcileUINginx
  <2>3. UNCHANGED <<secrets, seen>> \/ \E c : WriteSecrets([secrets EXCEPT !.nginx = c])
    BY <1>3 DEF ReconcileUINginx
  <2> QED  BY <1>0, <2>1, <2>2, <2>3, WriteKeepsClient
<1>4. CASE ReconcileOAuthClient
  <2>1. client' = client \/ client' = [secret |-> seen.client, redirect |-> mem.host]
    BY <1>4 DEF ReconcileOAuthClient, registered
  <2>2. client'.secret \in {client.secret, seen.client}  BY <2>1
  <2>3. UNCHANGED <<secrets, seen, lost>>  BY <1>4 DEF ReconcileOAuthClient
  <2> QED  BY <2>2, <2>3 DEF OneClientSecret
<1>5. CASE DeleteSecret
  <2>1. CASE WriteSecrets([secrets EXCEPT !.ws = 0]) /\ lost' = lost \cup {"ws"}
    <3>1. [secrets EXCEPT !.ws = 0].client = secrets.client  BY <1>t DEF Secrets
    <3>2. client' = client /\ ("oauth" \in lost' <=> "oauth" \in lost)
      BY <1>5, <2>1 DEF DeleteSecret
    <3> QED  BY <2>1, <3>1, <3>2 DEF OneClientSecret, WriteSecrets
  <2>2. CASE lost' = lost \cup {"oauth"}
    BY <2>2 DEF OneClientSecret
  <2> QED  BY <1>5, <2>1, <2>2 DEF DeleteSecret
<1>6. CASE SpoilCookie
  <2>1. [secrets EXCEPT !.cookie = 0].client = secrets.client  BY <1>t DEF Secrets
  <2> QED  BY <1>6, <2>1, WriteKeepsClient DEF SpoilCookie
<1>7. CASE TouchRoute
  <2>1. /\ UNCHANGED <<secrets, seen, client>>
        /\ "oauth" \in lost' <=> "oauth" \in lost
    BY <1>7 DEF TouchRoute
  <2> QED  BY <2>1 DEF OneClientSecret
<1>8. CASE TouchClient
  <2>1. /\ UNCHANGED <<secrets, seen>>
        /\ "oauth" \in lost' <=> "oauth" \in lost
    BY <1>8 DEF TouchClient
  <2>2. client'.secret \in {0, client.secret}
    BY <1>8 DEF TouchClient, TypeOK, NoClient
  <2> QED  BY <2>1, <2>2 DEF OneClientSecret
<1>9. CASE OperatorRestarts \/ SecretSync
  <2>1. seen' = secrets' /\ UNCHANGED <<secrets, client, lost>>
    BY <1>9 DEF OperatorRestarts, SecretSync
  <2> QED  BY <2>1 DEF OneClientSecret
<1>10. CASE \/ ReconcileAgentDeployment \/ DetectTopology \/ ReconcileUIDeployment \/ ReconcileUIRoute
            \/ PassFails \/ EditSpec \/ RolloutRestart \/ DeploymentSync \/ RouteAdmitted
            \/ StopAgent \/ StartAgent \/ StartUI \/ PodEvicted \/ UNCHANGED vars
  BY <1>0, <1>10
  DEF ReconcileAgentDeployment, DetectTopology, ReconcileUIDeployment,
      ReconcileUIRoute, PassFails,
      EditSpec, RolloutRestart, DeploymentSync, RouteAdmitted, StopAgent, StartAgent,
      StartUI, PodEvicted, vars, objVars
<1> QED
  BY <1>1, <1>2, <1>3, <1>4, <1>5, <1>6, <1>7, <1>8, <1>9, <1>10
  DEF Next, Pass, Users, Cluster

\* The OAuthClient's secret changes only after somebody deleted it or the Secret
\* it is copied from, through stale reads, repairs of the cookie secret, failed
\* passes and restarts of the operator.
THEOREM ClientSecretIsKept == Spec => ClientSecretKept
<1>1. Init => OneClientSecret
  BY DEF Init, Fresh, OlderInstall, OneClientSecret, NoClient
<1>2. ASSUME TypeOK, OneClientSecret, [Next]_vars,
             client.secret # 0, client'.secret # client.secret
      PROVE  lost' \cap {"oauth", "client"} # {}
  <2>1. CASE ReconcileOAuthClient
    <3>1. client'.secret \in {client.secret, seen.client} /\ lost' = lost
      BY <2>1 DEF ReconcileOAuthClient, registered
    <3>2. seen.client # 0  BY <1>2, <2>1 DEF ReconcileOAuthClient
    <3> QED  BY <1>2, <3>1, <3>2 DEF OneClientSecret
  <2>2. CASE TouchClient
    BY <2>2 DEF TouchClient
  <2>3. ASSUME client' = client PROVE FALSE
    BY <1>2, <2>3
  <2> QED
    BY <1>2, <2>1, <2>2, <2>3
    DEF Next, Pass, Users, Cluster, DetectTopology, ReconcileWSTokenSecret, ReconcileAgentDeployment,
        ReconcileUIOAuthSecrets, ReconcileUINginx, ReconcileUIDeployment,
        ReconcileUIRoute, PassFails, OperatorRestarts, EditSpec, DeleteSecret,
        SpoilCookie, RolloutRestart, TouchRoute, SecretSync, DeploymentSync,
        RouteAdmitted, StopAgent, StartAgent, StartUI, PodEvicted, vars, objVars
<1>3. TypeOK /\ OneClientSecret /\ [Next]_vars =>
        [client.secret # 0 /\ client'.secret # client.secret
           => lost' \cap {"oauth", "client"} # {}]_vars
  BY <1>2
<1> QED
  BY <1>1, <1>3, InitType, TypeStep, OneClientSecretStep, PTL DEF Spec, ClientSecretKept

-----------------------------------------------------------------------------
(* What users set                                                          *)

\* No write of the operator and no restart, failure or stale read undoes a
\* rollout restart, drops the TLS keys somebody added to the Route or changes the
\* host the router assigned.
THEOREM UserSettingsAreKept == Spec => UserSettingsKept
<1>1. ASSUME TypeOK, [Next]_vars
      PROVE  /\ deps'.agent.restart >= deps.agent.restart
             /\ deps'.ui.restart >= deps.ui.restart
  <2>t. /\ deps \in Deps /\ depsSeen \in Deps
        /\ deps.agent.restart \in Nat /\ deps.ui.restart \in Nat
    BY <1>1 DEF TypeOK, Deps, AgentDeps, UIDeps
  <2>0. ASSUME deps' = deps
        PROVE  /\ deps'.agent.restart >= deps.agent.restart
               /\ deps'.ui.restart >= deps.ui.restart
    BY <2>t, <2>0
  \* The pass writes what it read only when nobody wrote since.
  <2>1. CASE ReconcileAgentDeployment
    <3>1. PICK a : /\ deps' \in {deps, [deps EXCEPT !.agent = a]}
                   /\ deps' # deps => /\ a.restart = depsSeen.agent.restart
                                      /\ ~conflict("agent")
      BY <2>1 DEF ReconcileAgentDeployment, WriteDeps, keepRestartedAt
    <3>2. CASE deps' = [deps EXCEPT !.agent = a] /\ deps' # deps
      <4>1. depsSeen.agent = deps.agent  BY <3>1, <3>2 DEF conflict
      <4>2. deps'.agent = a /\ deps'.ui = deps.ui  BY <2>t, <3>2 DEF Deps
      <4> QED  BY <2>t, <3>1, <3>2, <4>1, <4>2
    <3> QED  BY <2>0, <3>1, <3>2
  <2>2. CASE ReconcileUIDeployment
    <3>1. PICK u : /\ deps' \in {deps, [deps EXCEPT !.ui = u]}
                   /\ deps' # deps => /\ u.restart = depsSeen.ui.restart
                                      /\ ~conflict("ui")
      BY <2>2 DEF ReconcileUIDeployment, WriteDeps, keepRestartedAt
    <3>2. CASE deps' = [deps EXCEPT !.ui = u] /\ deps' # deps
      <4>1. depsSeen.ui = deps.ui  BY <3>1, <3>2 DEF conflict
      <4>2. deps'.ui = u /\ deps'.agent = deps.agent  BY <2>t, <3>2 DEF Deps
      <4> QED  BY <2>t, <3>1, <3>2, <4>1, <4>2
    <3> QED  BY <2>0, <3>1, <3>2
  <2>3. CASE RolloutRestart
    BY <2>t, <2>3 DEF RolloutRestart, WriteDeps, Deps, AgentDeps, UIDeps
  <2> QED
    BY <1>1, <2>0, <2>1, <2>2, <2>3
    DEF Next, Pass, Users, Cluster, DetectTopology, ReconcileWSTokenSecret, ReconcileUIOAuthSecrets,
        ReconcileUINginx, ReconcileUIRoute, ReconcileOAuthClient, PassFails,
        OperatorRestarts, EditSpec, DeleteSecret, SpoilCookie, TouchRoute, TouchClient,
        SecretSync, DeploymentSync, RouteAdmitted, StopAgent, StartAgent, StartUI,
        PodEvicted, vars, objVars
<1>2. ASSUME TypeOK, [Next]_vars, route.made, route'.made
      PROVE  /\ route.extra => route'.extra
             /\ route.host # 0 => route'.host = route.host
  <2>0. ASSUME route' = route
        PROVE  /\ route.extra => route'.extra
               /\ route.host # 0 => route'.host = route.host
    BY <2>0
  <2>t. route \in [made : BOOLEAN, host : Hosts \cup {0}, managed : BOOLEAN, extra : BOOLEAN]
    BY <1>2 DEF TypeOK
  <2>1. CASE ReconcileUIRoute
    BY <1>2, <2>t, <2>1 DEF ReconcileUIRoute, corrected
  <2>2. CASE TouchRoute
    <3>1. ~NoRoute.made  BY DEF NoRoute
    <3>2. route' = [route EXCEPT !.managed = FALSE, !.extra = TRUE]
      BY <1>2, <2>2, <3>1 DEF TouchRoute
    <3> QED  BY <2>t, <3>2
  <2>3. CASE RouteAdmitted
    BY <2>t, <2>3 DEF RouteAdmitted
  <2> QED
    BY <1>2, <2>0, <2>1, <2>2, <2>3
    DEF Next, Pass, Users, Cluster, DetectTopology, ReconcileWSTokenSecret, ReconcileAgentDeployment,
        ReconcileUIOAuthSecrets, ReconcileUINginx, ReconcileUIDeployment,
        ReconcileOAuthClient, PassFails, OperatorRestarts, EditSpec, DeleteSecret,
        SpoilCookie, RolloutRestart, TouchClient, SecretSync, DeploymentSync,
        StopAgent, StartAgent, StartUI, PodEvicted, vars, objVars
<1>3. TypeOK /\ [Next]_vars =>
        [/\ \A d \in {"agent", "ui"} : deps'[d].restart >= deps[d].restart
         /\ (route.made /\ route'.made) =>
              /\ route.extra => route'.extra
              /\ route.host # 0 => route'.host = route.host]_vars
  BY <1>1, <1>2
<1> QED  BY <1>3, InitType, TypeStep, PTL DEF Spec, UserSettingsKept

=============================================================================
