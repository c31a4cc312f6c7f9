------------------------------ MODULE Rendering ------------------------------
(***************************************************************************)
(* From a HyperbytedbCluster to what runs: the admission webhook, the      *)
(* version the operator renders for (compat.go, image.go), what it renders *)
(* (config.toml, the StatefulSet's pod template, the proxy Deployment, the *)
(* Services, the PDB, the Secrets), and the steps of a reconcile that      *)
(* store it one object after the other, any of which may be the last one   *)
(* for a while. Users, the Kubernetes controllers, the kubelet and the     *)
(* programs in the images are external: a container loads the ConfigMap    *)
(* and the Secrets when it starts, and only then.                          *)
(*                                                                         *)
(* Abstractions: a version is its rank among the ones that matter. The     *)
(* settings config.toml passes on are one value; what the pod template     *)
(* takes over unchanged is left out. How a rollout or a scale-down goes on *)
(* is RollingRestart's and ScaleDown's subject; here pods are replaced     *)
(* from the highest down once the template changes. All clusters opt into  *)
(* Parallel pod management, so that the policy never changes.              *)
(***************************************************************************)
EXTENDS Integers, FiniteSets, FiniteSetsExt

CONSTANTS
  Submissions,  \* what users submit for a cluster
  First,        \* those of them it is created with
  MaxReplicas,  \* the most replicas in them
  LocalVersion, \* the version local builds are of
  MaxEdits,     \* bound on the updates of the cluster
  MaxFaults,    \* bound on the faults
  Faults        \* which of FaultKinds happen

\* "error": an API call fails, or the operator stops, after any step.
\* "stale": a Secret is there and the operator's cache does not have it yet.
\* "restart": containers restart.
\* "takeback": an edit may return to a pod template or a configuration that is
\* still being left.
FaultKinds == {"error", "stale", "restart", "takeback"}

Ordinals == 0 .. MaxReplicas - 1

-----------------------------------------------------------------------------
(* Versions: 1 is older than the oldest the operator renders for. *)

OldestDatabaseVersion == 2

version090Beta == 3

version091Beta == 4

LatestDatabaseVersion == 5

Versions == 1 .. 6

\* What a version field or the tag of an image may be besides: not there; the
\* tag "latest", which the newest version has; no tag behind a registry's port,
\* which means the same; the tag of a local build.
Empty == 0

LatestTag == -1

Untagged == -2

LocalTag == -3

CompatibilityMatrix ==
  [c \in {"split-chdb-pools", "auto-query-pool", "sharding", "control-listener",
          "cluster-auth", "proxy-admin-listener"} |->
     IF c = "cluster-auth" THEN version091Beta ELSE version090Beta]

versionSupports(v, capability) == v >= CompatibilityMatrix[capability]

\* An image with a ':' in it is taken as it is.
resolveComponentImage(image, version) ==
  IF image # Empty THEN image ELSE IF version # Empty THEN version ELSE LatestTag

ResolveHyperbytedbImage(c) == resolveComponentImage(c.image, c.version)

ResolveProxyImage(c) == resolveComponentImage(c.proxyImage, c.version)

ResolveDatabaseVersion(c) ==
  IF c.annotation \in Versions THEN c.annotation
  ELSE IF c.version \in Versions THEN c.version
  ELSE IF ResolveHyperbytedbImage(c) \in Versions THEN ResolveHyperbytedbImage(c)
  ELSE LatestDatabaseVersion

ResolveProxyVersion(c) ==
  IF ResolveProxyImage(c) \in Versions THEN ResolveProxyImage(c) ELSE ResolveDatabaseVersion(c)

Supports(c, capability) == versionSupports(ResolveDatabaseVersion(c), capability)

\* Seeded fault of ProxySupports: the proxy taken for as old as the database.
SupportsAsDatabase(c, capability) == Supports(c, capability)

ProxySupports(c, capability) == versionSupports(ResolveProxyVersion(c), capability)

\* The reason of the DatabaseVersion condition.
CompatibilitySummary(c) ==
  LET v == ResolveDatabaseVersion(c)
  IN IF {c.annotation, c.version, ResolveHyperbytedbImage(c)} \cap Versions = {} THEN "Assumed"
     ELSE IF v < OldestDatabaseVersion THEN "OlderThanSupported"
     ELSE IF v > LatestDatabaseVersion THEN "NewerThanKnown"
     ELSE "Supported"

\* The version of the program behind a tag (external).
Runs(tag) ==
  IF tag \in Versions THEN tag
  ELSE IF tag = LocalTag THEN LocalVersion
  ELSE LatestDatabaseVersion

\* The operator takes the images for what they are.
Aligned(c) ==
  /\ Runs(ResolveHyperbytedbImage(c)) = ResolveDatabaseVersion(c)
  /\ c.proxy => Runs(ResolveProxyImage(c)) = ResolveProxyVersion(c)

-----------------------------------------------------------------------------
(* The cluster, and what is rendered from it *)

\* The greatest port the webhook accepts.
MaxPort == 65535

\* spec.replicas is not there.
NoReplicas == -1

\* tls and auth: "off", a Secret of the operator's, or one the user names.
\* sharding: not there, or its enabled.
Clusters ==
  [replicas : NoReplicas .. MaxReplicas, annotation : Versions \cup {Empty},
   version : Versions \cup {Empty, LatestTag},
   image : Versions \cup {Empty, Untagged, LocalTag},
   proxyImage : Versions \cup {Empty, Untagged, LocalTag},
   port : 0 .. MaxPort + 1, proxyPort : 0 .. MaxPort, proxy : BOOLEAN, nodePort : BOOLEAN,
   tls : {"off", "own", "user"}, auth : {"off", "own", "user"},
   sharding : {"none", "off", "on"}, control : BOOLEAN,
   chdb : [pool : 0 .. 2, query : 0 .. 2, write : 0 .. 2], settings : Nat]

ASSUME RenderingAssumption ==
  /\ MaxReplicas \in Nat \ {0} /\ MaxEdits \in Nat /\ MaxFaults \in Nat
  /\ Faults \subseteq FaultKinds
  /\ LocalVersion \in Versions
  /\ Submissions \subseteq Clusters /\ First \subseteq Submissions

\* HyperbytedbClusterWebhook.Default; port 0 is a field that is not there.
Default(c) ==
  [c EXCEPT !.replicas = IF @ = NoReplicas THEN 1 ELSE @, !.port = IF @ = 0 THEN 8086 ELSE @]

\* Seeded fault of validateCluster: any port.
ValidateReplicas(c) == c.replicas >= 1

validateCluster(c) == c.replicas >= 1 /\ c.port \in 1 .. MaxPort

clusterMetadataEnabled(c) == c.replicas > 1 \/ c.sharding = "on"

\* Seeded fault of ControlListenerEnabled: opted in, whatever the version.
ControlListenerOptIn(c, enabled) == enabled /\ c.control

ControlListenerEnabled(c, enabled) ==
  enabled /\ c.control /\ Supports(c, "control-listener")

ControlPort(c) == c.port + 1

ClusterAuthEnabled(c) == c.auth # "off" /\ Supports(c, "cluster-auth")

\* One pool_size for an old database; else the sizes that are set, and a write
\* pool of 1 when none is.
writeChdbSection(c) ==
  LET p == c.chdb
      pools(pool, query, write) == [pool |-> pool, query |-> query, write |-> write]
  IN CASE ~Supports(c, "split-chdb-pools") ->
            pools(IF p.pool > 0 THEN p.pool ELSE IF p.query > 0 THEN p.query ELSE 1, 0, 0)
       [] Supports(c, "split-chdb-pools") /\ (p.query > 0 \/ p.write > 0) ->
            pools(0, p.query, p.write)
       [] OTHER -> IF p.pool > 0 THEN pools(p.pool, 0, 0) ELSE pools(0, 0, 1)

writeShardingSection(c) ==
  IF c.sharding = "none" \/ ~Supports(c, "sharding") THEN "none" ELSE c.sharding

\* The other sections: every setting that is there, or its default.
WithDefaults(settings) == IF settings > 0 THEN settings ELSE 1

\* [cluster] control_port, the container's port and the port of its liveness probe.
ListensAt(c, enabled) == IF ControlListenerEnabled(c, enabled) THEN ControlPort(c) ELSE 0

renderConfigTOMLWithClusterEnabled(c, enabled) ==
  [port |-> c.port, tls |-> c.tls # "off", settings |-> WithDefaults(c.settings),
   chdb |-> writeChdbSection(c), auth |-> c.auth # "off", enabled |-> enabled,
   control |-> ListensAt(c, enabled), sharding |-> writeShardingSection(c)]

renderConfigTOML(c) == renderConfigTOMLWithClusterEnabled(c, clusterMetadataEnabled(c))

\* Seeded fault of ConfigHash: the pools' sizes are not in it.
HashWithoutPools(c) ==
  [renderConfigTOMLWithClusterEnabled(c, FALSE) EXCEPT !.chdb = 0]

\* Replica-independent; a digest tells all configurations apart.
ConfigHash(c) == renderConfigTOMLWithClusterEnabled(c, FALSE)

\* The pod template: what differs with the cluster's mode is the preStop hook,
\* the affinity and the control listener's port and probe.
BuildStatefulSet(c, hash) ==
  [image |-> ResolveHyperbytedbImage(c), hash |-> hash, port |-> c.port,
   secret |-> IF ClusterAuthEnabled(c) THEN c.auth ELSE "off", tls |-> c.tls,
   clustered |-> clusterMetadataEnabled(c),
   control |-> ListensAt(c, clusterMetadataEnabled(c))]

Template(c) == BuildStatefulSet(c, ConfigHash(c))

proxyPort(c) == IF c.proxyPort > 0 THEN c.proxyPort ELSE c.port

ProxyAdminPort(c) ==
  IF ~ProxySupports(c, "proxy-admin-listener") THEN proxyPort(c)
  ELSE IF proxyPort(c) = 8087 THEN 8088 ELSE 8087

\* listen: HYPERBYTEDB_PROXY_ADMIN_LISTEN, when it is set.
BuildProxyDeployment(c) ==
  [image |-> ResolveProxyImage(c), port |-> proxyPort(c), backend |-> c.port,
   listen |-> IF ProxySupports(c, "proxy-admin-listener") THEN ProxyAdminPort(c) ELSE 0,
   probe |-> ProxyAdminPort(c)]

BuildClientService(c) == c.port

BuildProxyService(c) == [nodePort |-> c.nodePort, port |-> proxyPort(c)]

-----------------------------------------------------------------------------
(* The state *)

VARIABLES
  cluster,  \* the HyperbytedbCluster
  edits,    \* how many edits there have been
  faults,   \* how many faults there have been
  op,       \* the reconcile under way
  secrets,  \* the auth Secrets
  tls,      \* the TLS Secrets that are there
  api,      \* the other objects
  pods,     \* the database's pods, and what their containers loaded
  proxies   \* the template the proxy pods that serve are of

vars == <<cluster, edits, faults, op, secrets, tls, api, pods, proxies>>

\* An object that is not there.
None == [none |-> TRUE]

NoSecret == [there |-> FALSE, token |-> 0, login |-> FALSE]

NoPod == [on |-> "absent", tmpl |-> None, config |-> None, token |-> 0]

IdleOp == [pc |-> "idle", obj |-> None, secret |-> NoSecret, token |-> 0]

\* The webhooks.
Admit(submissions) ==
  {Default(s) : s \in {r \in submissions : validateCluster(Default(r))}}

Admitted == Admit(Submissions)

Configs == {renderConfigTOML(c) : c \in Admitted} \cup {None}

Templates == {Template(c) : c \in Admitted} \cup {None}

Deployments == {BuildProxyDeployment(c) : c \in Admitted} \cup {None}

Secrets == [there : BOOLEAN, token : Nat, login : BOOLEAN]

TypeOK ==
  /\ cluster \in Admitted
  /\ edits \in 0 .. MaxEdits /\ faults \in 0 .. MaxFaults
  /\ op \in [pc : {"idle", "auth", "secret", "config", "sts", "proxysvc", "proxydep", "finish"},
             obj : Admitted \cup {None}, secret : Secrets, token : Nat]
  /\ secrets \in [{"own", "user"} -> Secrets]
  /\ tls \subseteq {"own", "user"}
  /\ api \in [configMap : Configs, service : 0 .. MaxPort, tmpl : Templates,
              replicas : 0 .. MaxReplicas,
              proxySvc : {BuildProxyService(c) : c \in Admitted} \cup {None},
              proxyDep : Deployments, pdb : 0 .. MaxReplicas,
              reported : {"Unknown", "Assumed", "Supported", "OlderThanSupported", "NewerThanKnown"}]
  /\ pods \in [Ordinals -> [on : {"absent", "down", "running"}, tmpl : Templates,
                            config : Configs, token : Nat]]
  /\ proxies \in Deployments

Init ==
  /\ cluster \in Admit(First)
  /\ edits = 0 /\ faults = 0
  /\ op = IdleOp
  /\ secrets = [n \in {"own", "user"} |-> NoSecret]
  /\ tls = {}
  /\ api = [configMap |-> None, service |-> 0, tmpl |-> None, replicas |-> 0,
            proxySvc |-> None, proxyDep |-> None, pdb |-> 0, reported |-> "Unknown"]
  /\ pods = [o \in Ordinals |-> NoPod]
  /\ proxies = None

-----------------------------------------------------------------------------
(* The operator: Reconcile, one object after the other *)

World == <<cluster, edits, pods, proxies>>

Fault(kind) == kind \in Faults /\ faults < MaxFaults /\ faults' = faults + 1

\* The cluster is read, and its TLS Secret made when it is the operator's; one
\* the user names, or has cert-manager make, is trusted to come.
reconcileTLS ==
  /\ op.pc = "idle"
  /\ tls' = tls \cup ({"own"} \cap {cluster.tls})
  /\ op' = [IdleOp EXCEPT !.pc = IF ClusterAuthEnabled(cluster) THEN "auth" ELSE "config",
                         !.obj = cluster]
  /\ UNCHANGED World /\ UNCHANGED <<faults, secrets, api>>

\* The Secret is read from the cache.
GetAuthSecret ==
  /\ op.pc = "auth"
  /\ \/ op' = [op EXCEPT !.pc = "secret", !.secret = secrets[op.obj.auth]] /\ UNCHANGED faults
     \/ op' = [op EXCEPT !.pc = "secret"] /\ Fault("stale")
  /\ UNCHANGED World /\ UNCHANGED <<secrets, tls, api>>

\* randomSecret
Fresh == 1 + Max({0, op.token} \cup {secrets[n].token : n \in {"own", "user"}}
                   \cup {pods[o].token : o \in Ordinals})

FillAuthSecret(s) ==
  [there |-> TRUE, token |-> IF s.token = 0 THEN Fresh ELSE s.token, login |-> TRUE]

\* Seeded fault of Stored: the write is not based on what was read.
StoredAnyhow(n) == TRUE

\* Create fails when the Secret is there after all, Update when it has changed
\* since it was read.
Stored(n) == secrets[n] = op.secret

reconcileAuthSecret ==
  /\ op.pc = "secret"
  /\ LET n == op.obj.auth
         filled == FillAuthSecret(op.secret)
     IN \/ /\ filled # op.secret /\ Stored(n)
           /\ secrets' = [secrets EXCEPT ![n] = filled]
           /\ op' = [op EXCEPT !.pc = "config", !.token = filled.token]
        \/ /\ filled = op.secret
           /\ op' = [op EXCEPT !.pc = "config", !.token = filled.token]
           /\ UNCHANGED secrets
        \/ /\ filled # op.secret /\ ~Stored(n)
           /\ op' = IdleOp
           /\ UNCHANGED secrets
  /\ UNCHANGED World /\ UNCHANGED <<faults, tls, api>>

\* A step that stores one object.
Apply(from, to, objects) ==
  /\ op.pc = from
  /\ op' = IF to = "idle" THEN IdleOp ELSE [op EXCEPT !.pc = to]
  /\ api' = objects
  /\ UNCHANGED World /\ UNCHANGED <<secrets, tls>>

Store(from, to, objects) == Apply(from, to, objects) /\ UNCHANGED faults

reconcileConfigMap ==
  Store("config", "sts", [api EXCEPT !.configMap = renderConfigTOML(op.obj)])

\* The Services, then the StatefulSet.
reconcileStatefulSet ==
  Store("sts", IF op.obj.proxy THEN "proxysvc" ELSE "finish",
        [api EXCEPT !.service = BuildClientService(op.obj),
                    !.tmpl = BuildStatefulSet(op.obj, ConfigHash(op.obj)),
                    !.replicas = op.obj.replicas])

\* reconcileProxy: a change of the Service's type deletes it first.
reconcileProxyService ==
  /\ op.pc = "proxysvc"
  /\ IF api.proxySvc # None /\ api.proxySvc.nodePort # op.obj.nodePort
       THEN Store("proxysvc", "proxysvc", [api EXCEPT !.proxySvc = None])
       ELSE Store("proxysvc", "proxydep", [api EXCEPT !.proxySvc = BuildProxyService(op.obj)])

\* reconcileRollingRestart ends the reconcile as long as pods are to be replaced.
AfterProxy ==
  IF \E o \in 0 .. api.replicas - 1 : pods[o].on # "absent" /\ pods[o].tmpl # api.tmpl
    THEN "idle" ELSE "finish"

reconcileProxy ==
  Store("proxydep", AfterProxy, [api EXCEPT !.proxyDep = BuildProxyDeployment(op.obj)])

\* Its error is only logged.
ProxyFails ==
  /\ Fault("error")
  /\ \E pc \in {"proxysvc", "proxydep"} : Apply(pc, AfterProxy, api)

\* reconcilePDB and the DatabaseVersion condition.
Finish ==
  Store("finish", "idle", [api EXCEPT !.pdb = op.obj.replicas - 1,
                                      !.reported = CompatibilitySummary(op.obj)])

Fail ==
  /\ Fault("error")
  /\ op.pc # "idle"
  /\ op' = IdleOp
  /\ UNCHANGED World /\ UNCHANGED <<secrets, tls, api>>

OperatorStep ==
  \/ reconcileTLS \/ GetAuthSecret \/ reconcileAuthSecret \/ reconcileConfigMap
  \/ reconcileStatefulSet \/ reconcileProxyService \/ reconcileProxy \/ Finish

-----------------------------------------------------------------------------
(* Pods and proxies (external) *)

Operator == <<cluster, edits, op, secrets, tls, api>>

MovePod(o, pod) ==
  /\ pods' = [pods EXCEPT ![o] = pod]
  /\ UNCHANGED Operator /\ UNCHANGED proxies

StsCreate(o) ==
  /\ o < api.replicas
  /\ pods[o].on = "absent"
  /\ MovePod(o, [NoPod EXCEPT !.on = "down", !.tmpl = api.tmpl])
  /\ UNCHANGED faults

\* A container starts once the Secrets of its template are there. After a
\* restart the mounted ConfigMap may still be the one of before.
Start(o) ==
  LET pod == pods[o]
  IN /\ pod.on = "down"
     /\ pod.tmpl.tls # "off" => pod.tmpl.tls \in tls
     /\ pod.tmpl.secret # "off" => secrets[pod.tmpl.secret].token # 0 /\ secrets[pod.tmpl.secret].login
     /\ \E config \in {api.configMap} \cup ({pod.config} \ {None}) :
          MovePod(o, [pod EXCEPT !.on = "running", !.config = config,
                        !.token = IF pod.tmpl.secret = "off" THEN 0
                                  ELSE secrets[pod.tmpl.secret].token])
     /\ UNCHANGED faults

\* The probes of its template find what the container serves.
Live(pod) ==
  /\ pod.config.port = pod.tmpl.port
  /\ pod.config.tls = (pod.tmpl.tls # "off")
  /\ pod.tmpl.control # 0 =>
       /\ versionSupports(Runs(pod.tmpl.image), "control-listener")
       /\ pod.config.control = pod.tmpl.control

Current(o) == pods[o].on = "running" /\ pods[o].tmpl = api.tmpl /\ Live(pods[o])

\* A pod gets its address when its volumes are there, the TLS Secret's with them.
HasIP(pod) == pod.config # None \/ pod.tmpl.tls \in tls \cup {"off"}

\* From the highest down, and only when the ones above run. A pod that is not
\* well itself is replaced like the others, which needs Parallel pod management;
\* with proxies the operator waits, without a time limit, until it has an address
\* (rollingRestartExcluding).
Replace(o) ==
  /\ o < api.replicas
  /\ pods[o].on # "absent" /\ pods[o].tmpl # api.tmpl
  /\ cluster.proxy => HasIP(pods[o])
  /\ \A h \in o + 1 .. api.replicas - 1 : Current(h)
  /\ MovePod(o, NoPod) /\ UNCHANGED faults

Remove(o) ==
  /\ o >= api.replicas
  /\ pods[o].on # "absent"
  /\ MovePod(o, NoPod) /\ UNCHANGED faults

Restart(o) ==
  /\ Fault("restart")
  /\ pods[o].on = "running"
  /\ MovePod(o, [pods[o] EXCEPT !.on = "down"])

\* Where a proxy serves its probes and its admin API: from 0.9.0-beta on a
\* listener of its own, by default on 8087.
AdminAt(d) ==
  IF ~versionSupports(Runs(d.image), "proxy-admin-listener") THEN d.port
  ELSE IF d.listen = 0 THEN 8087 ELSE d.listen

ProxyReady(d) ==
  /\ AdminAt(d) = d.probe
  /\ versionSupports(Runs(d.image), "proxy-admin-listener") => AdminAt(d) # d.port

\* maxUnavailable 0: the old proxies serve until the new ones are ready.
ReplaceProxies ==
  /\ api.proxyDep # None /\ proxies # api.proxyDep
  /\ ProxyReady(api.proxyDep)
  /\ proxies' = api.proxyDep
  /\ UNCHANGED Operator /\ UNCHANGED <<faults, pods>>

PodStep(o) == StsCreate(o) \/ Start(o) \/ Replace(o) \/ Remove(o)

-----------------------------------------------------------------------------
(* The user *)

Settled ==
  /\ op.pc = "idle"
  /\ api.tmpl = Template(cluster) /\ api.configMap = renderConfigTOML(cluster)
  /\ \A o \in Ordinals : IF o < cluster.replicas THEN Current(o) ELSE pods[o].on = "absent"

Templated == ({api.tmpl} \cup {pods[o].tmpl : o \in Ordinals}) \ {None}

\* An edit does not return to a pod template, or to a configuration, that is
\* still being left.
MayEdit(c) ==
  \/ Settled
  \/ \A t \in Templated :
       t # Template(c) /\ (t.hash = ConfigHash(c) => ConfigHash(c) = ConfigHash(cluster))
  \/ "takeback" \in Faults

Submit ==
  /\ edits < MaxEdits /\ edits' = edits + 1
  /\ \E c \in Admitted \ {cluster} :
       /\ MayEdit(c)
       /\ cluster' = c
  /\ UNCHANGED <<faults, op, secrets, tls, api, pods, proxies>>

\* With the keys the user wants to choose, and before the operator has made it:
\* applied over one that is in use it would change the token under running pods.
ProvideSecret ==
  /\ cluster.auth = "user" /\ ~secrets["user"].there
  /\ \E token \in {0, Fresh}, login \in BOOLEAN :
       secrets' = [secrets EXCEPT !["user"] =
                     [there |-> TRUE, token |-> token, login |-> login]]
  /\ UNCHANGED World /\ UNCHANGED <<faults, op, tls, api>>

\* A TLS Secret that a pod waits for comes, even when the cluster no longer names it.
ProvideTLS ==
  /\ cluster.tls = "user" \/ \E o \in Ordinals : pods[o].on = "down" /\ pods[o].tmpl.tls = "user"
  /\ "user" \notin tls
  /\ tls' = tls \cup {"user"}
  /\ UNCHANGED World /\ UNCHANGED <<faults, op, secrets, api>>

EnvironmentStep == ReplaceProxies \/ ProvideTLS \/ \E o \in Ordinals : PodStep(o)

Next ==
  \/ OperatorStep \/ ProxyFails \/ Fail
  \/ EnvironmentStep \/ \E o \in Ordinals : Restart(o)
  \/ Submit \/ ProvideSecret

Spec == Init /\ [][Next]_vars

\* Reconcile is asked for again after 30 seconds at the latest; the Kubernetes
\* controllers do their work and a Secret the user names is provided. What there
\* is for them to do between two edits ends, so that nothing stays undone.
Fairness == WF_vars(OperatorStep) /\ WF_vars(EnvironmentStep)

FairSpec == Spec /\ Fairness

-----------------------------------------------------------------------------
(* Properties *)

\* A container that runs on anything but the ConfigMap will be replaced: its pod
\* is not of the template that goes with the ConfigMap, in whatever order the
\* objects were stored, edits came and containers restarted ("so static config
\* edits trigger a rolling restart", BuildStatefulSet and ConfigHash).
StaleWillRestart ==
  \A o \in Ordinals :
    /\ pods[o].on = "running"
    /\ [pods[o].config EXCEPT !.enabled = FALSE, !.control = 0]
         # [api.configMap EXCEPT !.enabled = FALSE, !.control = 0]
    => \A c \in Admitted :
         renderConfigTOML(c) = api.configMap => pods[o].tmpl # Template(c)

\* "Nodes and the operator ... send a shared cluster token": whoever has one has
\* the Secret's, although the operator reads the Secret from a cache, may fail
\* before it is stored and shares it with the user. A pod is compared with the
\* Secret its own template names, which an edit may change (reconcileAuthSecret).
TokensAgree ==
  /\ op.token # 0 => op.token = secrets[op.obj.auth].token
  /\ \A o \in Ordinals :
       pods[o].on = "running" /\ pods[o].tmpl.secret # "off"
       => pods[o].token = secrets[pods[o].tmpl.secret].token

\* The keys a config.toml has, and the token, are known to the version that
\* loads them; an older one would silently ignore them.
Understood(pod) ==
  LET v == Runs(pod.tmpl.image)
  IN /\ pod.config.chdb.query + pod.config.chdb.write > 0 => versionSupports(v, "split-chdb-pools")
     /\ pod.config.sharding # "none" => versionSupports(v, "sharding")
     /\ pod.config.control # 0 => versionSupports(v, "control-listener")
     /\ pod.tmpl.secret # "off" => versionSupports(v, "cluster-auth")

\* Whatever fails on the way, in the end every pod runs what the cluster says, on
\* a configuration its version understands, with probes it answers; the Service,
\* the PDB and the DatabaseVersion condition follow.
PodsConverge ==
  <>[](Aligned(cluster) =>
         /\ \A o \in Ordinals :
              IF o >= cluster.replicas THEN pods[o].on = "absent"
              ELSE /\ pods[o].on # "absent" /\ pods[o].tmpl = Template(cluster)
                   /\ pods[o].config = renderConfigTOML(cluster)
                   /\ Live(pods[o]) /\ Understood(pods[o])
         /\ api.service = cluster.port /\ api.pdb = cluster.replicas - 1
         /\ (api.reported = "OlderThanSupported")
              = (Runs(ResolveHyperbytedbImage(cluster)) < OldestDatabaseVersion))

\* With the proxy enabled, proxies that are ready serve their admin API where the
\* operator calls it and clients where the Service says, and know the port of
\* the database ("probing the client port kept such a proxy restarting").
ProxiesConverge ==
  <>[](cluster.proxy /\ Aligned(cluster) =>
         /\ proxies = BuildProxyDeployment(cluster)
         /\ AdminAt(proxies) = ProxyAdminPort(cluster)
         /\ proxies.backend = api.service
         /\ api.proxySvc = BuildProxyService(cluster) /\ api.proxySvc.port = proxies.port)
=============================================================================
