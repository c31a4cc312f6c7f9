--------------------------- MODULE Rendering_proofs ---------------------------
(***************************************************************************)
(* TokensAgree for every set of clusters users may submit, every number of *)
(* replicas, edits and faults.                                             *)
(***************************************************************************)
EXTENDS Rendering, SetLemmas

\* What the API server and the operator hold, as TypeOK has it.
ApiTypes ==
  [configMap : Configs, service : 0 .. MaxPort, tmpl : Templates, replicas : 0 .. MaxReplicas,
   proxySvc : {BuildProxyService(c) : c \in Admitted} \cup {None},
   proxyDep : Deployments, pdb : 0 .. MaxReplicas,
   reported : {"Unknown", "Assumed", "Supported", "OlderThanSupported", "NewerThanKnown"}]

Pcs == {"idle", "auth", "secret", "config", "sts", "proxysvc", "proxydep", "finish"}

OpTypes == [pc : Pcs, obj : Admitted \cup {None}, secret : Secrets, token : Nat]

PodTypes ==
  [on : {"absent", "down", "running"}, tmpl : Templates, config : Configs, token : Nat]

Rendered == {Template(c) : c \in Admitted}

\* A reconcile under way works for an admitted cluster, and deals with the Secret
\* only of one that has authentication on.
OpHasCluster ==
  /\ op.pc # "idle" => op.obj \in Admitted
  /\ op.pc \in {"auth", "secret"} => op.obj.auth # "off"
  /\ op.pc = "auth" => op.secret.token = 0

\* Pods come from a template that was rendered.
PodsAreRendered ==
  /\ api.replicas > 0 => api.tmpl \in Rendered
  /\ \A o \in Ordinals : pods[o].on # "absent" => pods[o].tmpl \in Rendered

\* A Secret that is not there has no token.
NothingHidden == \A n \in {"own", "user"} : ~secrets[n].there => secrets[n].token = 0

\* What a token was read from has it still: the operator's reading of the Secret,
\* its own token, and the ones the pods have loaded.
ReadingHolds ==
  op.pc = "secret" /\ op.secret.token # 0 => op.secret.token = secrets[op.obj.auth].token

OpHolds ==
  op.token # 0 =>
    op.pc # "idle" /\ op.obj.auth # "off" /\ op.token = secrets[op.obj.auth].token

PodsHold ==
  \A o \in Ordinals :
    pods[o].on = "running" /\ pods[o].tmpl.secret # "off" =>
      /\ pods[o].token # 0
      /\ pods[o].token = secrets[pods[o].tmpl.secret].token

TokenInv ==
  /\ TypeOK
  /\ OpHasCluster /\ PodsAreRendered /\ NothingHidden
  /\ ReadingHolds /\ OpHolds /\ PodsHold

\* TypeOK, by variable.
LEMMA TypeParts ==
  TypeOK <=>
    /\ cluster \in Admitted
    /\ edits \in 0 .. MaxEdits /\ faults \in 0 .. MaxFaults
    /\ op \in OpTypes
    /\ secrets \in [{"own", "user"} -> Secrets]
    /\ tls \subseteq {"own", "user"}
    /\ api \in ApiTypes
    /\ pods \in [Ordinals -> PodTypes]
    /\ proxies \in Deployments
BY DEF TypeOK, OpTypes, ApiTypes, PodTypes, Pcs

\* What the webhooks let through.
LEMMA AdmittedTypes ==
  ASSUME NEW c \in Admitted
  PROVE  /\ c.replicas \in 1 .. MaxReplicas /\ c.port \in 0 .. MaxPort
         /\ c.auth \in {"off", "own", "user"}
<1>1. PICK r \in Clusters : c = Default(r) /\ validateCluster(Default(r))
  BY RenderingAssumption DEF Admitted, Admit
<1>2. r.replicas \in NoReplicas .. MaxReplicas /\ r.auth \in {"off", "own", "user"}
  BY DEF Clusters
<1>3. /\ c.replicas = IF r.replicas = NoReplicas THEN 1 ELSE r.replicas
      /\ c.auth = r.auth
  BY <1>1 DEF Default, Clusters
<1> QED
  BY <1>1, <1>2, <1>3, RenderingAssumption DEF validateCluster, NoReplicas

\* Which Secret a template mounts.
LEMMA RenderedTypes ==
  /\ Rendered \subseteq Templates
  /\ \A t \in Rendered : t.secret \in {"off", "own", "user"}
<1>1. Rendered \subseteq Templates
  BY DEF Rendered, Templates
<1>2. ASSUME NEW c \in Admitted PROVE Template(c).secret \in {"off", "own", "user"}
  BY AdmittedTypes DEF Template, BuildStatefulSet
<1> QED
  BY <1>1, <1>2 DEF Rendered

\* A random token is none that anybody has, and not the empty one (randomSecret).
LEMMA FreshIsNew ==
  ASSUME TypeOK
  PROVE  /\ Fresh \in Nat \ {0}
         /\ \A n \in {"own", "user"} : Fresh # secrets[n].token
<1> DEFINE held == [o \in Ordinals |-> pods[o].token]
           S == {secrets[n].token : n \in {"own", "user"}}
           P == {held[o] : o \in Ordinals}
           All == {0, op.token} \cup S \cup P
<1>1. IsFiniteSet(Ordinals)
  BY FS_Interval, RenderingAssumption DEF Ordinals
<1>2. IsFiniteSet(P)
  BY <1>1, FiniteImage
<1>3. S = {secrets["own"].token, secrets["user"].token}
  OBVIOUS
<1>4. IsFiniteSet(S) /\ IsFiniteSet({0, op.token})
  <2>1. ASSUME NEW a, NEW b PROVE IsFiniteSet({a, b})
    <3>1. {a, b} = {a} \cup {b}
      OBVIOUS
    <3>2. IsFiniteSet({a})
      BY FS_Singleton
    <3> QED
      BY <3>1, <3>2, FS_AddElement
  <2> HIDE DEF S
  <2> QED
    BY <1>3, <2>1
<1>5. IsFiniteSet(All)
  <2> HIDE DEF S, P
  <2> QED
    BY <1>2, <1>4, FS_Union
<1>6. All \subseteq Nat
  BY TypeParts DEF OpTypes, PodTypes, Secrets
<1>7. {pods[o].token : o \in Ordinals} = P
  OBVIOUS
<1>8. Max(All) \in All /\ \A y \in All : Max(All) >= y
  <2>1. All \in SUBSET Int /\ All # {}
    BY <1>6
  <2> HIDE DEF All
  <2> QED
    BY <1>5, <2>1, MaxIsGreatest
<1>9. Fresh = 1 + Max(All)
  BY <1>7 DEF Fresh
<1>10. Max(All) \in Nat
  BY <1>6, <1>8
<1>11. \A n \in {"own", "user"} : secrets[n].token \in Nat /\ Max(All) >= secrets[n].token
  BY <1>6, <1>8
<1> QED
  BY <1>9, <1>10, <1>11

\* What there is before anything is.
LEMMA EmptyTypes ==
  /\ IdleOp \in OpTypes /\ IdleOp.pc = "idle" /\ IdleOp.token = 0 /\ IdleOp.secret.token = 0
  /\ NoSecret \in Secrets /\ NoSecret.token = 0
  /\ NoPod \in PodTypes /\ NoPod.on = "absent"
<1>1. NoSecret \in Secrets /\ NoSecret.token = 0
  BY DEF NoSecret, Secrets
<1>2. IdleOp \in OpTypes /\ IdleOp.pc = "idle" /\ IdleOp.token = 0 /\ IdleOp.secret.token = 0
  BY <1>1 DEF IdleOp, OpTypes, Pcs
<1>3. NoPod \in PodTypes /\ NoPod.on = "absent"
  BY DEF NoPod, PodTypes, Templates, Configs
<1> QED
  BY <1>1, <1>2, <1>3

\* The initial states satisfy the invariant.
LEMMA TokenInit == Init => TokenInv
<1> SUFFICES ASSUME Init PROVE TokenInv
  OBVIOUS
<1> USE EmptyTypes
<1>1. cluster \in Admitted
  BY RenderingAssumption DEF Init, Admitted, Admit
<1>2. edits \in 0 .. MaxEdits /\ faults \in 0 .. MaxFaults
  BY RenderingAssumption DEF Init
<1>3. api \in ApiTypes /\ api.replicas = 0
  <2>1. None \in Configs /\ None \in Templates /\ None \in Deployments
    BY DEF Configs, Templates, Deployments
  <2>2. 0 \in 0 .. MaxPort /\ 0 \in 0 .. MaxReplicas
    BY RenderingAssumption DEF MaxPort
  <2> QED
    BY <2>1, <2>2 DEF Init, ApiTypes
<1>4. op \in OpTypes /\ op.pc = "idle" /\ op.token = 0
  BY DEF Init
<1>5. secrets \in [{"own", "user"} -> Secrets] /\ \A n \in {"own", "user"} : secrets[n].token = 0
  BY DEF Init
<1>6. pods \in [Ordinals -> PodTypes] /\ \A o \in Ordinals : pods[o].on = "absent"
  BY DEF Init
<1>7. proxies \in Deployments /\ tls \subseteq {"own", "user"}
  BY DEF Init, Deployments
<1>8. TypeOK
  BY <1>1, <1>2, <1>3, <1>4, <1>5, <1>6, <1>7, TypeParts
<1> QED
  BY <1>3, <1>4, <1>5, <1>6, <1>8
  DEF TokenInv, OpHasCluster, PodsAreRendered, NothingHidden, ReadingHolds, OpHolds, PodsHold

\* Who holds a token when neither the Secrets' tokens that are set nor the pods
\* change: a step of the operator or of a user.
LEMMA HoldersStay ==
  ASSUME TokenInv, TypeOK', UNCHANGED pods,
         \A n \in {"own", "user"} :
           secrets[n].token # 0 => secrets'[n].token = secrets[n].token
  PROVE  PodsHold'
<1>1. ASSUME NEW o \in Ordinals, pods[o].on = "running", pods[o].tmpl.secret # "off"
      PROVE  pods[o].token # 0 /\ pods[o].token = secrets'[pods[o].tmpl.secret].token
  <2>1. pods[o].tmpl.secret \in {"own", "user"}
    BY <1>1, RenderedTypes DEF TokenInv, PodsAreRendered
  <2>2. pods[o].token # 0 /\ pods[o].token = secrets[pods[o].tmpl.secret].token
    BY <1>1 DEF TokenInv, PodsHold
  <2> QED
    BY <2>1, <2>2
<1> QED
  BY <1>1 DEF PodsHold

\* The operator stores an object, or gives up: the Secrets and the pods are left
\* alone, and it goes on for the same cluster or stops.
LEMMA OperatorMoves ==
  ASSUME TokenInv, UNCHANGED World, UNCHANGED <<secrets, tls>>,
         op.pc # "idle",
         op' = IdleOp \/ \E pc \in Pcs \ {"idle", "auth", "secret"} : op' = [op EXCEPT !.pc = pc],
         faults' \in 0 .. MaxFaults,
         api' \in ApiTypes, api'.replicas > 0 => api'.tmpl \in Rendered
  PROVE  TokenInv'
<1>1. op \in OpTypes
  BY TypeParts DEF TokenInv
<1>2. /\ op' \in OpTypes
      /\ op'.pc \notin {"auth", "secret"}
      /\ op'.pc # "idle" => op'.obj = op.obj /\ op'.token = op.token
      /\ op'.pc = "idle" => op'.token = 0
  BY <1>1, EmptyTypes DEF OpTypes
<1>3. TypeOK'
  BY <1>2, TypeParts DEF TokenInv, World, ApiTypes, OpTypes, PodTypes, TypeOK, Pcs
<1>4. OpHasCluster' /\ ReadingHolds' /\ OpHolds'
  BY <1>2 DEF TokenInv, OpHasCluster, ReadingHolds, OpHolds
<1>5. PodsAreRendered' /\ NothingHidden'
  BY DEF TokenInv, World, PodsAreRendered, NothingHidden
<1>6. PodsHold'
  BY <1>3, HoldersStay DEF World
<1> QED
  BY <1>3, <1>4, <1>5, <1>6 DEF TokenInv

\* Storing the ConfigMap, the StatefulSet, the proxy's objects and the status.
LEMMA ApplyStep ==
  ASSUME TokenInv,
         \/ reconcileConfigMap \/ reconcileStatefulSet \/ reconcileProxyService
         \/ reconcileProxy \/ ProxyFails \/ Finish \/ Fail
  PROVE  TokenInv'
<1>1. api \in ApiTypes /\ faults \in 0 .. MaxFaults /\ (api.replicas > 0 => api.tmpl \in Rendered)
  BY TypeParts DEF TokenInv, PodsAreRendered
<1>2. op.pc # "idle" => op.obj \in Admitted
  BY DEF TokenInv, OpHasCluster
<1> DEFINE Moves == /\ UNCHANGED World /\ UNCHANGED <<secrets, tls>>
                    /\ op.pc # "idle"
                    /\ \/ op' = IdleOp
                       \/ \E pc \in Pcs \ {"idle", "auth", "secret"} : op' = [op EXCEPT !.pc = pc]
<1>3. ASSUME NEW from \in Pcs \ {"idle"}, NEW to \in Pcs \ {"auth", "secret"}, NEW objects,
             Apply(from, to, objects)
      PROVE  Moves /\ api' = objects
  BY <1>3 DEF Apply
<1>4. AfterProxy \in {"idle", "finish"}
  BY DEF AfterProxy
<1>5. CASE reconcileConfigMap
  <2>1. Apply("config", "sts", [api EXCEPT !.configMap = renderConfigTOML(op.obj)]) /\ UNCHANGED faults
    BY <1>5 DEF reconcileConfigMap, Store
  <2>2. Moves /\ api' = [api EXCEPT !.configMap = renderConfigTOML(op.obj)]
    BY <1>3, <2>1 DEF Pcs
  <2>3. renderConfigTOML(op.obj) \in Configs
    BY <1>2, <2>2 DEF Configs
  <2>4. api' \in ApiTypes /\ (api'.replicas > 0 => api'.tmpl \in Rendered)
    BY <1>1, <2>2, <2>3 DEF ApiTypes
  <2> QED
    BY <1>1, <2>1, <2>2, <2>4, OperatorMoves
<1>6. CASE reconcileStatefulSet
  <2> DEFINE objects == [api EXCEPT !.service = BuildClientService(op.obj),
                                    !.tmpl = BuildStatefulSet(op.obj, ConfigHash(op.obj)),
                                    !.replicas = op.obj.replicas]
             to == IF op.obj.proxy THEN "proxysvc" ELSE "finish"
  <2>1. Apply("sts", to, objects) /\ UNCHANGED faults /\ to \in {"proxysvc", "finish"}
    BY <1>6 DEF reconcileStatefulSet, Store
  <2> HIDE DEF to
  <2>2. Moves /\ api' = objects
    BY <1>3, <2>1 DEF Pcs
  <2>3. /\ BuildClientService(op.obj) \in 0 .. MaxPort /\ op.obj.replicas \in 0 .. MaxReplicas
        /\ BuildStatefulSet(op.obj, ConfigHash(op.obj)) \in Rendered
    <3>1. /\ op.obj \in Admitted /\ op.obj.port \in 0 .. MaxPort
          /\ op.obj.replicas \in 0 .. MaxReplicas
      BY <1>2, <2>2, AdmittedTypes, RenderingAssumption
    <3>2. BuildStatefulSet(op.obj, ConfigHash(op.obj)) \in Rendered
      BY <3>1 DEF Rendered, Template
    <3> QED
      BY <3>1, <3>2 DEF BuildClientService
  <2>4. objects \in ApiTypes /\ objects.tmpl \in Rendered
    BY <1>1, <2>3, RenderedTypes DEF ApiTypes
  <2> HIDE DEF objects
  <2> QED
    BY <1>1, <2>1, <2>2, <2>4, OperatorMoves
<1>7. CASE reconcileProxyService
  <2>1. PICK to \in {"proxysvc", "proxydep"}, svc \in {None, BuildProxyService(op.obj)} :
          Apply("proxysvc", to, [api EXCEPT !.proxySvc = svc]) /\ UNCHANGED faults
    BY <1>7 DEF reconcileProxyService, Store
  <2>2. Moves /\ api' = [api EXCEPT !.proxySvc = svc]
    BY <1>3, <2>1 DEF Pcs
  <2>3. svc \in {BuildProxyService(c) : c \in Admitted} \cup {None}
    BY <1>2, <2>2
  <2>4. api' \in ApiTypes /\ (api'.replicas > 0 => api'.tmpl \in Rendered)
    BY <1>1, <2>2, <2>3 DEF ApiTypes
  <2> QED
    BY <1>1, <2>1, <2>2, <2>4, OperatorMoves
<1>8. CASE reconcileProxy
  <2>1. Apply("proxydep", AfterProxy, [api EXCEPT !.proxyDep = BuildProxyDeployment(op.obj)])
          /\ UNCHANGED faults
    BY <1>8 DEF reconcileProxy, Store
  <2>2. Moves /\ api' = [api EXCEPT !.proxyDep = BuildProxyDeployment(op.obj)]
    BY <1>3, <1>4, <2>1 DEF Pcs
  <2>3. BuildProxyDeployment(op.obj) \in Deployments
    BY <1>2, <2>2 DEF Deployments
  <2>4. api' \in ApiTypes /\ (api'.replicas > 0 => api'.tmpl \in Rendered)
    BY <1>1, <2>2, <2>3 DEF ApiTypes
  <2> QED
    BY <1>1, <2>1, <2>2, <2>4, OperatorMoves
<1>9. CASE ProxyFails
  <2>1. PICK pc \in {"proxysvc", "proxydep"} : Apply(pc, AfterProxy, api)
    BY <1>9 DEF ProxyFails
  <2>2. Moves /\ api' = api
    BY <1>3, <1>4, <2>1 DEF Pcs
  <2>3. faults' \in 0 .. MaxFaults
    BY <1>1, <1>9, RenderingAssumption DEF ProxyFails, Fault
  <2> QED
    BY <1>1, <2>2, <2>3, OperatorMoves
<1>10. CASE Finish
  <2> DEFINE objects == [api EXCEPT !.pdb = op.obj.replicas - 1,
                                    !.reported = CompatibilitySummary(op.obj)]
  <2>1. Apply("finish", "idle", objects) /\ UNCHANGED faults
    BY <1>10 DEF Finish, Store
  <2>2. Moves /\ api' = objects
    BY <1>3, <2>1 DEF Pcs
  <2>3. op.obj.replicas - 1 \in 0 .. MaxReplicas
    BY <1>2, <2>2, AdmittedTypes, RenderingAssumption
  <2>4. CompatibilitySummary(op.obj) \in {"Assumed", "OlderThanSupported", "NewerThanKnown", "Supported"}
    BY DEF CompatibilitySummary
  <2>5. objects \in ApiTypes /\ objects.tmpl = api.tmpl /\ objects.replicas = api.replicas
    BY <1>1, <2>3, <2>4 DEF ApiTypes
  <2> HIDE DEF objects
  <2> QED
    BY <1>1, <2>1, <2>2, <2>5, OperatorMoves
<1>11. CASE Fail
  <2>1. Moves /\ api' = api
    BY <1>11 DEF Fail
  <2>2. faults' \in 0 .. MaxFaults
    BY <1>1, <1>11, RenderingAssumption DEF Fail, Fault
  <2> QED
    BY <1>1, <2>1, <2>2, OperatorMoves
<1> QED
  BY <1>5, <1>6, <1>7, <1>8, <1>9, <1>10, <1>11

\* A reconcile begins.
LEMMA BeginStep ==
  ASSUME TokenInv, reconcileTLS
  PROVE  TokenInv'
<1> DEFINE pc == IF ClusterAuthEnabled(cluster) THEN "auth" ELSE "config"
<1>1. cluster \in Admitted /\ tls \subseteq {"own", "user"}
  BY TypeParts DEF TokenInv
<1>2. op' = [IdleOp EXCEPT !.pc = pc, !.obj = cluster]
  BY DEF reconcileTLS
<1>3. pc \in {"auth", "config"} /\ (pc = "auth" => cluster.auth # "off")
  BY DEF ClusterAuthEnabled
<1> HIDE DEF pc
<1>4. /\ op' \in OpTypes /\ op'.pc = pc /\ op'.obj = cluster /\ op'.token = 0
      /\ op'.secret.token = 0
  BY <1>1, <1>2, <1>3, EmptyTypes DEF OpTypes, Pcs
<1>5. UNCHANGED <<cluster, edits, pods, proxies, faults, secrets, api>> /\ tls' \subseteq {"own", "user"}
  BY <1>1 DEF reconcileTLS, World
<1>6. TypeOK'
  BY <1>4, <1>5, TypeParts DEF TokenInv, TypeOK, OpTypes, Pcs
<1>7. OpHasCluster' /\ ReadingHolds' /\ OpHolds'
  BY <1>1, <1>3, <1>4, <1>5 DEF OpHasCluster, ReadingHolds, OpHolds
<1>8. PodsAreRendered' /\ NothingHidden'
  BY <1>5 DEF TokenInv, PodsAreRendered, NothingHidden
<1>9. PodsHold'
  BY <1>5, <1>6, HoldersStay
<1> QED
  BY <1>6, <1>7, <1>8, <1>9 DEF TokenInv

\* The Secret is read, or the cache does not have it yet.
LEMMA ReadStep ==
  ASSUME TokenInv, GetAuthSecret
  PROVE  TokenInv'
<1>1. /\ op \in OpTypes /\ secrets \in [{"own", "user"} -> Secrets] /\ faults \in 0 .. MaxFaults
      /\ op.pc = "auth" /\ op.obj \in Admitted /\ op.obj.auth # "off" /\ op.secret.token = 0
  BY TypeParts DEF TokenInv, OpHasCluster, GetAuthSecret
<1>2. op.obj.auth \in {"own", "user"}
  BY <1>1, AdmittedTypes
<1>3. PICK s \in {op.secret, secrets[op.obj.auth]} : op' = [op EXCEPT !.pc = "secret", !.secret = s]
  <2>1. CASE op' = [op EXCEPT !.pc = "secret", !.secret = secrets[op.obj.auth]]
    BY <2>1
  <2>2. CASE op' = [op EXCEPT !.pc = "secret"]
    <3>1. op' = [op EXCEPT !.pc = "secret", !.secret = op.secret]
      BY <1>1, <2>2 DEF OpTypes
    <3> QED
      BY <3>1
  <2> QED
    BY <2>1, <2>2 DEF GetAuthSecret
<1>4. s \in Secrets
  BY <1>1, <1>2 DEF OpTypes
<1>5. /\ op' \in OpTypes /\ op'.pc = "secret" /\ op'.obj = op.obj /\ op'.token = op.token
      /\ op'.secret = s
  BY <1>1, <1>3, <1>4 DEF OpTypes, Pcs
<1>6. UNCHANGED <<cluster, edits, pods, proxies, secrets, tls, api>>
  BY DEF GetAuthSecret, World
<1>7. faults' \in 0 .. MaxFaults
  BY <1>1, RenderingAssumption DEF GetAuthSecret, Fault
<1>8. TypeOK'
  BY <1>5, <1>6, <1>7, TypeParts DEF TokenInv, TypeOK, OpTypes, Pcs
<1>9. OpHasCluster' /\ ReadingHolds' /\ OpHolds'
  BY <1>1, <1>5, <1>6 DEF TokenInv, OpHasCluster, ReadingHolds, OpHolds
<1>10. PodsAreRendered' /\ NothingHidden'
  BY <1>6 DEF TokenInv, PodsAreRendered, NothingHidden
<1>11. PodsHold'
  BY <1>6, <1>8, HoldersStay
<1> QED
  BY <1>8, <1>9, <1>10, <1>11 DEF TokenInv

\* The Secret is completed, and only when it is still what was read; a token that
\* it had is kept.
LEMMA SecretStep ==
  ASSUME TokenInv, reconcileAuthSecret
  PROVE  TokenInv'
<1> DEFINE n == op.obj.auth
           filled == FillAuthSecret(op.secret)
<1>1. /\ op \in OpTypes /\ secrets \in [{"own", "user"} -> Secrets]
      /\ op.pc = "secret" /\ op.obj \in Admitted /\ op.obj.auth # "off"
  BY TypeParts DEF TokenInv, OpHasCluster, reconcileAuthSecret
<1>2. n \in {"own", "user"}
  BY <1>1, AdmittedTypes
<1>3. UNCHANGED <<cluster, edits, pods, proxies, faults, tls, api>>
  BY DEF reconcileAuthSecret, World
<1>4. /\ filled.token = IF op.secret.token = 0 THEN Fresh ELSE op.secret.token
      /\ filled.there = TRUE /\ filled \in Secrets /\ filled.token # 0
  <2>1. Fresh \in Nat \ {0} /\ op.secret.token \in Nat
    BY <1>1, FreshIsNew DEF TokenInv, OpTypes, Secrets
  <2> QED
    BY <2>1 DEF FillAuthSecret, Secrets
<1>5. /\ \/ /\ Stored(n)
            /\ secrets' = [secrets EXCEPT ![n] = filled]
            /\ op' = [op EXCEPT !.pc = "config", !.token = filled.token]
         \/ /\ filled = op.secret
            /\ op' = [op EXCEPT !.pc = "config", !.token = filled.token]
            /\ UNCHANGED secrets
         \/ /\ op' = IdleOp
            /\ UNCHANGED secrets
  BY DEF reconcileAuthSecret
<1> HIDE DEF filled, n
<1>6. /\ secrets' \in [{"own", "user"} -> Secrets]
      /\ \A m \in {"own", "user"} : secrets[m].token # 0 => secrets'[m].token = secrets[m].token
      /\ \A m \in {"own", "user"} : secrets'[m] = secrets[m] \/ secrets'[m].there = TRUE
  <2>1. CASE Stored(n) /\ secrets' = [secrets EXCEPT ![n] = filled]
    <3>1. secrets[n] = op.secret
      BY <2>1 DEF Stored
    <3> QED
      BY <1>1, <1>2, <1>4, <2>1, <3>1
  <2>2. CASE UNCHANGED secrets
    BY <1>1, <2>2
  <2> QED
    BY <1>5, <2>1, <2>2
<1>7. /\ op' \in OpTypes
      /\ op'.pc \in {"idle", "config"}
      /\ op'.token # 0 => op'.pc = "config" /\ op'.obj = op.obj /\ op'.token = secrets'[n].token
      /\ op'.pc = "config" => op'.obj = op.obj
  <2>1. CASE op' = [op EXCEPT !.pc = "config", !.token = filled.token] /\ secrets' = [secrets EXCEPT ![n] = filled]
    BY <1>1, <1>2, <1>4, <2>1 DEF OpTypes, Pcs, Secrets
  <2>2. CASE filled = op.secret /\ op' = [op EXCEPT !.pc = "config", !.token = filled.token] /\ UNCHANGED secrets
    <3>1. op.secret.token # 0 => op.secret.token = secrets[n].token
      BY <1>1 DEF TokenInv, ReadingHolds, n
    <3> QED
      BY <1>1, <1>4, <2>2, <3>1 DEF OpTypes, Pcs, Secrets
  <2>3. CASE op' = IdleOp
    BY <2>3, EmptyTypes
  <2> QED
    BY <1>5, <2>1, <2>2, <2>3
<1>8. TypeOK'
  BY <1>3, <1>6, <1>7, TypeParts DEF TokenInv, TypeOK, OpTypes, Pcs
<1>9. OpHasCluster' /\ ReadingHolds' /\ OpHolds'
  BY <1>1, <1>7 DEF OpHasCluster, ReadingHolds, OpHolds, n
<1>10. PodsAreRendered' /\ NothingHidden'
  BY <1>3, <1>6 DEF TokenInv, PodsAreRendered, NothingHidden
<1>11. PodsHold'
  BY <1>3, <1>6, <1>8, HoldersStay
<1> QED
  BY <1>8, <1>9, <1>10, <1>11 DEF TokenInv

\* A pod is created, started, restarted or removed.
LEMMA PodMoves ==
  ASSUME TokenInv, NEW o \in Ordinals, NEW pod \in PodTypes, MovePod(o, pod),
         faults' \in 0 .. MaxFaults,
         pod.on # "absent" => pod.tmpl \in Rendered,
         pod.on = "running" /\ pod.tmpl.secret # "off" =>
           pod.token # 0 /\ pod.token = secrets[pod.tmpl.secret].token
  PROVE  TokenInv'
<1>1. UNCHANGED <<cluster, edits, op, secrets, tls, api, proxies>>
  BY DEF MovePod, Operator
<1>2. /\ pods' \in [Ordinals -> PodTypes]
      /\ pods'[o] = pod /\ \A p \in Ordinals \ {o} : pods'[p] = pods[p]
  BY TypeParts DEF MovePod, TokenInv
<1>3. TypeOK'
  BY <1>1, <1>2, TypeParts DEF TokenInv, TypeOK, PodTypes
<1>4. OpHasCluster' /\ ReadingHolds' /\ OpHolds' /\ NothingHidden'
  BY <1>1 DEF TokenInv, OpHasCluster, ReadingHolds, OpHolds, NothingHidden
<1>5. PodsAreRendered'
  BY <1>1, <1>2 DEF TokenInv, PodsAreRendered
<1>6. PodsHold'
  BY <1>1, <1>2 DEF TokenInv, PodsHold
<1> QED
  BY <1>3, <1>4, <1>5, <1>6 DEF TokenInv

\* The steps of the pods: one that starts loads the token the Secret has.
LEMMA PodsStep ==
  ASSUME TokenInv, NEW o \in Ordinals, PodStep(o) \/ Restart(o)
  PROVE  TokenInv'
<1>1. /\ pods[o] \in PodTypes /\ api \in ApiTypes /\ secrets \in [{"own", "user"} -> Secrets]
      /\ faults \in 0 .. MaxFaults
  BY TypeParts DEF TokenInv
<1>2. CASE StsCreate(o)
  <2> DEFINE pod == [NoPod EXCEPT !.on = "down", !.tmpl = api.tmpl]
  <2>1. o < api.replicas /\ MovePod(o, pod) /\ UNCHANGED faults
    BY <1>2 DEF StsCreate
  <2>2. api.tmpl \in Rendered
    BY <1>1, <2>1, RenderingAssumption DEF TokenInv, PodsAreRendered, Ordinals, ApiTypes
  <2>3. pod \in PodTypes /\ pod.on = "down" /\ pod.tmpl = api.tmpl
    BY <2>2, EmptyTypes, RenderedTypes DEF PodTypes
  <2> HIDE DEF pod
  <2> QED
    BY <1>1, <2>1, <2>2, <2>3, PodMoves
<1>3. CASE Start(o)
  <2> DEFINE token == IF pods[o].tmpl.secret = "off" THEN 0 ELSE secrets[pods[o].tmpl.secret].token
  <2>1. PICK config \in {api.configMap} \cup ({pods[o].config} \ {None}) :
          MovePod(o, [pods[o] EXCEPT !.on = "running", !.config = config, !.token = token])
    BY <1>3 DEF Start
  <2>2. /\ pods[o].on = "down" /\ UNCHANGED faults
        /\ pods[o].tmpl.secret # "off" => secrets[pods[o].tmpl.secret].token # 0
    BY <1>3 DEF Start
  <2>3. pods[o].tmpl \in Rendered /\ pods[o].tmpl.secret \in {"off", "own", "user"}
    BY <2>2, RenderedTypes DEF TokenInv, PodsAreRendered
  <2>4. token \in Nat /\ config \in Configs
    BY <1>1, <2>3 DEF Secrets, ApiTypes, PodTypes
  <2>5. pods[o].tmpl.secret # "off" => token # 0 /\ token = secrets[pods[o].tmpl.secret].token
    BY <2>2
  <2> HIDE DEF token
  <2> DEFINE pod == [pods[o] EXCEPT !.on = "running", !.config = config, !.token = token]
  <2>6. pod \in PodTypes /\ pod.on = "running" /\ pod.tmpl = pods[o].tmpl /\ pod.token = token
    BY <1>1, <2>4 DEF PodTypes
  <2> HIDE DEF pod
  <2>7. MovePod(o, pod)
    BY <2>1 DEF pod
  <2> QED
    BY <1>1, <2>2, <2>3, <2>5, <2>6, <2>7, PodMoves
<1>4. CASE Replace(o) \/ Remove(o)
  <2>1. MovePod(o, NoPod) /\ UNCHANGED faults
    BY <1>4 DEF Replace, Remove
  <2> QED
    BY <1>1, <2>1, EmptyTypes, PodMoves
<1>5. CASE Restart(o)
  <2> DEFINE pod == [pods[o] EXCEPT !.on = "down"]
  <2>1. MovePod(o, pod) /\ pods[o].on = "running" /\ faults' \in 0 .. MaxFaults
    BY <1>1, <1>5, RenderingAssumption DEF Restart, Fault
  <2>2. pod \in PodTypes /\ pod.on = "down" /\ pod.tmpl = pods[o].tmpl
    BY <1>1 DEF PodTypes
  <2>3. pods[o].tmpl \in Rendered
    BY <2>1 DEF TokenInv, PodsAreRendered
  <2> HIDE DEF pod
  <2> QED
    BY <2>1, <2>2, <2>3, PodMoves
<1> QED
  BY <1>2, <1>3, <1>4, <1>5 DEF PodStep

\* The proxies and the user; a Secret the user provides replaces none that is there.
LEMMA OthersStep ==
  ASSUME TokenInv, ReplaceProxies \/ ProvideTLS \/ Submit \/ ProvideSecret
  PROVE  TokenInv'
<1>1. UNCHANGED <<op, api, pods, faults>>
  BY DEF ReplaceProxies, ProvideTLS, Submit, ProvideSecret, Operator, World
<1>2. cluster' \in Admitted /\ tls' \subseteq {"own", "user"}
  BY TypeParts DEF TokenInv, ReplaceProxies, ProvideTLS, Submit, ProvideSecret, Operator, World
<1>3. edits' \in 0 .. MaxEdits
  <2>1. edits' = edits \/ (edits < MaxEdits /\ edits' = edits + 1)
    BY DEF ReplaceProxies, ProvideTLS, Submit, ProvideSecret, Operator, World
  <2> QED
    BY <2>1, TypeParts, RenderingAssumption DEF TokenInv
<1>4. proxies' \in Deployments
  <2>1. proxies' = proxies \/ proxies' = api.proxyDep
    BY DEF ReplaceProxies, ProvideTLS, Submit, ProvideSecret, Operator, World
  <2> QED
    BY <2>1, TypeParts DEF TokenInv, ApiTypes
<1>5. /\ secrets' \in [{"own", "user"} -> Secrets]
      /\ \A n \in {"own", "user"} : secrets[n].token # 0 => secrets'[n].token = secrets[n].token
      /\ \A n \in {"own", "user"} : secrets'[n] = secrets[n] \/ secrets'[n].there = TRUE
  <2>1. CASE ProvideSecret
    <3>1. PICK token \in {0, Fresh}, login \in BOOLEAN :
            secrets' = [secrets EXCEPT !["user"] = [there |-> TRUE, token |-> token, login |-> login]]
      BY <2>1 DEF ProvideSecret
    <3>2. secrets["user"].token = 0
      BY <2>1 DEF ProvideSecret, TokenInv, NothingHidden
    <3>3. token \in Nat
      BY FreshIsNew DEF TokenInv
    <3> DEFINE new == [there |-> TRUE, token |-> token, login |-> login]
    <3>4. new \in Secrets /\ new.there = TRUE
      BY <3>3 DEF Secrets
    <3>5. secrets' = [secrets EXCEPT !["user"] = new] /\ secrets \in [{"own", "user"} -> Secrets]
      BY <3>1, TypeParts DEF TokenInv
    <3> HIDE DEF new
    <3> QED
      BY <3>2, <3>4, <3>5
  <2>2. CASE UNCHANGED secrets
    BY <2>2, TypeParts DEF TokenInv
  <2> QED
    BY <2>1, <2>2 DEF ReplaceProxies, ProvideTLS, Submit, Operator, World
<1>6. TypeOK'
  BY <1>1, <1>2, <1>3, <1>4, <1>5, TypeParts DEF TokenInv, TypeOK
<1>7. op.obj.auth # "off" /\ op.pc # "idle" => op.obj.auth \in {"own", "user"}
  BY AdmittedTypes DEF TokenInv, OpHasCluster
<1>8. OpHasCluster'
  BY <1>1 DEF TokenInv, OpHasCluster
<1>9. ReadingHolds' /\ OpHolds'
  BY <1>1, <1>5, <1>7 DEF TokenInv, OpHasCluster, ReadingHolds, OpHolds
<1>10. PodsAreRendered' /\ NothingHidden'
  BY <1>1, <1>5 DEF TokenInv, PodsAreRendered, NothingHidden
<1>11. PodsHold'
  BY <1>1, <1>5, <1>6, HoldersStay
<1> QED
  BY <1>6, <1>8, <1>9, <1>10, <1>11 DEF TokenInv

\* The invariant holds in every reachable state.
LEMMA TokenInvariant == Spec => []TokenInv
<1>1. TokenInv /\ [Next]_vars => TokenInv'
  <2> SUFFICES ASSUME TokenInv, [Next]_vars PROVE TokenInv'
    OBVIOUS
  <2>1. CASE UNCHANGED vars
    <3>1. TypeOK'
      BY <2>1 DEF vars, TokenInv, TypeOK
    <3> QED
      BY <2>1, <3>1 DEF vars, TokenInv, OpHasCluster, PodsAreRendered, NothingHidden,
                        ReadingHolds, OpHolds, PodsHold
  <2>2. CASE Next
    BY <2>2, ApplyStep, BeginStep, ReadStep, SecretStep, PodsStep, OthersStep
    DEF Next, OperatorStep, EnvironmentStep
  <2> QED
    BY <2>1, <2>2
<1> QED
  BY <1>1, TokenInit, PTL DEF Spec

\* Whatever users submit, what the operator renders and stores is well formed: no
\* port that is out of range reaches a Service, and the PDB asks for a number of
\* replicas that is not negative (validateCluster, reconcilePDB).
THEOREM TypeCorrect == Spec => []TypeOK
<1>1. TokenInv => TypeOK
  BY DEF TokenInv
<1> QED
  BY <1>1, TokenInvariant, PTL

\* The operator and every running container have the token that the Secret has,
\* although the Secret is read from a cache and shared with the user
\* (reconcileAuthSecret).
THEOREM TokensAlwaysAgree == Spec => []TokensAgree
<1>1. TokenInv => TokensAgree
  BY DEF TokenInv, OpHolds, PodsHold, TokensAgree
<1> QED
  BY <1>1, TokenInvariant, PTL

-----------------------------------------------------------------------------
(* StaleWillRestart, unless edits are taken back *)

\* A configuration, but for what ConfigHash leaves out.
Masked(config) == [config EXCEPT !.enabled = FALSE, !.control = 0]

\* The reconcile under way has yet to store the ConfigMap.
Pending == op.pc \in {"auth", "secret", "config"}

\* The configurations that are to come.
Wanted == {ConfigHash(cluster)} \cup (IF Pending THEN {ConfigHash(op.obj)} ELSE {})

\* The ConfigMap is there before there is a template, and goes first.
ConfigMapFirst ==
  /\ Templated # {} => api.configMap # None
  /\ op.pc = "sts" => api.configMap = renderConfigTOML(op.obj)
  /\ \A o \in Ordinals :
       /\ pods[o].on = "running" => pods[o].config # None
       /\ pods[o].on = "absent" => pods[o].tmpl = None

\* A template of a configuration that is to come is there only when that
\* configuration has come.
TemplatesFollow ==
  \A t \in Templated : t.hash \in Wanted => Masked(api.configMap) = t.hash

\* A container that was started with a template of a configuration that is there,
\* or is to come, has loaded that one.
LoadedAsTemplated ==
  \A o \in Ordinals :
    /\ pods[o].tmpl # None /\ pods[o].config # None
    /\ pods[o].tmpl.hash \in Wanted \cup {Masked(api.configMap)}
    => Masked(pods[o].config) = pods[o].tmpl.hash

\* While the ConfigMap of an older edit is still to be stored, no template is of
\* the newest edit's configuration.
OldEditPending ==
  Pending /\ ConfigHash(op.obj) # ConfigHash(cluster) =>
    \A t \in Templated : t.hash # ConfigHash(cluster)

RestartInv == ConfigMapFirst /\ TemplatesFollow /\ LoadedAsTemplated /\ OldEditPending

\* A configuration is masked field by field.
LEMMA MaskedFields ==
  ASSUME NEW po, NEW tl, NEW se, NEW ch, NEW au, NEW en, NEW co, NEW sh
  PROVE  Masked([port |-> po, tls |-> tl, settings |-> se, chdb |-> ch, auth |-> au,
                 enabled |-> en, control |-> co, sharding |-> sh])
         = [port |-> po, tls |-> tl, settings |-> se, chdb |-> ch, auth |-> au,
            enabled |-> FALSE, control |-> 0, sharding |-> sh]
<1> DEFINE Config(e, k) == [port |-> po, tls |-> tl, settings |-> se, chdb |-> ch, auth |-> au,
                            enabled |-> e, control |-> k, sharding |-> sh]
           no == FALSE
<1>1. ASSUME NEW e PROVE [Config(en, co) EXCEPT !.enabled = e] = Config(e, co)
  BY SMT
<1>2. ASSUME NEW e, NEW k PROVE [Config(e, co) EXCEPT !.control = k] = Config(e, k)
  BY SMT
<1>3. no = FALSE
  OBVIOUS
<1> HIDE DEF Config, no
<1>4. [Config(en, co) EXCEPT !.enabled = no] = Config(no, co)
  BY <1>1
<1>5. [Config(no, co) EXCEPT !.control = 0] = Config(no, 0)
  BY <1>2
<1>6. Masked(Config(en, co)) = Config(no, 0)
  BY <1>3, <1>4, <1>5, Zenon DEF Masked
<1> QED
  BY <1>3, <1>6 DEF Config

\* The hash is the configuration, but for what depends on the replicas.
LEMMA HashIsMasked ==
  ASSUME NEW c \in Admitted
  PROVE  /\ Masked(renderConfigTOML(c)) = ConfigHash(c) /\ renderConfigTOML(c) # None
         /\ Template(c).hash = ConfigHash(c) /\ Template(c) # None
<1>1. ListensAt(c, FALSE) = 0
  BY DEF ListensAt, ControlListenerEnabled
<1>2. Masked(renderConfigTOML(c)) = ConfigHash(c)
  <2> DEFINE tl == c.tls # "off"
             au == c.auth # "off"
             en == clusterMetadataEnabled(c)
             no == FALSE
  <2>1. /\ renderConfigTOML(c) =
             [port |-> c.port, tls |-> tl, settings |-> WithDefaults(c.settings),
              chdb |-> writeChdbSection(c), auth |-> au, enabled |-> en,
              control |-> ListensAt(c, en), sharding |-> writeShardingSection(c)]
        /\ ConfigHash(c) =
             [port |-> c.port, tls |-> tl, settings |-> WithDefaults(c.settings),
              chdb |-> writeChdbSection(c), auth |-> au, enabled |-> no,
              control |-> 0, sharding |-> writeShardingSection(c)]
    BY <1>1, Zenon DEF renderConfigTOML, ConfigHash, renderConfigTOMLWithClusterEnabled
  <2>2. no = FALSE
    OBVIOUS
  <2> HIDE DEF tl, au, en, no
  <2> QED
    BY <2>1, <2>2, MaskedFields
<1>3. renderConfigTOML(c) # None
  BY DEF renderConfigTOML, renderConfigTOMLWithClusterEnabled, None
<1>4. Template(c).hash = ConfigHash(c)
  BY DEF Template, BuildStatefulSet
<1>5. Template(c) # None
  BY DEF Template, BuildStatefulSet, None
<1> QED
  BY <1>2, <1>3, <1>4, <1>5

\* The initial states satisfy the invariant.
LEMMA RestartInit == Init => RestartInv
<1> SUFFICES ASSUME Init PROVE RestartInv
  OBVIOUS
<1>1. Templated = {}
  BY DEF Init, Templated, NoPod
<1>2. op.pc = "idle" /\ \A o \in Ordinals : pods[o].on = "absent" /\ pods[o].tmpl = None
  BY DEF Init, IdleOp, NoPod
<1> QED
  BY <1>1, <1>2 DEF RestartInv, ConfigMapFirst, TemplatesFollow, LoadedAsTemplated, OldEditPending, Pending

\* A step that stores neither ConfigMap nor StatefulSet, begins no reconcile and
\* leaves the cluster and its pods alone.
LEMMA NothingRendered ==
  ASSUME RestartInv, UNCHANGED <<cluster, pods>>,
         api'.configMap = api.configMap, api'.tmpl = api.tmpl,
         Pending' => Pending /\ op'.obj = op.obj, op'.pc = "sts" => op.pc = "sts" /\ op'.obj = op.obj
  PROVE  RestartInv'
<1>1. Templated' = Templated
  BY DEF Templated
<1>2. Wanted' \subseteq Wanted
  BY DEF Wanted
<1> QED
  BY <1>1, <1>2 DEF RestartInv, ConfigMapFirst, TemplatesFollow, LoadedAsTemplated, OldEditPending

\* The steps that do so.
LEMMA NothingRenderedStep ==
  ASSUME TokenInv, RestartInv,
         \/ GetAuthSecret \/ reconcileAuthSecret \/ reconcileProxyService \/ reconcileProxy
         \/ ProxyFails \/ Finish \/ Fail \/ ReplaceProxies \/ ProvideTLS \/ ProvideSecret
  PROVE  RestartInv'
<1>1. op \in OpTypes /\ api \in ApiTypes /\ IdleOp.pc = "idle"
  BY TypeParts, EmptyTypes DEF TokenInv
<1>2. UNCHANGED <<cluster, pods>>
  BY DEF GetAuthSecret, reconcileAuthSecret, reconcileProxyService, reconcileProxy, ProxyFails, Finish,
         Fail, ReplaceProxies, ProvideTLS, ProvideSecret, Store, Apply, World, Operator
<1>3. api'.configMap = api.configMap /\ api'.tmpl = api.tmpl
  <2>1. CASE reconcileProxyService
    BY <1>1, <2>1 DEF reconcileProxyService, Store, Apply, ApiTypes
  <2>2. CASE reconcileProxy
    BY <1>1, <2>2 DEF reconcileProxy, Store, Apply, ApiTypes
  <2>3. CASE Finish
    BY <1>1, <2>3 DEF Finish, Store, Apply, ApiTypes
  <2>4. CASE UNCHANGED api
    BY <2>4
  <2> QED
    BY <2>1, <2>2, <2>3, <2>4
    DEF GetAuthSecret, reconcileAuthSecret, ProxyFails, Apply, Fail, ReplaceProxies, ProvideTLS,
        ProvideSecret, Operator
<1>4. /\ Pending' => Pending /\ op'.obj = op.obj
      /\ op'.pc = "sts" => op.pc = "sts" /\ op'.obj = op.obj
  <2>1. CASE GetAuthSecret
    BY <1>1, <2>1 DEF GetAuthSecret, Pending, OpTypes
  <2>2. CASE reconcileAuthSecret
    BY <1>1, <2>2 DEF reconcileAuthSecret, Pending, OpTypes
  <2>3. CASE op' = IdleOp \/ \E pc \in {"proxysvc", "proxydep", "finish"} : op' = [op EXCEPT !.pc = pc]
    BY <1>1, <2>3 DEF Pending, OpTypes
  <2>4. CASE UNCHANGED op
    BY <2>4 DEF Pending
  <2> QED
    BY <2>1, <2>2, <2>3, <2>4
    DEF reconcileProxyService, reconcileProxy, ProxyFails, AfterProxy, Finish, Store, Apply, Fail,
        ReplaceProxies, ProvideTLS, ProvideSecret, Operator
<1> QED
  BY <1>2, <1>3, <1>4, NothingRendered

\* A reconcile begins with the newest edit.
LEMMA BeginRestart ==
  ASSUME TokenInv, RestartInv, reconcileTLS
  PROVE  RestartInv'
<1>1. UNCHANGED <<cluster, pods, api>>
  BY DEF reconcileTLS, World
<1>2. op'.obj = cluster /\ op'.pc # "sts"
  BY DEF reconcileTLS, IdleOp
<1>3. Templated' = Templated /\ Wanted' \subseteq Wanted
  BY <1>1, <1>2 DEF Templated, Wanted
<1> QED
  BY <1>1, <1>2, <1>3 DEF RestartInv, ConfigMapFirst, TemplatesFollow, LoadedAsTemplated, OldEditPending

\* The ConfigMap is stored: templates of another edit's configuration lose what
\* they went with, and are none that is still to come.
LEMMA ConfigMapRestart ==
  ASSUME TokenInv, RestartInv, reconcileConfigMap
  PROVE  RestartInv'
<1>1. op \in OpTypes /\ api \in ApiTypes /\ op.pc = "config" /\ op.obj \in Admitted
  BY TypeParts DEF TokenInv, OpHasCluster, reconcileConfigMap, Store, Apply
<1>2. /\ UNCHANGED <<cluster, pods>>
      /\ op'.pc = "sts" /\ op'.obj = op.obj
      /\ api'.configMap = renderConfigTOML(op.obj) /\ api'.tmpl = api.tmpl
  BY <1>1 DEF reconcileConfigMap, Store, Apply, World, OpTypes, ApiTypes
<1>3. Masked(api'.configMap) = ConfigHash(op.obj) /\ api'.configMap # None
  BY <1>1, <1>2, HashIsMasked
<1>4. Templated' = Templated /\ Wanted' = {ConfigHash(cluster)} /\ ~Pending'
  BY <1>2 DEF Templated, Wanted, Pending
<1>5. ConfigHash(op.obj) \in Wanted /\ ConfigHash(cluster) \in Wanted /\ Pending
  BY <1>1 DEF Wanted, Pending
<1>6. ConfigMapFirst' /\ OldEditPending'
  BY <1>2, <1>3, <1>4 DEF RestartInv, ConfigMapFirst, OldEditPending
<1>7. TemplatesFollow'
  BY <1>3, <1>4, <1>5 DEF RestartInv, TemplatesFollow, OldEditPending
<1>8. LoadedAsTemplated'
  BY <1>2, <1>3, <1>4, <1>5 DEF RestartInv, LoadedAsTemplated
<1> QED
  BY <1>6, <1>7, <1>8 DEF RestartInv

\* The StatefulSet is stored: its template goes with the ConfigMap.
LEMMA StatefulSetRestart ==
  ASSUME TokenInv, RestartInv, reconcileStatefulSet
  PROVE  RestartInv'
<1>1. op \in OpTypes /\ api \in ApiTypes /\ op.pc = "sts" /\ op.obj \in Admitted
  BY TypeParts DEF TokenInv, OpHasCluster, reconcileStatefulSet, Store, Apply
<1>2. /\ UNCHANGED <<cluster, pods>>
      /\ op'.pc \in {"proxysvc", "finish"}
      /\ api'.configMap = api.configMap /\ api'.tmpl = Template(op.obj)
  BY <1>1 DEF reconcileStatefulSet, Store, Apply, World, OpTypes, ApiTypes, Template
<1>3. /\ Masked(api.configMap) = ConfigHash(op.obj) /\ api.configMap # None
      /\ Template(op.obj).hash = ConfigHash(op.obj)
  BY <1>1, HashIsMasked DEF RestartInv, ConfigMapFirst
<1>4. Templated' \subseteq Templated \cup {Template(op.obj)} /\ Wanted' \subseteq Wanted /\ ~Pending'
  BY <1>2 DEF Templated, Wanted, Pending
<1>5. ConfigMapFirst' /\ OldEditPending'
  BY <1>2, <1>3, <1>4 DEF RestartInv, ConfigMapFirst, OldEditPending
<1>6. TemplatesFollow'
  BY <1>2, <1>3, <1>4 DEF RestartInv, TemplatesFollow
<1>7. LoadedAsTemplated'
  BY <1>2, <1>4 DEF RestartInv, LoadedAsTemplated
<1> QED
  BY <1>5, <1>6, <1>7 DEF RestartInv

\* A pod is replaced by one that has loaded nothing, what it had loaded, or the
\* ConfigMap.
LEMMA PodRestart ==
  ASSUME TokenInv, RestartInv, NEW o \in Ordinals, NEW pod \in PodTypes, MovePod(o, pod),
         pod.tmpl \in Templated \cup {None},
         \/ pod.config \in {None, api.configMap}
         \/ pod.config = pods[o].config /\ pod.tmpl = pods[o].tmpl,
         pod.on = "running" => pod.config # None,
         pod.on = "absent" => pod.tmpl = None
  PROVE  RestartInv'
<1>1. UNCHANGED <<cluster, op, api>>
  BY DEF MovePod, Operator
<1>2. pods'[o] = pod /\ \A p \in Ordinals \ {o} : pods'[p] = pods[p]
  BY TypeParts DEF MovePod, TokenInv
<1>3. Templated' \subseteq Templated
  BY <1>1, <1>2 DEF Templated
<1>4. Wanted' = Wanted
  BY <1>1 DEF Wanted, Pending
<1>5. ConfigMapFirst' /\ TemplatesFollow' /\ OldEditPending'
  BY <1>1, <1>2, <1>3, <1>4
  DEF RestartInv, ConfigMapFirst, TemplatesFollow, OldEditPending, Pending
<1>6. ASSUME pod.tmpl # None, pod.config # None,
             pod.tmpl.hash \in Wanted \cup {Masked(api.configMap)}
      PROVE  Masked(pod.config) = pod.tmpl.hash
  <2>1. CASE pod.config = api.configMap
    BY <1>6, <2>1 DEF RestartInv, TemplatesFollow
  <2>2. CASE pod.config = pods[o].config /\ pod.tmpl = pods[o].tmpl
    BY <1>6, <2>2 DEF RestartInv, LoadedAsTemplated
  <2> QED
    BY <1>6, <2>1, <2>2
<1>7. LoadedAsTemplated'
  BY <1>1, <1>2, <1>4, <1>6 DEF RestartInv, LoadedAsTemplated
<1> QED
  BY <1>5, <1>7 DEF RestartInv

\* The steps of the pods.
LEMMA PodsRestart ==
  ASSUME TokenInv, RestartInv, NEW o \in Ordinals, PodStep(o) \/ Restart(o)
  PROVE  RestartInv'
<1>1. pods[o] \in PodTypes /\ api \in ApiTypes /\ pods[o].tmpl \in Templated \cup {None}
  BY TypeParts DEF TokenInv, Templated
<1>2. CASE StsCreate(o)
  <2> DEFINE pod == [NoPod EXCEPT !.on = "down", !.tmpl = api.tmpl]
  <2>1. MovePod(o, pod)
    BY <1>2 DEF StsCreate
  <2>2. /\ pod \in PodTypes /\ pod.on = "down" /\ pod.tmpl = api.tmpl /\ pod.config = None
        /\ api.tmpl \in Templated \cup {None}
    BY <1>1, EmptyTypes DEF PodTypes, ApiTypes, NoPod, Templated
  <2> HIDE DEF pod
  <2> QED
    BY <2>1, <2>2, PodRestart
<1>3. CASE Start(o)
  <2> DEFINE token == IF pods[o].tmpl.secret = "off" THEN 0 ELSE secrets[pods[o].tmpl.secret].token
  <2>1. PICK config \in {api.configMap} \cup ({pods[o].config} \ {None}) :
          MovePod(o, [pods[o] EXCEPT !.on = "running", !.config = config, !.token = token])
    BY <1>3 DEF Start
  <2>2. pods[o].on = "down"
    BY <1>3 DEF Start
  <2>3. pods[o].tmpl \in Rendered /\ pods[o].tmpl.secret \in {"off", "own", "user"}
    BY <2>2, RenderedTypes DEF TokenInv, PodsAreRendered
  <2>4. token \in Nat /\ config \in Configs
    BY <1>1, <2>3, TypeParts DEF TokenInv, Secrets, ApiTypes, PodTypes
  <2> HIDE DEF token
  <2> DEFINE pod == [pods[o] EXCEPT !.on = "running", !.config = config, !.token = token]
  <2>5. pod \in PodTypes /\ pod.on = "running" /\ pod.tmpl = pods[o].tmpl /\ pod.config = config
    BY <1>1, <2>4 DEF PodTypes
  <2>6. pods[o].tmpl # None
    BY <2>3, HashIsMasked DEF Rendered
  <2>7. config # None
    BY <1>1, <2>1, <2>6 DEF RestartInv, ConfigMapFirst
  <2>8. MovePod(o, pod)
    BY <2>1
  <2> HIDE DEF pod
  <2> QED
    BY <1>1, <2>5, <2>7, <2>8, PodRestart
<1>4. CASE Replace(o) \/ Remove(o)
  <2>1. MovePod(o, NoPod) /\ NoPod.tmpl = None /\ NoPod.config = None
    BY <1>4 DEF Replace, Remove, NoPod
  <2> QED
    BY <2>1, EmptyTypes, PodRestart
<1>5. CASE Restart(o)
  <2> DEFINE pod == [pods[o] EXCEPT !.on = "down"]
  <2>1. MovePod(o, pod)
    BY <1>5 DEF Restart
  <2>2. pod \in PodTypes /\ pod.on = "down" /\ pod.tmpl = pods[o].tmpl /\ pod.config = pods[o].config
    BY <1>1 DEF PodTypes
  <2> HIDE DEF pod
  <2> QED
    BY <1>1, <2>1, <2>2, PodRestart
<1> QED
  BY <1>2, <1>3, <1>4, <1>5 DEF PodStep

\* The user edits the cluster: all is done, or the new configuration is the one
\* of before or one no template is of.
LEMMA SubmitRestart ==
  ASSUME "takeback" \notin Faults, TokenInv, RestartInv, Submit
  PROVE  RestartInv'
<1>1. PICK c \in Admitted : MayEdit(c) /\ cluster' = c
  BY DEF Submit
<1>2. UNCHANGED <<op, api, pods>>
  BY DEF Submit
<1>3. Templated' = Templated /\ Pending' = Pending
  BY <1>2 DEF Templated, Pending
<1>4. /\ ConfigHash(c) = ConfigHash(cluster) \/ \A t \in Templated : t.hash # ConfigHash(c)
      /\ ConfigHash(c) # ConfigHash(cluster) => \A o \in Ordinals :
           pods[o].tmpl # None => pods[o].tmpl.hash # ConfigHash(c)
  <2>1. CASE Settled
    <3>1. api.tmpl = Template(cluster) /\ Template(cluster).hash = ConfigHash(cluster)
      BY <2>1, TypeParts, HashIsMasked DEF Settled, TokenInv
    <3>2. \A o \in Ordinals : pods[o].tmpl \in {api.tmpl, None}
      BY <2>1 DEF Settled, Current, RestartInv, ConfigMapFirst
    <3> QED
      BY <3>1, <3>2 DEF Templated
  <2>2. CASE \A t \in Templated : t.hash = ConfigHash(c) => ConfigHash(c) = ConfigHash(cluster)
    BY <2>2 DEF Templated
  <2> QED
    BY <1>1, <2>1, <2>2 DEF MayEdit
<1>5. Wanted' \subseteq Wanted \cup {ConfigHash(c)}
  BY <1>1, <1>2, <1>3 DEF Wanted
<1>6. ConfigHash(cluster) \in Wanted
  BY DEF Wanted
<1>7. ConfigMapFirst' /\ TemplatesFollow'
  BY <1>2, <1>3, <1>4, <1>5, <1>6 DEF RestartInv, ConfigMapFirst, TemplatesFollow
<1>8. LoadedAsTemplated'
  BY <1>2, <1>3, <1>4, <1>5, <1>6 DEF RestartInv, LoadedAsTemplated
<1>9. OldEditPending'
  BY <1>1, <1>2, <1>3, <1>4 DEF RestartInv, OldEditPending
<1> QED
  BY <1>7, <1>8, <1>9 DEF RestartInv

\* The invariant holds in every reachable state.
LEMMA RestartInvariant ==
  ASSUME "takeback" \notin Faults
  PROVE  Spec => []RestartInv
<1>1. TokenInv /\ RestartInv /\ [Next]_vars => RestartInv'
  <2> SUFFICES ASSUME TokenInv, RestartInv, [Next]_vars PROVE RestartInv'
    OBVIOUS
  <2>1. CASE UNCHANGED vars
    BY <2>1, NothingRendered DEF vars, Pending
  <2>2. CASE Next
    BY <2>2, NothingRenderedStep, BeginRestart, ConfigMapRestart, StatefulSetRestart, PodsRestart,
       SubmitRestart
    DEF Next, OperatorStep, EnvironmentStep
  <2> QED
    BY <2>1, <2>2
<1> QED
  BY <1>1, RestartInit, TokenInvariant, PTL DEF Spec

\* A container that does not run on the ConfigMap is of another template than the
\* one that goes with it, and so will be replaced, for whatever users submit, as
\* long as they take back no edit that is being rolled out (BuildStatefulSet,
\* ConfigHash and the order in which Reconcile stores its objects).
THEOREM StaleAlwaysRestarts ==
  ASSUME "takeback" \notin Faults
  PROVE  Spec => []StaleWillRestart
<1>1. TokenInv /\ RestartInv => StaleWillRestart
  <2> SUFFICES ASSUME TokenInv, RestartInv, NEW o \in Ordinals, pods[o].on = "running",
                      Masked(pods[o].config) # Masked(api.configMap),
                      NEW c \in Admitted, renderConfigTOML(c) = api.configMap,
                      pods[o].tmpl = Template(c)
               PROVE  FALSE
    BY DEF StaleWillRestart, Masked
  <2>1. /\ pods[o].tmpl # None /\ pods[o].config # None
        /\ pods[o].tmpl.hash = Masked(api.configMap)
    BY HashIsMasked DEF RestartInv, ConfigMapFirst
  <2> QED
    BY <2>1 DEF RestartInv, LoadedAsTemplated
<1> QED
  BY <1>1, RestartInvariant, TokenInvariant, PTL

=============================================================================
