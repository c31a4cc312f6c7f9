---------------------------- MODULE Health_proofs ----------------------------
(***************************************************************************)
(* The reconcile's state is well formed for every number of replicas,      *)
(* timeout and choice of faults; so is FailoversCounted: the compare and   *)
(* swap of the status keeps every count that was once stored.              *)
(***************************************************************************)
EXTENDS Health, SetLemmas

\* The manifests that have been asked for, and how many of them were answered.
PollCounts == op.polled < Replicas /\ op.answers <= op.polled

HealthInv == TypeOK /\ PollCounts

\* The cache may be old, but it knows when it is not.
CacheCurrent == synced => cached = cluster

\* A reconcile whose copy is still the stored version counts from the stored
\* number, and has added the pod that it failed over.
CopyCurrent ==
  op.fresh => \/ op.victim = {} /\ op.obj.failoverCount = cluster.failoverCount
              \/ \E o \in Ordinals : /\ op.victim = {o}
                                     /\ op.obj.failoverCount = cluster.failoverCount + 1

\* The pod that a reconcile has failed over is chosen at the end of it.
VictimLast == op.pc # "write" => op.victim = {}

CountInv == CacheCurrent /\ CopyCurrent /\ VictimLast /\ FailoversCounted

\* A new cluster, and a reconcile that has not begun.
LEMMA EmptyTypes ==
  /\ NewCluster \in Clusters /\ NewCluster.failoverCount = 0
  /\ IdleOp \in Ops /\ IdleOp.pc = "idle" /\ IdleOp.polled = 0 /\ IdleOp.answers = 0
  /\ IdleOp.fresh = FALSE /\ IdleOp.victim = {}
<1>1. NewCluster \in Clusters /\ NewCluster.failoverCount = 0
  <2>1. 0 \in 0 .. MaxFailovers
    BY HealthAssumption
  <2> QED
    BY <2>1 DEF NewCluster, Clusters, Phases, ClusterStates, ReplicationStates
<1>2. /\ [o \in Ordinals |-> "none"] \in [Ordinals -> Reports]
      /\ [o \in Ordinals |-> 0] \in [Ordinals -> 0 .. Timeout]
      /\ 0 \in 0 .. Replicas
  BY HealthAssumption DEF Reports
<1>3. IdleOp \in Ops
  BY <1>1, <1>2 DEF IdleOp, Ops
<1> QED
  BY <1>1, <1>3 DEF IdleOp

\* What the operator changes of a cluster.
LEMMA ClusterUpdates ==
  ASSUME NEW c \in Clusters
  PROVE  /\ \A b \in BOOLEAN :
              /\ [c EXCEPT !.told = b] \in Clusters
              /\ [c EXCEPT !.finalizer = b] \in Clusters
              /\ [c EXCEPT !.exists = b] \in Clusters
              /\ [c EXCEPT !.paused = b] \in Clusters
              /\ \A d \in BOOLEAN : [c EXCEPT !.deleting = d, !.exists = b] \in Clusters
         /\ [c EXCEPT !.phase = "Failed", !.degraded = TRUE] \in Clusters
         /\ \A s \in ClusterStates : [c EXCEPT !.clusterState = s] \in Clusters
         /\ \A s \in ReplicationStates : [c EXCEPT !.replicationState = s] \in Clusters
         /\ \A p \in Phases, n \in 0 .. MaxFailovers :
              [c EXCEPT !.phase = p, !.degraded = FALSE, !.failoverCount = n] \in Clusters
BY DEF Clusters, Phases

\* ... and of the count in it.
LEMMA CountUpdates ==
  ASSUME NEW c \in Clusters
  PROVE  /\ \A b : /\ [c EXCEPT !.told = b].failoverCount = c.failoverCount
                   /\ [c EXCEPT !.finalizer = b].failoverCount = c.failoverCount
                   /\ [c EXCEPT !.exists = b].failoverCount = c.failoverCount
                   /\ [c EXCEPT !.paused = b].failoverCount = c.failoverCount
                   /\ \A d : [c EXCEPT !.deleting = d, !.exists = b].failoverCount = c.failoverCount
         /\ [c EXCEPT !.phase = "Failed", !.degraded = TRUE].failoverCount = c.failoverCount
         /\ \A s : [c EXCEPT !.clusterState = s].failoverCount = c.failoverCount
         /\ \A s : [c EXCEPT !.replicationState = s].failoverCount = c.failoverCount
         /\ \A p, n : [c EXCEPT !.phase = p, !.degraded = FALSE, !.failoverCount = n].failoverCount = n
BY DEF Clusters

\* The initial states.
LEMMA HealthInit == Init => HealthInv
<1> SUFFICES ASSUME Init PROVE HealthInv
  OBVIOUS
<1>1. Max(FileCounts) \in FileCounts
  <2>1. IsFiniteSet(FileCounts) /\ FileCounts \in SUBSET Int /\ FileCounts # {}
    BY HealthAssumption
  <2> QED
    BY <2>1, MaxIsGreatest
<1>2. /\ cluster \in Clusters /\ cached \in Clusters /\ synced \in BOOLEAN
      /\ op \in Ops /\ PollCounts
  BY EmptyTypes, HealthAssumption DEF Init, PollCounts
<1>3. edits \in 0 .. MaxEdits /\ fails \in 0 .. MaxFails
  BY HealthAssumption DEF Init
<1>4. /\ nodes \in [Ordinals -> NodeStates] /\ files \in [Ordinals -> FileCounts]
      /\ pods \in [Ordinals -> {"up", "terminating", "absent"}]
      /\ over \in SUBSET Ordinals /\ uncounted \in SUBSET Ordinals
  BY <1>1 DEF Init, NodeStates
<1> QED
  BY <1>2, <1>3, <1>4 DEF HealthInv, TypeOK

\* A step of the operator, the pods and what was failed over apart.
LEMMA OperatorMoves ==
  ASSUME HealthInv, cluster' \in Clusters, cached' \in Clusters, synced' \in BOOLEAN,
         op' \in Ops, PollCounts', UNCHANGED World,
         pods' \in [Ordinals -> {"up", "terminating", "absent"}],
         over' \in SUBSET Ordinals, uncounted' \in SUBSET Ordinals
  PROVE  HealthInv'
BY DEF HealthInv, TypeOK, World

\* What is written to the API, and what the cache then holds.
LEMMA StoreType ==
  ASSUME HealthInv, NEW obj \in Clusters, Store(obj)
  PROVE  /\ cluster' \in Clusters /\ cached' \in Clusters /\ synced' \in BOOLEAN
         /\ cluster' = obj /\ CacheCurrent'
BY DEF HealthInv, TypeOK, Store, CacheCurrent

\* A reconcile that begins has asked for nothing yet.
LEMMA BegunType ==
  ASSUME NEW pc \in {"apply", "write"}, NEW obj \in Clusters, NEW fresh \in BOOLEAN,
         op' = [IdleOp EXCEPT !.pc = pc, !.fresh = fresh, !.obj = obj]
  PROVE  /\ op' \in Ops /\ PollCounts' /\ op'.pc = pc /\ op'.fresh = fresh
         /\ op'.obj = obj /\ op'.victim = {}
<1>1. /\ op' \in Ops /\ op'.polled = 0 /\ op'.answers = 0
      /\ op'.pc = pc /\ op'.fresh = fresh /\ op'.obj = obj /\ op'.victim = {}
  BY EmptyTypes DEF Ops
<1> QED
  BY <1>1, HealthAssumption DEF PollCounts

\* The reconcile begins, from a copy that may be old: it is fresh only if it has
\* the stored version's count.
LEMMA BeginSteps ==
  ASSUME HealthInv, CacheCurrent, Begin \/ SkipPaused
  PROVE  /\ HealthInv' /\ CacheCurrent' /\ UNCHANGED <<over, uncounted>>
         /\ cluster'.failoverCount = cluster.failoverCount
         /\ op'.victim = {}
         /\ op'.fresh => op'.obj.failoverCount = cluster.failoverCount
<1>1. cached \in Clusters /\ cluster \in Clusters /\ synced \in BOOLEAN
  BY DEF HealthInv, TypeOK
<1>2. UNCHANGED World /\ UNCHANGED Others
  BY DEF Begin, SkipPaused
<1>3. /\ pods' \in [Ordinals -> {"up", "terminating", "absent"}]
      /\ over' \in SUBSET Ordinals /\ uncounted' \in SUBSET Ordinals
      /\ UNCHANGED <<over, uncounted>>
  BY <1>2 DEF HealthInv, TypeOK, Others
<1>4. ASSUME NEW pc \in {"apply", "write"}, NEW told \in BOOLEAN,
             op' = [IdleOp EXCEPT !.pc = pc, !.fresh = synced, !.obj = [cached EXCEPT !.told = told]],
             UNCHANGED Stored
      PROVE  /\ HealthInv' /\ CacheCurrent'
             /\ cluster'.failoverCount = cluster.failoverCount
             /\ op'.victim = {}
             /\ op'.fresh => op'.obj.failoverCount = cluster.failoverCount
  <2> DEFINE obj == [cached EXCEPT !.told = told]
  <2>1. obj \in Clusters /\ obj.failoverCount = cached.failoverCount
    BY <1>1, <1>4, ClusterUpdates, CountUpdates
  <2>2. op' = [IdleOp EXCEPT !.pc = pc, !.fresh = synced, !.obj = obj]
    BY <1>4
  <2> HIDE DEF obj
  <2>3. op' \in Ops /\ PollCounts' /\ op'.fresh = synced /\ op'.obj = obj /\ op'.victim = {}
    BY <1>1, <1>4, <2>1, <2>2, BegunType
  <2>4. UNCHANGED <<cluster, cached, synced>>
    BY <1>4 DEF Stored
  <2>5. HealthInv'
    BY <1>1, <1>2, <1>3, <2>3, <2>4, OperatorMoves
  <2> QED
    BY <2>1, <2>3, <2>4, <2>5 DEF CacheCurrent
<1>5. CASE SkipPaused
  <2>1. /\ op' = [IdleOp EXCEPT !.pc = "write", !.fresh = synced,
                                 !.obj = [cached EXCEPT !.told = TRUE]]
        /\ UNCHANGED Stored
    BY <1>5 DEF SkipPaused
  <2> QED
    BY <1>3, <1>4, <2>1
<1>6. CASE Begin
  <2>1. CASE /\ op' = [IdleOp EXCEPT !.pc = "apply", !.fresh = synced,
                                      !.obj = [cached EXCEPT !.told = FALSE]]
             /\ UNCHANGED Stored
    BY <1>3, <1>4, <2>1
  <2>2. CASE /\ synced /\ Store([cached EXCEPT !.finalizer = TRUE])
             /\ op' = [IdleOp EXCEPT !.pc = "apply", !.fresh = TRUE, !.obj = cluster']
    <3> DEFINE obj == [cached EXCEPT !.finalizer = TRUE]
    <3>1. obj \in Clusters /\ obj.failoverCount = cached.failoverCount
      BY <1>1, ClusterUpdates, CountUpdates
    <3>2. Store(obj)
      BY <2>2
    <3> HIDE DEF obj
    <3>3. /\ cluster' \in Clusters /\ cached' \in Clusters /\ synced' \in BOOLEAN
          /\ cluster' = obj /\ CacheCurrent'
      BY <3>1, <3>2, StoreType
    <3>4. op' \in Ops /\ PollCounts' /\ op'.obj = cluster' /\ op'.victim = {}
      BY <2>2, <3>3, BegunType
    <3>5. HealthInv'
      BY <1>2, <1>3, <3>3, <3>4, OperatorMoves
    <3> QED
      BY <1>3, <2>2, <3>1, <3>3, <3>4, <3>5 DEF CacheCurrent
  <2> QED
    BY <1>6, <2>1, <2>2 DEF Begin
<1> QED
  BY <1>5, <1>6

\* The cluster goes.
LEMMA FinalizeStep ==
  ASSUME HealthInv, CacheCurrent, Finalize
  PROVE  /\ HealthInv' /\ CacheCurrent' /\ UNCHANGED <<op, over, uncounted>>
         /\ cluster'.failoverCount = cluster.failoverCount
<1> DEFINE obj == [cached EXCEPT !.exists = FALSE]
<1>1. /\ op \in Ops /\ PollCounts /\ cached \in Clusters
      /\ pods \in [Ordinals -> {"up", "terminating", "absent"}]
      /\ over \in SUBSET Ordinals /\ uncounted \in SUBSET Ordinals
  BY DEF HealthInv, TypeOK
<1>2. /\ synced /\ Store(obj) /\ UNCHANGED op /\ UNCHANGED World
      /\ UNCHANGED <<pods, over, uncounted>>
  BY DEF Finalize, Others
<1>3. obj \in Clusters /\ obj.failoverCount = cached.failoverCount
  BY <1>1, ClusterUpdates, CountUpdates
<1> HIDE DEF obj
<1>4. /\ cluster' \in Clusters /\ cached' \in Clusters /\ synced' \in BOOLEAN
      /\ cluster' = obj /\ CacheCurrent'
  BY <1>2, <1>3, StoreType
<1>5. HealthInv'
  BY <1>1, <1>2, <1>4, OperatorMoves DEF PollCounts
<1> QED
  BY <1>2, <1>3, <1>4, <1>5 DEF CacheCurrent

\* The reconcile ends: its status is stored, refused or lost, or it has none.
LEMMA EndSteps ==
  ASSUME HealthInv, CacheCurrent, ReturnEarly \/ WriteStatus \/ LoseStatus
  PROVE  /\ HealthInv' /\ CacheCurrent' /\ op' = IdleOp /\ UNCHANGED over
         /\ \/ UNCHANGED <<cluster, uncounted>>
            \/ op.fresh /\ cluster' = op.obj /\ uncounted' = uncounted \ op.victim
<1>1. /\ op \in Ops /\ op.obj \in Clusters
      /\ pods \in [Ordinals -> {"up", "terminating", "absent"}]
      /\ over \in SUBSET Ordinals /\ uncounted \in SUBSET Ordinals
      /\ cluster \in Clusters /\ cached \in Clusters /\ synced \in BOOLEAN
  BY DEF HealthInv, TypeOK, Ops
<1>2. op' = IdleOp /\ UNCHANGED World /\ UNCHANGED <<pods, over>>
  BY DEF ReturnEarly, WriteStatus, LoseStatus, Others
<1>3. op' \in Ops /\ PollCounts'
  BY <1>2, EmptyTypes, HealthAssumption DEF PollCounts
<1>4. \/ UNCHANGED <<cluster, cached, synced, uncounted>>
      \/ op.fresh /\ Store(op.obj) /\ uncounted' = uncounted \ op.victim
  BY DEF ReturnEarly, WriteStatus, LoseStatus, Others, Stored, Accepted
<1>5. CASE UNCHANGED <<cluster, cached, synced, uncounted>>
  BY <1>1, <1>2, <1>3, <1>5, OperatorMoves DEF CacheCurrent
<1>6. CASE op.fresh /\ Store(op.obj) /\ uncounted' = uncounted \ op.victim
  <2>1. /\ cluster' \in Clusters /\ cached' \in Clusters /\ synced' \in BOOLEAN
        /\ cluster' = op.obj /\ CacheCurrent'
    BY <1>1, <1>6, StoreType
  <2>2. uncounted' \in SUBSET Ordinals
    BY <1>1, <1>6
  <2>3. HealthInv'
    BY <1>1, <1>2, <1>3, <2>1, <2>2, OperatorMoves
  <2> QED
    BY <1>2, <1>6, <2>1, <2>3
<1> QED
  BY <1>4, <1>5, <1>6

\* The cache catches up.
LEMMA SyncStep ==
  ASSUME HealthInv, CacheSync
  PROVE  HealthInv' /\ CacheCurrent' /\ UNCHANGED <<cluster, op, over, uncounted>>
BY DEF HealthInv, TypeOK, PollCounts, CacheSync, World, Others, CacheCurrent

\* Applying the cluster's objects, and a step of that which fails.
LEMMA ApplySteps ==
  ASSUME HealthInv, Apply \/ ApplyFails
  PROVE  HealthInv'
<1>1. cluster \in Clusters /\ op \in Ops /\ PollCounts /\ op.obj \in Clusters
  BY DEF HealthInv, TypeOK, Ops
<1>2. UNCHANGED World /\ UNCHANGED Others /\ UNCHANGED Stored
  BY DEF Apply, ApplyFails
<1>3. /\ pods' \in [Ordinals -> {"up", "terminating", "absent"}]
      /\ over' \in SUBSET Ordinals /\ uncounted' \in SUBSET Ordinals
      /\ cluster' \in Clusters /\ cached' \in Clusters /\ synced' \in BOOLEAN
  BY <1>2 DEF HealthInv, TypeOK, Others, Stored
<1>4. op' \in Ops /\ op'.polled = op.polled /\ op'.answers = op.answers
  <2>1. CASE Apply
    <3> DEFINE ready == AllReady
    <3>1. ready \in BOOLEAN
      BY DEF AllReady
    <3>2. op' = [op EXCEPT !.pc = "collect", !.ready = ready]
      BY <2>1 DEF Apply
    <3> HIDE DEF ready
    <3> QED
      BY <1>1, <3>1, <3>2 DEF Ops
  <2>2. CASE ApplyFails
    <3> DEFINE obj == [op.obj EXCEPT !.phase = "Failed", !.degraded = TRUE]
    <3>1. obj \in Clusters
      BY <1>1, ClusterUpdates
    <3>2. op' = [op EXCEPT !.pc = "write", !.obj = obj]
      BY <1>1, <2>2 DEF ApplyFails, Ops
    <3> HIDE DEF obj
    <3> QED
      BY <1>1, <3>1, <3>2 DEF Ops
  <2> QED
    BY <2>1, <2>2
<1> QED
  BY <1>1, <1>2, <1>3, <1>4, OperatorMoves DEF PollCounts

\* A member is asked, and answers.
LEMMA AskSteps ==
  ASSUME HealthInv, Ask \/ Answer
  PROVE  HealthInv'
<1>1. cluster \in Clusters /\ op \in Ops /\ PollCounts /\ op.obj \in Clusters
  BY DEF HealthInv, TypeOK, Ops
<1>2. UNCHANGED World /\ UNCHANGED Others /\ UNCHANGED Stored
  BY DEF Ask, Answer
<1>3. /\ pods' \in [Ordinals -> {"up", "terminating", "absent"}]
      /\ over' \in SUBSET Ordinals /\ uncounted' \in SUBSET Ordinals
      /\ cluster' \in Clusters /\ cached' \in Clusters /\ synced' \in BOOLEAN
  BY <1>2 DEF HealthInv, TypeOK, Others, Stored
<1>4. op' \in Ops /\ op'.polled = op.polled /\ op'.answers = op.answers
  <2>1. CASE Ask
    <3>1. PICK o \in Ordinals : op' = [op EXCEPT !.seen[o] = "asked"]
      BY <2>1 DEF Ask
    <3> DEFINE seen == [op.seen EXCEPT ![o] = "asked"]
    <3>2. seen \in [Ordinals -> Reports]
      BY <1>1 DEF Ops, Reports
    <3>3. op' = [op EXCEPT !.seen = seen]
      BY <3>1
    <3> HIDE DEF seen
    <3> QED
      BY <1>1, <3>2, <3>3 DEF Ops
  <2>2. CASE Answer
    <3>1. PICK o \in Ordinals :
            LET seen == [op.seen EXCEPT ![o] = Report(o)]
            IN op' = IF o < Replicas - 1 THEN [op EXCEPT !.seen = seen]
                     ELSE [op EXCEPT !.seen = seen,
                                     !.pc = IF Replicas > 1 THEN "compare" ELSE "failover",
                                     !.obj.clusterState = DeriveClusterState(seen)]
      BY <2>2 DEF Answer
    <3> DEFINE seen == [op.seen EXCEPT ![o] = Report(o)]
               pc == IF Replicas > 1 THEN "compare" ELSE "failover"
               state == DeriveClusterState(seen)
               obj == [op.obj EXCEPT !.clusterState = state]
    <3>2. Report(o) \in Reports
      BY DEF HealthInv, TypeOK, Report, NodeStates, Reports
    <3>3. seen \in [Ordinals -> Reports] /\ pc \in {"compare", "failover"}
      BY <1>1, <3>2 DEF Ops
    <3>4. state \in ClusterStates
      BY DEF DeriveClusterState, ClusterStates
    <3>5. \/ op' = [op EXCEPT !.seen = seen]
          \/ op' = [op EXCEPT !.seen = seen, !.pc = pc, !.obj.clusterState = state]
      BY <3>1
    <3> HIDE DEF seen, pc, state
    <3>6. obj \in Clusters
      BY <1>1, <3>4, ClusterUpdates
    <3>7. \/ op' = [op EXCEPT !.seen = seen]
          \/ op' = [op EXCEPT !.seen = seen, !.pc = pc, !.obj = obj]
      BY <1>1, <3>5 DEF Ops
    <3> HIDE DEF obj
    <3> QED
      BY <1>1, <3>3, <3>6, <3>7 DEF Ops
  <2> QED
    BY <2>1, <2>2
<1> QED
  BY <1>1, <1>2, <1>3, <1>4, OperatorMoves DEF PollCounts

\* A member is asked for its manifest.
LEMMA ManifestStep ==
  ASSUME HealthInv, Manifest
  PROVE  HealthInv'
<1>1. /\ cluster \in Clusters /\ op \in Ops /\ PollCounts /\ op.obj \in Clusters
      /\ op.polled \in 0 .. Replicas /\ op.answers \in 0 .. Replicas
      /\ op.counts \in SUBSET Int
  BY DEF HealthInv, TypeOK, Ops
<1>2. UNCHANGED World /\ UNCHANGED Others /\ UNCHANGED Stored
  BY DEF Manifest
<1>3. /\ pods' \in [Ordinals -> {"up", "terminating", "absent"}]
      /\ over' \in SUBSET Ordinals /\ uncounted' \in SUBSET Ordinals
      /\ cluster' \in Clusters /\ cached' \in Clusters /\ synced' \in BOOLEAN
  BY <1>2 DEF HealthInv, TypeOK, Others, Stored
<1> DEFINE o == op.polled
           counts == op.counts \cup GetSyncManifest(o)
           answers == op.answers + Cardinality(GetSyncManifest(o))
           state == ReplicationState(counts, answers)
           obj == [op.obj EXCEPT !.replicationState = state]
<1>4. o \in Ordinals
  BY <1>1, HealthAssumption DEF PollCounts, Ordinals
<1>5. counts \in SUBSET Int
  <2>1. files[o] \in Nat
    <3>1. files[o] \in FileCounts
      BY <1>4 DEF HealthInv, TypeOK
    <3>2. \A n \in FileCounts : n \in Nat
      BY HealthAssumption
    <3> QED
      BY <3>1, <3>2, Zenon
  <2>2. Int32(files[o]) \in Int
    <3> DEFINE a == files[o] + IntMax + 1
               m == 2 * IntMax + 2
    <3>0. \A n, k \in Nat : n + k + 1 \in Int /\ 2 * k + 2 \in Nat \ {0}
      OBVIOUS
    <3>1. a \in Int /\ m \in Nat \ {0}
      BY <2>1, <3>0, HealthAssumption, Zenon
    <3>2. Int32(files[o]) = (a % m) - (IntMax + 1)
      BY DEF Int32
    <3> HIDE DEF a, m
    <3>3. a % m \in Int
      BY <3>1
    <3> QED
      BY <3>2, <3>3, HealthAssumption
  <2> QED
    BY <1>1, <2>2 DEF GetSyncManifest
<1>6. Cardinality(GetSyncManifest(o)) \in {0, 1}
  BY FS_EmptySet, FS_Singleton DEF GetSyncManifest
<1>7. state \in ReplicationStates
  BY DEF ReplicationState, Gap, ReplicationStates
<1>8. \/ /\ o < Replicas - 1
         /\ op' = [op EXCEPT !.polled = o + 1, !.counts = counts, !.answers = answers]
      \/ op' = [op EXCEPT !.pc = "failover", !.polled = 0, !.counts = {}, !.answers = 0,
                          !.obj.replicationState = state]
  BY DEF Manifest
<1>9. CASE o < Replicas - 1 /\ op' = [op EXCEPT !.polled = o + 1, !.counts = counts, !.answers = answers]
  <2>1. /\ o + 1 \in 0 .. Replicas /\ o + 1 < Replicas
        /\ answers \in 0 .. Replicas /\ answers <= o + 1
    BY <1>1, <1>6, <1>9, HealthAssumption DEF PollCounts
  <2> HIDE DEF o, counts, answers
  <2>2. op' \in Ops /\ op'.polled = o + 1 /\ op'.answers = answers
    BY <1>1, <1>5, <1>9, <2>1 DEF Ops
  <2>3. PollCounts'
    BY <2>1, <2>2 DEF PollCounts
  <2> QED
    BY <1>1, <1>2, <1>3, <2>2, <2>3, OperatorMoves
<1>10. CASE op' = [op EXCEPT !.pc = "failover", !.polled = 0, !.counts = {}, !.answers = 0,
                            !.obj.replicationState = state]
  <2> HIDE DEF state
  <2>1. obj \in Clusters
    BY <1>1, <1>7, ClusterUpdates
  <2>2. op' = [op EXCEPT !.pc = "failover", !.polled = 0, !.counts = {}, !.answers = 0, !.obj = obj]
    BY <1>1, <1>10 DEF Ops
  <2> HIDE DEF obj
  <2>3. op' \in Ops /\ op'.polled = 0 /\ op'.answers = 0
    <3>1. 0 \in 0 .. Replicas /\ {} \in SUBSET Int
      BY HealthAssumption
    <3> QED
      BY <1>1, <2>1, <2>2, <3>1 DEF Ops
  <2>4. PollCounts'
    BY <2>3, HealthAssumption DEF PollCounts
  <2> QED
    BY <1>1, <1>2, <1>3, <2>3, <2>4, OperatorMoves
<1> QED
  BY <1>8, <1>9, <1>10

\* The status is concluded, with the failover that was made.
LEMMA ConcludeType ==
  ASSUME HealthInv, NEW count \in 0 .. MaxFailovers, NEW victim \in SUBSET Ordinals,
         Conclude(count, victim)
  PROVE  /\ op' \in Ops /\ PollCounts'
         /\ op'.pc = "write" /\ op'.fresh = op.fresh /\ op'.obj.failoverCount = count
         /\ op'.victim = victim
<1>1. op \in Ops /\ op.obj \in Clusters /\ op.fresh \in BOOLEAN
  BY DEF HealthInv, TypeOK, Ops
<1>2. NextPhase(op.obj.phase) \subseteq Phases
  BY DEF NextPhase, Phases
<1>3. PICK p \in NextPhase(op.obj.phase) :
        op' = [IdleOp EXCEPT !.pc = "write", !.fresh = op.fresh, !.victim = victim,
                 !.obj = [op.obj EXCEPT !.phase = p, !.degraded = FALSE, !.failoverCount = count]]
  BY DEF Conclude
<1> DEFINE obj == [op.obj EXCEPT !.phase = p, !.degraded = FALSE, !.failoverCount = count]
<1>4. obj \in Clusters /\ obj.failoverCount = count
  <2>1. p \in Phases
    BY <1>2, <1>3
  <2>2. obj \in Clusters
    BY <1>1, <2>1, ClusterUpdates
  <2>3. obj.failoverCount = count
    BY <1>1, CountUpdates
  <2> QED
    BY <2>2, <2>3
<1>5. op' = [IdleOp EXCEPT !.pc = "write", !.fresh = op.fresh, !.victim = victim, !.obj = obj]
  BY <1>3
<1> HIDE DEF obj
<1>6. /\ op' \in Ops /\ op'.pc = "write" /\ op'.fresh = op.fresh /\ op'.obj = obj
      /\ op'.polled = 0 /\ op'.answers = 0 /\ op'.victim = victim
  BY <1>1, <1>4, <1>5, EmptyTypes DEF Ops
<1> QED
  BY <1>4, <1>6, HealthAssumption DEF PollCounts

\* One pod is deleted, or none.
LEMMA FailoverSteps ==
  ASSUME HealthInv, AutoFailover \/ NoFailover
  PROVE  /\ HealthInv' /\ UNCHANGED Stored
         /\ op.pc = "failover" /\ op'.pc = "write" /\ op'.fresh = op.fresh
         /\ \/ /\ UNCHANGED <<over, uncounted>>
               /\ op'.victim = {} /\ op'.obj.failoverCount = op.obj.failoverCount
            \/ \E o \in Ordinals :
                 /\ over' = over \cup {o} /\ uncounted' = uncounted \cup {o}
                 /\ op'.victim = {o} /\ op'.obj.failoverCount = op.obj.failoverCount + 1
<1>1. /\ op \in Ops /\ op.obj.failoverCount \in 0 .. MaxFailovers
      /\ pods \in [Ordinals -> {"up", "terminating", "absent"}]
      /\ over \in SUBSET Ordinals /\ uncounted \in SUBSET Ordinals
      /\ cluster \in Clusters /\ cached \in Clusters /\ synced \in BOOLEAN
  BY DEF HealthInv, TypeOK, Ops, Clusters
<1>2. /\ UNCHANGED World /\ UNCHANGED Stored /\ UNCHANGED <<cluster, cached, synced>>
      /\ op.pc = "failover"
  BY DEF AutoFailover, NoFailover, Stored
<1>3. CASE AutoFailover
  <2>1. PICK o \in Ordinals : /\ Chosen(o)
                              /\ pods' = [pods EXCEPT ![o] = "terminating"]
                              /\ over' = over \cup {o}
                              /\ uncounted' = uncounted \cup {o}
                              /\ Conclude(op.obj.failoverCount + 1, {o})
    BY <1>3 DEF AutoFailover
  <2>2. op.obj.failoverCount + 1 \in 0 .. MaxFailovers
    BY <1>1, <2>1, HealthAssumption DEF Chosen, Candidate, Spent
  <2>3. /\ op' \in Ops /\ PollCounts' /\ op'.pc = "write" /\ op'.fresh = op.fresh
        /\ op'.victim = {o} /\ op'.obj.failoverCount = op.obj.failoverCount + 1
    BY <2>1, <2>2, ConcludeType
  <2>4. /\ pods' \in [Ordinals -> {"up", "terminating", "absent"}]
        /\ over' \in SUBSET Ordinals /\ uncounted' \in SUBSET Ordinals
    BY <1>1, <2>1
  <2>5. HealthInv'
    BY <1>1, <1>2, <2>3, <2>4, OperatorMoves
  <2> QED
    BY <1>2, <2>1, <2>3, <2>5
<1>4. CASE NoFailover
  <2>1. Conclude(op.obj.failoverCount, {}) /\ UNCHANGED <<pods, over, uncounted>>
    BY <1>4 DEF NoFailover, Others
  <2>2. /\ op' \in Ops /\ PollCounts' /\ op'.pc = "write" /\ op'.fresh = op.fresh
        /\ op'.victim = {} /\ op'.obj.failoverCount = op.obj.failoverCount
    BY <1>1, <2>1, ConcludeType
  <2>3. HealthInv'
    BY <1>1, <1>2, <2>1, <2>2, OperatorMoves
  <2> QED
    BY <1>2, <2>1, <2>2, <2>3
<1> QED
  BY <1>3, <1>4

\* The nodes and their pods.
LEMMA NodeSteps ==
  ASSUME HealthInv, NEW o \in Ordinals,
         \/ NodeFails(o) \/ NodeStarts(o) \/ NodeRecovers(o) \/ PodGone(o) \/ StsCreate(o)
         \/ NodeLosesFiles(o) \/ NodeCatchesUp(o)
  PROVE  HealthInv' /\ UNCHANGED Operator /\ over' \ uncounted' \subseteq over \ uncounted
<1>1. UNCHANGED Operator
  BY DEF NodeFails, NodeStarts, NodeRecovers, NodeMoves, PodGone, StsCreate, NodeLosesFiles, NodeCatchesUp
<1>2. over' \subseteq over /\ uncounted' \subseteq uncounted /\ over' \ uncounted' \subseteq over \ uncounted
  BY DEF NodeFails, NodeStarts, NodeRecovers, NodeMoves, PodGone, StsCreate, NodeLosesFiles, NodeCatchesUp
<1>3. fails' \in 0 .. MaxFails
  <2>1. fails' = fails \/ (fails < MaxFails /\ fails' = fails + 1)
    BY DEF NodeFails, NodeStarts, NodeRecovers, NodeMoves, PodGone, StsCreate, NodeLosesFiles, NodeCatchesUp
  <2> QED
    BY <2>1, HealthAssumption DEF HealthInv, TypeOK
<1>4. nodes' \in [Ordinals -> NodeStates]
  <2>1. UNCHANGED nodes \/ \E to \in NodeStates : nodes' = [nodes EXCEPT ![o] = to]
    BY DEF NodeFails, NodeStarts, NodeRecovers, NodeMoves, PodGone, StsCreate, NodeLosesFiles,
           NodeCatchesUp, NodeStates
  <2> QED
    BY <2>1 DEF HealthInv, TypeOK
<1>5. pods' \in [Ordinals -> {"up", "terminating", "absent"}]
  <2>1. UNCHANGED pods \/ \E to \in {"up", "absent"} : pods' = [pods EXCEPT ![o] = to]
    BY DEF NodeFails, NodeStarts, NodeRecovers, NodeMoves, PodGone, StsCreate, NodeLosesFiles, NodeCatchesUp
  <2> QED
    BY <2>1 DEF HealthInv, TypeOK
<1>6. files' \in [Ordinals -> FileCounts]
  <2>1. UNCHANGED files \/ \E n \in FileCounts : files' = [files EXCEPT ![o] = n]
    BY DEF NodeFails, NodeStarts, NodeRecovers, NodeMoves, PodGone, StsCreate, NodeLosesFiles, NodeCatchesUp
  <2> QED
    BY <2>1 DEF HealthInv, TypeOK
<1> QED
  BY <1>1, <1>2, <1>3, <1>4, <1>5, <1>6 DEF HealthInv, TypeOK, PollCounts, Operator

\* Time passes.
LEMMA TickStep ==
  ASSUME HealthInv, Tick
  PROVE  /\ HealthInv' /\ UNCHANGED <<cluster, cached, synced, over, uncounted>>
         /\ op'.pc = op.pc /\ op'.obj = op.obj /\ op'.fresh = op.fresh /\ op'.victim = op.victim
<1> DEFINE age == [o \in Ordinals |-> IF op.seen[o] = "none" THEN 0 ELSE Older(op.age[o])]
<1>1. op \in Ops /\ PollCounts
  BY DEF HealthInv, TypeOK
<1>2. /\ op' = [op EXCEPT !.age = age]
      /\ UNCHANGED <<cluster, cached, synced, edits, nodes, pods, fails, files, over, uncounted>>
  BY DEF Tick, Stored, World, Others
<1>3. age \in [Ordinals -> 0 .. Timeout]
  BY <1>1, HealthAssumption DEF Older, Ops
<1> HIDE DEF age
<1>4. /\ op' \in Ops /\ op'.polled = op.polled /\ op'.answers = op.answers
      /\ op'.pc = op.pc /\ op'.obj = op.obj /\ op'.fresh = op.fresh /\ op'.victim = op.victim
  BY <1>1, <1>2, <1>3 DEF Ops
<1> QED
  BY <1>1, <1>2, <1>4 DEF HealthInv, TypeOK, PollCounts

\* The user edits the cluster.
LEMMA EditSteps ==
  ASSUME HealthInv, EditSpec \/ TogglePause \/ Delete
  PROVE  /\ HealthInv' /\ CacheCurrent' /\ UNCHANGED <<over, uncounted>>
         /\ cluster'.failoverCount = cluster.failoverCount
         /\ op'.fresh = FALSE /\ op'.pc = op.pc /\ op'.victim = op.victim
<1>1. cluster \in Clusters /\ op \in Ops /\ PollCounts
  BY DEF HealthInv, TypeOK
<1>2. PICK obj \in Clusters : Edit(obj) /\ obj.failoverCount = cluster.failoverCount
  <2>1. CASE EditSpec
    BY <1>1, <2>1 DEF EditSpec
  <2>2. CASE TogglePause
    <3> DEFINE b == ~cluster.paused
    <3>1. Edit([cluster EXCEPT !.paused = b]) /\ b \in BOOLEAN
      BY <2>2 DEF TogglePause
    <3> HIDE DEF b
    <3> DEFINE new == [cluster EXCEPT !.paused = b]
    <3>2. new \in Clusters
      BY <1>1, <3>1, ClusterUpdates
    <3>3. new.failoverCount = cluster.failoverCount
      BY <1>1, CountUpdates
    <3>4. Edit(new)
      BY <3>1
    <3> HIDE DEF new
    <3> QED
      BY <3>2, <3>3, <3>4
  <2>3. CASE Delete
    <3> DEFINE b == TRUE
    <3>1. Edit([cluster EXCEPT !.deleting = b, !.exists = cluster.finalizer])
      BY <2>3 DEF Delete
    <3>2. b \in BOOLEAN /\ cluster.finalizer \in BOOLEAN
      BY <1>1 DEF Clusters
    <3> HIDE DEF b
    <3> DEFINE new == [cluster EXCEPT !.deleting = b, !.exists = cluster.finalizer]
    <3>3. new \in Clusters
      BY <1>1, <3>2, ClusterUpdates
    <3>4. new.failoverCount = cluster.failoverCount
      BY <1>1, CountUpdates
    <3>5. Edit(new)
      BY <3>1
    <3> HIDE DEF new
    <3> QED
      BY <3>3, <3>4, <3>5
  <2> QED
    BY <2>1, <2>2, <2>3
<1>3. /\ op' = [op EXCEPT !.fresh = FALSE] /\ Store(obj)
      /\ UNCHANGED <<nodes, pods, fails, files, over, uncounted>>
  BY <1>2 DEF Edit, Others
<1>4. /\ op' \in Ops /\ op'.polled = op.polled /\ op'.answers = op.answers
      /\ op'.fresh = FALSE /\ op'.pc = op.pc /\ op'.victim = op.victim
  BY <1>1, <1>3 DEF Ops
<1>5. edits' \in 0 .. MaxEdits
  BY <1>2, HealthAssumption DEF Edit, HealthInv, TypeOK
<1>6. /\ cluster' \in Clusters /\ cached' \in Clusters /\ synced' \in BOOLEAN
      /\ cluster' = obj /\ CacheCurrent'
  BY <1>3, StoreType
<1>7. HealthInv'
  BY <1>1, <1>3, <1>4, <1>5, <1>6 DEF HealthInv, TypeOK, PollCounts
<1> QED
  BY <1>2, <1>3, <1>4, <1>6, <1>7

\* The invariant holds in every reachable state.
LEMMA HealthInvariant == Spec => [](HealthInv /\ CacheCurrent)
<1>1. Init => CacheCurrent
  BY DEF Init, CacheCurrent
<1>2. HealthInv /\ CacheCurrent /\ [Next]_vars => HealthInv' /\ CacheCurrent'
  <2> SUFFICES ASSUME HealthInv, CacheCurrent, [Next]_vars PROVE HealthInv' /\ CacheCurrent'
    OBVIOUS
  <2>1. CASE UNCHANGED vars
    BY <2>1 DEF vars, HealthInv, TypeOK, PollCounts, CacheCurrent
  <2>2. CASE Begin \/ SkipPaused
    BY <2>2, BeginSteps
  <2>3. CASE Finalize
    BY <2>3, FinalizeStep
  <2>4. CASE ReturnEarly \/ WriteStatus \/ LoseStatus
    BY <2>4, EndSteps
  <2>5. CASE Apply \/ ApplyFails \/ Ask \/ Answer \/ Manifest
    <3>1. UNCHANGED <<cluster, cached, synced>>
      BY <2>5 DEF Apply, ApplyFails, Ask, Answer, Manifest, Stored
    <3>2. HealthInv'
      BY <2>5, ApplySteps, AskSteps, ManifestStep
    <3> QED
      BY <3>1, <3>2 DEF CacheCurrent
  <2>6. CASE AutoFailover \/ NoFailover
    BY <2>6, FailoverSteps DEF CacheCurrent, Stored
  <2>7. ASSUME NEW o \in Ordinals,
               \/ NodeFails(o) \/ NodeStarts(o) \/ NodeRecovers(o) \/ PodGone(o) \/ StsCreate(o)
               \/ NodeLosesFiles(o) \/ NodeCatchesUp(o)
        PROVE  HealthInv' /\ CacheCurrent'
    BY <2>7, NodeSteps DEF CacheCurrent, Operator
  <2>8. CASE Tick
    BY <2>8, TickStep DEF CacheCurrent
  <2>9. CASE CacheSync
    BY <2>9, SyncStep
  <2>10. CASE EditSpec \/ TogglePause \/ Delete
    BY <2>10, EditSteps
  <2> QED
    BY <2>1, <2>2, <2>3, <2>4, <2>5, <2>6, <2>7, <2>8, <2>9, <2>10 DEF Next, OperatorStep
<1> QED
  BY <1>1, <1>2, HealthInit, PTL DEF Spec

\* The reconcile goes on to the next step of asking its members.
LEMMA AskKeepsCopy ==
  ASSUME HealthInv, Apply \/ Ask \/ Answer \/ Manifest
  PROVE  /\ UNCHANGED <<cluster, over, uncounted>>
         /\ op.pc \notin {"idle", "write"} /\ op'.victim = op.victim
         /\ op'.fresh = op.fresh /\ op'.obj.failoverCount = op.obj.failoverCount
<1>1. op \in Ops /\ op.obj \in Clusters
  BY DEF HealthInv, TypeOK, Ops
<1>2. UNCHANGED <<cluster, over, uncounted>>
  BY DEF Apply, Ask, Answer, Manifest, Others, Stored
<1>3. CASE Apply
  <2> DEFINE ready == AllReady
  <2>1. op.pc = "apply" /\ op' = [op EXCEPT !.pc = "collect", !.ready = ready]
    BY <1>3 DEF Apply
  <2> HIDE DEF ready
  <2> QED
    BY <1>1, <1>2, <2>1 DEF Ops
<1>4. CASE Ask
  <2>1. PICK o \in Ordinals : op' = [op EXCEPT !.seen[o] = "asked"]
    BY <1>4 DEF Ask
  <2> QED
    BY <1>1, <1>2, <1>4, <2>1 DEF Ask, Ops
<1>5. CASE Answer
  <2>1. op.pc = "collect" /\ \E pc \in {"compare", "failover"} : \E seen, state :
            \/ op' = [op EXCEPT !.seen = seen]
            \/ op' = [op EXCEPT !.seen = seen, !.pc = pc, !.obj.clusterState = state]
    BY <1>5 DEF Answer
  <2>2. PICK pc \in {"compare", "failover"} : \E seen, state :
            \/ op' = [op EXCEPT !.seen = seen]
            \/ op' = [op EXCEPT !.seen = seen, !.pc = pc, !.obj.clusterState = state]
    BY <2>1
  <2>3. PICK seen, state :
            \/ op' = [op EXCEPT !.seen = seen]
            \/ op' = [op EXCEPT !.seen = seen, !.pc = pc, !.obj.clusterState = state]
    BY <2>2
  <2> DEFINE obj == [op.obj EXCEPT !.clusterState = state]
  <2>4. obj.failoverCount = op.obj.failoverCount
    BY <1>1, CountUpdates
  <2>5. \/ op' = [op EXCEPT !.seen = seen]
        \/ op' = [op EXCEPT !.seen = seen, !.pc = pc, !.obj = obj]
    BY <1>1, <2>3 DEF Ops
  <2> HIDE DEF obj
  <2> QED
    BY <1>1, <1>2, <2>1, <2>4, <2>5 DEF Ops
<1>6. CASE Manifest
  <2>1. op.pc = "compare" /\ \E polled, counts, answers, state :
            \/ op' = [op EXCEPT !.polled = polled, !.counts = counts, !.answers = answers]
            \/ op' = [op EXCEPT !.pc = "failover", !.polled = polled, !.counts = counts,
                                !.answers = answers, !.obj.replicationState = state]
    BY <1>6 DEF Manifest
  <2>2. PICK polled, counts, answers, state :
            \/ op' = [op EXCEPT !.polled = polled, !.counts = counts, !.answers = answers]
            \/ op' = [op EXCEPT !.pc = "failover", !.polled = polled, !.counts = counts,
                                !.answers = answers, !.obj.replicationState = state]
    BY <2>1
  <2> DEFINE obj == [op.obj EXCEPT !.replicationState = state]
  <2>3. obj.failoverCount = op.obj.failoverCount
    BY <1>1, CountUpdates
  <2>4. \/ op' = [op EXCEPT !.polled = polled, !.counts = counts, !.answers = answers]
        \/ op' = [op EXCEPT !.pc = "failover", !.polled = polled, !.counts = counts,
                            !.answers = answers, !.obj = obj]
    BY <1>1, <2>2 DEF Ops
  <2> HIDE DEF obj
  <2> QED
    BY <1>1, <1>2, <2>1, <2>3, <2>4 DEF Ops
<1> QED
  BY <1>3, <1>4, <1>5, <1>6

\* A set with one element more, and one with fewer.
LEMMA CountSets ==
  ASSUME HealthInv, NEW S \in SUBSET Ordinals
  PROVE  /\ Cardinality(S) \in Nat
         /\ \A R \in SUBSET S : Cardinality(R) \in Nat /\ Cardinality(R) <= Cardinality(S)
         /\ \A o \in Ordinals : \A R \in SUBSET (S \cup {o}) :
              Cardinality(R) \in Nat /\ Cardinality(R) <= Cardinality(S) + 1
<1>1. IsFiniteSet(S)
  <2>1. IsFiniteSet(Ordinals)
    BY FS_Interval, HealthAssumption DEF Ordinals
  <2> QED
    BY <2>1, FS_Subset
<1>2. Cardinality(S) \in Nat
  BY <1>1, FS_CardinalityType
<1>3. ASSUME NEW R \in SUBSET S
      PROVE  Cardinality(R) \in Nat /\ Cardinality(R) <= Cardinality(S)
  BY <1>1, FS_Subset, FS_CardinalityType
<1>4. ASSUME NEW o \in Ordinals, NEW R \in SUBSET (S \cup {o})
      PROVE  Cardinality(R) \in Nat /\ Cardinality(R) <= Cardinality(S) + 1
  <2>1. /\ IsFiniteSet(S \cup {o})
        /\ Cardinality(S \cup {o}) = IF o \in S THEN Cardinality(S) ELSE Cardinality(S) + 1
    BY <1>1, FS_AddElement, Zenon
  <2>2. Cardinality(R) \in Nat /\ Cardinality(R) <= Cardinality(S \cup {o})
    BY <2>1, FS_Subset, FS_CardinalityType
  <2> QED
    BY <1>2, <2>1, <2>2
<1> QED
  BY <1>2, <1>3, <1>4

\* What was failed over and stored stays counted.
LEMMA CountStep ==
  ASSUME HealthInv, CountInv, [Next]_vars
  PROVE  CopyCurrent' /\ VictimLast' /\ FailoversCounted'
<1>1. /\ op \in Ops /\ op.obj \in Clusters /\ cluster \in Clusters /\ CacheCurrent
      /\ op.obj.failoverCount \in Nat /\ cluster.failoverCount \in Nat
      /\ over \in SUBSET Ordinals /\ uncounted \in SUBSET Ordinals
  BY HealthAssumption DEF CountInv, HealthInv, TypeOK, Ops, Clusters
<1>2. CASE UNCHANGED vars
  BY <1>2 DEF vars, CountInv, CopyCurrent, VictimLast, FailoversCounted
<1>3. CASE Begin \/ SkipPaused
  BY <1>1, <1>3, BeginSteps DEF CountInv, CopyCurrent, VictimLast, FailoversCounted
<1>4. CASE Finalize
  BY <1>1, <1>4, FinalizeStep DEF CountInv, CopyCurrent, VictimLast, FailoversCounted
<1>5. CASE Apply \/ Ask \/ Answer \/ Manifest
  BY <1>5, AskKeepsCopy DEF CountInv, CopyCurrent, VictimLast, FailoversCounted
<1>6. CASE ApplyFails
  <2> DEFINE obj == [op.obj EXCEPT !.phase = "Failed", !.degraded = TRUE]
  <2>1. op.pc = "apply" /\ UNCHANGED <<cluster, over, uncounted>>
    BY <1>6 DEF ApplyFails, Others, Stored
  <2>2. op' = [op EXCEPT !.pc = "write", !.obj = obj]
    BY <1>1, <1>6 DEF ApplyFails, Ops
  <2>3. obj.failoverCount = op.obj.failoverCount
    BY <1>1, CountUpdates
  <2> HIDE DEF obj
  <2>4. /\ op'.pc = "write" /\ op'.fresh = op.fresh /\ op'.victim = op.victim
        /\ op'.obj.failoverCount = op.obj.failoverCount
    BY <1>1, <2>2, <2>3 DEF Ops
  <2> QED
    BY <2>1, <2>4 DEF CountInv, CopyCurrent, VictimLast, FailoversCounted
<1>7. CASE AutoFailover \/ NoFailover
  <2>1. /\ op.victim = {} /\ op'.pc = "write" /\ op'.fresh = op.fresh /\ UNCHANGED cluster
    BY <1>7, FailoverSteps DEF CountInv, VictimLast, Stored
  <2>2. CASE /\ UNCHANGED <<over, uncounted>>
             /\ op'.victim = {} /\ op'.obj.failoverCount = op.obj.failoverCount
    BY <2>1, <2>2 DEF CountInv, CopyCurrent, VictimLast, FailoversCounted
  <2>3. ASSUME NEW o \in Ordinals,
               over' = over \cup {o}, uncounted' = uncounted \cup {o},
               op'.victim = {o}, op'.obj.failoverCount = op.obj.failoverCount + 1
        PROVE  CopyCurrent' /\ VictimLast' /\ FailoversCounted'
    <3>1. CopyCurrent' /\ VictimLast'
      BY <1>1, <2>1, <2>3 DEF CountInv, CopyCurrent, VictimLast
    <3>2. over' \ uncounted' \in SUBSET (over \ uncounted) /\ over \ uncounted \in SUBSET Ordinals
      BY <1>1, <2>3
    <3>3. /\ Cardinality(over \ uncounted) \in Nat /\ Cardinality(over' \ uncounted') \in Nat
          /\ Cardinality(over' \ uncounted') <= Cardinality(over \ uncounted)
      BY <3>2, CountSets
    <3> QED
      BY <1>1, <2>1, <3>1, <3>3 DEF CountInv, FailoversCounted
  <2> QED
    BY <1>7, <2>2, <2>3, FailoverSteps
<1>8. CASE ReturnEarly \/ WriteStatus \/ LoseStatus
  <2>1. op' = IdleOp /\ UNCHANGED over
    BY <1>1, <1>8, EndSteps
  <2>2. CopyCurrent' /\ VictimLast'
    BY <2>1, EmptyTypes DEF CopyCurrent, VictimLast
  <2>3. CASE UNCHANGED <<cluster, uncounted>>
    BY <2>1, <2>2, <2>3 DEF CountInv, FailoversCounted
  <2>4. CASE op.fresh /\ cluster' = op.obj /\ uncounted' = uncounted \ op.victim
    <3>1. CASE op.victim = {} /\ op.obj.failoverCount = cluster.failoverCount
      <4>1. uncounted' = uncounted
        BY <2>4, <3>1
      <4> QED
        BY <2>1, <2>2, <2>4, <3>1, <4>1 DEF CountInv, FailoversCounted
    <3>2. ASSUME NEW o \in Ordinals, op.victim = {o},
                 op.obj.failoverCount = cluster.failoverCount + 1
          PROVE  FailoversCounted'
      <4>1. /\ over' \ uncounted' \in SUBSET ((over \ uncounted) \cup {o})
            /\ over \ uncounted \in SUBSET Ordinals
        BY <1>1, <2>1, <2>4, <3>2
      <4>2. /\ Cardinality(over \ uncounted) \in Nat /\ Cardinality(over' \ uncounted') \in Nat
            /\ Cardinality(over' \ uncounted') <= Cardinality(over \ uncounted) + 1
        BY <4>1, CountSets
      <4>3. cluster'.failoverCount = cluster.failoverCount + 1
        BY <2>4, <3>2
      <4> QED
        BY <1>1, <4>2, <4>3 DEF CountInv, FailoversCounted
    <3> QED
      BY <2>2, <2>4, <3>1, <3>2 DEF CountInv, CopyCurrent
  <2> QED
    BY <1>1, <1>8, <2>3, <2>4, EndSteps
<1>9. ASSUME NEW o \in Ordinals,
             \/ NodeFails(o) \/ NodeStarts(o) \/ NodeRecovers(o) \/ PodGone(o) \/ StsCreate(o)
             \/ NodeLosesFiles(o) \/ NodeCatchesUp(o)
      PROVE  CopyCurrent' /\ VictimLast' /\ FailoversCounted'
  <2>1. UNCHANGED <<cluster, op>> /\ over' \ uncounted' \in SUBSET (over \ uncounted)
    BY <1>9, NodeSteps DEF Operator
  <2>2. over \ uncounted \in SUBSET Ordinals
    BY <1>1
  <2>3. /\ Cardinality(over \ uncounted) \in Nat /\ Cardinality(over' \ uncounted') \in Nat
        /\ Cardinality(over' \ uncounted') <= Cardinality(over \ uncounted)
    BY <2>1, <2>2, CountSets
  <2>4. FailoversCounted'
    BY <1>1, <2>1, <2>3 DEF CountInv, FailoversCounted
  <2> QED
    BY <2>1, <2>4 DEF CountInv, CopyCurrent, VictimLast
<1>10. CASE Tick
  BY <1>10, TickStep DEF CountInv, CopyCurrent, VictimLast, FailoversCounted
<1>11. CASE CacheSync
  BY <1>11, SyncStep DEF CountInv, CopyCurrent, VictimLast, FailoversCounted
<1>12. CASE EditSpec \/ TogglePause \/ Delete
  BY <1>12, EditSteps DEF CountInv, CopyCurrent, VictimLast, FailoversCounted
<1> QED
  BY <1>2, <1>3, <1>4, <1>5, <1>6, <1>7, <1>8, <1>9, <1>10, <1>11, <1>12 DEF Next, OperatorStep

\* What a reconcile, its members and the user leave behind is well formed, for
\* every number of replicas and choice of faults; failoverCount never exceeds
\* maxFailoverCount (handleAutoFailover, updateStatus).
THEOREM TypeCorrect == Spec => []TypeOK
<1>1. HealthInv => TypeOK
  BY DEF HealthInv
<1> QED
  BY <1>1, HealthInvariant, PTL

\* Every pod that is down because of a failover is in the stored count, but for
\* those whose own status write was refused, lost or is still to come, for every
\* number of replicas and every fault: edits, lost writes and old copies in the
\* cache never take back what was counted (handleAutoFailover, updateStatus).
THEOREM FailoversAlwaysCounted == Spec => []FailoversCounted
<1>1. Init => CopyCurrent /\ VictimLast /\ FailoversCounted
  <2> SUFFICES ASSUME Init PROVE CopyCurrent /\ VictimLast /\ FailoversCounted
    OBVIOUS
  <2>1. over \ uncounted = {} /\ cluster.failoverCount = 0
    BY EmptyTypes DEF Init
  <2>2. FailoversCounted
    BY <2>1, FS_EmptySet DEF FailoversCounted
  <2> QED
    BY <2>2, EmptyTypes DEF Init, CopyCurrent, VictimLast
<1>2. /\ HealthInv /\ CacheCurrent /\ CopyCurrent /\ VictimLast /\ FailoversCounted /\ [Next]_vars
      => CopyCurrent' /\ VictimLast' /\ FailoversCounted'
  BY CountStep DEF CountInv
<1> QED
  BY <1>1, <1>2, HealthInvariant, PTL DEF Spec

=============================================================================
