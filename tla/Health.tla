-------------------------------- MODULE Health --------------------------------
(***************************************************************************)
(* What a reconcile of a cluster says about it and does for its health:    *)
(* HyperbytedbClusterReconciler.Reconcile as a whole (pause, deletion,     *)
(* finalizer, the steps that may fail or return early), with               *)
(* CollectMemberStatuses, monitorReplicationHealth, handleAutoFailover,    *)
(* updateStatus and setFailedStatus. The nodes, their pods and the user are external.       *)
(*                                                                         *)
(* A reconcile reads the cluster from the informer's cache (Begin),        *)
(* applies its objects (Apply), asks the members one after the other for   *)
(* their health (Ask, Answer) and their files (Manifest), fails one over   *)
(* (AutoFailover) and stores the status (WriteStatus): Status().Update     *)
(* fails unless the copy that was read is still the stored one, and nobody *)
(* looks at its error.                                                     *)
(*                                                                         *)
(* Abstractions: time is only kept where it is compared with the failover  *)
(* timeout: how old a member's reading is, counted up to Timeout.          *)
(* spec.replicas is fixed. Members and the Available condition repeat what *)
(* was read; a member that joins is treated as one that syncs. Nodes       *)
(* report their state in either case; "warn" stands for "fail", too.       *)
(***************************************************************************)
EXTENDS Integers, FiniteSets, FiniteSetsExt

CONSTANTS
  Replicas,      \* spec.replicas
  Timeout,       \* failoverTimeoutSecs, in ticks
  MaxFailovers,  \* maxFailoverCount
  Enabled,       \* failover.enabled
  MaxEdits,      \* bound on the user's edits of the cluster
  MaxFails,      \* bound on the failures of nodes
  FileCounts,    \* how many parquet files a node may hold
  IntMax,        \* the largest int32
  Faults         \* which of FaultKinds happen

\* "error": a step of the reconcile, or an API call, fails.
\* "busy": a scale-down, a rolling restart or a conflict ends it early.
\* "lost": a status write fails, or the operator stops before it.
\* "slow": calls to the members time out, and the reconcile takes long.
\* "stale": the informer's cache takes a while to hear of a write.
FaultKinds == {"error", "busy", "lost", "slow", "stale"}

ASSUME HealthAssumption ==
  /\ Replicas \in Nat \ {0} /\ Timeout \in Nat \ {0}
  /\ MaxFailovers \in Nat \ {0} /\ Enabled \in BOOLEAN
  /\ MaxEdits \in Nat /\ MaxFails \in Nat
  /\ FileCounts \in SUBSET Nat /\ IsFiniteSet(FileCounts) /\ FileCounts # {} /\ IntMax \in Nat
  /\ Faults \subseteq FaultKinds

VARIABLES
  cluster,  \* the HyperbytedbCluster in the API
  cached,   \* the informer's copy of it
  synced,   \* whether that copy is of the stored version
  edits,    \* how many edits the user has made
  op,       \* the reconcile under way: its step, its copy of the cluster, its readings
  nodes,    \* the database nodes' health
  pods,     \* their pods
  fails,    \* how many failures there have been
  files,    \* how many parquet files each node lists in its manifest
  over,     \* the pods that were failed over and are not back yet
  uncounted \* history: the ones among them whose count has not been stored

vars == <<cluster, cached, synced, edits, op, nodes, pods, fails, files, over, uncounted>>

Ordinals == 0 .. Replicas - 1

Phases == {"Pending", "Initializing", "Running", "Upgrading", "Failed"}

\* "Unknown" until a reconcile gets as far as the members.
ClusterStates == {"Unknown", "Healthy", "Recovering", "Degraded", "Unavailable"}

\* "Unknown" until a reconcile compares the manifests, too.
ReplicationStates == {"Unknown", "Healthy", "Lagging", "Diverged"}

\* spec.paused, deletionTimestamp, the finalizer; then the status: phase, the
\* conditions Degraded and Paused, clusterState, replicationState, failoverCount.
Clusters ==
  [exists : BOOLEAN, paused : BOOLEAN, deleting : BOOLEAN, finalizer : BOOLEAN,
   phase : Phases, degraded : BOOLEAN, told : BOOLEAN, clusterState : ClusterStates,
   replicationState : ReplicationStates, failoverCount : 0 .. MaxFailovers]

\* "starting" and "hung" nodes do not answer; only the latter stay that way.
NodeStates == {"active", "Syncing", "syncing", "warn", "starting", "hung"}

Reports == {"none", "asked", "active", "Syncing", "syncing", "warn", "Unreachable"}

Ops ==
  [pc : {"idle", "apply", "collect", "compare", "failover", "write"}, obj : Clusters,
   fresh : BOOLEAN, ready : BOOLEAN, seen : [Ordinals -> Reports],
   age : [Ordinals -> 0 .. Timeout], polled : 0 .. Replicas, counts : SUBSET Int,
   answers : 0 .. Replicas, victim : SUBSET Ordinals]

TypeOK ==
  /\ cluster \in Clusters /\ cached \in Clusters /\ synced \in BOOLEAN
  /\ edits \in 0 .. MaxEdits
  /\ op \in Ops
  /\ nodes \in [Ordinals -> NodeStates]
  /\ pods \in [Ordinals -> {"up", "terminating", "absent"}]
  /\ fails \in 0 .. MaxFails
  /\ files \in [Ordinals -> FileCounts]
  /\ over \in SUBSET Ordinals /\ uncounted \in SUBSET Ordinals

NewCluster ==
  [exists |-> TRUE, paused |-> FALSE, deleting |-> FALSE, finalizer |-> FALSE,
   phase |-> "Pending", degraded |-> FALSE, told |-> FALSE, clusterState |-> "Unknown",
   replicationState |-> "Unknown", failoverCount |-> 0]

IdleOp ==
  [pc |-> "idle", obj |-> NewCluster, fresh |-> FALSE, ready |-> FALSE,
   seen |-> [o \in Ordinals |-> "none"], age |-> [o \in Ordinals |-> 0],
   polled |-> 0, counts |-> {}, answers |-> 0, victim |-> {}]

Init ==
  /\ cluster = NewCluster /\ cached = NewCluster /\ synced = TRUE
  /\ edits = 0 /\ fails = 0
  /\ op = IdleOp
  /\ nodes = [o \in Ordinals |-> "starting"]
  /\ files = [o \in Ordinals |-> Max(FileCounts)]
  /\ pods = [o \in Ordinals |-> "up"]
  /\ over = {} /\ uncounted = {}

-----------------------------------------------------------------------------
(* The operator *)

World == <<edits, nodes, fails, files>>

Others == <<pods, over, uncounted>>

Stored == <<cluster, cached, synced>>

\* A write to the API; the cache hears of it at once, or later.
Store(obj) ==
  /\ cluster' = obj
  /\ \/ cached' = obj /\ synced' = TRUE
     \/ "stale" \in Faults /\ cached' = cached /\ synced' = FALSE

\* The finalizer is added at once, if the copy is current: else the Update is
\* refused, and tried again later. Its answer replaces the copy, and with it the
\* removal of the Paused condition.
Begin ==
  /\ op.pc = "idle"
  /\ cached.exists /\ ~cached.paused /\ ~cached.deleting
  /\ \/ /\ cached.finalizer
        /\ op' = [IdleOp EXCEPT !.pc = "apply", !.fresh = synced,
                    !.obj = [cached EXCEPT !.told = FALSE]]
        /\ UNCHANGED Stored
     \/ /\ ~cached.finalizer /\ synced
        /\ Store([cached EXCEPT !.finalizer = TRUE])
        /\ op' = [IdleOp EXCEPT !.pc = "apply", !.fresh = TRUE, !.obj = cluster']
  /\ UNCHANGED World /\ UNCHANGED Others

\* The pause check comes first, and only says so.
SkipPaused ==
  /\ op.pc = "idle"
  /\ cached.exists /\ cached.paused /\ ~cached.told
  /\ op' = [IdleOp EXCEPT !.pc = "write", !.fresh = synced,
              !.obj = [cached EXCEPT !.told = TRUE]]
  /\ UNCHANGED Stored /\ UNCHANGED World /\ UNCHANGED Others

\* Seeded fault of MayFinalize: a failed cluster keeps its finalizer.
FinalizeUnlessFailed == ~cached.paused /\ cached.phase # "Failed"

MayFinalize == ~cached.paused

\* Deletion: with the finalizer the cluster goes.
Finalize ==
  /\ op.pc = "idle"
  /\ cached.exists /\ cached.deleting
  /\ MayFinalize
  /\ synced
  /\ Store([cached EXCEPT !.exists = FALSE])
  /\ UNCHANGED op /\ UNCHANGED World /\ UNCHANGED Others

\* setFailedStatus
ApplyFails ==
  /\ "error" \in Faults
  /\ op.pc = "apply"
  /\ op' = [op EXCEPT !.pc = "write", !.obj.phase = "Failed", !.obj.degraded = TRUE]
  /\ UNCHANGED Stored /\ UNCHANGED World /\ UNCHANGED Others

ReturnEarly ==
  /\ "busy" \in Faults
  /\ op.pc = "apply"
  /\ op' = IdleOp
  /\ UNCHANGED Stored /\ UNCHANGED World /\ UNCHANGED Others

AllReady == \A o \in Ordinals : pods[o] = "up" /\ nodes[o] = "active"

\* The steps up to the member statuses; ReadyReplicas is read on the way.
Apply ==
  /\ op.pc = "apply"
  /\ op' = [op EXCEPT !.pc = "collect", !.ready = AllReady]
  /\ UNCHANGED Stored /\ UNCHANGED World /\ UNCHANGED Others

\* GetNodeHealth
Report(o) ==
  IF pods[o] # "up" \/ nodes[o] \in {"starting", "hung"} THEN "Unreachable" ELSE nodes[o]

\* CollectMemberStatuses: in the order of the ordinals. LastTransitionTime is
\* taken before the member is asked, and it may be long until it answers.
Ask ==
  /\ op.pc = "collect"
  /\ \E o \in Ordinals :
       /\ op.seen[o] = "none"
       /\ \A l \in 0 .. o - 1 : op.seen[l] \notin {"none", "asked"}
       /\ op' = [op EXCEPT !.seen[o] = "asked"]
  /\ UNCHANGED Stored /\ UNCHANGED World /\ UNCHANGED Others

\* Of readings that may be of different moments.
DeriveClusterState(seen) ==
  LET healthy == {o \in Ordinals : seen[o] = "active"}
      syncing == {o \in Ordinals : seen[o] \in {"Syncing", "syncing"}}
  IN IF healthy = Ordinals THEN "Healthy"
     ELSE IF healthy \cup syncing = Ordinals THEN "Recovering"
     ELSE IF healthy # {} THEN "Degraded"
     ELSE "Unavailable"

Answer ==
  /\ op.pc = "collect"
  /\ \E o \in Ordinals :
       /\ op.seen[o] = "asked"
       /\ LET seen == [op.seen EXCEPT ![o] = Report(o)]
          IN op' = IF o < Replicas - 1 THEN [op EXCEPT !.seen = seen]
                   ELSE [op EXCEPT !.seen = seen,
                                   !.pc = IF Replicas > 1 THEN "compare" ELSE "failover",
                                   !.obj.clusterState = DeriveClusterState(seen)]
  /\ UNCHANGED Stored /\ UNCHANGED World /\ UNCHANGED Others

\* Go's integers: products wrap around, quotients are cut towards zero.
Int32(n) == ((n + IntMax + 1) % (2 * IntMax + 2)) - (IntMax + 1)

Quotient(a, b) == IF a >= 0 THEN a \div b ELSE -((-a) \div b)

\* monitorReplicationHealth: how far apart the counts are.
Gap(counts) ==
  LET most == Max(counts)
      least == Min(counts)
  IN IF most > 0 /\ least < Quotient(most, 2) THEN "Diverged"
     ELSE IF most > 0 /\ least < Quotient(Int32(most * 8), 10) THEN "Lagging"
     ELSE "Healthy"

\* Seeded fault of ReplicationState: one answer is compared with itself.
ComparesOne(counts, answers) == IF answers < 1 THEN "Unknown" ELSE Gap(counts)

\* Of the different counts and the number of answers.
ReplicationState(counts, answers) == IF answers < 2 THEN "Unknown" ELSE Gap(counts)

\* The number of files the node lists, cut to an int32, if it answers.
GetSyncManifest(o) == IF Report(o) = "Unreachable" THEN {} ELSE {Int32(files[o])}

\* The manifests are asked for in the order of the ordinals; a member that does
\* not answer is left out.
Manifest ==
  /\ op.pc = "compare"
  /\ LET o == op.polled
         counts == op.counts \cup GetSyncManifest(o)
         answers == op.answers + Cardinality(GetSyncManifest(o))
     IN op' = IF o < Replicas - 1
                THEN [op EXCEPT !.polled = o + 1, !.counts = counts, !.answers = answers]
                ELSE [op EXCEPT !.pc = "failover", !.polled = 0, !.counts = {}, !.answers = 0,
                        !.obj.replicationState = ReplicationState(counts, answers)]
  /\ UNCHANGED Stored /\ UNCHANGED World /\ UNCHANGED Others

\* FindUnhealthyMembers, without the ones that are to be given time.
Unhealthy(o) == op.seen[o] \notin {"active", "Syncing"}

\* Seeded fault of Spent: one failover too many.
SpentLater == op.obj.failoverCount > MaxFailovers

Spent == op.obj.failoverCount >= MaxFailovers

\* handleAutoFailover: the first member whose reading is old enough and whose
\* pod is there, being deleted or not.
Candidate(o) ==
  /\ Enabled /\ ~Spent
  /\ Unhealthy(o)
  /\ op.age[o] >= Timeout
  /\ pods[o] # "absent"

Chosen(o) == Candidate(o) /\ \A l \in 0 .. o - 1 : ~Candidate(l)

\* Seeded fault of NextPhase: a Failed phase is kept even when all is ready.
FailedStays(phase) ==
  CASE phase = "Failed" -> {"Failed"}
    [] op.ready         -> {"Running"}
    [] OTHER            -> {"Upgrading", "Initializing"}

\* updateStatus: Running when every replica was ready; else a Failed phase is
\* kept, and the StatefulSet's revisions tell an upgrade from a start.
NextPhase(phase) ==
  CASE op.ready         -> {"Running"}
    [] phase = "Failed" -> {"Failed"}
    [] OTHER            -> {"Upgrading", "Initializing"}

Conclude(count, victim) ==
  \E p \in NextPhase(op.obj.phase) :
    op' = [IdleOp EXCEPT !.pc = "write", !.fresh = op.fresh, !.victim = victim,
             !.obj = [op.obj EXCEPT !.phase = p, !.degraded = FALSE, !.failoverCount = count]]

\* One pod is deleted and counted, at most.
AutoFailover ==
  /\ op.pc = "failover"
  /\ \E o \in Ordinals :
       /\ Chosen(o)
       /\ pods' = [pods EXCEPT ![o] = "terminating"]
       /\ over' = over \cup {o}
       /\ uncounted' = uncounted \cup {o}
       /\ Conclude(op.obj.failoverCount + 1, {o})
  /\ UNCHANGED Stored /\ UNCHANGED World

\* There is none to fail over, or the pod could not be deleted.
NoFailover ==
  /\ op.pc = "failover"
  /\ "error" \in Faults \/ \A o \in Ordinals : ~Candidate(o)
  /\ Conclude(op.obj.failoverCount, {})
  /\ UNCHANGED Stored /\ UNCHANGED World /\ UNCHANGED Others

\* Seeded fault of Accepted: a status is stored whatever has been since it was read.
AlwaysAccepted == TRUE

\* The API server compares the copy's resourceVersion with the stored one.
Accepted == op.fresh

WriteStatus ==
  /\ op.pc = "write"
  /\ \/ /\ Accepted
        /\ Store(op.obj)
        /\ uncounted' = uncounted \ op.victim
     \/ ~Accepted /\ UNCHANGED Stored /\ UNCHANGED uncounted
  /\ op' = IdleOp
  /\ UNCHANGED World /\ UNCHANGED <<pods, over>>

LoseStatus ==
  /\ "lost" \in Faults
  /\ op.pc = "write"
  /\ op' = IdleOp
  /\ UNCHANGED Stored /\ UNCHANGED World /\ UNCHANGED Others

OperatorStep ==
  \/ Begin \/ SkipPaused \/ Finalize \/ Apply \/ Ask \/ Answer \/ Manifest
  \/ AutoFailover \/ NoFailover \/ WriteStatus

-----------------------------------------------------------------------------
(* The API server's watch, the nodes and their pods (external) *)

Operator == <<cluster, cached, synced, edits, op>>

\* The informer hears of the writes it had missed.
CacheSync ==
  /\ ~synced
  /\ cached' = cluster /\ synced' = TRUE
  /\ UNCHANGED <<cluster, op>> /\ UNCHANGED World /\ UNCHANGED Others

NodeMoves(o, to) ==
  /\ pods[o] = "up"
  /\ nodes' = [nodes EXCEPT ![o] = to]
  /\ over' = IF to = "active" THEN over \ {o} ELSE over
  /\ uncounted' = uncounted \cap over'
  /\ UNCHANGED Operator /\ UNCHANGED <<pods, files>>

NodeFails(o) ==
  /\ fails < MaxFails
  /\ nodes[o] = "active"
  /\ fails' = fails + 1
  /\ \E to \in {"hung", "Syncing", "syncing", "warn"} : NodeMoves(o, to)

NodeStarts(o) ==
  nodes[o] \in {"starting", "Syncing", "syncing", "warn"} /\ NodeMoves(o, "active") /\ UNCHANGED fails

NodeRecovers(o) == nodes[o] = "hung" /\ NodeMoves(o, "active") /\ UNCHANGED fails

PodGone(o) ==
  /\ pods[o] = "terminating"
  /\ pods' = [pods EXCEPT ![o] = "absent"]
  /\ UNCHANGED Operator /\ UNCHANGED <<nodes, fails, files, over, uncounted>>

StsCreate(o) ==
  /\ pods[o] = "absent"
  /\ pods' = [pods EXCEPT ![o] = "up"]
  /\ nodes' = [nodes EXCEPT ![o] = "starting"]
  /\ UNCHANGED Operator /\ UNCHANGED <<fails, files, over, uncounted>>

\* A node comes back from a lost volume or an older copy of it, with fewer files.
NodeLosesFiles(o) ==
  /\ fails < MaxFails
  /\ pods[o] = "up" /\ nodes[o] = "active"
  /\ fails' = fails + 1
  /\ \E n \in FileCounts : n < files[o] /\ files' = [files EXCEPT ![o] = n]
  /\ UNCHANGED Operator /\ UNCHANGED <<nodes, pods, over, uncounted>>

\* It fetches some of the files it misses.
NodeCatchesUp(o) ==
  /\ pods[o] = "up" /\ nodes[o] = "active"
  /\ \E n \in FileCounts : n > files[o] /\ files' = [files EXCEPT ![o] = n]
  /\ UNCHANGED Operator /\ UNCHANGED <<nodes, pods, fails, over, uncounted>>

Older(t) == IF t < Timeout THEN t + 1 ELSE t

\* Time passes between reconciles, and in the middle of a slow one.
Tick ==
  /\ op.pc = "idle" \/ "slow" \in Faults
  /\ op' = [op EXCEPT !.age = [o \in Ordinals |->
              IF op.seen[o] = "none" THEN 0 ELSE Older(op.age[o])]]
  /\ op' # op
  /\ UNCHANGED Stored /\ UNCHANGED World /\ UNCHANGED Others

-----------------------------------------------------------------------------
(* The user *)

Edit(obj) ==
  /\ edits < MaxEdits
  /\ cluster.exists
  /\ edits' = edits + 1
  /\ Store(obj)
  /\ op' = [op EXCEPT !.fresh = FALSE]
  /\ UNCHANGED <<nodes, fails, files>> /\ UNCHANGED Others

EditSpec == Edit(cluster)

TogglePause == Edit([cluster EXCEPT !.paused = ~@])

Delete ==
  /\ ~cluster.deleting
  /\ Edit([cluster EXCEPT !.deleting = TRUE, !.exists = cluster.finalizer])

Next ==
  \/ OperatorStep \/ ApplyFails \/ ReturnEarly \/ LoseStatus
  \/ \E o \in Ordinals :
       NodeFails(o) \/ NodeStarts(o) \/ NodeRecovers(o) \/ PodGone(o) \/ StsCreate(o)
       \/ NodeLosesFiles(o) \/ NodeCatchesUp(o)
  \/ Tick \/ CacheSync
  \/ EditSpec \/ TogglePause \/ Delete

Spec == Init /\ [][Next]_vars

\* Reconcile is asked for again after 30 seconds at the latest; errors, early
\* returns and lost writes do not go on for ever, and not for ever in just those
\* reconciles whose copy is current; the cache catches up; nodes that start or
\* sync get there; a hung node need not recover.
Fairness ==
  /\ WF_vars(OperatorStep) /\ SF_vars(Apply /\ op.fresh)
  /\ SF_vars(WriteStatus /\ op.fresh) /\ SF_vars(WriteStatus /\ op.fresh /\ ~op.obj.degraded)
  /\ WF_vars(Tick) /\ WF_vars(CacheSync)
  /\ \A o \in Ordinals : WF_vars(NodeStarts(o)) /\ WF_vars(PodGone(o)) /\ WF_vars(StsCreate(o))

FairSpec == Spec /\ Fairness

-----------------------------------------------------------------------------
(* Properties *)

\* The status comes true again after everything that failed or was lost on the
\* way: no Degraded condition outlives the errors, Paused is there while the
\* cluster is paused, and the phase is Running and clusterState Healthy exactly
\* when all is ready (updateStatus, setFailedStatus, DeriveClusterState; "set
\* back to False once a reconcile completes").
StatusRecovers ==
  []<>(cluster.exists =>
         /\ cluster.told = cluster.paused
         /\ ~cluster.paused /\ ~cluster.deleting =>
              /\ ~cluster.degraded
              /\ (cluster.phase = "Running") = AllReady
              /\ (cluster.clusterState = "Healthy") = AllReady)

\* What replicationState should say of the nodes as they are, give or take a file.
ReplicationTrue ==
  LET answering == {o \in Ordinals : Report(o) # "Unreachable"}
      counts == {files[o] : o \in answering}
      most == Max(counts)
      least == Min(counts)
  IN IF Cardinality(answering) < 2 THEN cluster.replicationState = "Unknown"
     ELSE /\ 2 * (least + 1) <= most => cluster.replicationState = "Diverged"
          /\ 5 * (least + 1) <= 4 * most => cluster.replicationState # "Healthy"
          /\ 5 * least >= 4 * most => cluster.replicationState = "Healthy"

\* The replication state comes true again, although it is compared from
\* manifests of different moments and stored by writes that may be lost: no
\* verdict is kept for nodes that do not answer, a node that misses more than half
\* of the files is Diverged, one that misses more than a fifth is not Healthy, and
\* one that misses less is (monitorReplicationHealth).
ReplicationReported ==
  []<>(cluster.exists /\ ~cluster.paused /\ ~cluster.deleting => ReplicationTrue)

\* A deleted cluster that is not kept paused loses its finalizer, even when its
\* reconciles had been failing.
DeletionEnds == <>[](cluster.deleting /\ ~cluster.paused => ~cluster.exists)

\* Every pod that is down because handleAutoFailover deleted it is in the stored
\* failoverCount, which a reconcile with an older copy never takes back: only those
\* are missing whose own status write was refused, lost or is still to come. So
\* maxFailoverCount bounds the pods that are down, but for the writes whose error
\* updateStatus drops.
FailoversCounted == Cardinality(over \ uncounted) <= cluster.failoverCount

\* "Maximum number of simultaneous failovers": no more pods than that are down at
\* a time because handleAutoFailover deleted them.
FailoversBounded == Cardinality(over) <= MaxFailovers

\* "automatic failure detection and recovery": a node that hangs is replaced, or
\* recovers, as long as there are failovers left.
FailoverHappens ==
  \A o \in Ordinals :
    nodes[o] = "hung" /\ ~cluster.paused /\ cluster.failoverCount < MaxFailovers
    ~> nodes[o] # "hung" \/ cluster.paused \/ cluster.failoverCount >= MaxFailovers
=============================================================================
