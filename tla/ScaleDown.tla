------------------------------ MODULE ScaleDown ------------------------------
(***************************************************************************)
(* Scaling a HyperbyteDB cluster: HyperbytedbClusterReconciler.Reconcile   *)
(* restricted to runScaleDownClusterHooks (evacuation and Raft voters),    *)
(* the StatefulSet's .spec.replicas, deleteStuckDepartedPods,              *)
(* CleanupOrphanPVCs and reconcileClusterMembership, with the database     *)
(* nodes, the StatefulSet controller and the volumes they act on           *)
(* (external).                                                             *)
(*                                                                         *)
(* One reconcile reads spec.replicas and the StatefulSet's replicas        *)
(* (Begin), asks the departing nodes and tells them to go (Evacuate),      *)
(* removes them from the Raft voters one by one (RemoveVoter), shrinks or  *)
(* grows the StatefulSet (ApplyReplicas) or, for another                   *)
(* podManagementPolicy, deletes it with its pods left running              *)
(* (DeleteForPolicy) for the next reconcile to create it anew              *)
(* (CreateStatefulSet), deletes stuck pods and volumes (CleanUp), asks     *)
(* every node for its view of the cluster (View), adds nodes one by one    *)
(* (AddNode) and writes ClusterFormed (EndReconcile). Everything outside   *)
(* the operator interleaves with these steps.                              *)
(*                                                                         *)
(* Abstractions: a node is its ordinal (node id - 1). Data is a set of     *)
(* regions and the nodes that hold a copy of each. LeaveNode only hints    *)
(* survivors and changes no state here. The StatefulSet is gone as soon as *)
(* it is deleted, and the one created next adopts its pods at once.        *)
(***************************************************************************)
EXTENDS Integers, FiniteSets

CONSTANTS
  MaxReplicas,   \* bound on spec.replicas
  Regions,       \* what the database stores
  MaxEdits,      \* bound on the edits of the user and the HPA
  MaxCut,        \* bound on the nodes cut off or replaced at a time
  Sharding,      \* spec.sharding.enabled: a single replica is a cluster too
  Together,      \* the evacuate-together annotation
  Faults         \* which of FaultKinds happen

\* "crash": the operator stops, or an API call fails, anywhere in a reconcile.
\* "restarting": a rolling restart makes the reconcile return after the
\* StatefulSet has been applied.
\* "cut": nodes become unreachable.
\* "policy": the user sets or removes the parallel-pods annotation.
\* "hpa": the HorizontalPodAutoscaler writes the StatefulSet's .spec.replicas.
\* "replaced": pods that are to stay are deleted, by a rolling restart, by
\* handleAutoFailover or by whoever drains their machine.
\* "midedit": edits come while an earlier one is still carried out.
FaultKinds == {"crash", "restarting", "cut", "policy", "hpa", "replaced", "midedit"}

ASSUME ConstantsAssumption ==
  /\ MaxReplicas \in Nat \ {0}
  /\ MaxEdits \in Nat
  /\ MaxCut \in Nat
  /\ Sharding \in BOOLEAN
  /\ Together \in BOOLEAN
  /\ Faults \subseteq FaultKinds

VARIABLES
  replicas,  \* the cluster's spec.replicas
  parallel,  \* the cluster's parallel-pods annotation
  edits,     \* how many edits the user and the HPA have made
  op,        \* the reconcile under way
  size,      \* the StatefulSet's .spec.replicas, 0 when there is no StatefulSet
  ordered,   \* its podManagementPolicy is OrderedReady
  pods,      \* the pods by ordinal
  ready,     \* which of them the kubelet has last found ready
  volume,    \* their volume claims
  state,     \* the nodes' state, as /health and /cluster/nodes report it
  copies,    \* the nodes that hold each region
  voters,    \* the Raft voters
  leader,    \* the Raft leader, or NoLeader
  formed,    \* the ClusterFormed condition in the cluster's status
  gone       \* history: nodes given up because they did not answer, until they
             \* answer the next time they are to depart, or rejoin

spec == <<replicas, parallel, edits>>

statefulSet == <<size, ordered>>

vars ==
  <<spec, op, statefulSet, pods, ready, volume, state, copies, voters, leader, formed, gone>>

Ordinals == 0 .. MaxReplicas - 1

NoLeader == -1

Sizes == 1 .. MaxReplicas

PCs == {"idle", "hooks", "voters", "apply", "cleanup", "views", "members"}

\* want, ordered: what the reconcile has read of the spec; prev: the StatefulSet's
\* size when it began; had: StatusReplicas, the pods the StatefulSet had when it
\* was updated; todo: what is left of the loop it is in; via: the leader it has
\* found; formed: the condition it is going to write.
OpTypes == [pc : PCs, want : Sizes, ordered : BOOLEAN, prev : 0 .. MaxReplicas,
            had : 0 .. MaxReplicas, todo : SUBSET Ordinals,
            via : Ordinals \cup {NoLeader}, formed : BOOLEAN]

TypeOK ==
  /\ replicas \in Sizes
  /\ parallel \in BOOLEAN
  /\ edits \in 0 .. MaxEdits
  /\ op \in OpTypes
  /\ size \in 0 .. MaxReplicas
  /\ ordered \in BOOLEAN
  /\ pods \in [Ordinals -> {"absent", "up", "cut", "terminating"}]
  /\ ready \in SUBSET Ordinals
  /\ volume \in [Ordinals -> {"none", "bound", "deleting"}]
  /\ state \in [Ordinals -> {"new", "active", "decommissioning", "leaving"}]
  /\ copies \in [Regions -> SUBSET Ordinals]
  /\ voters \in SUBSET Ordinals
  /\ leader \in Ordinals \cup {NoLeader}
  /\ formed \in BOOLEAN
  /\ gone \in SUBSET Ordinals

IdleOp == [pc |-> "idle", want |-> 1, ordered |-> FALSE, prev |-> 0, had |-> 0,
           todo |-> {}, via |-> NoLeader, formed |-> FALSE]

-----------------------------------------------------------------------------
(* Helpers *)

Reachable(o) == pods[o] = "up"

\* isPodReady, for a pod that is there and not being deleted.
Ready(o) == pods[o] \in {"up", "cut"} /\ o \in ready

\* What the readiness probe will find: a node outside the voters keeps
\* campaigning and reports unready.
Serves(o) == pods[o] = "up" /\ o \in voters

Empty(o) == \A r \in Regions : o \notin copies[r]

Quorum == 2 * Cardinality({o \in voters : Reachable(o)}) > Cardinality(voters)

\* There is a leader that can commit a membership change.
LeaderWorks == leader \in voters /\ Reachable(leader) /\ Quorum

departed == {"leaving", "decommissioning"}

\* clusterEnabled, and podManagementPolicy for it.
clusterEnabled(n) == n > 1 \/ Sharding

podManagementPolicy(n) == clusterEnabled(n) /\ ~parallel

Settled ==
  /\ size = replicas
  /\ ordered = podManagementPolicy(replicas)
  /\ \A o \in Ordinals :
       IF o < replicas THEN Ready(o) /\ state[o] = "active" ELSE pods[o] = "absent"

-----------------------------------------------------------------------------
Init ==
  /\ replicas \in Sizes
  /\ parallel \in (IF "policy" \in Faults THEN BOOLEAN ELSE {FALSE})
  /\ edits = 0
  /\ op = IdleOp
  /\ size = replicas
  /\ ordered = podManagementPolicy(replicas)
  /\ pods = [o \in Ordinals |-> IF o < replicas THEN "up" ELSE "absent"]
  /\ ready = 0 .. replicas - 1
  /\ volume = [o \in Ordinals |-> IF o < replicas THEN "bound" ELSE "none"]
  /\ state = [o \in Ordinals |-> IF o < replicas THEN "active" ELSE "new"]
  /\ copies \in [Regions -> {{o} : o \in 0 .. replicas - 1}]
  /\ voters = 0 .. replicas - 1
  /\ leader = 0
  /\ formed = FALSE
  /\ gone = {}

-----------------------------------------------------------------------------
(* The operator *)

Begin ==
  /\ op.pc = "idle"
  /\ op' = [IdleOp EXCEPT !.pc = "hooks", !.want = replicas, !.prev = size,
                          !.ordered = podManagementPolicy(replicas), !.formed = formed]
  /\ UNCHANGED <<spec, statefulSet, pods, ready, volume, state, copies, voters, leader,
                formed, gone>>

\* Seeded fault of gate: a node that has been told counts as gone.
ToldIsGone(o) == Reachable(o) /\ state[o] \notin departed

\* departingNodeAction: a node gates the scale-down while it is reachable and
\* has not reported that it is done; it is told once.
gate(o) == Reachable(o) /\ state[o] # "leaving"

decommission(o) == gate(o) /\ state[o] # "decommissioning"

\* Seeded fault of Tell: the plan does not stop at the first node that gates.
TellAll(departing) == {o \in departing : decommission(o)}

\* departurePlan: highest ordinal first, one at a time unless together.
Tell(departing) ==
  {o \in departing : /\ decommission(o)
                     /\ Together \/ \A h \in departing : h > o => ~gate(h)}

\* Seeded fault of Departing: the lowest departing ordinal is left out.
OneTooFew(want, prev) == want + 1 .. prev - 1

Departing(want, prev) == want .. prev - 1

DecommissionNode(told) ==
  state' = [o \in Ordinals |-> IF o \in told THEN "decommissioning" ELSE state[o]]

\* runScaleDownClusterHooks up to the evacuation; telling a node is best effort.
Evacuate ==
  /\ op.pc = "hooks"
  /\ LET departing == Departing(op.want, op.prev)
         evacuated == \A o \in departing : ~gate(o)
     IN /\ \E told \in SUBSET Tell(departing) : DecommissionNode(told)
        /\ op' = IF evacuated THEN [op EXCEPT !.pc = "voters", !.todo = departing]
                 ELSE IdleOp
        /\ gone' = (gone \ {o \in departing : Reachable(o)})
                     \cup {o \in departing : evacuated /\ ~Reachable(o)}
  /\ UNCHANGED <<spec, statefulSet, pods, ready, volume, copies, voters, leader, formed>>

\* A removed leader steps down; a node that is no voter counts as removed.
RemoveClusterNode(o) ==
  /\ voters' = voters \ {o}
  /\ leader' = IF leader = o THEN NoLeader ELSE leader

\* Seeded fault of RemoveVoter: the lowest departing node goes first.
RemoveLowestFirst ==
  /\ op.pc = "voters"
  /\ LeaderWorks
  /\ \E o \in op.todo :
       /\ \A h \in op.todo : h >= o
       /\ RemoveClusterNode(o)
       /\ op' = [op EXCEPT !.todo = @ \ {o}]
  /\ UNCHANGED <<spec, statefulSet, pods, ready, volume, state, copies, formed, gone>>

\* removeDepartedVoters, highest first; the leader is looked up every time.
RemoveVoter ==
  /\ op.pc = "voters"
  /\ LeaderWorks
  /\ \E o \in op.todo :
       /\ \A h \in op.todo : h <= o
       /\ RemoveClusterNode(o)
       /\ op' = [op EXCEPT !.todo = @ \ {o}]
  /\ UNCHANGED <<spec, statefulSet, pods, ready, volume, state, copies, formed, gone>>

\* Seeded fault of HoldVoters: the removal is a hint like the others.
RemovalIsAHint ==
  /\ op.pc = "voters"
  /\ op.todo # {}
  /\ ~LeaderWorks
  /\ op' = [op EXCEPT !.todo = {}]
  /\ UNCHANGED <<spec, statefulSet, pods, ready, volume, state, copies, voters, leader,
                formed, gone>>

\* No leader is visible, or the removal fails: the scale-down is held.
HoldVoters ==
  /\ op.pc = "voters"
  /\ op.todo # {}
  /\ ~LeaderWorks
  /\ op' = IdleOp
  /\ UNCHANGED <<spec, statefulSet, pods, ready, volume, state, copies, voters, leader,
                formed, gone>>

VotersRemoved ==
  /\ op.pc = "voters"
  /\ op.todo = {}
  /\ op' = [op EXCEPT !.pc = "apply"]
  /\ UNCHANGED <<spec, statefulSet, pods, ready, volume, state, copies, voters, leader,
                formed, gone>>

\* How many pods the StatefulSet has.
StatusReplicas == Cardinality({o \in Ordinals : pods[o] # "absent"})

\* Seeded fault of ApplyReplicas: one replica more than asked for.
ApplyOneMore ==
  /\ op.pc = "apply"
  /\ size > 0 /\ ordered = op.ordered
  /\ size' = op.want + 1
  /\ op' = [op EXCEPT !.pc = "cleanup"]
  /\ UNCHANGED <<spec, ordered, pods, ready, volume, state, copies, voters, leader,
                formed, gone>>

\* reconcileStatefulSet for a StatefulSet that is there and can be updated in place.
ApplyReplicas ==
  /\ op.pc = "apply"
  /\ size > 0 /\ ordered = op.ordered
  /\ size' = op.want
  /\ op' = [op EXCEPT !.pc = "cleanup", !.had = StatusReplicas]
  /\ UNCHANGED <<spec, ordered, pods, ready, volume, state, copies, voters, leader,
                formed, gone>>

\* reconcileStatefulSet for another podManagementPolicy: the StatefulSet is deleted,
\* its pods are orphaned, and the reconcile ends (Recreating).
DeleteForPolicy ==
  /\ op.pc = "apply"
  /\ size > 0 /\ ordered # op.ordered
  /\ size' = 0
  /\ op' = IdleOp
  /\ UNCHANGED <<spec, ordered, pods, ready, volume, state, copies, voters, leader,
                formed, gone>>

\* reconcileStatefulSet when there is no StatefulSet: the new one has had no pods.
CreateStatefulSet ==
  /\ op.pc = "apply"
  /\ size = 0
  /\ size' = op.want
  /\ ordered' = op.ordered
  /\ op' = [op EXCEPT !.pc = "cleanup", !.had = 0]
  /\ UNCHANGED <<spec, pods, ready, volume, state, copies, voters, leader, formed, gone>>

\* Seeded fault of Stuck: the pods are left to the StatefulSet.
NeverStuck(o) == FALSE

\* deleteStuckDepartedPods: from .spec.replicas up to the number of pods the
\* StatefulSet has; unready, not being deleted.
Stuck(o) == o \in op.want .. op.had - 1 /\ pods[o] \in {"up", "cut"} /\ ~Ready(o)

\* deleteStuckDepartedPods, then CleanupOrphanPVCs for the ordinals that this
\* reconcile has taken away, in their order up to the first that fails (upTo); the
\* failure is only logged. A claim in use stays until its pod is gone.
CleanUp ==
  /\ op.pc = "cleanup"
  /\ pods' = [o \in Ordinals |-> IF Stuck(o) THEN "terminating" ELSE pods[o]]
  /\ \E upTo \in op.want .. MaxReplicas :
       /\ upTo = MaxReplicas \/ "crash" \in Faults
       /\ volume' = [o \in Ordinals |->
            IF o \in Departing(op.want, op.prev) /\ o < upTo /\ volume[o] = "bound"
            THEN "deleting" ELSE volume[o]]
  /\ op' = [op EXCEPT !.pc = IF op.want > 1 THEN "views" ELSE "members",
                      !.todo = {}, !.prev = 0, !.had = 0]
  /\ UNCHANGED <<spec, statefulSet, ready, state, copies, voters, leader, formed, gone>>

\* reconcileRollingRestart returns a requeue: the steps after it are left out.
ReturnForRestart ==
  /\ "restarting" \in Faults
  /\ op.pc = "cleanup"
  /\ pods' = [o \in Ordinals |-> IF Stuck(o) THEN "terminating" ELSE pods[o]]
  /\ op' = IdleOp
  /\ UNCHANGED <<spec, statefulSet, ready, volume, state, copies, voters, leader, formed, gone>>

\* A voter names the leader, whether that answers or not.
GetClusterLeader(o) == IF Reachable(o) /\ o \in voters THEN leader ELSE NoLeader

\* /cluster/nodes lists the voters: no learner is taken for a member.
GetClusterNodes(o) == IF Reachable(o) THEN voters ELSE {}

\* Some pod below spec.replicas names a leader that is one of them.
findLeader == \E o \in 0 .. op.want - 1 : GetClusterLeader(o) \in 0 .. op.want - 1

\* Seeded fault of knownIDs: whoever answers is taken for a member.
AnswersIsKnown == {o \in 0 .. op.want - 1 : Reachable(o)}

\* knownIDs: what the leader lists as members, departed ones left out, and the
\* leader itself.
knownIDs ==
  {leader} \cup {o \in GetClusterNodes(leader) : state[o] \notin departed}

Unknown == {o \in 0 .. op.want - 1 : Reachable(o)} \ knownIDs

AllMembers ==
  /\ \A o \in 0 .. op.want - 1 : Reachable(o)
  /\ Cardinality(knownIDs) >= op.want

\* reconcileClusterMembership up to its loop: which nodes answer, who leads and
\* whom the leader knows is read here and used in every round of the loop.
View ==
  /\ op.pc = "views"
  /\ op' = [op EXCEPT !.pc = "members", !.via = leader,
                      !.todo = IF findLeader THEN Unknown ELSE {},
                      !.formed = findLeader /\ AllMembers]
  /\ UNCHANGED <<spec, statefulSet, pods, ready, volume, state, copies, voters, leader,
                formed, gone>>

\* AddClusterNode: the node that was the leader must still be it (ErrNotLeader),
\* and reach the new node to make it a voter.
CanAdd(o) == LeaderWorks /\ leader = op.via /\ Reachable(o)

\* An accepted add-node makes a voter at once: the reconcile does not read
\* promoted_to_voter in the answer.
AddNode ==
  /\ op.pc = "members"
  /\ \E o \in op.todo :
       /\ \A l \in op.todo : o <= l
       /\ CanAdd(o)
       /\ voters' = voters \cup {o}
       /\ state' = [state EXCEPT ![o] = "active"]
       /\ gone' = gone \ {o}
       /\ op' = [op EXCEPT !.todo = @ \ {o}]
  /\ UNCHANGED <<spec, statefulSet, pods, ready, volume, copies, leader, formed>>

\* A node that cannot be added is passed over until the next reconcile.
AddNodeFails ==
  /\ op.pc = "members"
  /\ \E o \in op.todo :
       /\ \A l \in op.todo : o <= l
       /\ ~CanAdd(o)
       /\ op' = [op EXCEPT !.todo = @ \ {o}, !.formed = FALSE]
  /\ UNCHANGED <<spec, statefulSet, pods, ready, volume, state, copies, voters, leader,
                formed, gone>>

\* updateStatus writes the condition with the rest of the status.
EndReconcile ==
  /\ op.pc = "members"
  /\ op.todo = {}
  /\ formed' = op.formed
  /\ op' = IdleOp
  /\ UNCHANGED <<spec, statefulSet, pods, ready, volume, state, copies, voters, leader, gone>>

OperatorCrash ==
  /\ "crash" \in Faults
  /\ op.pc # "idle"
  /\ op' = IdleOp
  /\ UNCHANGED <<spec, statefulSet, pods, ready, volume, state, copies, voters, leader,
                formed, gone>>

OperatorStep ==
  \/ Begin \/ Evacuate \/ RemoveVoter \/ HoldVoters \/ VotersRemoved
  \/ ApplyReplicas \/ DeleteForPolicy \/ CreateStatefulSet \/ CleanUp
  \/ View \/ AddNode \/ AddNodeFails \/ EndReconcile

-----------------------------------------------------------------------------
(* The database nodes (external) *)

\* A copy moves to a node that stays, as far as the database knows; a
\* decommissioning node gives its copies away and takes none.
Move(r, from, to) ==
  /\ from \in copies[r] /\ to \notin copies[r]
  /\ Reachable(from) /\ Reachable(to)
  /\ state[from] \in {"active", "decommissioning"}
  /\ state[to] = "active"
  /\ copies' = [copies EXCEPT ![r] = (@ \ {from}) \cup {to}]
  /\ UNCHANGED <<spec, op, statefulSet, pods, ready, volume, state, voters, leader,
                formed, gone>>

\* A node that holds nothing any more reports that it is done.
Evacuated(o) ==
  /\ Reachable(o)
  /\ state[o] = "decommissioning"
  /\ Empty(o)
  /\ state' = [state EXCEPT ![o] = "leaving"]
  /\ UNCHANGED <<spec, op, statefulSet, pods, ready, volume, copies, voters, leader,
                formed, gone>>

Elect(o) ==
  /\ ~(leader \in voters /\ Reachable(leader))
  /\ Quorum
  /\ o \in voters /\ Reachable(o)
  /\ leader' = o
  /\ UNCHANGED <<spec, op, statefulSet, pods, ready, volume, state, copies, voters,
                formed, gone>>

-----------------------------------------------------------------------------
(* The StatefulSet controller and the volumes (external) *)

\* A pod starts on its old volume, with the state it left there, or on a new one.
StsCreate(o) ==
  /\ o < size
  /\ pods[o] = "absent"
  /\ volume[o] # "deleting"
  /\ ordered => \A l \in 0 .. o - 1 : Ready(l)
  /\ pods' = [pods EXCEPT ![o] = "up"]
  /\ volume' = [volume EXCEPT ![o] = "bound"]
  /\ UNCHANGED <<spec, op, statefulSet, ready, state, copies, voters, leader, formed, gone>>

\* Under OrderedReady the pods above .spec.replicas go highest first, once every
\* other pod is ready; the lowest unready pod may go when it is the one to go.
StsDelete(o) ==
  /\ size > 0 /\ o >= size
  /\ pods[o] \in {"up", "cut"}
  /\ ordered => /\ \A h \in Ordinals : h > o => pods[h] = "absent"
                /\ \A l \in 0 .. size - 1 : Ready(l)
                /\ Ready(o) \/ \A l \in size .. o - 1 : Ready(l) \/ pods[l] = "absent"
  /\ pods' = [pods EXCEPT ![o] = "terminating"]
  /\ UNCHANGED <<spec, op, statefulSet, ready, volume, state, copies, voters, leader,
                formed, gone>>

\* With its pod a volume that is to be deleted goes, and all that is on it.
PodGone(o) ==
  /\ pods[o] = "terminating"
  /\ pods' = [pods EXCEPT ![o] = "absent"]
  /\ UNCHANGED <<spec, op, statefulSet, ready, volume, state, copies, voters, leader,
                formed, gone>>

VolumeGone(o) ==
  /\ volume[o] = "deleting"
  /\ pods[o] = "absent"
  /\ volume' = [volume EXCEPT ![o] = "none"]
  /\ state' = [state EXCEPT ![o] = "new"]
  /\ copies' = [r \in Regions |-> copies[r] \ {o}]
  /\ UNCHANGED <<spec, op, statefulSet, pods, ready, voters, leader, formed, gone>>

\* The kubelet's readiness probe.
Probe(o) ==
  /\ Serves(o) # (o \in ready)
  /\ ready' = IF Serves(o) THEN ready \cup {o} ELSE ready \ {o}
  /\ UNCHANGED <<spec, op, statefulSet, pods, volume, state, copies, voters, leader,
                formed, gone>>

\* The nodes that are away for a while: cut off, or their pod is being replaced.
Away ==
  {o \in Ordinals : pods[o] = "cut" \/ (o < size /\ pods[o] # "up" /\ volume[o] # "none")}

Cut(o) ==
  /\ "cut" \in Faults
  /\ Cardinality(Away) < MaxCut
  /\ pods[o] = "up"
  /\ pods' = [pods EXCEPT ![o] = "cut"]
  /\ UNCHANGED <<spec, op, statefulSet, ready, volume, state, copies, voters, leader,
                formed, gone>>

Heal(o) ==
  /\ pods[o] = "cut"
  /\ pods' = [pods EXCEPT ![o] = "up"]
  /\ UNCHANGED <<spec, op, statefulSet, ready, volume, state, copies, voters, leader,
                formed, gone>>

\* A pod that is to stay is deleted; StsCreate brings it back.
Evict(o) ==
  /\ "replaced" \in Faults
  /\ Cardinality(Away \ {o}) < MaxCut
  /\ pods[o] \in {"up", "cut"}
  /\ pods' = [pods EXCEPT ![o] = "terminating"]
  /\ UNCHANGED <<spec, op, statefulSet, ready, volume, state, copies, voters, leader,
                formed, gone>>

MayEdit == edits < MaxEdits /\ (Settled \/ "midedit" \in Faults)

EditReplicas ==
  /\ MayEdit
  /\ replicas' \in Sizes \ {replicas}
  /\ edits' = edits + 1
  /\ UNCHANGED <<parallel, op, statefulSet, pods, ready, volume, state, copies, voters,
                leader, formed, gone>>

TogglePolicy ==
  /\ "policy" \in Faults
  /\ MayEdit
  /\ parallel' = ~parallel
  /\ edits' = edits + 1
  /\ UNCHANGED <<replicas, op, statefulSet, pods, ready, volume, state, copies, voters,
                leader, formed, gone>>

\* The autoscaler's target is the StatefulSet, not the cluster (reconcileHPA).
HpaScales ==
  /\ "hpa" \in Faults
  /\ MayEdit
  /\ size > 0
  /\ size' \in Sizes \ {size}
  /\ edits' = edits + 1
  /\ UNCHANGED <<replicas, parallel, op, ordered, pods, ready, volume, state, copies,
                voters, leader, formed, gone>>

NodeStep ==
  \E o \in Ordinals :
    \/ \E r \in Regions, to \in Ordinals : Move(r, o, to)
    \/ Evacuated(o) \/ Elect(o)

StsStep ==
  \E o \in Ordinals : StsCreate(o) \/ StsDelete(o) \/ PodGone(o) \/ VolumeGone(o) \/ Probe(o)

Next ==
  \/ OperatorStep \/ ReturnForRestart \/ OperatorCrash
  \/ NodeStep \/ StsStep
  \/ \E o \in Ordinals : Cut(o) \/ Heal(o) \/ Evict(o)
  \/ EditReplicas \/ TogglePolicy \/ HpaScales

Spec == Init /\ [][Next]_vars

Leaves(r, o) ==
  state[o] = "decommissioning" /\ \E to \in Ordinals : Move(r, o, to)

AllTold == \A o \in Tell(Departing(op.want, op.prev)) : state'[o] = "decommissioning"

\* The work queue keeps reconciling and gets past the rolling restart; calls to
\* the departing nodes go through now and then; nodes evacuate and elect a leader;
\* the StatefulSet controller and the kubelet act.
Fairness ==
  /\ WF_vars(OperatorStep)
  /\ SF_vars(CleanUp) /\ SF_vars(Evacuate /\ AllTold)
  /\ \A o \in Ordinals :
       /\ \A r \in Regions : WF_vars(Leaves(r, o))
       /\ WF_vars(Evacuated(o)) /\ WF_vars(Elect(o))
       /\ WF_vars(StsCreate(o)) /\ WF_vars(StsDelete(o))
       /\ WF_vars(PodGone(o)) /\ WF_vars(VolumeGone(o))
       /\ WF_vars(Heal(o)) /\ WF_vars(Probe(o))

FairSpec == Spec /\ Fairness

-----------------------------------------------------------------------------
(* Properties *)

\* Every Raft voter belongs to the StatefulSet: .spec.replicas shrinks only once
\* removeDepartedVoters has taken out every departing node, and
\* reconcileClusterMembership adds none of them back, whatever is lost between. A
\* StatefulSet is deleted to be created anew only around a cluster of one voter.
VotersBelong == voters \subseteq 0 .. (IF size = 0 THEN 1 ELSE size) - 1

\* A voter's volume is never lost under it, so no node comes back with an empty
\* disk while the leader still holds its progress ("openraft does not support that
\* (log reversion)", runScaleDownClusterHooks).
LogNeverReverts == [][\A o \in Ordinals : VolumeGone(o) => o \notin voters]_vars

\* A volume that is to be deleted holds nothing from the moment the claim is
\* deleted, and nothing comes back to it while its pod lives on.
DeletedVolumesEmpty == \A o \in Ordinals : volume[o] = "deleting" => Empty(o)

\* No volume disappears with data on it, unless its node did not answer when it
\* was taken away: the evacuation gate, the shrink and CleanupOrphanPVCs lose
\* nothing, whichever of them a crash or an edit comes between.
NoDataDestroyed ==
  [][\A o \in Ordinals : VolumeGone(o) => Empty(o) \/ o \in gone]_vars

\* departurePlan: one at a time, a node is told only once every departing node
\* above it has released its regions.
OneAtATime ==
  [][\A o \in Ordinals :
       /\ Evacuate
       /\ state[o] # "decommissioning" /\ state'[o] = "decommissioning"
       => \A h \in o + 1 .. op.prev - 1 : Empty(h)]_vars

\* A node outside the StatefulSet owns no regions ("Returns false while any departing
\* node still owns regions"), unless it did not answer when it was taken away.
OutsideIsEmpty ==
  size > 0 => \A o \in size .. MaxReplicas - 1 : Empty(o) \/ o \in gone

\* ClusterFormed turns true ("All expected nodes are raft members") only when every
\* node of the reconcile is a voter, although it is concluded from views that are
\* older than the additions the same reconcile has made.
FormedMeansMembers ==
  [][~formed /\ formed' => 0 .. op.want - 1 \subseteq voters]_vars

\* The Raft group and the StatefulSet as everybody else may rely on them.
Group == INSTANCE Membership WITH size <- IF size = 0 THEN 1 ELSE size

\* ScaleDown implements Membership: through crashes, unreachable nodes and edits the
\* voters join below the size, leave from the top, one at a time, never the
\* first, and the StatefulSet is resized around them.
ImplementsMembership == Group!Spec

\* The cluster ends up as the spec asks once the user stops editing: the pods,
\* the voters and the volumes of spec.replicas nodes, and no others (but for
\* volumes of pods that the HPA started and that never joined), under the policy
\* asked for, and the status says so.
ScaleSettles ==
  <>[](/\ Settled
       /\ voters = 0 .. replicas - 1
       /\ replicas > 1 => formed
       /\ \A o \in Ordinals :
            IF o < replicas THEN volume[o] = "bound"
            ELSE volume[o] = "none" \/ state[o] = "new")
=============================================================================
