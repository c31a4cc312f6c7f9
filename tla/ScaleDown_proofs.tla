--------------------------- MODULE ScaleDown_proofs ---------------------------
(***************************************************************************)
(* Theorems about ScaleDown, for every number of replicas, set of regions, *)
(* number of edits and combination of faults; the ones about the voters    *)
(* and the data are for an operator that alone decides on the StatefulSet, *)
(* the ones about volumes for edits that come one after another.           *)
(***************************************************************************)
EXTENDS ScaleDown, FiniteSetTheorems, TLAPS

\* Nobody else writes the StatefulSet's size, and the user leaves the pod
\* management policy to spec.replicas and spec.sharding.
OperatorDecides == "hpa" \notin Faults /\ "policy" \notin Faults

\* The policy, the StatefulSet's and the reconcile's, is then the size's.
PolicyFollowsSize ==
  /\ OperatorDecides
  /\ ~parallel
  /\ size > 0 => (ordered <=> clusterEnabled(size))
  /\ op.pc # "idle" => (op.ordered <=> clusterEnabled(op.want))

\* Until the StatefulSet is applied the reconcile knows its size.
KnowsSize == op.pc \in {"hooks", "voters", "apply"} => op.prev = size

\* removeDepartedVoters has taken out every departing node it is past.
Removing ==
  op.pc = "voters" =>
    /\ voters \cap Departing(op.want, op.prev) \subseteq op.todo
    /\ op.todo \subseteq Departing(op.want, op.prev)

\* The StatefulSet shrinks only once no voter departs with it.
Removed == op.pc = "apply" => voters \subseteq 0 .. op.want - 1

\* From then on the reconcile adds nodes of the new size only.
Applied ==
  op.pc \in {"cleanup", "views", "members"} =>
    op.want = size /\ (op.pc = "members" => op.todo \subseteq 0 .. size - 1)

\* The inductive invariant behind VotersBelong.
VotersInv ==
  /\ TypeOK
  /\ PolicyFollowsSize
  /\ VotersBelong
  /\ KnowsSize
  /\ Removing
  /\ Removed
  /\ Applied

-----------------------------------------------------------------------------
\* What is kept between two reconciles is a reconcile's state.
LEMMA IdleOpType == IdleOp \in OpTypes
<1>1. 1 \in Sizes /\ 0 \in 0 .. MaxReplicas
  BY ConstantsAssumption DEF Sizes
<1> QED
  BY <1>1 DEF IdleOp, OpTypes, PCs

\* The initial states are well typed.
LEMMA TypeInit == Init => TypeOK
<1> SUFFICES ASSUME Init PROVE TypeOK
  OBVIOUS
<1>1. replicas \in Sizes /\ size \in 0 .. MaxReplicas /\ op \in OpTypes
  BY IdleOpType, ConstantsAssumption DEF Init, Sizes
<1>5. parallel \in BOOLEAN /\ ordered \in BOOLEAN
  BY DEF Init, podManagementPolicy
<1>2. 0 .. replicas - 1 \in SUBSET Ordinals
  BY <1>1, ConstantsAssumption DEF Ordinals, Sizes
<1>3. copies \in [Regions -> SUBSET Ordinals]
  BY <1>2 DEF Init
<1>4. 0 \in Ordinals /\ 0 \in 0 .. MaxEdits
  BY ConstantsAssumption DEF Ordinals
<1> QED
  BY <1>1, <1>2, <1>3, <1>4, <1>5 DEF Init, TypeOK

\* There are at most as many pods as ordinals.
LEMMA PodsCounted == StatusReplicas \in 0 .. MaxReplicas
<1>1. IsFiniteSet(Ordinals) /\ Cardinality(Ordinals) = MaxReplicas
  BY ConstantsAssumption, FS_Interval DEF Ordinals
<1>2. {o \in Ordinals : pods[o] # "absent"} \subseteq Ordinals
  OBVIOUS
<1> QED
  BY <1>1, <1>2, FS_Subset, FS_CardinalityType, ConstantsAssumption DEF StatusReplicas

\* Every step of the operator keeps the types.
LEMMA OperatorType ==
  ASSUME TypeOK, OperatorStep \/ ReturnForRestart \/ OperatorCrash
  PROVE  TypeOK'
<1>1. op \in OpTypes
  BY DEF TypeOK
<1>2. /\ op.want \in Sizes /\ op.prev \in 0 .. MaxReplicas /\ op.todo \in SUBSET Ordinals
      /\ op.ordered \in BOOLEAN
  BY <1>1 DEF OpTypes
<1>3. Departing(op.want, op.prev) \in SUBSET Ordinals /\ 0 .. op.want - 1 \in SUBSET Ordinals
  BY <1>2, ConstantsAssumption DEF Departing, Sizes, Ordinals
<1>4. CASE Begin
  <2>1. op' \in OpTypes
    BY <1>4, IdleOpType DEF Begin, TypeOK, OpTypes, PCs, podManagementPolicy
  <2> QED
    BY <1>4, <2>1 DEF Begin, TypeOK, spec, statefulSet
<1>5. CASE Evacuate
  <2>1. op' \in OpTypes
    BY <1>5, <1>1, <1>3, IdleOpType DEF Evacuate, OpTypes, PCs
  <2>2. PICK told : state' = [o \in Ordinals |->
                                IF o \in told THEN "decommissioning" ELSE state[o]]
    BY <1>5 DEF Evacuate, DecommissionNode
  <2>3. state' \in [Ordinals -> {"new", "active", "decommissioning", "leaving"}]
    BY <2>2 DEF TypeOK
  <2>4. gone' \in SUBSET Ordinals
    BY <1>5, <1>3 DEF Evacuate, TypeOK
  <2> QED
    BY <1>5, <2>1, <2>3, <2>4 DEF Evacuate, TypeOK, spec, statefulSet
<1>6. CASE RemoveVoter
  <2>1. PICK o \in op.todo : /\ voters' = voters \ {o}
                             /\ leader' = IF leader = o THEN NoLeader ELSE leader
                             /\ op' = [op EXCEPT !.todo = @ \ {o}]
    BY <1>6 DEF RemoveVoter, RemoveClusterNode
  <2>2. op' \in OpTypes
    BY <2>1, <1>1 DEF OpTypes
  <2> QED
    BY <1>6, <2>1, <2>2 DEF RemoveVoter, TypeOK, spec, statefulSet
<1>7. CASE HoldVoters \/ EndReconcile \/ OperatorCrash
  <2>1. op.formed \in BOOLEAN
    BY <1>1 DEF OpTypes
  <2> QED
    BY <1>7, <2>1, IdleOpType DEF HoldVoters, EndReconcile, OperatorCrash, TypeOK, spec, statefulSet
<1>8. CASE VotersRemoved
  <2>1. op' \in OpTypes
    BY <1>8, <1>1 DEF VotersRemoved, OpTypes, PCs
  <2> QED
    BY <1>8, <2>1 DEF VotersRemoved, TypeOK, spec, statefulSet
<1>9. CASE ApplyReplicas
  <2>1. StatusReplicas \in 0 .. MaxReplicas
    BY PodsCounted
  <2>2. op' \in OpTypes
    BY <1>9, <1>1, <2>1 DEF ApplyReplicas, OpTypes, PCs
  <2>3. size' \in 0 .. MaxReplicas
    BY <1>9, <1>2 DEF ApplyReplicas, Sizes
  <2> QED
    BY <1>9, <2>2, <2>3 DEF ApplyReplicas, TypeOK, spec
<1>15. CASE DeleteForPolicy
  <2>1. 0 \in 0 .. MaxReplicas
    BY ConstantsAssumption
  <2> QED
    BY <1>15, <2>1, IdleOpType DEF DeleteForPolicy, TypeOK, spec
<1>16. CASE CreateStatefulSet
  <2>1. 0 \in 0 .. MaxReplicas
    BY ConstantsAssumption
  <2>2. op' \in OpTypes
    BY <1>16, <1>1, <2>1 DEF CreateStatefulSet, OpTypes, PCs
  <2>3. size' \in 0 .. MaxReplicas
    BY <1>16, <1>2 DEF CreateStatefulSet, Sizes
  <2> QED
    BY <1>16, <1>2, <2>2, <2>3 DEF CreateStatefulSet, TypeOK, spec
<1>10. CASE CleanUp
  <2>1. op' \in OpTypes
    <3>1. 0 \in 0 .. MaxReplicas /\ {} \in SUBSET Ordinals
      BY ConstantsAssumption
    <3> QED
      BY <1>10, <1>1, <3>1 DEF CleanUp, OpTypes, PCs
  <2>2. /\ pods' \in [Ordinals -> {"absent", "up", "cut", "terminating"}]
        /\ volume' \in [Ordinals -> {"none", "bound", "deleting"}]
    BY <1>10 DEF CleanUp, TypeOK
  <2> QED
    BY <1>10, <2>1, <2>2 DEF CleanUp, TypeOK, spec, statefulSet
<1>11. CASE ReturnForRestart
  <2>1. pods' \in [Ordinals -> {"absent", "up", "cut", "terminating"}]
    BY <1>11 DEF ReturnForRestart, TypeOK
  <2> QED
    BY <1>11, <2>1, IdleOpType DEF ReturnForRestart, TypeOK, spec, statefulSet
<1>12. CASE View
  <2> DEFINE todo == IF findLeader THEN Unknown ELSE {}
  <2>1. todo \subseteq 0 .. op.want - 1 /\ (findLeader /\ AllMembers) \in BOOLEAN
    BY DEF Unknown
  <2>2. leader \in Ordinals \cup {NoLeader}
    BY DEF TypeOK
  <2>3. op' \in OpTypes
    BY <1>12, <2>1, <2>2, <1>1, <1>3 DEF View, OpTypes, PCs
  <2> QED
    BY <1>12, <2>3 DEF View, TypeOK, spec, statefulSet
<1>13. CASE AddNode
  <2>1. PICK o \in op.todo : /\ op' = [op EXCEPT !.todo = @ \ {o}]
                             /\ voters' = voters \cup {o}
                             /\ state' = [state EXCEPT ![o] = "active"]
    BY <1>13 DEF AddNode
  <2>2. op' \in OpTypes
    BY <2>1, <1>1 DEF OpTypes
  <2>3. voters' \in SUBSET Ordinals
    BY <2>1, <1>2 DEF TypeOK
  <2>4. state' \in [Ordinals -> {"new", "active", "decommissioning", "leaving"}]
    BY <2>1 DEF TypeOK
  <2>5. gone' \in SUBSET Ordinals
    BY <1>13 DEF AddNode, TypeOK
  <2> QED
    BY <1>13, <2>2, <2>3, <2>4, <2>5 DEF AddNode, TypeOK, spec, statefulSet
<1>14. CASE AddNodeFails
  <2>1. PICK o \in op.todo : op' = [op EXCEPT !.todo = @ \ {o}, !.formed = FALSE]
    BY <1>14 DEF AddNodeFails
  <2>2. op' \in OpTypes
    BY <2>1, <1>1 DEF OpTypes
  <2> QED
    BY <1>14, <2>2 DEF AddNodeFails, TypeOK, spec, statefulSet
<1> QED
  BY <1>4, <1>5, <1>6, <1>7, <1>8, <1>9, <1>10, <1>11, <1>12, <1>13, <1>14,
     <1>15, <1>16 DEF OperatorStep

\* What is outside the operator.
Environment ==
  \/ NodeStep \/ StsStep \/ EditReplicas \/ TogglePolicy \/ HpaScales
  \/ \E o \in Ordinals : Cut(o) \/ Heal(o) \/ Evict(o)

\* So does everything outside the operator.
LEMMA EnvironmentType ==
  ASSUME TypeOK, Environment
  PROVE  TypeOK'
<1>1. ASSUME NEW r \in Regions, NEW o \in Ordinals, NEW to \in Ordinals, Move(r, o, to)
      PROVE  TypeOK'
  BY <1>1 DEF Move, TypeOK, spec, statefulSet
<1>2. ASSUME NEW o \in Ordinals, Evacuated(o) \/ Elect(o) PROVE TypeOK'
  BY <1>2 DEF Evacuated, Elect, TypeOK, spec, statefulSet
<1>3. ASSUME NEW o \in Ordinals,
             \/ StsCreate(o) \/ StsDelete(o) \/ PodGone(o) \/ Probe(o)
             \/ Cut(o) \/ Heal(o) \/ Evict(o)
      PROVE  TypeOK'
  BY <1>3 DEF StsCreate, StsDelete, PodGone, Cut, Heal, Evict, Probe, TypeOK, spec, statefulSet
<1>4. ASSUME NEW o \in Ordinals, VolumeGone(o) PROVE TypeOK'
  BY <1>4 DEF VolumeGone, TypeOK, spec, statefulSet
<1>5. CASE EditReplicas \/ TogglePolicy \/ HpaScales
  <2>1. edits' \in 0 .. MaxEdits
    BY <1>5, ConstantsAssumption DEF EditReplicas, TogglePolicy, HpaScales, MayEdit, TypeOK
  <2>2. size' \in 0 .. MaxReplicas
    BY <1>5 DEF EditReplicas, TogglePolicy, HpaScales, TypeOK, statefulSet, Sizes
  <2> QED
    BY <1>5, <2>1, <2>2 DEF EditReplicas, TogglePolicy, HpaScales, TypeOK, statefulSet
<1> QED
  BY <1>1, <1>2, <1>3, <1>4, <1>5 DEF Environment, NodeStep, StsStep

\* Every step keeps the types.
LEMMA TypeStep == TypeOK /\ [Next]_vars => TypeOK'
<1> SUFFICES ASSUME TypeOK, [Next]_vars PROVE TypeOK'
  OBVIOUS
<1>1. CASE UNCHANGED vars
  BY <1>1 DEF vars, spec, statefulSet, TypeOK
<1>2. CASE Next
  BY <1>2, OperatorType, EnvironmentType DEF Next, Environment
<1> QED
  BY <1>1, <1>2

\* Every reachable state of the operator, the StatefulSet, the nodes and the
\* volumes is well formed.
THEOREM TypeCorrect == Spec => []TypeOK
BY TypeInit, TypeStep, PTL DEF Spec

-----------------------------------------------------------------------------
(* The voters belong to the StatefulSet *)

\* Initially the voters are the pods of the StatefulSet, and no reconcile runs.
LEMMA VotersInit == OperatorDecides /\ Init => VotersInv
<1> SUFFICES ASSUME OperatorDecides, Init PROVE VotersInv
  OBVIOUS
<1>1. op.pc = "idle" /\ size \in Nat \ {0}
  BY ConstantsAssumption DEF Init, IdleOp, Sizes
<1>2. VotersBelong
  BY <1>1 DEF Init, VotersBelong
<1>3. ~parallel
  BY DEF Init, OperatorDecides
<1>4. PolicyFollowsSize
  BY <1>1, <1>3 DEF Init, PolicyFollowsSize, podManagementPolicy
<1> QED
  BY <1>1, <1>2, <1>4, TypeInit DEF VotersInv, KnowsSize, Removing, Removed, Applied

\* Steps outside the operator touch neither the voters nor the StatefulSet.
LEMMA FrameKeeps ==
  ASSUME VotersInv, UNCHANGED <<parallel, op, size, ordered, voters>>, TypeOK'
  PROVE  VotersInv'
BY DEF VotersInv, PolicyFollowsSize, VotersBelong, KnowsSize, Removing, Removed, Applied,
       Departing, clusterEnabled

\* A reconcile that ends leaves nothing to be kept but the policy and VotersBelong.
LEMMA IdleKeeps ==
  ASSUME VotersInv, op' = IdleOp, UNCHANGED <<parallel, size, ordered, voters>>, TypeOK'
  PROVE  VotersInv'
<1>1. op'.pc = "idle"
  BY DEF IdleOp
<1> QED
  BY <1>1 DEF VotersInv, PolicyFollowsSize, VotersBelong, KnowsSize, Removing, Removed,
              Applied, clusterEnabled

\* The policy follows the size through every step of the operator.
LEMMA PolicyKeeps ==
  ASSUME VotersInv, OperatorStep \/ ReturnForRestart \/ OperatorCrash
  PROVE  PolicyFollowsSize'
<1> USE DEF clusterEnabled
<1>1. op \in OpTypes /\ PolicyFollowsSize /\ parallel' = parallel
  BY DEF VotersInv, TypeOK, OperatorStep, ReturnForRestart, OperatorCrash, Begin, Evacuate,
         RemoveVoter, HoldVoters, VotersRemoved, ApplyReplicas, DeleteForPolicy,
         CreateStatefulSet, CleanUp, View, AddNode, AddNodeFails, EndReconcile, spec
<1>2. CASE op' = IdleOp /\ (size' = 0 \/ UNCHANGED statefulSet)
  BY <1>1, <1>2 DEF PolicyFollowsSize, IdleOp, statefulSet
<1>3. CASE Begin
  <2>1. op'.want = replicas /\ op'.ordered = podManagementPolicy(replicas)
    BY <1>3 DEF Begin, IdleOp
  <2> QED
    BY <1>1, <1>3, <2>1 DEF Begin, PolicyFollowsSize, podManagementPolicy, statefulSet
<1>4. CASE /\ UNCHANGED statefulSet
           /\ op.pc # "idle" /\ op'.want = op.want /\ op'.ordered = op.ordered
  BY <1>1, <1>4 DEF PolicyFollowsSize, statefulSet
<1>5. CASE ApplyReplicas \/ CreateStatefulSet
  <2>1. /\ op.pc # "idle" /\ op'.want = op.want /\ op'.ordered = op.ordered
        /\ size' = op.want /\ ordered' = op.ordered
    BY <1>1, <1>5 DEF ApplyReplicas, CreateStatefulSet, OpTypes
  <2> QED
    BY <1>1, <2>1 DEF PolicyFollowsSize
<1>6. CASE Evacuate
  BY <1>1, <1>2, <1>4, <1>6 DEF Evacuate, OpTypes
<1>7. CASE RemoveVoter \/ AddNode \/ AddNodeFails
  BY <1>1, <1>4, <1>7 DEF RemoveVoter, AddNode, AddNodeFails, OpTypes
<1>8. CASE VotersRemoved \/ CleanUp \/ View
  BY <1>1, <1>4, <1>8 DEF VotersRemoved, CleanUp, View, OpTypes
<1>9. CASE HoldVoters \/ EndReconcile \/ OperatorCrash \/ ReturnForRestart \/ DeleteForPolicy
  BY <1>2, <1>9 DEF HoldVoters, EndReconcile, OperatorCrash, ReturnForRestart, DeleteForPolicy
<1> QED
  BY <1>3, <1>5, <1>6, <1>7, <1>8, <1>9 DEF OperatorStep

\* A StatefulSet is deleted for its policy only around a single voter: of the two
\* sizes, before and after, one is 1.
LEMMA DeletedAroundOne ==
  ASSUME VotersInv, DeleteForPolicy
  PROVE  voters \subseteq 0 .. 0
<1>1. op.want \in Nat /\ size \in Nat /\ size > 0 /\ op.want > 0
  BY ConstantsAssumption DEF VotersInv, TypeOK, OpTypes, Sizes, DeleteForPolicy
<1>2. size = 1 \/ op.want = 1
  BY <1>1 DEF VotersInv, PolicyFollowsSize, DeleteForPolicy, TypeOK, OpTypes, clusterEnabled
<1>3. voters \subseteq 0 .. op.want - 1 /\ voters \subseteq 0 .. size - 1
  BY <1>1 DEF VotersInv, Removed, VotersBelong, DeleteForPolicy
<1> QED
  BY <1>2, <1>3

\* The operator: Begin reads the size, RemoveVoter takes the departing voters out
\* one by one, ApplyReplicas shrinks once none is left, AddNode stays below.
LEMMA OperatorKeeps ==
  ASSUME VotersInv, OperatorStep \/ ReturnForRestart \/ OperatorCrash, TypeOK'
  PROVE  VotersInv'
<1>1. op \in OpTypes /\ size \in 0 .. MaxReplicas
  BY DEF VotersInv, TypeOK
<1>2. op.want \in Nat /\ op.want > 0 /\ op.prev \in Nat /\ size \in Nat
  BY <1>1, ConstantsAssumption DEF OpTypes, Sizes
<1>0. PolicyFollowsSize'
  BY PolicyKeeps
<1>3. CASE Begin
  <2>1. op'.pc = "hooks" /\ op'.prev = size /\ UNCHANGED <<size, voters>>
    BY <1>3 DEF Begin, IdleOp, statefulSet
  <2> QED
    BY <1>0, <2>1 DEF VotersInv, VotersBelong, KnowsSize, Removing, Removed, Applied
<1>4. CASE Evacuate
  <2>1. UNCHANGED <<parallel, size, ordered, voters>> /\ op.pc = "hooks"
    BY <1>4 DEF Evacuate, spec, statefulSet
  <2>2. CASE op' = IdleOp
    BY <2>1, <2>2, IdleKeeps
  <2>3. CASE op' = [op EXCEPT !.pc = "voters", !.todo = Departing(op.want, op.prev)]
    <3>1. /\ op'.pc = "voters" /\ op'.want = op.want /\ op'.prev = op.prev
          /\ op'.todo = Departing(op.want, op.prev)
      BY <2>3, <1>1 DEF OpTypes
    <3> QED
      BY <1>0, <2>1, <3>1
         DEF VotersInv, VotersBelong, KnowsSize, Removing, Removed, Applied, Departing
  <2> QED
    BY <1>4, <2>2, <2>3 DEF Evacuate
<1>5. CASE RemoveVoter
  <2>1. PICK o \in op.todo : voters' = voters \ {o} /\ op' = [op EXCEPT !.todo = @ \ {o}]
    BY <1>5 DEF RemoveVoter, RemoveClusterNode
  <2>2. op'.pc = op.pc /\ op'.want = op.want /\ op'.prev = op.prev /\ op'.todo = op.todo \ {o}
    BY <2>1, <1>1 DEF OpTypes
  <2>3. op.pc = "voters" /\ size' = size
    BY <1>5 DEF RemoveVoter, statefulSet
  <2> QED
    BY <1>0, <2>1, <2>2, <2>3
       DEF VotersInv, VotersBelong, KnowsSize, Removing, Removed, Applied, Departing
<1>6. CASE HoldVoters \/ EndReconcile \/ OperatorCrash \/ ReturnForRestart
  BY <1>6, IdleKeeps
     DEF HoldVoters, EndReconcile, OperatorCrash, ReturnForRestart, spec, statefulSet
<1>7. CASE VotersRemoved
  <2>1. /\ op.pc = "voters" /\ op.todo = {} /\ UNCHANGED <<size, voters>>
        /\ op'.pc = "apply" /\ op'.want = op.want /\ op'.prev = op.prev
    BY <1>7, <1>1 DEF VotersRemoved, OpTypes, statefulSet
  <2>2. /\ voters \subseteq 0 .. (IF op.prev = 0 THEN 1 ELSE op.prev) - 1
        /\ voters \cap Departing(op.want, op.prev) = {}
    BY <2>1 DEF VotersInv, VotersBelong, KnowsSize, Removing
  <2>3. voters \subseteq 0 .. op.want - 1
    BY <1>2, <2>2 DEF Departing
  <2> QED
    BY <1>0, <2>1, <2>3 DEF VotersInv, VotersBelong, KnowsSize, Removing, Removed, Applied
<1>8. CASE ApplyReplicas \/ CreateStatefulSet
  <2>1. /\ op.pc = "apply" /\ size' = op.want /\ voters' = voters
        /\ op'.pc = "cleanup" /\ op'.want = op.want
    BY <1>8, <1>1 DEF ApplyReplicas, CreateStatefulSet, OpTypes
  <2>2. voters \subseteq 0 .. size' - 1 /\ size' # 0
    BY <1>2, <2>1 DEF VotersInv, Removed
  <2> QED
    BY <1>0, <2>1, <2>2 DEF VotersInv, VotersBelong, KnowsSize, Removing, Removed, Applied
<1>12. CASE DeleteForPolicy
  <2>1. op'.pc = "idle" /\ size' = 0 /\ voters' = voters
    BY <1>12 DEF DeleteForPolicy, IdleOp
  <2>2. VotersBelong'
    BY <1>12, <2>1, DeletedAroundOne DEF VotersBelong
  <2> QED
    BY <1>0, <2>1, <2>2 DEF VotersInv, KnowsSize, Removing, Removed, Applied
<1>9. CASE CleanUp
  <2>1. /\ op.pc = "cleanup" /\ UNCHANGED <<size, voters>>
        /\ op'.pc \in {"views", "members"} /\ op'.want = op.want /\ op'.todo = {}
    BY <1>9, <1>1 DEF CleanUp, OpTypes, statefulSet
  <2> QED
    BY <1>0, <2>1 DEF VotersInv, VotersBelong, KnowsSize, Removing, Removed, Applied
<1>10. CASE View
  <2>1. (IF findLeader THEN Unknown ELSE {}) \subseteq 0 .. op.want - 1
    BY DEF Unknown
  <2>2. op'.pc = "members" /\ op'.want = op.want /\ op'.todo \subseteq 0 .. op.want - 1
    BY <1>10, <2>1, <1>1 DEF View, OpTypes
  <2>3. op.pc = "views" /\ UNCHANGED <<size, voters>>
    BY <1>10 DEF View, statefulSet
  <2> QED
    BY <1>0, <2>2, <2>3 DEF VotersInv, VotersBelong, KnowsSize, Removing, Removed, Applied
<1>11. CASE AddNode \/ AddNodeFails
  <2>1. PICK o \in op.todo :
          /\ \/ op' = [op EXCEPT !.todo = @ \ {o}]
             \/ op' = [op EXCEPT !.todo = @ \ {o}, !.formed = FALSE]
          /\ voters' = voters \cup {o} \/ voters' = voters
    BY <1>11 DEF AddNode, AddNodeFails
  <2>2. op'.pc = op.pc /\ op'.want = op.want /\ op'.todo = op.todo \ {o}
    BY <2>1, <1>1 DEF OpTypes
  <2>3. op.pc = "members" /\ size' = size
    BY <1>11 DEF AddNode, AddNodeFails, statefulSet
  <2>4. op.want = size /\ size # 0
    BY <1>2, <2>3 DEF VotersInv, Applied
  <2> QED
    BY <1>0, <2>1, <2>2, <2>3, <2>4
       DEF VotersInv, VotersBelong, KnowsSize, Removing, Removed, Applied
<1> QED
  BY <1>3, <1>4, <1>5, <1>6, <1>7, <1>8, <1>9, <1>10, <1>11, <1>12 DEF OperatorStep

\* What is outside the operator leaves the voters, the StatefulSet and the
\* annotation alone when the operator decides on them.
LEMMA EnvironmentFrame ==
  ASSUME OperatorDecides, Environment
  PROVE  UNCHANGED <<parallel, op, size, ordered, voters, formed>>
BY DEF OperatorDecides, Environment, NodeStep, Move, Evacuated, Elect, StsStep, StsCreate,
       StsDelete, PodGone, VolumeGone, Probe, Cut, Heal, Evict, EditReplicas, TogglePolicy,
       HpaScales, spec, statefulSet

\* Every step preserves the inductive invariant.
LEMMA VotersStep == VotersInv /\ [Next]_vars => VotersInv'
<1> SUFFICES ASSUME VotersInv, [Next]_vars PROVE VotersInv'
  OBVIOUS
<1>1. TypeOK'
  BY TypeStep DEF VotersInv
<1>2. CASE UNCHANGED vars
  BY <1>1, <1>2, FrameKeeps DEF vars, spec, statefulSet
<1>3. CASE OperatorStep \/ ReturnForRestart \/ OperatorCrash
  BY <1>1, <1>3, OperatorKeeps
<1>4. CASE Environment
  BY <1>1, <1>4, EnvironmentFrame, FrameKeeps DEF VotersInv, PolicyFollowsSize
<1> QED
  BY <1>2, <1>3, <1>4 DEF Next, Environment

\* Whatever fails, and however often the user changes his mind, the StatefulSet
\* never shrinks below a Raft voter and no departed node is made a voter again.
THEOREM VotersAlwaysBelong == OperatorDecides /\ Spec => []VotersBelong
<1>1. VotersInv => VotersBelong
  BY DEF VotersInv
<1> QED
  BY <1>1, VotersInit, VotersStep, PTL DEF Spec

-----------------------------------------------------------------------------
(* ScaleDown implements Membership *)

\* RemoveVoter is a Leave of the highest voter, or nothing: every voter above the
\* highest departing node left is out already, and the first node never departs.
LEMMA RemoveIsLeave ==
  ASSUME VotersInv, RemoveVoter
  PROVE  \E o \in Ordinals : Group!Leave(o) \/ UNCHANGED Group!vars
<1>1. /\ op.want \in Nat /\ op.want > 0 /\ op.prev \in Nat /\ op.todo \in SUBSET Ordinals
      /\ voters \in SUBSET Ordinals
  BY ConstantsAssumption DEF VotersInv, TypeOK, OpTypes, Sizes
<1>2. PICK o \in op.todo : (\A h \in op.todo : h <= o) /\ voters' = voters \ {o}
  BY DEF RemoveVoter, RemoveClusterNode
<1>3. op.pc = "voters" /\ size' = size
  BY DEF RemoveVoter, statefulSet
<1>4. o \in Departing(op.want, op.prev) /\ o \in Ordinals
  BY <1>1, <1>3 DEF VotersInv, Removing
<1>5. o \in Int /\ o > 0
  BY <1>1, <1>4 DEF Departing
<1>6. ASSUME o \in voters PROVE \A v \in voters : v <= o
  <2> TAKE v \in voters
  <2>1. op.prev # 0 /\ v \in 0 .. op.prev - 1
    BY <1>1, <1>3, <1>4 DEF VotersInv, VotersBelong, KnowsSize, Departing
  <2>2. CASE v >= op.want
    BY <1>1, <1>2, <1>3, <2>1, <2>2 DEF VotersInv, Removing, Departing
  <2>3. CASE v < op.want
    BY <1>1, <1>4, <2>1, <2>3 DEF Departing
  <2> QED
    BY <1>1, <2>1, <2>2, <2>3
<1>7. CASE o \in voters
  BY <1>2, <1>3, <1>4, <1>5, <1>6, <1>7 DEF Group!Leave
<1>8. CASE o \notin voters
  BY <1>2, <1>3, <1>4, <1>8 DEF Group!vars
<1> QED
  BY <1>7, <1>8

\* Every step is a step of Membership, or changes nothing of it.
LEMMA GroupStep == VotersInv /\ [Next]_vars => [Group!Next]_(Group!vars)
<1> SUFFICES ASSUME VotersInv, [Next]_vars PROVE Group!Next \/ UNCHANGED Group!vars
  BY DEF Group!vars
<1>1. /\ op.want \in 1 .. MaxReplicas /\ size \in 0 .. MaxReplicas /\ 1 \in 1 .. MaxReplicas
      /\ op.todo \in SUBSET Ordinals /\ MaxReplicas \in Nat
  BY ConstantsAssumption DEF VotersInv, TypeOK, OpTypes, Sizes
<1>2. CASE UNCHANGED <<size, voters>>
  BY <1>2 DEF Group!vars
<1>3. CASE RemoveVoter
  BY <1>3, RemoveIsLeave DEF Group!Next, Ordinals
<1>4. CASE ApplyReplicas \/ CreateStatefulSet
  <2>1. op.pc = "apply" /\ size' = op.want /\ size' # 0 /\ voters' = voters
    BY <1>1, <1>4 DEF ApplyReplicas, CreateStatefulSet
  <2>2. Group!Resize(op.want)
    BY <2>1 DEF VotersInv, Removed, Group!Resize
  <2> QED
    BY <1>1, <2>2 DEF Group!Next
<1>5. CASE DeleteForPolicy
  <2>1. size' = 0 /\ voters' = voters
    BY <1>5 DEF DeleteForPolicy
  <2>2. Group!Resize(1)
    BY <1>5, <2>1, DeletedAroundOne DEF Group!Resize
  <2> QED
    BY <1>1, <2>2 DEF Group!Next
<1>6. CASE AddNode
  <2>1. PICK o \in op.todo : voters' = voters \cup {o}
    BY <1>6 DEF AddNode
  <2>2. op.pc = "members" /\ size' = size
    BY <1>6 DEF AddNode, statefulSet
  <2>3. size # 0 /\ o \in 0 .. size - 1 /\ o \in 0 .. MaxReplicas - 1
    BY <1>1, <2>1, <2>2 DEF VotersInv, Applied, Ordinals
  <2>4. Group!Join(o)
    BY <2>1, <2>2, <2>3 DEF Group!Join
  <2> QED
    BY <2>3, <2>4 DEF Group!Next
<1>7. CASE Environment
  BY <1>2, <1>7, EnvironmentFrame DEF VotersInv, PolicyFollowsSize
<1>8. CASE \/ Begin \/ Evacuate \/ HoldVoters \/ VotersRemoved \/ CleanUp \/ View
           \/ AddNodeFails \/ EndReconcile \/ ReturnForRestart \/ OperatorCrash
  BY <1>2, <1>8
     DEF Begin, Evacuate, HoldVoters, VotersRemoved, CleanUp, View, AddNodeFails,
         EndReconcile, ReturnForRestart, OperatorCrash, statefulSet
<1>9. CASE UNCHANGED vars
  BY <1>2, <1>9 DEF vars, statefulSet
<1> QED
  BY <1>3, <1>4, <1>5, <1>6, <1>7, <1>8, <1>9 DEF Next, OperatorStep, Environment

\* Initially every node of the StatefulSet is a voter.
LEMMA GroupInit == Init => Group!Init
<1> SUFFICES ASSUME Init PROVE Group!Init
  OBVIOUS
<1>1. size \in 1 .. MaxReplicas /\ size # 0
  BY ConstantsAssumption DEF Init, Sizes
<1> QED
  BY <1>1 DEF Init, Group!Init

\* Scaling implements the abstract Raft group, for every size and under every
\* fault of the operator, the nodes and the network: voters join below the size,
\* leave one by one from the top, and the StatefulSet is resized around them.
THEOREM RefinesMembership == OperatorDecides /\ Spec => ImplementsMembership
BY VotersInit, VotersStep, GroupInit, GroupStep, PTL DEF Spec, ImplementsMembership, Group!Spec

-----------------------------------------------------------------------------
(* What ClusterFormed means *)

\* The leader, as long as there is one, is a voter.
LeaderVotes == leader = NoLeader \/ leader \in voters

\* Until the views are read the reconcile carries the condition it has read, and
\* what it concludes from them stays true to its end.
Concluded ==
  op.formed => formed \/ (op.pc = "members" /\ 0 .. op.want - 1 \subseteq voters)

\* The inductive invariant behind FormedMeansMembers.
FormedInv == VotersInv /\ LeaderVotes /\ Concluded

\* Initially the leader is the first voter, and nothing has been concluded.
LEMMA FormedInit == OperatorDecides /\ Init => FormedInv
<1> SUFFICES ASSUME OperatorDecides, Init PROVE FormedInv
  OBVIOUS
<1>1. 0 \in voters
  BY ConstantsAssumption DEF Init, Sizes
<1> QED
  BY <1>1, VotersInit DEF Init, IdleOp, FormedInv, LeaderVotes, Concluded

\* A leader that lists as many members as are expected lists every one of them:
\* it knows of no voter outside the StatefulSet, and it is a voter itself.
LEMMA AllMembersVote ==
  ASSUME FormedInv, op.pc = "views", findLeader, AllMembers
  PROVE  0 .. op.want - 1 \subseteq voters
<1>1. op.want \in Nat /\ op.want = size /\ size # 0
  BY ConstantsAssumption DEF FormedInv, VotersInv, Applied, TypeOK, OpTypes, Sizes
<1>2. leader \in voters
  BY <1>1 DEF FormedInv, LeaderVotes, findLeader, GetClusterLeader, NoLeader
<1>3. knownIDs \subseteq voters
  BY <1>2 DEF knownIDs, GetClusterNodes
<1>4. voters \subseteq 0 .. op.want - 1
  BY <1>1 DEF FormedInv, VotersInv, VotersBelong
<1>5. IsFiniteSet(0 .. op.want - 1) /\ Cardinality(0 .. op.want - 1) = op.want
  BY <1>1, FS_Interval
<1>6. Cardinality(knownIDs) <= op.want /\ Cardinality(knownIDs) \in Nat
  BY <1>3, <1>4, <1>5, FS_Subset, FS_CardinalityType
<1>7. Cardinality(knownIDs) = op.want
  BY <1>1, <1>6 DEF AllMembers
<1>8. knownIDs = 0 .. op.want - 1
  BY <1>3, <1>4, <1>5, <1>7, FS_Subset
<1> QED
  BY <1>3, <1>8

\* Every step keeps the leader a voter.
LEMMA LeaderStep == FormedInv /\ [Next]_vars => LeaderVotes'
<1> SUFFICES ASSUME FormedInv, [Next]_vars PROVE LeaderVotes'
  OBVIOUS
<1>1. CASE RemoveVoter
  BY <1>1 DEF RemoveVoter, RemoveClusterNode, FormedInv, LeaderVotes
<1>2. CASE AddNode
  BY <1>2 DEF AddNode, FormedInv, LeaderVotes
<1>3. ASSUME NEW o \in Ordinals, Elect(o) PROVE LeaderVotes'
  BY <1>3 DEF Elect, LeaderVotes
<1>4. CASE UNCHANGED <<voters, leader>>
  BY <1>4 DEF FormedInv, LeaderVotes
<1> QED
  BY <1>1, <1>2, <1>3, <1>4
     DEF Next, OperatorStep, Begin, Evacuate, HoldVoters, VotersRemoved, ApplyReplicas,
         DeleteForPolicy, CreateStatefulSet, CleanUp, View, AddNodeFails, EndReconcile,
         ReturnForRestart, OperatorCrash,
         NodeStep, Move, Evacuated, StsStep, StsCreate, StsDelete, PodGone, VolumeGone,
         Probe, Cut, Heal, Evict, EditReplicas, TogglePolicy, HpaScales, vars

\* Every step keeps what has been concluded.
LEMMA ConcludedStep == FormedInv /\ [Next]_vars => Concluded'
<1> SUFFICES ASSUME FormedInv, [Next]_vars PROVE Concluded'
  OBVIOUS
<1>1. op \in OpTypes
  BY DEF FormedInv, VotersInv, TypeOK
<1>2. CASE op' = IdleOp
  BY <1>2 DEF IdleOp, Concluded
<1>3. CASE Begin
  BY <1>3 DEF Begin, IdleOp, Concluded
<1>4. CASE Evacuate /\ op' # IdleOp
  BY <1>1, <1>4 DEF Evacuate, OpTypes, FormedInv, Concluded
<1>5. CASE RemoveVoter
  BY <1>1, <1>5 DEF RemoveVoter, OpTypes, FormedInv, Concluded
<1>6. CASE VotersRemoved \/ ApplyReplicas \/ CreateStatefulSet \/ CleanUp
  BY <1>1, <1>6
     DEF VotersRemoved, ApplyReplicas, CreateStatefulSet, CleanUp, OpTypes, FormedInv, Concluded
<1>7. CASE View
  <2>1. /\ op'.pc = "members" /\ op'.want = op.want /\ voters' = voters
        /\ op'.formed => findLeader /\ AllMembers
    BY <1>1, <1>7 DEF View, OpTypes
  <2> QED
    BY <1>7, <2>1, AllMembersVote DEF View, Concluded
<1>8. CASE AddNode \/ AddNodeFails
  <2>1. PICK o : /\ \/ op' = [op EXCEPT !.todo = @ \ {o}]
                    \/ op' = [op EXCEPT !.todo = @ \ {o}, !.formed = FALSE]
                 /\ voters' = voters \cup {o} \/ voters' = voters
                 /\ formed' = formed
    BY <1>8 DEF AddNode, AddNodeFails
  <2>2. op'.pc = op.pc /\ op'.want = op.want /\ (op'.formed => op.formed)
    BY <1>1, <2>1 DEF OpTypes
  <2> QED
    BY <2>1, <2>2 DEF FormedInv, Concluded
<1>9. CASE UNCHANGED <<op, voters, formed>>
  BY <1>9 DEF FormedInv, Concluded
<1>10. CASE HoldVoters \/ EndReconcile \/ ReturnForRestart \/ OperatorCrash \/ DeleteForPolicy
  BY <1>2, <1>10 DEF HoldVoters, EndReconcile, ReturnForRestart, OperatorCrash, DeleteForPolicy
<1>11. CASE Environment
  BY <1>9, <1>11, EnvironmentFrame DEF FormedInv, VotersInv, PolicyFollowsSize
<1>12. CASE UNCHANGED vars
  BY <1>9, <1>12 DEF vars
<1> QED
  BY <1>2, <1>3, <1>4, <1>5, <1>6, <1>7, <1>8, <1>10, <1>11, <1>12
     DEF Next, OperatorStep, Environment

\* The condition changes only at the end of a reconcile, which writes what it has
\* concluded.
LEMMA FormedWritten ==
  FormedInv /\ [Next]_vars => (~formed /\ formed' => 0 .. op.want - 1 \subseteq voters)
<1> SUFFICES ASSUME FormedInv, [Next]_vars, ~formed, formed'
             PROVE  0 .. op.want - 1 \subseteq voters
  OBVIOUS
<1>1. EndReconcile
  BY DEF Next, OperatorStep, Begin, Evacuate, RemoveVoter, HoldVoters, VotersRemoved,
         ApplyReplicas, DeleteForPolicy, CreateStatefulSet, CleanUp, View, AddNode, AddNodeFails,
         ReturnForRestart,
         OperatorCrash, NodeStep, Move, Evacuated, Elect, StsStep, StsCreate, StsDelete,
         PodGone, VolumeGone, Probe, Cut, Heal, Evict, EditReplicas, TogglePolicy, HpaScales, vars
<1>2. op.formed
  BY <1>1 DEF EndReconcile
<1> QED
  BY <1>2 DEF FormedInv, Concluded

\* Whenever the status starts to say that the cluster is formed, every node the
\* reconcile expected is a Raft voter, whatever has failed since it looked.
THEOREM FormedWhenReported == OperatorDecides /\ Spec => FormedMeansMembers
<1>1. FormedInv /\ [Next]_vars => FormedInv'
  BY VotersStep, LeaderStep, ConcludedStep DEF FormedInv
<1>2. FormedInv /\ [Next]_vars => [~formed /\ formed' => 0 .. op.want - 1 \subseteq voters]_vars
  BY FormedWritten
<1> QED
  BY <1>1, <1>2, FormedInit, PTL DEF Spec, FormedMeansMembers

-----------------------------------------------------------------------------
(* What leaves the cluster holds nothing *)

\* A node that has no part in the cluster, or has reported that it is done.
Done(o) == state[o] \in {"new", "leaving"}

DoneIsEmpty == \A o \in Ordinals : Done(o) => Empty(o)

\* Initially only the pods of the StatefulSet hold anything.
LEMMA EmptyInit == Init => DoneIsEmpty
<1> SUFFICES ASSUME Init, NEW o \in Ordinals, Done(o), NEW r \in Regions
             PROVE  o \notin copies[r]
  BY DEF DoneIsEmpty, Empty
<1>1. replicas \in Nat /\ ~(o < replicas)
  BY ConstantsAssumption DEF Init, Sizes, Done
<1>2. PICK h \in 0 .. replicas - 1 : copies[r] = {h}
  BY DEF Init
<1> QED
  BY <1>1, <1>2

\* Only a node of the cluster takes copies: Evacuated waits for the last one to go,
\* and Move brings none back.
LEMMA EmptyStep == TypeOK /\ DoneIsEmpty /\ [Next]_vars => DoneIsEmpty'
<1> SUFFICES ASSUME TypeOK, DoneIsEmpty, [Next]_vars, NEW o \in Ordinals, Done(o)'
             PROVE  Empty(o)'
  BY DEF DoneIsEmpty
<1>1. /\ state \in [Ordinals -> {"new", "active", "decommissioning", "leaving"}]
      /\ copies \in [Regions -> SUBSET Ordinals]
  BY DEF TypeOK
<1>2. CASE UNCHANGED <<state, copies>>
  BY <1>2 DEF DoneIsEmpty, Done, Empty
<1>3. CASE Evacuate
  <2>1. PICK told : state' = [n \in Ordinals |->
                                IF n \in told THEN "decommissioning" ELSE state[n]]
    BY <1>3 DEF Evacuate, DecommissionNode
  <2>2. Done(o) /\ copies' = copies
    BY <1>3, <2>1 DEF Evacuate, Done
  <2> QED
    BY <2>2 DEF DoneIsEmpty, Empty
<1>4. CASE AddNode
  <2>1. PICK n : state' = [state EXCEPT ![n] = "active"]
    BY <1>4 DEF AddNode
  <2>2. Done(o) /\ copies' = copies
    BY <1>1, <1>4, <2>1 DEF AddNode, Done
  <2> QED
    BY <2>2 DEF DoneIsEmpty, Empty
<1>5. ASSUME NEW r \in Regions, NEW from \in Ordinals, NEW to \in Ordinals, Move(r, from, to)
      PROVE  Empty(o)'
  <2>1. Done(o) /\ o # to
    BY <1>5 DEF Move, Done
  <2>2. \A s \in Regions : o \notin copies[s]
    BY <2>1 DEF DoneIsEmpty, Empty
  <2>3. copies' = [copies EXCEPT ![r] = (copies[r] \ {from}) \cup {to}]
    BY <1>5 DEF Move
  <2> QED
    BY <1>1, <2>1, <2>2, <2>3 DEF Empty
<1>6. ASSUME NEW n \in Ordinals, Evacuated(n) PROVE Empty(o)'
  <2>1. Empty(o)
    BY <1>1, <1>6 DEF Evacuated, Done, DoneIsEmpty
  <2> QED
    BY <1>6, <2>1 DEF Evacuated, Empty
<1>7. ASSUME NEW n \in Ordinals, VolumeGone(n) PROVE Empty(o)'
  <2>1. o = n \/ Done(o)
    BY <1>1, <1>7 DEF VolumeGone, Done
  <2>2. copies' = [r \in Regions |-> copies[r] \ {n}]
    BY <1>7 DEF VolumeGone
  <2> QED
    BY <2>1, <2>2 DEF DoneIsEmpty, Empty
<1> QED
  BY <1>2, <1>3, <1>4, <1>5, <1>6, <1>7
     DEF Next, OperatorStep, Begin, RemoveVoter, HoldVoters, VotersRemoved, ApplyReplicas,
         DeleteForPolicy, CreateStatefulSet, CleanUp, View, AddNodeFails, EndReconcile,
         ReturnForRestart, OperatorCrash, NodeStep, Elect, StsStep, StsCreate, StsDelete,
         PodGone, Probe, Cut, Heal, Evict, EditReplicas, TogglePolicy, HpaScales, vars

\* A node outside the StatefulSet, and one the reconcile is taking out of it, has
\* released its regions or was given up.
Released(o) == Done(o) \/ o \in gone

OutsideReleased == \A o \in Ordinals : o >= (IF size = 0 THEN 1 ELSE size) => Released(o)

DepartingReleased ==
  op.pc \in {"voters", "apply"} => \A o \in Departing(op.want, op.prev) : Released(o)

\* The inductive invariant behind OutsideIsEmpty.
DataInv ==
  /\ VotersInv
  /\ DoneIsEmpty
  /\ OutsideReleased
  /\ DepartingReleased

\* Initially nobody outside the StatefulSet has had a part.
LEMMA DataInit == OperatorDecides /\ Init => DataInv
<1> SUFFICES ASSUME OperatorDecides, Init PROVE DataInv
  OBVIOUS
<1>1. size = replicas /\ replicas \in Nat \ {0} /\ replicas <= MaxReplicas /\ op.pc = "idle"
  BY ConstantsAssumption DEF Init, IdleOp, Sizes
<1>4. OutsideReleased
  BY <1>1, ConstantsAssumption DEF Init, OutsideReleased, Released, Done, Ordinals
<1>5. DepartingReleased
  BY <1>1 DEF DepartingReleased
<1> QED
  BY <1>4, <1>5, VotersInit, EmptyInit DEF DataInv

\* A node that answers may be told to go, when it departs, or to join.
Asked(o) ==
  /\ Reachable(o)
  /\ \/ op.pc = "hooks" /\ o \in Departing(op.want, op.prev)
     \/ op.pc = "members" /\ o \in op.todo

\* Only the evacuation hooks, for a departing node that answers, and
\* reconcileClusterMembership, for a node that answers, take a node back that is
\* done or was given up.
LEMMA DoneStep ==
  ASSUME TypeOK, [Next]_vars, NEW o \in Ordinals, ~Asked(o)
  PROVE  (Done(o) => Done(o)') /\ (o \in gone => o \in gone')
<1>1. state \in [Ordinals -> {"new", "active", "decommissioning", "leaving"}]
  BY DEF TypeOK
<1>2. CASE UNCHANGED <<state, gone>>
  BY <1>2 DEF Done
<1>3. CASE Evacuate
  <2> DEFINE departing == Departing(op.want, op.prev)
             answers == {n \in departing : Reachable(n)}
  <2>1. op.pc = "hooks" /\ gone \ answers \subseteq gone'
    BY <1>3 DEF Evacuate
  <2>2. PICK told \in SUBSET Tell(departing) :
          state' = [n \in Ordinals |-> IF n \in told THEN "decommissioning" ELSE state[n]]
    BY <1>3 DEF Evacuate, DecommissionNode
  <2>3. o \in told => o \in departing /\ Reachable(o)
    BY <2>2 DEF Tell, decommission, gate
  <2>4. ~(o \in departing /\ Reachable(o))
    BY <2>1 DEF Asked
  <2>5. state'[o] = state[o] /\ (o \in gone => o \in gone')
    BY <2>1, <2>2, <2>3, <2>4
  <2> QED
    BY <2>5 DEF Done
<1>4. CASE AddNode
  <2>1. PICK n \in op.todo : /\ CanAdd(n) /\ gone' = gone \ {n}
                             /\ state' = [state EXCEPT ![n] = "active"]
    BY <1>4 DEF AddNode
  <2>2. n # o
    BY <1>4, <2>1 DEF AddNode, CanAdd, Asked
  <2> QED
    BY <1>1, <2>1, <2>2 DEF Done
<1>5. ASSUME NEW n \in Ordinals, Evacuated(n) \/ VolumeGone(n)
      PROVE  (Done(o) => Done(o)') /\ gone' = gone
  BY <1>1, <1>5 DEF Evacuated, VolumeGone, Done
<1> QED
  BY <1>2, <1>3, <1>4, <1>5
     DEF Next, OperatorStep, Begin, RemoveVoter, HoldVoters, VotersRemoved, ApplyReplicas,
         DeleteForPolicy, CreateStatefulSet, CleanUp, View, AddNodeFails, EndReconcile,
         ReturnForRestart, OperatorCrash, NodeStep, Move, Elect, StsStep, StsCreate,
         StsDelete, PodGone, Probe, Cut, Heal, Evict, EditReplicas, TogglePolicy, HpaScales, vars

\* The size changes when the reconcile applies what it wants, and not otherwise.
LEMMA SizeStep ==
  ASSUME "hpa" \notin Faults, [Next]_vars
  PROVE  size' = size \/ ApplyReplicas \/ DeleteForPolicy \/ CreateStatefulSet
BY DEF Next, OperatorStep, Begin, Evacuate, RemoveVoter, HoldVoters,
       VotersRemoved, CleanUp, View, AddNode, AddNodeFails, EndReconcile, ReturnForRestart,
       OperatorCrash, NodeStep, Move, Evacuated, Elect, StsStep, StsCreate, StsDelete,
       PodGone, VolumeGone, Probe, Cut, Heal, Evict, EditReplicas, TogglePolicy, HpaScales,
       statefulSet, vars

\* Whatever the size becomes, what is left out has been released: it was outside
\* before, or it departs and the gate has let it pass.
LEMMA OutsideStep == DataInv /\ [Next]_vars => OutsideReleased'
<1> SUFFICES ASSUME DataInv, [Next]_vars, NEW o \in Ordinals,
                    o >= (IF size' = 0 THEN 1 ELSE size')
             PROVE  Released(o)'
  BY DEF OutsideReleased
<1>1. TypeOK /\ OperatorDecides
  BY DEF DataInv, VotersInv, PolicyFollowsSize
<1>2. /\ op.want \in Nat /\ op.want > 0 /\ op.prev \in Nat /\ size \in Nat /\ o \in Nat
  BY <1>1, ConstantsAssumption DEF TypeOK, OpTypes, Sizes, Ordinals
<1>3. CASE size' = size
  <2>1. Released(o)
    BY <1>3 DEF DataInv, OutsideReleased
  <2>2. ~(op.pc = "hooks" /\ o \in Departing(op.want, op.prev))
    BY <1>2, <1>3 DEF DataInv, VotersInv, KnowsSize, Departing
  <2>3. ~(op.pc = "members" /\ o \in op.todo)
    BY <1>2, <1>3 DEF DataInv, VotersInv, Applied
  <2>4. ~Asked(o)
    BY <2>2, <2>3 DEF Asked
  <2> QED
    BY <1>1, <2>1, <2>4, DoneStep DEF Released
<1>4. CASE ApplyReplicas \/ DeleteForPolicy \/ CreateStatefulSet
  <2>1. op.pc = "apply" /\ UNCHANGED <<state, gone>>
    BY <1>4 DEF ApplyReplicas, DeleteForPolicy, CreateStatefulSet
  <2>2. o >= (IF size = 0 THEN 1 ELSE size) \/ o \in Departing(op.want, op.prev)
    <3>1. op.prev = size
      BY <2>1 DEF DataInv, VotersInv, KnowsSize
    <3>2. CASE ApplyReplicas \/ CreateStatefulSet
      <4>1. size' = op.want
        BY <3>2 DEF ApplyReplicas, CreateStatefulSet
      <4> QED
        BY <1>2, <3>1, <4>1 DEF Departing
    <3>3. CASE DeleteForPolicy
      <4>1. size' = 0 /\ size > 0 /\ (size = 1 \/ op.want = 1)
        BY <1>1, <1>2, <3>3
           DEF DataInv, VotersInv, PolicyFollowsSize, DeleteForPolicy, TypeOK, OpTypes,
               clusterEnabled
      <4> QED
        BY <1>2, <3>1, <4>1 DEF Departing
    <3> QED
      BY <1>4, <3>2, <3>3
  <2>3. Released(o)
    BY <2>1, <2>2 DEF DataInv, OutsideReleased, DepartingReleased
  <2> QED
    BY <2>1, <2>3 DEF Released, Done
<1> QED
  BY <1>1, <1>3, <1>4, SizeStep DEF OperatorDecides

\* The gate lets a departing node pass that is done or does not answer, and until
\* the StatefulSet has been applied nothing takes it back.
LEMMA DepartingStep == DataInv /\ [Next]_vars => DepartingReleased'
<1> SUFFICES ASSUME DataInv, [Next]_vars, op'.pc \in {"voters", "apply"},
                    NEW o \in Departing(op'.want, op'.prev)
             PROVE  Released(o)'
  BY DEF DepartingReleased
<1>1. TypeOK /\ op \in OpTypes /\ TypeOK' /\ op' \in OpTypes
  BY TypeStep DEF DataInv, VotersInv, TypeOK
<1>2. o \in Ordinals
  BY <1>1, ConstantsAssumption DEF OpTypes, Sizes, Departing, Ordinals
<1>3. CASE Evacuate
  <2> DEFINE departing == Departing(op.want, op.prev)
             evacuated == \A n \in departing : ~gate(n)
  <2>1. evacuated /\ op' = [op EXCEPT !.pc = "voters", !.todo = departing]
    BY <1>3 DEF Evacuate, IdleOp
  <2>2. o \in departing /\ ~gate(o)
    BY <1>1, <2>1 DEF OpTypes
  <2>3. CASE Reachable(o)
    <3>1. state[o] = "leaving"
      BY <2>2, <2>3 DEF gate
    <3>2. PICK told \in SUBSET Tell(departing) :
            state' = [n \in Ordinals |-> IF n \in told THEN "decommissioning" ELSE state[n]]
      BY <1>3 DEF Evacuate, DecommissionNode
    <3>3. o \notin told
      BY <2>2, <3>2 DEF Tell, decommission
    <3> QED
      BY <1>2, <3>1, <3>2, <3>3 DEF Released, Done
  <2>4. CASE ~Reachable(o)
    <3>1. o \in gone'
      BY <1>3, <2>1, <2>2, <2>4 DEF Evacuate
    <3> QED
      BY <3>1 DEF Released
  <2> QED
    BY <2>3, <2>4
<1>4. CASE op.pc \in {"voters", "apply"} /\ op'.want = op.want /\ op'.prev = op.prev
  <2>1. Released(o)
    BY <1>4 DEF DataInv, DepartingReleased
  <2>2. ~Asked(o)
    BY <1>4 DEF Asked
  <2> QED
    BY <1>1, <1>2, <2>1, <2>2, DoneStep DEF Released
<1>5. CASE RemoveVoter \/ VotersRemoved
  BY <1>1, <1>4, <1>5 DEF RemoveVoter, VotersRemoved, OpTypes
<1>6. CASE UNCHANGED op
  BY <1>4, <1>6
<1>7. ~(op' = IdleOp \/ Begin \/ CleanUp \/ View \/ AddNode \/ AddNodeFails
           \/ ApplyReplicas \/ CreateStatefulSet)
  <2>1. op' # IdleOp
    BY DEF IdleOp
  <2>2. ~Begin /\ ~CleanUp /\ ~View /\ ~ApplyReplicas /\ ~CreateStatefulSet
    BY <1>1 DEF Begin, IdleOp, CleanUp, View, ApplyReplicas, CreateStatefulSet, OpTypes
  <2>3. ~AddNode /\ ~AddNodeFails
    BY <1>1 DEF AddNode, AddNodeFails, OpTypes
  <2> QED
    BY <2>1, <2>2, <2>3
<1>8. CASE Environment \/ UNCHANGED vars
  BY <1>6, <1>8, EnvironmentFrame DEF DataInv, VotersInv, PolicyFollowsSize, vars
<1> QED
  BY <1>3, <1>5, <1>7, <1>8
     DEF Next, OperatorStep, Environment, HoldVoters, DeleteForPolicy, EndReconcile,
         ReturnForRestart, OperatorCrash

\* Every step preserves the inductive invariant.
LEMMA DataStep == DataInv /\ [Next]_vars => DataInv'
<1> SUFFICES ASSUME DataInv, [Next]_vars PROVE DataInv'
  OBVIOUS
<1>1. VotersInv' /\ DoneIsEmpty'
  BY VotersStep, EmptyStep DEF DataInv, VotersInv
<1> QED
  BY <1>1, OutsideStep, DepartingStep DEF DataInv

\* Through crashes, cuts and edits at any time, no node outside the StatefulSet
\* owns a region, unless it did not answer when it was taken away.
THEOREM OutsideAlwaysEmpty == OperatorDecides /\ Spec => []OutsideIsEmpty
<1>1. DataInv => OutsideIsEmpty
  <2> SUFFICES ASSUME DataInv, size > 0, NEW o \in size .. MaxReplicas - 1
               PROVE  Empty(o) \/ o \in gone
    BY DEF OutsideIsEmpty
  <2>1. size \in Nat /\ MaxReplicas \in Nat
    BY ConstantsAssumption DEF DataInv, VotersInv, TypeOK
  <2>2. o \in Ordinals /\ o >= size /\ size # 0
    BY <2>1 DEF Ordinals
  <2>3. Released(o)
    BY <2>2 DEF DataInv, OutsideReleased
  <2> QED
    BY <2>2, <2>3 DEF DataInv, DoneIsEmpty, Released
<1> QED
  BY <1>1, DataInit, DataStep, PTL DEF Spec

-----------------------------------------------------------------------------
(* One edit after another *)

\* Every edit is carried out before the next, and only the operator resizes the
\* StatefulSet.
OneEdit == "midedit" \notin Faults /\ "hpa" \notin Faults

\* A reconcile wants what the spec asks for, or what the StatefulSet has already.
WantsEither == op.pc # "idle" => op.want \in {replicas, size}

\* While the StatefulSet is to grow there are no pods above it.
BareToGrow ==
  size > 0 /\ size < replicas => \A o \in Ordinals : o >= size => pods[o] = "absent"

\* The part of the inductive invariants about how an edit is carried out.
CarryInv ==
  /\ OneEdit
  /\ TypeOK
  /\ KnowsSize
  /\ Applied
  /\ WantsEither
  /\ BareToGrow

\* Initially the spec has been carried out.
LEMMA CarryInit == OneEdit /\ Init => CarryInv
<1> SUFFICES ASSUME OneEdit, Init PROVE CarryInv
  OBVIOUS
<1>1. size = replicas /\ replicas \in Nat /\ op.pc = "idle"
  BY ConstantsAssumption DEF Init, IdleOp, Sizes
<1> QED
  BY <1>1, TypeInit DEF CarryInv, KnowsSize, Applied, WantsEither, BareToGrow

\* A reconcile begins, ends, or goes on with what it has read.
LEMMA GoesOn ==
  ASSUME op \in OpTypes, OperatorStep \/ ReturnForRestart \/ OperatorCrash
  PROVE  \/ op' = IdleOp
         \/ Begin
         \/ op.pc # "idle" /\ op'.want = op.want /\ (CleanUp \/ op'.prev = op.prev)
<1>1. CASE Evacuate
  BY <1>1 DEF Evacuate, OpTypes
<1>2. CASE RemoveVoter \/ AddNode \/ AddNodeFails
  BY <1>2 DEF RemoveVoter, AddNode, AddNodeFails, OpTypes
<1>3. CASE VotersRemoved \/ ApplyReplicas \/ CreateStatefulSet \/ CleanUp \/ View
  BY <1>3 DEF VotersRemoved, ApplyReplicas, CreateStatefulSet, CleanUp, View, OpTypes
<1>4. CASE HoldVoters \/ DeleteForPolicy \/ EndReconcile \/ ReturnForRestart \/ OperatorCrash
  BY <1>4 DEF HoldVoters, DeleteForPolicy, EndReconcile, ReturnForRestart, OperatorCrash
<1> QED
  BY <1>1, <1>2, <1>3, <1>4 DEF OperatorStep

\* Nobody outside the operator touches the reconcile, nor, without an autoscaler,
\* the StatefulSet; the spec is edited only once it has been carried out.
LEMMA EditFrame ==
  ASSUME OneEdit, Environment
  PROVE  UNCHANGED <<op, size>> /\ (replicas' = replicas \/ (EditReplicas /\ Settled))
<1>1. CASE EditReplicas
  BY <1>1 DEF EditReplicas, MayEdit, OneEdit, statefulSet
<1>2. CASE ~EditReplicas
  BY <1>2
     DEF OneEdit, Environment, NodeStep, Move, Evacuated, Elect, StsStep, StsCreate,
         StsDelete, PodGone, VolumeGone, Probe, Cut, Heal, Evict, TogglePolicy, HpaScales, spec,
         statefulSet
<1> QED
  BY <1>1, <1>2

\* The operator does not write the spec.
LEMMA SpecKept ==
  ASSUME OperatorStep \/ ReturnForRestart \/ OperatorCrash \/ UNCHANGED vars
  PROVE  replicas' = replicas
BY DEF OperatorStep, ReturnForRestart, OperatorCrash, Begin, Evacuate, RemoveVoter,
       HoldVoters, VotersRemoved, ApplyReplicas, DeleteForPolicy, CreateStatefulSet,
       CleanUp, View, AddNode, AddNodeFails, EndReconcile, spec, vars

\* The reconcile knows the size until it applies its own.
LEMMA SizeKnown ==
  ASSUME OneEdit, TypeOK, KnowsSize, Applied, [Next]_vars
  PROVE  KnowsSize' /\ Applied'
<1>1. op \in OpTypes /\ op.want \in Nat
  BY ConstantsAssumption DEF TypeOK, OpTypes, Sizes
<1>2. CASE op' = IdleOp
  BY <1>2 DEF IdleOp, KnowsSize, Applied
<1>3. CASE Begin
  BY <1>3 DEF Begin, IdleOp, KnowsSize, Applied, statefulSet
<1>4. CASE Evacuate /\ op' # IdleOp
  <2>1. op.pc = "hooks" /\ op'.pc = "voters" /\ op'.prev = op.prev /\ size' = size
    BY <1>1, <1>4 DEF Evacuate, OpTypes, statefulSet
  <2> QED
    BY <2>1 DEF KnowsSize, Applied
<1>5. CASE RemoveVoter
  <2>1. op.pc = "voters" /\ op'.pc = "voters" /\ op'.prev = op.prev /\ size' = size
    BY <1>1, <1>5 DEF RemoveVoter, OpTypes, statefulSet
  <2> QED
    BY <2>1 DEF KnowsSize, Applied
<1>6. CASE VotersRemoved
  <2>1. op.pc = "voters" /\ op'.pc = "apply" /\ op'.prev = op.prev /\ size' = size
    BY <1>1, <1>6 DEF VotersRemoved, OpTypes, statefulSet
  <2> QED
    BY <2>1 DEF KnowsSize, Applied
<1>7. CASE ApplyReplicas \/ CreateStatefulSet
  <2>1. op'.pc = "cleanup" /\ op'.want = op.want /\ size' = op.want
    BY <1>1, <1>7 DEF ApplyReplicas, CreateStatefulSet, OpTypes
  <2> QED
    BY <2>1 DEF KnowsSize, Applied
<1>8. CASE CleanUp
  <2>1. /\ op.pc = "cleanup" /\ op'.pc \in {"views", "members"} /\ op'.want = op.want
        /\ op'.todo = {} /\ size' = size
    BY <1>1, <1>8 DEF CleanUp, OpTypes, statefulSet
  <2> QED
    BY <2>1 DEF KnowsSize, Applied
<1>9. CASE View
  <2>1. (IF findLeader THEN Unknown ELSE {}) \subseteq 0 .. op.want - 1
    BY DEF Unknown
  <2>2. /\ op.pc = "views" /\ op'.pc = "members" /\ op'.want = op.want /\ size' = size
        /\ op'.todo \subseteq 0 .. op.want - 1
    BY <1>1, <1>9, <2>1 DEF View, OpTypes, statefulSet
  <2> QED
    BY <2>2 DEF KnowsSize, Applied
<1>10. CASE AddNode \/ AddNodeFails
  <2>1. /\ op.pc = "members" /\ op'.pc = "members" /\ op'.want = op.want /\ size' = size
        /\ op'.todo \subseteq op.todo
    BY <1>1, <1>10 DEF AddNode, AddNodeFails, OpTypes, statefulSet
  <2> QED
    BY <2>1 DEF KnowsSize, Applied
<1>11. CASE UNCHANGED <<op, size>>
  BY <1>11 DEF KnowsSize, Applied
<1> QED
  BY <1>2, <1>3, <1>4, <1>5, <1>6, <1>7, <1>8, <1>9, <1>10, <1>11, EditFrame
     DEF Next, OperatorStep, Environment, HoldVoters, DeleteForPolicy, EndReconcile,
         ReturnForRestart, OperatorCrash, vars, statefulSet

\* The size becomes what the spec asks for, or 0 for a while, or stays.
LEMMA WantStep ==
  ASSUME CarryInv, [Next]_vars
  PROVE  WantsEither' /\ (size' = size \/ size' = 0 \/ size' = replicas)
<1>1. op \in OpTypes /\ OneEdit /\ WantsEither
  BY DEF CarryInv, TypeOK
<1>2. size' = size \/ size' = 0 \/ (size' = op.want /\ op.pc = "apply")
  BY <1>1, SizeStep DEF OneEdit, ApplyReplicas, DeleteForPolicy, CreateStatefulSet
<1>3. size' = size \/ size' = 0 \/ size' = replicas
  BY <1>1, <1>2 DEF WantsEither
<1>4. WantsEither'
  <2>1. CASE op' = IdleOp
    BY <2>1 DEF IdleOp, WantsEither
  <2>2. CASE Begin
    BY <2>2 DEF Begin, IdleOp, WantsEither, spec
  <2>3. CASE /\ op.pc # "idle" /\ op'.want = op.want /\ replicas' = replicas
             /\ op' # IdleOp
             /\ OperatorStep \/ ReturnForRestart \/ OperatorCrash
    <3>1. size' # 0 \/ size' = size
      BY <1>2, <2>3, <1>1, SizeStep, ConstantsAssumption
         DEF OneEdit, DeleteForPolicy, ApplyReplicas, CreateStatefulSet, OpTypes, Sizes
    <3> QED
      BY <1>1, <1>2, <2>3, <3>1 DEF WantsEither
  <2>4. CASE Environment
    <3>1. UNCHANGED <<op, size>> /\ (replicas' = replicas \/ size = replicas)
      BY <1>1, <2>4, EditFrame DEF Settled
    <3> QED
      BY <1>1, <3>1 DEF WantsEither
  <2>5. CASE UNCHANGED vars
    BY <1>1, <2>5 DEF vars, spec, statefulSet, WantsEither
  <2> QED
    BY <1>1, <2>1, <2>2, <2>3, <2>4, <2>5, GoesOn, SpecKept DEF Next, Environment
<1> QED
  BY <1>3, <1>4

\* A pod is started only for an ordinal of the StatefulSet, on a volume that stays.
LEMMA PodStarts ==
  ASSUME TypeOK, [Next]_vars, NEW o \in Ordinals, pods[o] = "absent", pods'[o] # "absent"
  PROVE  o < size /\ volume[o] # "deleting"
<1>1. pods \in [Ordinals -> {"absent", "up", "cut", "terminating"}]
  BY DEF TypeOK
<1>2. CASE CleanUp \/ ReturnForRestart
  BY <1>2 DEF CleanUp, ReturnForRestart, Stuck
<1>3. ASSUME NEW n \in Ordinals, StsCreate(n) PROVE o < size /\ volume[o] # "deleting"
  <2>1. pods' = [pods EXCEPT ![n] = "up"]
    BY <1>3 DEF StsCreate
  <2>2. n = o
    BY <1>1, <2>1
  <2> QED
    BY <1>3, <2>2 DEF StsCreate
<1>4. ASSUME NEW n \in Ordinals,
             StsDelete(n) \/ PodGone(n) \/ Cut(n) \/ Heal(n) \/ Evict(n)
      PROVE  FALSE
  BY <1>1, <1>4 DEF StsDelete, PodGone, Cut, Heal, Evict
<1>5. pods' # pods
  OBVIOUS
<1> QED
  BY <1>2, <1>3, <1>4, <1>5
     DEF Next, OperatorStep, Begin, Evacuate, RemoveVoter, HoldVoters, VotersRemoved,
         ApplyReplicas, DeleteForPolicy, CreateStatefulSet, View, AddNode, AddNodeFails,
         EndReconcile, OperatorCrash, NodeStep, Move, Evacuated, Elect, StsStep,
         VolumeGone, Probe, EditReplicas, TogglePolicy, HpaScales, vars

\* A step edits the spec, resizes the StatefulSet as the spec asks, or does neither.
LEMMA SpecStep ==
  ASSUME CarryInv, [Next]_vars
  PROVE  \/ EditReplicas /\ Settled /\ size' = size
         \/ replicas' = replicas /\ size' \in {size, 0, replicas}
<1>1. size' \in {size, 0, replicas} /\ OneEdit
  BY WantStep DEF CarryInv
<1> QED
  BY <1>1, EditFrame, SpecKept DEF Next, Environment

\* The spec is edited when the pods are those of the StatefulSet; until that has
\* been resized none comes.
LEMMA BareStep == CarryInv /\ [Next]_vars => BareToGrow'
<1> SUFFICES ASSUME CarryInv, [Next]_vars, size' > 0, size' < replicas',
                    NEW o \in Ordinals, o >= size'
             PROVE  pods'[o] = "absent"
  BY DEF BareToGrow
<1>1. TypeOK /\ TypeOK' /\ BareToGrow
  BY TypeStep DEF CarryInv
<1>2. replicas \in Nat /\ size \in Nat /\ size' \in Nat /\ o \in Int
  BY <1>1, ConstantsAssumption DEF TypeOK, Sizes, Ordinals
<1>3. CASE EditReplicas /\ Settled /\ size' = size
  BY <1>2, <1>3 DEF EditReplicas, Settled
<1>4. CASE replicas' = replicas /\ size' = size
  <2>1. pods[o] = "absent" /\ ~(o < size)
    BY <1>1, <1>2, <1>4 DEF BareToGrow
  <2> QED
    BY <1>1, <2>1, PodStarts
<1>5. CASE replicas' = replicas /\ size' \in {0, replicas}
  BY <1>2, <1>5
<1> QED
  BY <1>3, <1>4, <1>5, SpecStep

\* Every step preserves this part.
LEMMA CarryStep == CarryInv /\ [Next]_vars => CarryInv'
<1> SUFFICES ASSUME CarryInv, [Next]_vars PROVE CarryInv'
  OBVIOUS
<1>1. OneEdit' /\ TypeOK' /\ KnowsSize' /\ Applied'
  BY TypeStep, SizeKnown DEF CarryInv, OneEdit
<1> QED
  BY <1>1, WantStep, BareStep DEF CarryInv

\* A claim is deleted by CleanupOrphanPVCs, for an ordinal outside the StatefulSet.
LEMMA VolumeLeaves ==
  ASSUME TypeOK, Applied, [Next]_vars, NEW o \in Ordinals,
         volume[o] # "deleting", volume'[o] = "deleting"
  PROVE  /\ o >= size /\ size > 0 /\ UNCHANGED <<state, gone, voters>>
         /\ CleanUp /\ o \in Departing(op.want, op.prev)
<1>1. volume \in [Ordinals -> {"none", "bound", "deleting"}]
  BY DEF TypeOK
<1>2. op.want \in Nat /\ op.want > 0 /\ op.prev \in Int /\ o \in Int
  BY ConstantsAssumption DEF TypeOK, OpTypes, Sizes, Ordinals
<1>3. CASE CleanUp
  <2>1. op.pc = "cleanup" /\ UNCHANGED <<state, gone, voters>> /\ o \in Departing(op.want, op.prev)
    BY <1>3 DEF CleanUp
  <2> QED
    BY <1>2, <1>3, <2>1 DEF Applied, Departing
<1>4. ASSUME NEW n \in Ordinals, StsCreate(n) \/ VolumeGone(n) PROVE FALSE
  BY <1>1, <1>4 DEF StsCreate, VolumeGone
<1>5. volume' # volume
  OBVIOUS
<1> QED
  BY <1>3, <1>4, <1>5
     DEF Next, OperatorStep, Begin, Evacuate, RemoveVoter, HoldVoters, VotersRemoved,
         ApplyReplicas, DeleteForPolicy, CreateStatefulSet, View, AddNode, AddNodeFails,
         EndReconcile, ReturnForRestart, OperatorCrash, NodeStep, Move, Evacuated, Elect,
         StsStep, StsDelete, PodGone, Probe, Cut, Heal, Evict, EditReplicas, TogglePolicy,
         HpaScales, vars

\* A node that is not asked to join does not become a voter.
LEMMA JoinStep ==
  ASSUME [Next]_vars, NEW o \in Ordinals, ~Asked(o), o \notin voters
  PROVE  o \notin voters'
<1>1. CASE AddNode
  BY <1>1 DEF AddNode, CanAdd, Asked
<1>2. AddNode \/ voters' \subseteq voters
  BY DEF Next, OperatorStep, Begin, Evacuate, RemoveVoter, RemoveClusterNode, HoldVoters,
         VotersRemoved, ApplyReplicas, DeleteForPolicy, CreateStatefulSet, CleanUp, View,
         AddNodeFails, EndReconcile, ReturnForRestart, OperatorCrash, NodeStep, Move,
         Evacuated, Elect, StsStep, StsCreate, StsDelete, PodGone, VolumeGone, Probe, Cut,
         Heal, Evict, EditReplicas, TogglePolicy, HpaScales, vars
<1> QED
  BY <1>1, <1>2

\* Where a node is that cannot come back: it has no pod, or nobody asks for one.
Apart(o) == pods[o] = "absent" \/ (o >= size /\ o >= replicas)

\* Such a node is neither told to go nor added.
LEMMA ApartNotAsked ==
  ASSUME CarryInv, NEW o \in Ordinals, Apart(o)
  PROVE  ~Asked(o)
<1>1. size \in Nat /\ o \in Int /\ op.want \in Nat /\ op.prev \in Nat
  BY ConstantsAssumption DEF CarryInv, TypeOK, OpTypes, Sizes, Ordinals
<1>2. CASE pods[o] = "absent"
  BY <1>2 DEF Asked, Reachable
<1>3. CASE o >= size
  <2>1. ~(op.pc = "hooks" /\ o \in Departing(op.want, op.prev))
    BY <1>1, <1>3 DEF CarryInv, KnowsSize, Departing
  <2>2. ~(op.pc = "members" /\ o \in op.todo)
    BY <1>1, <1>3 DEF CarryInv, Applied
  <2> QED
    BY <2>1, <2>2 DEF Asked
<1> QED
  BY <1>2, <1>3 DEF Apart

\* A node whose claim is being deleted stays apart, until its volume has gone: the
\* spec asks for it again only when its pod has gone.
LEMMA ApartStep ==
  ASSUME CarryInv, [Next]_vars, NEW o \in Ordinals, volume'[o] = "deleting",
         volume[o] = "deleting" => Apart(o)
  PROVE  Apart(o)'
<1>1. TypeOK /\ Applied
  BY DEF CarryInv
<1>2. replicas \in Nat /\ replicas > 0 /\ size \in Nat /\ o \in Int
  BY <1>1, ConstantsAssumption DEF TypeOK, Sizes, Ordinals
<1>3. CASE volume[o] # "deleting"
  <2>1. CleanUp /\ o >= size /\ size > 0
    BY <1>1, <1>3, VolumeLeaves
  <2>2. size' = size /\ replicas' = replicas
    BY <2>1 DEF CleanUp, spec, statefulSet
  <2>3. CASE size < replicas
    <3>1. pods[o] = "absent"
      BY <2>1, <2>3 DEF CarryInv, BareToGrow
    <3> QED
      BY <2>1, <3>1 DEF CleanUp, Stuck, Apart
  <2>4. CASE size >= replicas
    BY <1>2, <2>1, <2>2, <2>4 DEF Apart
  <2> QED
    BY <1>2, <2>3, <2>4
<1>4. CASE volume[o] = "deleting" /\ pods[o] = "absent"
  BY <1>1, <1>4, PodStarts DEF Apart
<1>5. CASE o >= size /\ o >= replicas
  <2>1. CASE EditReplicas /\ Settled /\ size' = size
    BY <1>2, <1>5, <2>1 DEF EditReplicas, Settled, Apart
  <2>2. CASE replicas' = replicas /\ size' \in {size, 0, replicas}
    BY <1>2, <1>5, <2>2 DEF Apart
  <2> QED
    BY <2>1, <2>2, SpecStep
<1> QED
  BY <1>3, <1>4, <1>5 DEF Apart

\* A node whose claim is being deleted has released its regions or was given up, is
\* no voter, and stays apart.
DeletingReleased ==
  \A o \in Ordinals : volume[o] = "deleting" => Released(o) /\ o \notin voters /\ Apart(o)

\* The inductive invariant behind NoDataDestroyed and LogNeverReverts.
ClaimInv == DataInv /\ CarryInv /\ DeletingReleased

\* Initially no claim is being deleted.
LEMMA ClaimInit == OperatorDecides /\ OneEdit /\ Init => ClaimInv
<1>1. Init => DeletingReleased
  BY DEF Init, DeletingReleased
<1> QED
  BY <1>1, DataInit, CarryInit DEF ClaimInv

\* Every step preserves the inductive invariant.
LEMMA ClaimStep == ClaimInv /\ [Next]_vars => ClaimInv'
<1> SUFFICES ASSUME ClaimInv, [Next]_vars PROVE ClaimInv'
  OBVIOUS
<1>1. DataInv' /\ CarryInv'
  BY DataStep, CarryStep DEF ClaimInv
<1>2. ASSUME NEW o \in Ordinals, volume'[o] = "deleting"
      PROVE  Released(o)' /\ o \notin voters' /\ Apart(o)'
  <2>1. Apart(o)'
    BY <1>2, ApartStep DEF ClaimInv, DeletingReleased
  <2>2. CASE volume[o] # "deleting"
    <3>1. o >= size /\ size > 0 /\ UNCHANGED <<state, gone, voters>>
      BY <1>2, <2>2, VolumeLeaves DEF ClaimInv, CarryInv
    <3>2. size \in Nat /\ o \in Int
      BY DEF ClaimInv, CarryInv, TypeOK, Ordinals
    <3>3. Released(o)
      BY <3>1, <3>2 DEF ClaimInv, DataInv, OutsideReleased
    <3>4. o \notin voters
      BY <3>1, <3>2 DEF ClaimInv, DataInv, VotersInv, VotersBelong
    <3> QED
      BY <2>1, <3>1, <3>3, <3>4 DEF Released, Done
  <2>3. CASE volume[o] = "deleting"
    <3>1. Released(o) /\ o \notin voters /\ ~Asked(o)
      BY <2>3, ApartNotAsked DEF ClaimInv, DeletingReleased
    <3> QED
      BY <2>1, <3>1, DoneStep, JoinStep DEF Released, ClaimInv, CarryInv
  <2> QED
    BY <2>2, <2>3
<1> QED
  BY <1>1, <1>2 DEF ClaimInv, DeletingReleased

\* When edits come one after another no volume is ever lost with data on it, unless
\* its node did not answer when it was taken away, whatever crashes, restarts or is
\* evicted meanwhile.
THEOREM DataNeverDestroyed == OperatorDecides /\ OneEdit /\ Spec => NoDataDestroyed
<1>1. ClaimInv => \A o \in Ordinals : VolumeGone(o) => Empty(o) \/ o \in gone
  BY DEF ClaimInv, DataInv, DeletingReleased, DoneIsEmpty, Released, VolumeGone
<1>2. ClaimInv /\ [Next]_vars =>
        [\A o \in Ordinals : VolumeGone(o) => Empty(o) \/ o \in gone]_vars
  BY <1>1
<1> QED
  BY <1>2, ClaimInit, ClaimStep, PTL DEF Spec, NoDataDestroyed

\* Under the same conditions no Raft voter ever loses its volume, so none comes back
\* from a restart or an eviction with an empty log.
THEOREM LogsNeverRevert == OperatorDecides /\ OneEdit /\ Spec => LogNeverReverts
<1>1. ClaimInv => \A o \in Ordinals : VolumeGone(o) => o \notin voters
  BY DEF ClaimInv, DeletingReleased, VolumeGone
<1>2. ClaimInv /\ [Next]_vars => [\A o \in Ordinals : VolumeGone(o) => o \notin voters]_vars
  BY <1>1
<1> QED
  BY <1>2, ClaimInit, ClaimStep, PTL DEF Spec, LogNeverReverts

-----------------------------------------------------------------------------
(* One edit after another, and all nodes answer *)

\* The pods that are to stay are neither cut off nor evicted, either.
OneByOne == OneEdit /\ "cut" \notin Faults /\ "replaced" \notin Faults

AllAnswer == \A o \in Ordinals : pods[o] # "cut"

\* While the StatefulSet is to shrink all its pods run.
StaffedToShrink == replicas < size => \A o \in Ordinals : o < size => pods[o] = "up"

\* What the reconcile takes away is done, until its volume claims are deleted.
DepartingDone ==
  op.pc \in {"voters", "apply", "cleanup"} => \A o \in Departing(op.want, op.prev) : Done(o)

\* A node whose volume is to be deleted is done, and does not come back.
DeletingDone == \A o \in Ordinals : volume[o] = "deleting" => Done(o) /\ Apart(o)

\* The inductive invariant behind DeletedVolumesEmpty and OneAtATime.
EditInv ==
  /\ OneByOne
  /\ CarryInv
  /\ DoneIsEmpty
  /\ AllAnswer
  /\ StaffedToShrink
  /\ DepartingDone
  /\ DeletingDone

\* Initially nothing is to be done.
LEMMA EditInit == OneByOne /\ Init => EditInv
<1> SUFFICES ASSUME OneByOne, Init PROVE EditInv
  OBVIOUS
<1>1. size = replicas /\ replicas \in Nat /\ op.pc = "idle"
  BY ConstantsAssumption DEF Init, IdleOp, Sizes
<1>3. DepartingDone /\ StaffedToShrink
  BY <1>1 DEF DepartingDone, StaffedToShrink
<1>5. AllAnswer /\ DeletingDone
  BY DEF Init, AllAnswer, DeletingDone
<1> QED
  BY <1>3, <1>5, CarryInit, EmptyInit DEF EditInv, OneByOne

\* While nothing is evicted a pod is deleted only once it is outside the StatefulSet,
\* by whichever of the StatefulSet controller and deleteStuckDepartedPods comes first.
LEMMA PodLeaves ==
  ASSUME "replaced" \notin Faults, TypeOK, Applied, [Next]_vars, NEW o \in Ordinals,
         pods[o] \in {"up", "cut"}, pods'[o] \notin {"up", "cut"}
  PROVE  o >= size
<1>1. pods \in [Ordinals -> {"absent", "up", "cut", "terminating"}]
  BY DEF TypeOK
<1>2. op.want \in Nat /\ op.want > 0 /\ op.had \in Int /\ o \in Int
  BY ConstantsAssumption DEF TypeOK, OpTypes, Sizes, Ordinals
<1>3. CASE CleanUp \/ ReturnForRestart
  <2>1. /\ pods' = [n \in Ordinals |-> IF Stuck(n) THEN "terminating" ELSE pods[n]]
        /\ op.pc = "cleanup"
    BY <1>3 DEF CleanUp, ReturnForRestart
  <2>2. Stuck(o) /\ op.want = size
    BY <2>1 DEF Applied
  <2> QED
    BY <1>2, <2>1, <2>2 DEF Stuck
<1>4. ASSUME NEW n \in Ordinals, StsDelete(n)
      PROVE  o >= size
  <2>1. pods' = [pods EXCEPT ![n] = "terminating"]
    BY <1>4 DEF StsDelete
  <2>2. n = o
    BY <1>1, <2>1
  <2> QED
    BY <1>4, <2>2 DEF StsDelete
<1>5. ASSUME NEW n \in Ordinals, StsCreate(n) \/ PodGone(n) \/ Cut(n) \/ Heal(n) PROVE FALSE
  BY <1>1, <1>5 DEF StsCreate, PodGone, Cut, Heal
<1>6. pods' # pods
  OBVIOUS
<1> QED
  BY <1>3, <1>4, <1>5, <1>6
     DEF Next, OperatorStep, Begin, Evacuate, RemoveVoter, HoldVoters, VotersRemoved,
         ApplyReplicas, DeleteForPolicy, CreateStatefulSet, View, AddNode, AddNodeFails,
         EndReconcile, OperatorCrash, NodeStep, Move, Evacuated, Elect, StsStep,
         VolumeGone, Probe, Evict, EditReplicas, TogglePolicy, HpaScales, vars

\* Without cuts no pod becomes unreachable.
LEMMA AnswerStep == EditInv /\ [Next]_vars => AllAnswer'
<1> SUFFICES ASSUME EditInv, [Next]_vars, NEW o \in Ordinals PROVE pods'[o] # "cut"
  BY DEF AllAnswer
<1>1. pods \in [Ordinals -> {"absent", "up", "cut", "terminating"}] /\ pods[o] # "cut"
  BY DEF EditInv, CarryInv, TypeOK, AllAnswer
<1>2. CASE CleanUp \/ ReturnForRestart
  BY <1>1, <1>2 DEF CleanUp, ReturnForRestart
<1>3. ASSUME NEW n \in Ordinals, StsCreate(n) \/ StsDelete(n) \/ PodGone(n) \/ Heal(n)
      PROVE  pods'[o] # "cut"
  BY <1>1, <1>3 DEF StsCreate, StsDelete, PodGone, Heal
<1>4. ASSUME NEW n \in Ordinals, Cut(n) \/ Evict(n) PROVE FALSE
  BY <1>4 DEF Cut, Evict, EditInv, OneByOne
<1>5. CASE pods' = pods
  BY <1>1, <1>5
<1> QED
  BY <1>2, <1>3, <1>4, <1>5
     DEF Next, OperatorStep, Begin, Evacuate, RemoveVoter, HoldVoters, VotersRemoved,
         ApplyReplicas, DeleteForPolicy, CreateStatefulSet, View, AddNode, AddNodeFails,
         EndReconcile, OperatorCrash, NodeStep, Move, Evacuated, Elect, StsStep,
         VolumeGone, Probe, EditReplicas, TogglePolicy, HpaScales, vars

\* The spec is edited when the pods are those of the StatefulSet; until that has
\* been resized none of them goes.
LEMMA StaffStep == EditInv /\ [Next]_vars => StaffedToShrink'
<1> SUFFICES ASSUME EditInv, [Next]_vars, replicas' < size', NEW o \in Ordinals, o < size'
             PROVE  pods'[o] = "up"
  BY DEF StaffedToShrink
<1>1. TypeOK /\ Applied /\ TypeOK' /\ "replaced" \notin Faults /\ CarryInv
  BY TypeStep DEF EditInv, CarryInv, OneByOne
<1>2. replicas \in Nat /\ replicas > 0 /\ size \in Nat /\ size' \in Nat /\ o \in Int
  BY <1>1, ConstantsAssumption DEF TypeOK, Sizes, Ordinals
<1>3. pods[o] # "cut" /\ pods'[o] # "cut"
  BY AnswerStep DEF EditInv, AllAnswer
<1>4. CASE EditReplicas /\ Settled /\ size' = size
  <2>1. o < replicas /\ pods' = pods
    BY <1>4 DEF EditReplicas, Settled
  <2>2. pods[o] \in {"up", "cut"}
    BY <1>4, <2>1 DEF Settled, Ready
  <2> QED
    BY <1>3, <2>1, <2>2
<1>5. CASE replicas' = replicas /\ size' = size
  <2>1. pods[o] = "up" /\ ~(o >= size)
    BY <1>2, <1>5 DEF EditInv, StaffedToShrink
  <2>2. pods'[o] \in {"up", "cut"}
    BY <1>1, <2>1, PodLeaves
  <2> QED
    BY <1>3, <2>2
<1>6. CASE replicas' = replicas /\ size' \in {0, replicas}
  BY <1>2, <1>6
<1> QED
  BY <1>1, <1>4, <1>5, <1>6, SpecStep

\* Every departing node runs and answers, so the gate lets none pass that is not
\* done; from then on nothing takes it back.
LEMMA GateStep == EditInv /\ [Next]_vars => DepartingDone'
<1> SUFFICES ASSUME EditInv, [Next]_vars, op'.pc \in {"voters", "apply", "cleanup"},
                    NEW o \in Departing(op'.want, op'.prev)
             PROVE  Done(o)'
  BY DEF DepartingDone
<1>1. TypeOK /\ op \in OpTypes /\ TypeOK' /\ op' \in OpTypes /\ OneEdit
  BY TypeStep DEF EditInv, CarryInv, TypeOK
<1>2. o \in Ordinals /\ o \in Int /\ op.want \in Nat /\ op.prev \in Nat /\ replicas \in Nat
  BY <1>1, ConstantsAssumption DEF TypeOK, OpTypes, Sizes, Departing, Ordinals
<1>3. CASE Evacuate
  <2> DEFINE departing == Departing(op.want, op.prev)
             evacuated == \A n \in departing : ~gate(n)
  <2>1. op.pc = "hooks" /\ evacuated /\ op' = [op EXCEPT !.pc = "voters", !.todo = departing]
    BY <1>3 DEF Evacuate, IdleOp
  <2>2. o \in departing /\ ~gate(o)
    BY <1>1, <2>1 DEF OpTypes
  <2>3. op.prev = size /\ op.want = replicas /\ replicas < size /\ o < size
    BY <1>2, <2>1, <2>2 DEF EditInv, CarryInv, KnowsSize, WantsEither, Departing
  <2>4. state[o] = "leaving"
    BY <1>2, <2>2, <2>3 DEF EditInv, StaffedToShrink, gate, Reachable
  <2>5. PICK told \in SUBSET Tell(departing) :
          state' = [n \in Ordinals |-> IF n \in told THEN "decommissioning" ELSE state[n]]
    BY <1>3 DEF Evacuate, DecommissionNode
  <2>6. o \notin told
    BY <2>2, <2>5 DEF Tell, decommission
  <2> QED
    BY <1>2, <2>4, <2>5, <2>6 DEF Done
<1>4. CASE /\ op.pc \in {"voters", "apply", "cleanup"}
           /\ op'.want = op.want /\ op'.prev = op.prev
  <2>1. Done(o)
    BY <1>4 DEF EditInv, DepartingDone
  <2>2. ~Asked(o)
    BY <1>4 DEF Asked
  <2> QED
    BY <1>1, <1>2, <2>1, <2>2, DoneStep
<1>5. CASE RemoveVoter \/ VotersRemoved \/ ApplyReplicas \/ CreateStatefulSet
  <2>1. op.pc \in {"voters", "apply", "cleanup"}
    BY <1>5 DEF RemoveVoter, VotersRemoved, ApplyReplicas, CreateStatefulSet
  <2>2. op' # IdleOp /\ ~Begin /\ ~CleanUp
    BY <2>1, <1>5 DEF IdleOp, Begin, CleanUp, RemoveVoter, VotersRemoved, ApplyReplicas,
                      CreateStatefulSet
  <2> QED
    BY <1>1, <1>4, <1>5, <2>1, <2>2, GoesOn DEF OperatorStep
<1>6. CASE UNCHANGED op
  BY <1>4, <1>6
<1>7. op' # IdleOp /\ ~Begin /\ ~CleanUp /\ ~View /\ ~AddNode /\ ~AddNodeFails
  <2>1. op' # IdleOp
    BY DEF IdleOp
  <2>2. ~Begin /\ ~CleanUp /\ ~View
    BY <1>1 DEF Begin, IdleOp, CleanUp, View, OpTypes
  <2>3. ~AddNode /\ ~AddNodeFails
    BY <1>1 DEF AddNode, AddNodeFails, OpTypes
  <2> QED
    BY <2>1, <2>2, <2>3
<1>8. CASE Environment \/ UNCHANGED vars
  BY <1>1, <1>6, <1>8, EditFrame DEF vars
<1> QED
  BY <1>3, <1>5, <1>7, <1>8
     DEF Next, OperatorStep, Environment, HoldVoters, DeleteForPolicy, EndReconcile,
         ReturnForRestart, OperatorCrash

\* CleanupOrphanPVCs deletes the claims of nodes that are done.
LEMMA DeletingStep == EditInv /\ [Next]_vars => DeletingDone'
<1> SUFFICES ASSUME EditInv, [Next]_vars, NEW o \in Ordinals, volume'[o] = "deleting"
             PROVE  Done(o)' /\ Apart(o)'
  BY DEF DeletingDone
<1>1. CarryInv /\ TypeOK /\ Applied
  BY DEF EditInv, CarryInv
<1>2. Apart(o)'
  BY <1>1, ApartStep DEF EditInv, DeletingDone
<1>3. CASE volume[o] # "deleting"
  <2>1. CleanUp /\ o \in Departing(op.want, op.prev) /\ state' = state
    BY <1>1, <1>3, VolumeLeaves
  <2>2. op.pc = "cleanup"
    BY <2>1 DEF CleanUp
  <2> QED
    BY <1>2, <2>1, <2>2 DEF EditInv, DepartingDone, Done
<1>4. CASE volume[o] = "deleting"
  <2>1. Done(o) /\ ~Asked(o)
    BY <1>1, <1>4, ApartNotAsked DEF EditInv, DeletingDone
  <2> QED
    BY <1>1, <1>2, <2>1, DoneStep
<1> QED
  BY <1>3, <1>4

\* Every step preserves the inductive invariant.
LEMMA EditStep == EditInv /\ [Next]_vars => EditInv'
<1> SUFFICES ASSUME EditInv, [Next]_vars PROVE EditInv'
  OBVIOUS
<1>1. OneByOne' /\ CarryInv' /\ DoneIsEmpty'
  BY CarryStep, EmptyStep DEF EditInv, CarryInv, OneByOne, OneEdit
<1> QED
  BY <1>1, AnswerStep, StaffStep, GateStep, DeletingStep DEF EditInv

\* When edits come one after another and all nodes answer, a volume claim that has
\* been deleted holds no region from that moment on, whatever crashes and whatever
\* the pod management policy.
THEOREM DeletedAlwaysEmpty == OneByOne /\ Spec => []DeletedVolumesEmpty
<1>1. EditInv => DeletedVolumesEmpty
  BY DEF EditInv, DeletingDone, DoneIsEmpty, DeletedVolumesEmpty
<1> QED
  BY <1>1, EditInit, EditStep, PTL DEF Spec

\* A node is told to go only once all departing nodes above it are done, unless the
\* annotation asks for all together.
LEMMA ToldInTurn ==
  ASSUME EditInv, ~Together, Evacuate, NEW o \in Ordinals,
         state[o] # "decommissioning", state'[o] = "decommissioning",
         NEW h \in o + 1 .. op.prev - 1
  PROVE  Empty(h)
<1>1. TypeOK /\ op.pc = "hooks"
  BY DEF EditInv, CarryInv, Evacuate
<1>2. /\ op.want \in Nat /\ op.prev \in Nat /\ o \in Nat /\ replicas \in Nat
      /\ op.prev <= MaxReplicas /\ MaxReplicas \in Nat
  BY <1>1, ConstantsAssumption DEF TypeOK, OpTypes, Sizes, Ordinals
<1> DEFINE departing == Departing(op.want, op.prev)
<1>3. PICK told \in SUBSET Tell(departing) :
        state' = [n \in Ordinals |-> IF n \in told THEN "decommissioning" ELSE state[n]]
  BY DEF Evacuate, DecommissionNode
<1>4. o \in Tell(departing)
  BY <1>3
<1>5. h \in departing /\ h > o /\ h \in Ordinals
  BY <1>2, <1>4 DEF Tell, Departing, Ordinals
<1>6. ~gate(h)
  BY <1>4, <1>5 DEF Tell
<1>7. op.prev = size /\ replicas < size /\ h < size
  BY <1>1, <1>2, <1>5 DEF EditInv, CarryInv, KnowsSize, WantsEither, Departing
<1>8. state[h] = "leaving"
  BY <1>5, <1>6, <1>7 DEF EditInv, StaffedToShrink, gate, Reachable
<1> QED
  BY <1>5, <1>8 DEF EditInv, DoneIsEmpty, Done

\* Under the same conditions the nodes leave one at a time, from the top.
THEOREM ToldOneAtATime == OneByOne /\ ~Together /\ Spec => OneAtATime
<1> DEFINE Inv == EditInv /\ ~Together
<1>1. Inv /\ [Next]_vars =>
        [\A o \in Ordinals :
           /\ Evacuate
           /\ state[o] # "decommissioning" /\ state'[o] = "decommissioning"
           => \A h \in o + 1 .. op.prev - 1 : Empty(h)]_vars
  BY ToldInTurn
<1>2. OneByOne /\ ~Together /\ Init => Inv
  BY EditInit
<1>3. Inv /\ [Next]_vars => Inv'
  BY EditStep
<1> QED
  BY <1>1, <1>2, <1>3, PTL DEF Spec, OneAtATime

=============================================================================
