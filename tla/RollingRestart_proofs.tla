------------------------ MODULE RollingRestart_proofs ------------------------
(***************************************************************************)
(* Theorems about RollingRestart, for every number of replicas, proxies,   *)
(* revisions and edits and for every combination of faults; the last two   *)
(* for edits that wait for the one before them to be rolled out.           *)
(***************************************************************************)
EXTENDS RollingRestart, TLAPS

\* A copy of the cluster that the operator may act on is the cluster's last
\* version or an earlier one of the same restart: what rolloutPartition and
\* releaseOrdinal make of it does not reach below the restart's ordinal.
NotAhead(obj) ==
  Active(cluster.rr) =>
    /\ obj.rr.phase # "Completed"
    /\ obj.rr.phase = "None" => obj.replicas > cluster.rr.ordinal
    /\ Active(obj.rr) => obj.rr.ordinal >= cluster.rr.ordinal

Reading == op.pc \in {"apply", "restart", "started"}

\* A fresh copy agrees with the cluster, but for the passing of time.
FreshCopy ==
  Reading /\ op.fresh =>
    /\ op.obj.replicas = cluster.replicas
    /\ op.obj.rr.phase = cluster.rr.phase
    /\ op.obj.rr.ordinal = cluster.rr.ordinal

\* The handlers run with the partition this reconcile has applied.
AppliedPartition ==
  op.pc = "restart" => sts.partition = rolloutPartition(op.obj.rr, op.obj.replicas)

StartedCopy == op.pc = "started" => op.obj.rr.phase = "Excluding"

\* What is about to be written goes on from the restart that is recorded.
NextState ==
  op.pc = "write" /\ op.fresh =>
    /\ Active(cluster.rr)
    /\ op.obj.rr.phase # "None"
    /\ op.obj.rr.ordinal <= cluster.rr.ordinal
    /\ Active(op.obj.rr) => sts.partition >= op.obj.rr.ordinal

\* The inductive invariant behind PartitionGuards, without the types.
PartitionCore ==
  /\ PartitionGuards
  /\ NotAhead(cache)
  /\ Reading => NotAhead(op.obj)
  /\ FreshCopy
  /\ AppliedPartition
  /\ StartedCopy
  /\ NextState

PartitionInv == TypeOK /\ PartitionCore

-----------------------------------------------------------------------------
(* Types of the values the actions build *)

OpTypes ==
  [pc : {"idle", "apply", "restart", "started", "write"}, fresh : BOOLEAN,
   obj : Objects, ready : BOOLEAN]

StsTypes ==
  [tmpl : Revs, replicas : 1 .. MaxReplicas, partition : 0 .. MaxReplicas,
   cur : Revs, upd : Revs, pods : SUBSET Ordinals,
   ready : SUBSET Ordinals, updated : SUBSET Ordinals]

\* What ensureRollingRestartState and the handlers build is a restart state.
LEMMA RestartType ==
  ASSUME NEW phase \in Phases, NEW ordinal \in Ordinals, NEW confirmed \in BOOLEAN
  PROVE  Restart(phase, ordinal, confirmed) \in RestartStates
BY DEF Restart, RestartStates

\* A cleared status.rollingRestart is a restart state.
LEMMA NoRestartType == NoRestart \in RestartStates
<1>1. 0 \in Ordinals
  BY ConstantsAssumption DEF Ordinals
<1> QED
  BY <1>1, RestartType DEF NoRestart, Phases

\* What is kept between two reconciles is a reconcile's state.
LEMMA IdleOpType == IdleOp \in OpTypes
<1>1. (CHOOSE r \in Revs : TRUE) \in Revs
  BY ConstantsAssumption
<1>2. 1 \in 1 .. MaxReplicas
  BY ConstantsAssumption
<1> QED
  BY <1>1, <1>2, NoRestartType DEF IdleOp, OpTypes, Objects

\* rolloutPartition stays between 0 and the largest number of replicas.
LEMMA PartitionType ==
  ASSUME NEW rr \in RestartStates, NEW n \in 1 .. MaxReplicas
  PROVE  rolloutPartition(rr, n) \in 0 .. MaxReplicas
BY ConstantsAssumption DEF rolloutPartition, RestartStates, Phases, Ordinals

\* A restart whose time limit passes (PhaseStartedAt) stays a restart state.
LEMMA AgeType ==
  ASSUME NEW rr \in RestartStates
  PROVE  Age(rr) \in RestartStates
BY DEF Age, RestartStates

\* A step of the operator that only writes rollingRestart keeps the types.
LEMMA UpdateNowType ==
  ASSUME TypeOK, NEW rr \in RestartStates,
         NEW pc \in {"idle", "started"}, UpdateNow(rr, pc)
  PROVE  TypeOK'
<1>1. op \in OpTypes /\ cluster \in Objects /\ cache \in Objects
  BY DEF TypeOK, OpTypes
<1>2. [cluster EXCEPT !.rr = rr] \in Objects
  BY <1>1 DEF Objects
<1>3. [op EXCEPT !.pc = pc, !.obj.rr = rr] \in OpTypes
  BY <1>1 DEF OpTypes, Objects
<1>4. cluster' \in Objects /\ cache' \in Objects /\ op' \in OpTypes
  BY <1>1, <1>2, <1>3, IdleOpType DEF UpdateNow, Store
<1> QED
  BY <1>4 DEF UpdateNow, TypeOK, OpTypes

\* So does a step that leaves the new state to WriteStatus.
LEMMA ThenWriteType ==
  ASSUME TypeOK, NEW rr \in RestartStates, ThenWrite(rr)
  PROVE  op' \in OpTypes
<1>1. op \in OpTypes
  BY DEF TypeOK, OpTypes
<1> QED
  BY <1>1 DEF ThenWrite, OpTypes, Objects

\* A user's edit of the cluster keeps the types.
LEMMA EditType ==
  ASSUME TypeOK, NEW obj \in Objects, Edit(obj)
  PROVE  TypeOK'
<1>1. op \in OpTypes
  BY DEF TypeOK, OpTypes
<1>2. op' \in OpTypes
  BY <1>1 DEF Edit, OpTypes
<1>3. edits' \in 0 .. MaxEdits
  BY ConstantsAssumption DEF Edit, TypeOK
<1> QED
  BY <1>2, <1>3 DEF Edit, Store, TypeOK, OpTypes

\* releaseOrdinal keeps the types.
LEMMA ReleaseType ==
  ASSUME TypeOK, NEW rr \in RestartStates, Release(rr)
  PROVE  TypeOK'
<1>1. sts \in StsTypes
  BY DEF TypeOK, StsTypes
<1>2. rr.ordinal \in Ordinals /\ rr.confirmed \in BOOLEAN
  BY DEF RestartStates
<1>3. sts' \in StsTypes
  BY <1>1, <1>2, ConstantsAssumption DEF Release, StsTypes, Ordinals
<1>4. Restart("WaitingReady", rr.ordinal, rr.confirmed) \in RestartStates
  BY <1>2, RestartType DEF Phases
<1>5. op' \in OpTypes
  BY <1>4, ThenWriteType DEF Release
<1> QED
  BY <1>3, <1>5 DEF Release, TypeOK, OpTypes, StsTypes

\* The kubelet's changes of a pod keep the types.
LEMMA PodMovesType ==
  ASSUME TypeOK, NEW o \in Ordinals, NEW from \in PodPhases, NEW to \in PodPhases,
         PodMoves(o, from, to)
  PROVE  TypeOK'
BY DEF PodMoves, TypeOK, PodPhases

-----------------------------------------------------------------------------
(* Type correctness *)

\* The initial states are well typed.
LEMMA TypeInit == Init => TypeOK
<1> SUFFICES ASSUME Init PROVE TypeOK
  OBVIOUS
<1>1. PICK r \in Revs, n \in 1 .. MaxReplicas :
        /\ cluster = [tmpl |-> r, replicas |-> n, rr |-> NoRestart]
        /\ sts = [tmpl |-> r, replicas |-> n, partition |-> n, cur |-> r, upd |-> r,
                  pods |-> 0 .. n - 1, ready |-> 0 .. n - 1, updated |-> 0 .. n - 1]
        /\ pods = [o \in Ordinals |->
                    [phase |-> IF o < n THEN "ready" ELSE "absent", rev |-> r]]
  BY DEF Init
<1>2. cluster \in Objects /\ cache \in Objects
  BY <1>1, NoRestartType DEF Init, Objects
<1>3. 0 .. n - 1 \in SUBSET Ordinals /\ n \in 0 .. MaxReplicas
  BY ConstantsAssumption DEF Ordinals
<1>4. sts \in StsTypes
  BY <1>1, <1>3 DEF StsTypes
<1>5. pods \in [Ordinals -> [phase : PodPhases, rev : Revs]]
  BY <1>1 DEF PodPhases
<1>6. op \in OpTypes
  BY IdleOpType DEF Init
<1>7. edits \in 0 .. MaxEdits
  BY ConstantsAssumption DEF Init
<1>8. up \in [Proxies -> BOOLEAN] /\ excl \in [Proxies -> SUBSET Ordinals]
  BY DEF Init
<1> QED
  BY <1>2, <1>4, <1>5, <1>6, <1>7, <1>8 DEF TypeOK, OpTypes, StsTypes

\* Every step of the operator keeps the types.
LEMMA OperatorType ==
  ASSUME TypeOK,
         OperatorStep \/ HoldForEvacuation \/ OperatorCrash \/ CacheSync
  PROVE  TypeOK'
<1> DEFINE rr == op.obj.rr
<1>1. op \in OpTypes /\ sts \in StsTypes /\ cluster \in Objects /\ cache \in Objects
  BY DEF TypeOK, OpTypes, StsTypes
<1>2. op.obj \in Objects /\ rr \in RestartStates /\ op.obj.replicas \in 1 .. MaxReplicas
      /\ op.obj.tmpl \in Revs
  BY <1>1 DEF OpTypes, Objects
<1>3. rr.ordinal \in Ordinals /\ rr.confirmed \in BOOLEAN
  BY <1>2 DEF RestartStates
<1>4. ASSUME op' = IdleOp, UNCHANGED <<cluster, cache, edits, sts, pods, up, excl>>
      PROVE  TypeOK'
  BY <1>4, IdleOpType DEF TypeOK, OpTypes
<1>5. CASE Begin
  <2>1. op' \in OpTypes
    BY <1>5, <1>1 DEF Begin, OpTypes
  <2> QED
    BY <1>5, <2>1 DEF Begin, TypeOK, OpTypes
<1>6. CASE ApplyStatefulSet
  <2>1. rolloutPartition(rr, op.obj.replicas) \in 0 .. MaxReplicas
    BY <1>2, PartitionType
  <2>2. sts' \in StsTypes
    BY <1>6, <1>1, <1>2, <2>1 DEF ApplyStatefulSet, StsTypes
  <2>3. op' \in OpTypes
    BY <1>6, <1>1 DEF ApplyStatefulSet, OpTypes
  <2> QED
    BY <1>6, <2>2, <2>3 DEF ApplyStatefulSet, TypeOK, OpTypes, StsTypes
<1>7. CASE NothingToRestart \/ CompletedWait \/ ExcludeNoIP \/ DrainWait
           \/ WaitForReplacement \/ OperatorCrash \/ HoldForEvacuation
  BY <1>7, <1>4 DEF NothingToRestart, CompletedWait, ExcludeNoIP, DrainWait,
       WaitForReplacement, OperatorCrash, HoldForEvacuation, Return
<1>8. CASE ClearCompleted \/ ClearUnstarted
  BY <1>8, UpdateNowType, NoRestartType DEF ClearCompleted, ClearUnstarted
<1>9. CASE StartRestart
  <2>1. op.obj.replicas - 1 \in Ordinals
    BY <1>2, ConstantsAssumption DEF Ordinals
  <2>2. Restart("Excluding", op.obj.replicas - 1, FALSE) \in RestartStates
    BY <2>1, RestartType DEF Phases
  <2> QED
    BY <1>9, <2>2, UpdateNowType DEF StartRestart
<1>10. CASE ExcludeSkip \/ DrainDone
  BY <1>10, <1>2, ReleaseType DEF ExcludeSkip, DrainDone
<1>11. CASE Exclude
  <2>1. Restart("Draining", rr.ordinal, TRUE) \in RestartStates
        /\ Restart("Draining", rr.ordinal, FALSE) \in RestartStates
    BY <1>3, RestartType DEF Phases
  <2>2. PICK ok \in BOOLEAN, told \in SUBSET Proxies :
          /\ excl' = [p \in Proxies |->
                        IF p \in told THEN excl[p] \cup {rr.ordinal} ELSE excl[p]]
          /\ \/ ThenWrite(Restart("Draining", rr.ordinal, rr.confirmed \/ ok))
             \/ op' = IdleOp
    BY <1>11 DEF Exclude, Told, Running
  <2>3. op' \in OpTypes
    BY <2>1, <2>2, <1>3, ThenWriteType, IdleOpType
  <2>4. excl' \in [Proxies -> SUBSET Ordinals]
    BY <2>2, <1>3 DEF TypeOK
  <2> QED
    BY <1>11, <2>3, <2>4 DEF Exclude, TypeOK, OpTypes
<1>12. CASE Include
  <2>1. AfterInclude(rr.ordinal) \in RestartStates
    <3>1. CASE rr.ordinal = 0
      BY <3>1, <1>3, RestartType DEF AfterInclude, Phases
    <3>2. CASE rr.ordinal # 0
      <4>1. rr.ordinal - 1 \in Ordinals
        BY <3>2, <1>3, ConstantsAssumption DEF Ordinals
      <4> QED
        BY <3>2, <4>1, RestartType DEF AfterInclude, Phases
    <3> QED
      BY <3>1, <3>2
  <2>2. PICK told \in SUBSET Proxies :
          /\ excl' = [p \in Proxies |->
                        IF p \in told THEN excl[p] \ {rr.ordinal} ELSE excl[p]]
          /\ ThenWrite(AfterInclude(rr.ordinal)) \/ op' = IdleOp
    BY <1>12 DEF Include, Told, Running
  <2>3. op' \in OpTypes
    BY <2>1, <2>2, ThenWriteType, IdleOpType
  <2>4. excl' \in [Proxies -> SUBSET Ordinals]
    BY <2>2 DEF TypeOK
  <2> QED
    BY <1>12, <2>3, <2>4 DEF Include, TypeOK, OpTypes
<1>13. CASE WriteStatus
  BY <1>13, <1>2, UpdateNowType DEF WriteStatus
<1>14. CASE CacheSync
  BY <1>14 DEF CacheSync, TypeOK
<1> QED
  BY <1>5, <1>6, <1>7, <1>8, <1>9, <1>10, <1>11, <1>12, <1>13, <1>14
     DEF OperatorStep, Handler

\* So does everything outside the operator.
LEMMA EnvironmentType ==
  ASSUME TypeOK,
         \/ StsStep \/ PodStep \/ Tick \/ EditTemplate \/ EditReplicas
         \/ \E o \in Ordinals : PodUnready(o) \/ PodEvicted(o)
         \/ \E p \in Proxies : ProxyStop(p) \/ ProxyStart(p)
  PROVE  TypeOK'
<1>1. op \in OpTypes /\ sts \in StsTypes /\ cluster \in Objects /\ cache \in Objects
  BY DEF TypeOK, OpTypes, StsTypes
<1>2. CASE StsStatus
  <2>1. sts' \in StsTypes
    BY <1>2, <1>1 DEF StsStatus, StsTypes
  <2> QED
    BY <1>2, <2>1 DEF StsStatus, TypeOK, StsTypes
<1>3. ASSUME NEW o \in Ordinals, StsCreate(o) PROVE TypeOK'
  <2>1. pods' \in [Ordinals -> [phase : PodPhases, rev : Revs]]
    BY <1>3 DEF StsCreate, TypeOK, PodPhases
  <2>2. excl' \in [Proxies -> SUBSET Ordinals]
    BY <1>3 DEF StsCreate, TypeOK
  <2> QED
    BY <1>3, <2>1, <2>2 DEF StsCreate, TypeOK
<1>4. ASSUME NEW o \in Ordinals, StsReplace(o) \/ StsScaleDown(o) PROVE TypeOK'
  BY <1>4 DEF StsReplace, StsScaleDown, Terminate, TypeOK, PodPhases
<1>5. ASSUME NEW o \in Ordinals,
             PodGetsIP(o) \/ PodBecomesReady(o) \/ PodGone(o) \/ PodUnready(o)
               \/ PodEvicted(o)
      PROVE  TypeOK'
  BY <1>5, PodMovesType DEF PodGetsIP, PodBecomesReady, PodGone, PodUnready, PodEvicted,
       PodPhases
<1>6. ASSUME NEW p \in Proxies, ProxyStop(p) \/ ProxyStart(p) PROVE TypeOK'
  BY <1>6 DEF ProxyStop, ProxyStart, TypeOK
<1>7. CASE Tick
  <2>1. cluster' \in Objects /\ cache' \in Objects
    BY <1>7, <1>1, AgeType DEF Tick, Objects
  <2> QED
    BY <1>7, <2>1 DEF Tick, TypeOK
<1>8. CASE EditTemplate
  <2>1. PICK r \in Revs : Edit([cluster EXCEPT !.tmpl = r])
    BY <1>8 DEF EditTemplate
  <2>2. [cluster EXCEPT !.tmpl = r] \in Objects
    BY <1>1 DEF Objects
  <2> QED
    BY <2>1, <2>2, EditType
<1>9. CASE EditReplicas
  <2>1. PICK n \in 1 .. MaxReplicas : Edit([cluster EXCEPT !.replicas = n])
    BY <1>9 DEF EditReplicas
  <2>2. [cluster EXCEPT !.replicas = n] \in Objects
    BY <1>1 DEF Objects
  <2> QED
    BY <2>1, <2>2, EditType
<1> QED
  BY <1>2, <1>3, <1>4, <1>5, <1>6, <1>7, <1>8, <1>9 DEF StsStep, PodStep

\* Every step keeps the types.
LEMMA TypeStep == TypeOK /\ [Next]_vars => TypeOK'
<1> SUFFICES ASSUME TypeOK, [Next]_vars PROVE TypeOK'
  OBVIOUS
<1>1. CASE UNCHANGED vars
  BY <1>1 DEF vars, TypeOK
<1>2. CASE Next
  BY <1>2, OperatorType, EnvironmentType DEF Next
<1> QED
  BY <1>1, <1>2

\* Every reachable state of the operator, the StatefulSet, the pods and the
\* proxies is well formed.
THEOREM TypeCorrect == Spec => []TypeOK
BY TypeInit, TypeStep, PTL DEF Spec

-----------------------------------------------------------------------------
(* The partition guards the pods below the restart's ordinal *)

\* Initially no restart is recorded, cached or under way.
LEMMA PartitionInit == Init => PartitionCore
<1> SUFFICES ASSUME Init PROVE PartitionCore
  OBVIOUS
<1>1. cluster.rr.phase = "None"
  BY DEF Init, NoRestart, Restart
<1>2. op.pc = "idle"
  BY DEF Init, IdleOp
<1> QED
  BY <1>1, <1>2 DEF PartitionCore, PartitionGuards, NotAhead, Reading, FreshCopy,
       AppliedPartition, StartedCopy, NextState, Active

\* The facts about types that the steps below use.
LEMMA Fields ==
  ASSUME TypeOK
  PROVE  /\ cluster.rr \in RestartStates /\ cluster.rr.ordinal \in Nat
         /\ cluster.replicas \in Nat
         /\ op.obj.rr \in RestartStates /\ op.obj.rr.ordinal \in Nat
         /\ op.obj.rr.phase \in Phases
         /\ op.obj.replicas \in Nat
         /\ cache.rr.ordinal \in Nat
         /\ sts.partition \in Nat
BY ConstantsAssumption DEF TypeOK, Objects, RestartStates, Ordinals

\* Nothing is at stake in a step that leaves the cluster, the cache and the
\* partition alone and ends the reconcile.
LEMMA IdleKeeps ==
  ASSUME PartitionInv, op' = IdleOp, UNCHANGED <<cluster, cache>>,
         sts'.partition = sts.partition
  PROVE  PartitionCore'
<1>1. op'.pc = "idle"
  BY DEF IdleOp
<1> QED
  BY <1>1 DEF PartitionInv, PartitionCore, PartitionGuards, NotAhead, Reading, FreshCopy,
       AppliedPartition, StartedCopy, NextState, Active

\* Nor in a step outside the operator that leaves the partition alone.
LEMMA FrameKeeps ==
  ASSUME PartitionInv, UNCHANGED <<cluster, cache, op>>, sts'.partition = sts.partition
  PROVE  PartitionCore'
BY DEF PartitionInv, PartitionCore, PartitionGuards, NotAhead, Reading, FreshCopy,
       AppliedPartition, StartedCopy, NextState, Active

\* Status().Update: the new state must not reach below what the partition allows,
\* and the version it replaces must not be ahead of it.
LEMMA UpdateKeeps ==
  ASSUME PartitionInv, NEW rr \in RestartStates, NEW pc \in {"idle", "started"},
         UpdateNow(rr, pc),
         pc = "started" => rr.phase = "Excluding",
         op.fresh /\ Active(rr) =>
           /\ sts.partition >= rr.ordinal
           /\ cluster.rr.phase # "Completed"
           /\ cluster.rr.phase = "None" => cluster.replicas > rr.ordinal
           /\ Active(cluster.rr) => cluster.rr.ordinal >= rr.ordinal,
         pc = "started" => Reading
  PROVE  PartitionCore'
<1>0. sts' = sts
  BY DEF UpdateNow
<1>1. CASE ~op.fresh
  BY <1>0, <1>1, IdleKeeps DEF UpdateNow
<1>2. CASE op.fresh
  <2>1. /\ cluster' = [cluster EXCEPT !.rr = rr]
        /\ cache' = cluster \/ cache' = cluster'
        /\ op' = IF pc = "idle" THEN IdleOp ELSE [op EXCEPT !.pc = pc, !.obj.rr = rr]
    BY <1>2 DEF UpdateNow, Store
  <2>2. cluster'.rr = rr /\ cluster'.replicas = cluster.replicas
    BY <2>1 DEF PartitionInv, TypeOK, Objects
  <2>3. rr.ordinal \in Nat /\ cluster.replicas \in Nat /\ cluster.rr.ordinal \in Nat
    BY Fields DEF PartitionInv, RestartStates, Ordinals
  <2>4. PartitionGuards'
    BY <1>0, <1>2, <2>2 DEF PartitionGuards, Active
  <2>5. NotAhead(cache)'
    <3>1. CASE cache' = cluster
      BY <3>1, <1>2, <2>2, <2>3 DEF NotAhead, Active
    <3>2. CASE cache' = cluster'
      BY <3>2, <2>2, <2>3 DEF NotAhead, Active
    <3> QED
      BY <2>1, <3>1, <3>2
  <2>6. CASE pc = "idle"
    <3>1. op'.pc = "idle"
      BY <2>6, <2>1 DEF IdleOp
    <3> QED
      BY <2>4, <2>5, <3>1 DEF PartitionCore, Reading, FreshCopy, AppliedPartition,
           StartedCopy, NextState
  <2>7. CASE pc = "started"
    <3>1. op'.pc = "started" /\ op'.obj.rr = rr /\ op'.obj.replicas = op.obj.replicas
      BY <2>7, <2>1 DEF PartitionInv, TypeOK, Objects
    <3>2. op.obj.replicas = cluster.replicas
      BY <1>2, <2>7 DEF PartitionInv, PartitionCore, FreshCopy
    <3>3. NotAhead(op.obj)'
      BY <3>1, <2>2, <2>3, <2>7 DEF NotAhead, Active
    <3> QED
      BY <2>4, <2>5, <3>1, <3>2, <3>3, <2>2, <2>7
         DEF PartitionCore, Reading, FreshCopy, AppliedPartition, StartedCopy, NextState
  <2> QED
    BY <2>6, <2>7
<1> QED
  BY <1>1, <1>2 DEF PartitionInv, TypeOK

\* A handler that leaves the new state to WriteStatus: in a fresh reconcile it
\* goes on from the recorded restart.
LEMMA ThenWriteKeeps ==
  ASSUME PartitionInv, NEW rr \in RestartStates, ThenWrite(rr),
         UNCHANGED <<cluster, cache>>, sts'.partition \in Nat,
         Active(cluster.rr) => sts'.partition >= cluster.rr.ordinal,
         op.fresh => /\ Active(cluster.rr)
                     /\ rr.phase # "None"
                     /\ rr.ordinal <= cluster.rr.ordinal
  PROVE  PartitionCore'
<1>1. op'.pc = "write" /\ op'.fresh = op.fresh /\ op'.obj.rr = rr
  BY DEF ThenWrite, PartitionInv, TypeOK, Objects
<1>2. rr.ordinal \in Nat /\ cluster.rr.ordinal \in Nat
  BY Fields DEF PartitionInv, RestartStates, Ordinals
<1>3. PartitionGuards'
  BY DEF PartitionGuards, Active
<1>4. NotAhead(cache)'
  BY DEF PartitionInv, PartitionCore, NotAhead, Active
<1>5. NextState'
  BY <1>1, <1>2 DEF NextState, Active
<1> QED
  BY <1>1, <1>3, <1>4, <1>5 DEF PartitionCore, Reading, FreshCopy, AppliedPartition,
       StartedCopy

\* releaseOrdinal does not lower the partition below the recorded ordinal.
LEMMA ReleaseKeeps ==
  ASSUME PartitionInv, Reading, Active(op.obj.rr), Release(op.obj.rr)
  PROVE  PartitionCore'
<1> DEFINE rr == op.obj.rr
           new == Restart("WaitingReady", rr.ordinal, rr.confirmed)
<1>1. TypeOK
  BY DEF PartitionInv
<1>2. rr.ordinal \in Nat /\ cluster.rr.ordinal \in Nat /\ sts.partition \in Nat
  BY <1>1, Fields
<1>3. new \in RestartStates
  BY <1>1, Fields, RestartType DEF RestartStates, Phases
<1>4. new.phase = "WaitingReady" /\ new.ordinal = rr.ordinal
  BY DEF Restart
<1>5. sts'.partition = IF sts.partition <= rr.ordinal THEN sts.partition ELSE rr.ordinal
  BY <1>1 DEF Release, TypeOK
<1>6. Active(cluster.rr) => rr.ordinal >= cluster.rr.ordinal /\ sts.partition >= cluster.rr.ordinal
  BY DEF PartitionInv, PartitionCore, PartitionGuards, NotAhead
<1>7. op.fresh => Active(cluster.rr) /\ rr.ordinal = cluster.rr.ordinal
  BY DEF PartitionInv, PartitionCore, FreshCopy, Active
<1>8. UNCHANGED <<cluster, cache>> /\ ThenWrite(new)
  BY DEF Release
<1>9. sts'.partition \in Nat /\ (Active(cluster.rr) => sts'.partition >= cluster.rr.ordinal)
  BY <1>2, <1>5, <1>6
<1>10. op.fresh => /\ Active(cluster.rr) /\ new.phase # "None"
                   /\ new.ordinal <= cluster.rr.ordinal
  BY <1>2, <1>4, <1>7
<1> HIDE DEF new
<1> QED
  BY <1>3, <1>8, <1>9, <1>10, ThenWriteKeeps

\* The operator: only ApplyStatefulSet, releaseOrdinal and the status writes
\* are at stake, each with the lemma about it.
LEMMA OperatorKeeps ==
  ASSUME PartitionInv,
         OperatorStep \/ HoldForEvacuation \/ OperatorCrash \/ CacheSync
  PROVE  PartitionCore'
<1> DEFINE rr == op.obj.rr
<1>1. TypeOK
  BY DEF PartitionInv
<1>2. /\ rr \in RestartStates /\ rr.ordinal \in Nat /\ cluster.rr.ordinal \in Nat
      /\ sts.partition \in Nat /\ op.obj.replicas \in Nat /\ cluster.replicas \in Nat
      /\ rr.phase \in Phases
  BY <1>1, Fields
<1>3. CASE Begin
  <2>1. op'.pc = "apply" /\ op'.obj = cache /\ (op'.fresh => cache = cluster)
    BY <1>3 DEF Begin
  <2>2. UNCHANGED <<cluster, cache, sts>>
    BY <1>3 DEF Begin
  <2> QED
    BY <2>1, <2>2 DEF PartitionInv, PartitionCore, PartitionGuards, NotAhead, Reading,
         FreshCopy, AppliedPartition, StartedCopy, NextState, Active
<1>4. CASE ApplyStatefulSet
  <2>1. op'.pc = "restart" /\ op'.obj = op.obj /\ op'.fresh = op.fresh /\ op.pc = "apply"
    BY <1>4, <1>1 DEF ApplyStatefulSet, TypeOK
  <2>2. sts'.partition = rolloutPartition(rr, op.obj.replicas)
    BY <1>4, <1>1 DEF ApplyStatefulSet, TypeOK
  <2>3. UNCHANGED <<cluster, cache>>
    BY <1>4 DEF ApplyStatefulSet
  <2>4. NotAhead(op.obj)
    BY <2>1 DEF PartitionInv, PartitionCore, Reading
  <2>5. Active(cluster.rr) => rolloutPartition(rr, op.obj.replicas) >= cluster.rr.ordinal
    BY <1>2, <2>4 DEF NotAhead, Active, rolloutPartition, Phases
  <2>6. PartitionGuards'
    BY <2>2, <2>3, <2>5 DEF PartitionGuards, Active
  <2>7. AppliedPartition'
    BY <2>1, <2>2 DEF AppliedPartition, rolloutPartition
  <2> QED
    BY <2>1, <2>3, <2>4, <2>6, <2>7 DEF PartitionInv, PartitionCore, NotAhead, Reading,
         FreshCopy, StartedCopy, NextState, Active
<1>5. CASE NothingToRestart \/ CompletedWait \/ ExcludeNoIP \/ DrainWait
           \/ WaitForReplacement \/ OperatorCrash \/ HoldForEvacuation
  BY <1>5, IdleKeeps DEF NothingToRestart, CompletedWait, ExcludeNoIP, DrainWait,
       WaitForReplacement, OperatorCrash, HoldForEvacuation, Return
<1>6. CASE ClearCompleted \/ ClearUnstarted
  <2>1. UpdateNow(NoRestart, "idle") /\ ~Active(NoRestart)
    BY <1>6 DEF ClearCompleted, ClearUnstarted, NoRestart, Restart, Active
  <2> QED
    BY <2>1, NoRestartType, UpdateKeeps
<1>7. CASE StartRestart
  <2> DEFINE new == Restart("Excluding", op.obj.replicas - 1, FALSE)
  <2>1. op.pc = "restart" /\ rr.phase = "None" /\ UpdateNow(new, "started")
    BY <1>7 DEF StartRestart
  <2>2. op.obj.replicas - 1 \in Ordinals
    BY <1>1, ConstantsAssumption DEF TypeOK, Objects, Ordinals
  <2>3. new \in RestartStates /\ new.phase = "Excluding" /\ new.ordinal = op.obj.replicas - 1
    BY <2>2 DEF Restart, RestartStates, Phases
  <2>4. sts.partition = op.obj.replicas
    BY <2>1 DEF PartitionInv, PartitionCore, AppliedPartition, rolloutPartition
  <2>5. op.fresh => cluster.rr.phase = "None" /\ cluster.replicas = op.obj.replicas
    BY <2>1 DEF PartitionInv, PartitionCore, FreshCopy, Reading
  <2> HIDE DEF new
  <2>6. op.fresh /\ Active(new) =>
          /\ sts.partition >= new.ordinal
          /\ cluster.rr.phase # "Completed"
          /\ cluster.rr.phase = "None" => cluster.replicas > new.ordinal
          /\ Active(cluster.rr) => cluster.rr.ordinal >= new.ordinal
    BY <1>2, <2>3, <2>4, <2>5 DEF Active
  <2> QED
    BY <2>1, <2>3, <2>6, UpdateKeeps DEF Reading
<1>8. CASE ExcludeSkip \/ DrainDone
  BY <1>8, ReleaseKeeps DEF ExcludeSkip, DrainDone, Excluding, Reading, Active
<1>9. CASE Exclude
  <2>1. Reading /\ Active(rr) /\ UNCHANGED <<cluster, cache, sts>>
    BY <1>9 DEF Exclude, Excluding, Reading, Active
  <2>2. PICK ok \in BOOLEAN :
          \/ ThenWrite(Restart("Draining", rr.ordinal, rr.confirmed \/ ok))
          \/ op' = IdleOp
    BY <1>9 DEF Exclude
  <2> DEFINE new == Restart("Draining", rr.ordinal, rr.confirmed \/ ok)
  <2>3. rr.ordinal \in Ordinals /\ (rr.confirmed \/ ok) \in BOOLEAN
    BY <1>2 DEF RestartStates
  <2>4. new \in RestartStates
    BY <2>3, RestartType DEF Phases
  <2>5. new.phase = "Draining" /\ new.ordinal = rr.ordinal
    BY DEF Restart
  <2>6. op.fresh => /\ Active(cluster.rr) /\ new.phase # "None"
                    /\ new.ordinal <= cluster.rr.ordinal
    BY <1>2, <2>1, <2>5 DEF PartitionInv, PartitionCore, FreshCopy, Active
  <2>7. Active(cluster.rr) => sts'.partition >= cluster.rr.ordinal
    BY <2>1 DEF PartitionInv, PartitionCore, PartitionGuards
  <2> HIDE DEF new
  <2>8. CASE ThenWrite(new)
    BY <1>2, <2>1, <2>4, <2>6, <2>7, <2>8, ThenWriteKeeps
  <2>9. CASE op' = IdleOp
    BY <2>1, <2>9, IdleKeeps
  <2> QED
    BY <2>2, <2>8, <2>9 DEF new
<1>10. CASE Include
  <2> DEFINE new == AfterInclude(rr.ordinal)
  <2>1. Reading /\ Active(rr) /\ UNCHANGED <<cluster, cache, sts>>
    BY <1>10 DEF Include, Reading, Active
  <2>2. ThenWrite(new) \/ op' = IdleOp
    BY <1>10 DEF Include
  <2>3. new \in RestartStates /\ new.phase # "None" /\ new.ordinal <= rr.ordinal
    BY <1>2, ConstantsAssumption DEF AfterInclude, Restart, RestartStates, Ordinals, Phases
  <2>4. op.fresh => /\ Active(cluster.rr) /\ new.phase # "None"
                    /\ new.ordinal <= cluster.rr.ordinal
    BY <1>2, <2>1, <2>3 DEF PartitionInv, PartitionCore, FreshCopy, Active
  <2>5. Active(cluster.rr) => sts'.partition >= cluster.rr.ordinal
    BY <2>1 DEF PartitionInv, PartitionCore, PartitionGuards
  <2> HIDE DEF new
  <2>6. CASE ThenWrite(new)
    BY <1>2, <2>1, <2>3, <2>4, <2>5, <2>6, ThenWriteKeeps
  <2>7. CASE op' = IdleOp
    BY <2>1, <2>7, IdleKeeps
  <2> QED
    BY <2>2, <2>6, <2>7
<1>11. CASE WriteStatus
  <2>1. op.pc = "write" /\ UpdateNow(rr, "idle")
    BY <1>11 DEF WriteStatus
  <2>2. op.fresh /\ Active(rr) =>
          /\ sts.partition >= rr.ordinal
          /\ Active(cluster.rr)
          /\ cluster.rr.ordinal >= rr.ordinal
    BY <1>2, <2>1 DEF PartitionInv, PartitionCore, NextState
  <2>3. op.fresh /\ Active(rr) =>
          cluster.rr.phase # "Completed" /\ cluster.rr.phase # "None"
    BY <2>2 DEF Active
  <2> HIDE DEF rr
  <2> QED
    BY <1>2, <2>1, <2>2, <2>3, UpdateKeeps
<1>12. CASE CacheSync
  <2>1. UNCHANGED <<cluster, op, sts>> /\ cache' = cluster
    BY <1>12 DEF CacheSync
  <2>2. NotAhead(cluster)
    BY <1>2 DEF NotAhead, Active
  <2> QED
    BY <2>1, <2>2 DEF PartitionInv, PartitionCore, PartitionGuards, NotAhead, Reading,
         FreshCopy, AppliedPartition, StartedCopy, NextState, Active
<1> QED
  BY <1>3, <1>4, <1>5, <1>6, <1>7, <1>8, <1>9, <1>10, <1>11, <1>12
     DEF OperatorStep, Handler

\* The user's edits change neither the recorded restart nor the partition, and
\* make the reconcile under way write against an old version.
LEMMA EditKeeps ==
  ASSUME PartitionInv, NEW obj \in Objects, obj.rr = cluster.rr, Edit(obj)
  PROVE  PartitionCore'
<1>1. /\ cluster'.rr = cluster.rr /\ sts' = sts
      /\ cache' = cluster \/ cache' = cluster'
      /\ op'.pc = op.pc /\ op'.obj = op.obj /\ ~op'.fresh
  BY DEF Edit, Store, PartitionInv, TypeOK
<1>2. cluster.rr.ordinal \in Nat
  BY Fields DEF PartitionInv
<1>3. NotAhead(cache)'
  BY <1>1, <1>2 DEF NotAhead, Active
<1> QED
  BY <1>1, <1>3 DEF PartitionInv, PartitionCore, PartitionGuards, NotAhead, Reading,
       FreshCopy, AppliedPartition, StartedCopy, NextState, Active, rolloutPartition

\* Outside the operator only the cache and the user touch what the invariant is
\* about; the StatefulSet controller acts on the partition but does not move it.
LEMMA EnvironmentKeeps ==
  ASSUME PartitionInv,
         \/ StsStep \/ PodStep \/ Tick \/ EditTemplate \/ EditReplicas
         \/ \E o \in Ordinals : PodUnready(o) \/ PodEvicted(o)
         \/ \E p \in Proxies : ProxyStop(p) \/ ProxyStart(p)
  PROVE  PartitionCore'
<1>1. CASE StsStep
  <2>1. UNCHANGED <<cluster, cache, op>>
    BY <1>1 DEF StsStep, StsStatus, StsCreate, StsReplace, StsScaleDown, Terminate
  <2>2. sts'.partition = sts.partition
    BY <1>1 DEF StsStep, StsStatus, StsCreate, StsReplace, StsScaleDown, Terminate,
         PartitionInv, TypeOK
  <2> QED
    BY <2>1, <2>2, FrameKeeps
<1>2. CASE \/ PodStep
           \/ \E o \in Ordinals : PodUnready(o) \/ PodEvicted(o)
           \/ \E p \in Proxies : ProxyStop(p) \/ ProxyStart(p)
  <2>1. UNCHANGED <<cluster, cache, op, sts>>
    BY <1>2 DEF PodStep, PodUnready, PodEvicted, PodGetsIP, PodBecomesReady, PodGone,
         PodMoves, ProxyStop, ProxyStart
  <2> QED
    BY <2>1, FrameKeeps
<1>3. CASE Tick
  <2>1. /\ cluster'.rr.phase = cluster.rr.phase /\ cluster'.rr.ordinal = cluster.rr.ordinal
        /\ cluster'.replicas = cluster.replicas
        /\ cache'.rr.phase = cache.rr.phase /\ cache'.rr.ordinal = cache.rr.ordinal
        /\ cache'.replicas = cache.replicas
    BY <1>3 DEF Tick, Age, PartitionInv, TypeOK, Objects, RestartStates
  <2>2. UNCHANGED <<op, sts>>
    BY <1>3 DEF Tick
  <2> QED
    BY <2>1, <2>2 DEF PartitionInv, PartitionCore, PartitionGuards, NotAhead, Reading,
         FreshCopy, AppliedPartition, StartedCopy, NextState, Active, rolloutPartition
<1>4. CASE EditTemplate
  <2>1. PICK r \in Revs : Edit([cluster EXCEPT !.tmpl = r])
    BY <1>4 DEF EditTemplate
  <2>2. [cluster EXCEPT !.tmpl = r] \in Objects /\ [cluster EXCEPT !.tmpl = r].rr = cluster.rr
    BY DEF PartitionInv, TypeOK, Objects
  <2> QED
    BY <2>1, <2>2, EditKeeps
<1>5. CASE EditReplicas
  <2>1. PICK n \in 1 .. MaxReplicas : Edit([cluster EXCEPT !.replicas = n])
    BY <1>5 DEF EditReplicas
  <2>2. [cluster EXCEPT !.replicas = n] \in Objects
        /\ [cluster EXCEPT !.replicas = n].rr = cluster.rr
    BY DEF PartitionInv, TypeOK, Objects
  <2> QED
    BY <2>1, <2>2, EditKeeps
<1> QED
  BY <1>1, <1>2, <1>3, <1>4, <1>5

\* Every step preserves the inductive invariant.
LEMMA PartitionStep == PartitionInv /\ [Next]_vars => PartitionInv'
<1> SUFFICES ASSUME PartitionInv, [Next]_vars PROVE PartitionInv'
  OBVIOUS
<1>1. TypeOK'
  BY TypeStep DEF PartitionInv
<1>2. CASE UNCHANGED vars
  <2>1. PartitionCore'
    BY <1>2, FrameKeeps DEF vars
  <2> QED
    BY <1>1, <2>1 DEF PartitionInv
<1>3. CASE Next
  <2>1. PartitionCore'
    BY <1>3, OperatorKeeps, EnvironmentKeeps DEF Next
  <2> QED
    BY <1>1, <2>1 DEF PartitionInv
<1> QED
  BY <1>2, <1>3

\* While a restart is under way the partition the operator has written never
\* releases a pod below the restart's ordinal, whatever fails, whatever the user
\* edits in between, and whether or not the operator read the latest cluster.
THEOREM PartitionGuarded == Spec => []PartitionGuards
<1>1. Init => PartitionInv
  BY TypeInit, PartitionInit DEF PartitionInv
<1>2. PartitionInv => PartitionGuards
  BY DEF PartitionInv, PartitionCore
<1> QED
  BY <1>1, <1>2, PartitionStep, PTL DEF Spec

-----------------------------------------------------------------------------
(* What the steps come to, for the proofs below *)

\* The reconcile ends, or goes on with the copy of the cluster it has read.
Ends == op' = IdleOp /\ UNCHANGED <<cluster, cache, sts, pods>>

GoesOn(pc) ==
  /\ op'.pc = pc /\ op'.fresh = op.fresh
  /\ op'.obj.tmpl = op.obj.tmpl /\ op'.obj.replicas = op.obj.replicas

\* A status write that goes through.
Stores(rr) ==
  /\ op.fresh
  /\ cluster'.rr = rr
  /\ cluster'.tmpl = cluster.tmpl /\ cluster'.replicas = cluster.replicas
  /\ cache' = cluster \/ cache' = cluster'
  /\ UNCHANGED <<sts, pods>>

Clears ==
  /\ op.pc = "restart"
  /\ op.obj.rr.phase = "Completed" \/ (op.obj.rr.phase = "Excluding" /\ ~RollingUpgrade)
  /\ Stores(NoRestart)
  /\ op' = IdleOp

Starts ==
  /\ op.pc = "restart" /\ RollingUpgrade
  /\ op.obj.rr.phase = "None"
  /\ Stores(Restart("Excluding", op.obj.replicas - 1, FALSE))
  /\ GoesOn("started") /\ op'.obj.rr = Restart("Excluding", op.obj.replicas - 1, FALSE)

Writes == op.pc = "write" /\ Stores(op.obj.rr) /\ op' = IdleOp

\* The partition is lowered to the ordinal of a pod that has been drained, is gone
\* or needs no restart.
Lowers ==
  LET rr == op.obj.rr IN
    /\ sts'.partition = rr.ordinal
    /\ \/ rr.phase = "Draining"
       \/ rr.phase = "Excluding" /\ (~Present(rr.ordinal) \/ pods[rr.ordinal].rev = sts.upd)

\* A handler has computed the next state: at the same ordinal, perhaps with the
\* partition lowered, or behind a replaced pod.
Hands ==
  /\ op.pc \in {"restart", "started"} /\ Active(op.obj.rr)
  /\ UNCHANGED <<cluster, cache, pods>>
  /\ sts'.tmpl = sts.tmpl /\ sts'.replicas = sts.replicas /\ sts'.cur = sts.cur
  /\ sts'.upd = sts.upd /\ sts'.partition <= sts.partition
  /\ sts'.partition = sts.partition \/ Lowers
  /\ GoesOn("write")
  /\ \/ /\ op.obj.rr.phase # "WaitingReady"
        /\ op'.obj.rr.phase \in {"Draining", "WaitingReady"}
        /\ op'.obj.rr.ordinal = op.obj.rr.ordinal
     \/ /\ op.pc = "restart" /\ op.obj.rr.phase = "WaitingReady"
        /\ Replaced(op.obj.rr.ordinal)
        /\ op'.obj.rr = AfterInclude(op.obj.rr.ordinal)

\* UpdateNow stores the state it is given, or ends the reconcile.
LEMMA UpdateShape ==
  ASSUME TypeOK, NEW rr \in RestartStates, NEW pc \in {"idle", "started"}, UpdateNow(rr, pc)
  PROVE  \/ Ends
         \/ /\ Stores(rr)
            /\ pc = "idle" => op' = IdleOp
            /\ pc = "started" => GoesOn("started") /\ op'.obj.rr = rr
<1>1. cluster \in Objects /\ op \in OpTypes
  BY DEF TypeOK, OpTypes
<1>2. CASE ~op.fresh
  BY <1>2 DEF UpdateNow, Ends
<1>3. CASE op.fresh
  <2>1. /\ cluster' = [cluster EXCEPT !.rr = rr]
        /\ cache' = cluster \/ cache' = cluster'
        /\ op' = IF pc = "idle" THEN IdleOp ELSE [op EXCEPT !.pc = pc, !.obj.rr = rr]
        /\ UNCHANGED <<sts, pods>>
    BY <1>3 DEF UpdateNow, Store
  <2>2. Stores(rr)
    BY <1>1, <1>3, <2>1 DEF Stores, Objects
  <2>3. pc = "started" => GoesOn("started") /\ op'.obj.rr = rr
    BY <1>1, <2>1 DEF GoesOn, OpTypes, Objects
  <2> QED
    BY <2>1, <2>2, <2>3
<1> QED
  BY <1>1, <1>2, <1>3 DEF OpTypes

\* ThenWrite leaves the state it is given to WriteStatus.
LEMMA ThenWriteShape ==
  ASSUME TypeOK, NEW rr \in RestartStates, ThenWrite(rr)
  PROVE  GoesOn("write") /\ op'.obj.rr = rr
<1>1. op \in OpTypes
  BY DEF TypeOK, OpTypes
<1> QED
  BY <1>1 DEF ThenWrite, GoesOn, OpTypes, Objects

\* releaseOrdinal lowers the partition and stays at its ordinal.
LEMMA ReleaseShape ==
  ASSUME TypeOK, op.pc \in {"restart", "started"}, ExcludeSkip \/ DrainDone
  PROVE  Hands
<1> DEFINE rr == op.obj.rr
           new == Restart("WaitingReady", rr.ordinal, rr.confirmed)
<1>1. rr \in RestartStates /\ rr.ordinal \in Nat /\ sts.partition \in Nat
  BY Fields
<1>2. new \in RestartStates /\ new.phase = "WaitingReady" /\ new.ordinal = rr.ordinal
  BY <1>1 DEF Restart, RestartStates, Phases
<1>3. /\ sts' = [sts EXCEPT !.partition = IF @ <= rr.ordinal THEN @ ELSE rr.ordinal]
      /\ Active(rr) /\ rr.phase # "WaitingReady"
      /\ \/ rr.phase = "Draining"
         \/ rr.phase = "Excluding" /\ (~Present(rr.ordinal) \/ pods[rr.ordinal].rev = sts.upd)
  BY DEF ExcludeSkip, Excluding, DrainDone, Release, Active
<1>4. /\ sts'.tmpl = sts.tmpl /\ sts'.replicas = sts.replicas /\ sts'.cur = sts.cur
      /\ sts'.upd = sts.upd /\ sts'.partition <= sts.partition
      /\ sts'.partition = sts.partition \/ sts'.partition = rr.ordinal
  BY <1>1, <1>3 DEF TypeOK
<1>5. ThenWrite(new) /\ UNCHANGED <<cluster, cache, pods>>
  BY DEF ExcludeSkip, DrainDone, Release
<1> HIDE DEF new
<1>6. GoesOn("write") /\ op'.obj.rr = new
  BY <1>2, <1>5, ThenWriteShape
<1> QED
  BY <1>2, <1>3, <1>4, <1>5, <1>6 DEF Hands, Lowers

\* What a step of the operator comes to.
LEMMA OperatorShape ==
  ASSUME TypeOK, OperatorStep \/ HoldForEvacuation \/ OperatorCrash \/ CacheSync
  PROVE  \/ Ends \/ Begin \/ ApplyStatefulSet \/ CacheSync
         \/ Clears \/ Starts \/ Writes \/ Hands
<1> DEFINE rr == op.obj.rr
<1>1. /\ rr \in RestartStates /\ rr.ordinal \in Nat /\ sts.partition \in Nat
      /\ rr.ordinal \in Ordinals /\ rr.confirmed \in BOOLEAN
  BY Fields DEF RestartStates
<1>2. CASE NothingToRestart \/ CompletedWait \/ ExcludeNoIP \/ DrainWait
           \/ WaitForReplacement \/ OperatorCrash \/ HoldForEvacuation
  BY <1>2 DEF NothingToRestart, CompletedWait, ExcludeNoIP, DrainWait,
       WaitForReplacement, OperatorCrash, HoldForEvacuation, Return, Ends
<1>3. CASE ClearCompleted \/ ClearUnstarted
  <2>1. /\ UpdateNow(NoRestart, "idle") /\ op.pc = "restart"
        /\ rr.phase = "Completed" \/ (rr.phase = "Excluding" /\ ~RollingUpgrade)
    BY <1>3 DEF ClearCompleted, CanClear, ClearUnstarted
  <2> QED
    BY <2>1, NoRestartType, UpdateShape DEF Clears
<1>4. CASE StartRestart
  <2> DEFINE new == Restart("Excluding", op.obj.replicas - 1, FALSE)
  <2>1. op.obj.replicas - 1 \in Ordinals
    BY ConstantsAssumption DEF TypeOK, Objects, Ordinals
  <2>2. new \in RestartStates
    BY <2>1, RestartType DEF Phases
  <2>3. op.pc = "restart" /\ RollingUpgrade /\ rr.phase = "None" /\ UpdateNow(new, "started")
    BY <1>4 DEF StartRestart
  <2>4. Ends \/ (Stores(new) /\ GoesOn("started") /\ op'.obj.rr = new)
    BY <2>2, <2>3, UpdateShape
  <2> QED
    BY <2>3, <2>4 DEF Starts
<1>5. CASE ExcludeSkip \/ DrainDone
  BY <1>5, ReleaseShape DEF ExcludeSkip, DrainDone, Excluding
<1>6. CASE Exclude
  <2>1. /\ op.pc \in {"restart", "started"} /\ Active(rr) /\ rr.phase # "WaitingReady"
        /\ UNCHANGED <<cluster, cache, sts, pods>>
    BY <1>6 DEF Exclude, Excluding, Active
  <2>2. PICK ok \in BOOLEAN :
          \/ ThenWrite(Restart("Draining", rr.ordinal, rr.confirmed \/ ok))
          \/ op' = IdleOp
    BY <1>6 DEF Exclude
  <2> DEFINE new == Restart("Draining", rr.ordinal, rr.confirmed \/ ok)
  <2>3. (rr.confirmed \/ ok) \in BOOLEAN
    OBVIOUS
  <2>4. new \in RestartStates /\ new.phase = "Draining" /\ new.ordinal = rr.ordinal
    BY <1>1, <2>3 DEF Restart, RestartStates, Phases
  <2> HIDE DEF new
  <2>5. CASE ThenWrite(new)
    <3>1. GoesOn("write") /\ op'.obj.rr = new
      BY <2>4, <2>5, ThenWriteShape
    <3> QED
      BY <1>1, <2>1, <2>4, <3>1 DEF Hands
  <2>6. CASE op' = IdleOp
    BY <2>1, <2>6 DEF Ends
  <2> QED
    BY <2>2, <2>5, <2>6 DEF new
<1>7. CASE Include
  <2> DEFINE new == AfterInclude(rr.ordinal)
  <2>1. /\ op.pc = "restart" /\ rr.phase = "WaitingReady" /\ Replaced(rr.ordinal)
        /\ UNCHANGED <<cluster, cache, sts, pods>>
    BY <1>7 DEF Include
  <2>2. ThenWrite(new) \/ op' = IdleOp
    BY <1>7 DEF Include
  <2>3. new \in RestartStates
    BY <1>1, ConstantsAssumption DEF AfterInclude, Restart, RestartStates, Ordinals, Phases
  <2> HIDE DEF new
  <2>4. CASE ThenWrite(new)
    <3>1. GoesOn("write") /\ op'.obj.rr = new
      BY <2>3, <2>4, ThenWriteShape
    <3> QED
      BY <1>1, <2>1, <3>1 DEF Hands, Active, new
  <2>5. CASE op' = IdleOp
    BY <2>1, <2>5 DEF Ends
  <2> QED
    BY <2>2, <2>4, <2>5
<1>8. CASE WriteStatus
  <2>1. op.pc = "write" /\ UpdateNow(rr, "idle")
    BY <1>8 DEF WriteStatus
  <2> HIDE DEF rr
  <2>2. Ends \/ (Stores(rr) /\ op' = IdleOp)
    BY <1>1, <2>1, UpdateShape
  <2> QED
    BY <2>1, <2>2 DEF Writes, rr
<1> QED
  BY <1>2, <1>3, <1>4, <1>5, <1>6, <1>7, <1>8 DEF OperatorStep, Handler

\* A pod moves through its life, or a proxy through its own.
PodsMove ==
  /\ UNCHANGED <<cluster, cache, op, sts>>
  /\ \A o \in Ordinals : pods'[o].rev = pods[o].rev /\ (Present(o)' => Present(o))

\* Every edit waits for the one before it to be rolled out.
EditsWait == "midedit" \notin Faults /\ "midscale" \notin Faults

\* Time passes, or the user edits the spec of a cluster that has been rolled out.
Ages ==
  /\ cluster'.rr.phase = cluster.rr.phase /\ cluster'.rr.ordinal = cluster.rr.ordinal
  /\ cluster'.rr.confirmed = cluster.rr.confirmed
  /\ cluster'.tmpl = cluster.tmpl /\ cluster'.replicas = cluster.replicas
  /\ cache'.rr.phase = cache.rr.phase /\ cache'.rr.ordinal = cache.rr.ordinal
  /\ cache'.tmpl = cache.tmpl /\ cache'.replicas = cache.replicas
  /\ UNCHANGED <<op, sts, pods>>

Edits ==
  /\ Settled
  /\ cluster'.rr = cluster.rr
  /\ cluster'.tmpl # cluster.tmpl \/ cluster'.replicas # cluster.replicas
  /\ cluster'.tmpl = cluster.tmpl \/ cluster'.replicas = cluster.replicas
  /\ cache' = cluster \/ cache' = cluster'
  /\ op'.pc = op.pc /\ op'.obj = op.obj /\ ~op'.fresh
  /\ UNCHANGED <<sts, pods>>

\* What a step outside the operator comes to.
LEMMA EnvironmentShape ==
  ASSUME TypeOK, EditsWait,
         \/ StsStep \/ PodStep \/ Tick \/ EditTemplate \/ EditReplicas
         \/ \E o \in Ordinals : PodUnready(o) \/ PodEvicted(o)
         \/ \E p \in Proxies : ProxyStop(p) \/ ProxyStart(p)
  PROVE  StsStatus \/ (\E o \in Ordinals : StsCreate(o)) \/ PodsMove \/ Ages \/ Edits
<1>1. pods \in [Ordinals -> [phase : PodPhases, rev : Revs]] /\ cluster \in Objects
      /\ cache \in Objects /\ op \in OpTypes
  BY DEF TypeOK, OpTypes
<1>2. ASSUME NEW n \in Ordinals, StsReplace(n) \/ StsScaleDown(n) PROVE PodsMove
  <2>1. /\ pods' = [pods EXCEPT ![n].phase = "terminating"] /\ Present(n)
        /\ UNCHANGED <<cluster, cache, op, sts>>
    BY <1>2 DEF StsReplace, Outdated, StsScaleDown, Terminate, Present
  <2> QED
    BY <1>1, <2>1 DEF PodsMove, Present
<1>3. ASSUME NEW n \in Ordinals,
             PodGetsIP(n) \/ PodBecomesReady(n) \/ PodGone(n) \/ PodUnready(n) \/ PodEvicted(n)
      PROVE  PodsMove
  <2>1. PICK to : /\ pods' = [pods EXCEPT ![n].phase = to] /\ Present(n)
                  /\ UNCHANGED <<cluster, cache, op, sts>>
    BY <1>3 DEF PodGetsIP, PodBecomesReady, PodGone, PodUnready, PodEvicted, PodMoves, Present
  <2> QED
    BY <1>1, <2>1 DEF PodsMove, Present
<1>4. ASSUME NEW p \in Proxies, ProxyStop(p) \/ ProxyStart(p) PROVE PodsMove
  BY <1>4 DEF ProxyStop, ProxyStart, PodsMove, Present
<1>5. CASE Tick
  BY <1>1, <1>5 DEF Tick, Age, Objects, RestartStates, Ages
<1>6. ASSUME NEW obj \in Objects, Settled, Edit(obj), obj.rr = cluster.rr,
             obj.tmpl # cluster.tmpl \/ obj.replicas # cluster.replicas,
             obj.tmpl = cluster.tmpl \/ obj.replicas = cluster.replicas
      PROVE  Edits
  BY <1>1, <1>6 DEF Edit, Store, Edits, OpTypes
<1>7. CASE EditTemplate
  <2>1. PICK r \in Revs \ {cluster.tmpl} : Edit([cluster EXCEPT !.tmpl = r])
    BY <1>7 DEF EditTemplate
  <2>2. /\ [cluster EXCEPT !.tmpl = r] \in Objects
        /\ [cluster EXCEPT !.tmpl = r].rr = cluster.rr /\ [cluster EXCEPT !.tmpl = r].tmpl = r
        /\ [cluster EXCEPT !.tmpl = r].replicas = cluster.replicas
    BY <1>1 DEF Objects
  <2>3. Settled
    BY <1>7 DEF EditTemplate, EditsWait
  <2> QED
    BY <1>6, <2>1, <2>2, <2>3
<1>8. CASE EditReplicas
  <2>1. PICK n \in 1 .. MaxReplicas \ {cluster.replicas} : Edit([cluster EXCEPT !.replicas = n])
    BY <1>8 DEF EditReplicas
  <2>2. /\ [cluster EXCEPT !.replicas = n] \in Objects
        /\ [cluster EXCEPT !.replicas = n].rr = cluster.rr
        /\ [cluster EXCEPT !.replicas = n].replicas = n
        /\ [cluster EXCEPT !.replicas = n].tmpl = cluster.tmpl
    BY <1>1 DEF Objects
  <2>3. Settled
    BY <1>8 DEF EditReplicas, EditsWait
  <2> QED
    BY <1>6, <2>1, <2>2, <2>3
<1> QED
  BY <1>2, <1>3, <1>4, <1>5, <1>7, <1>8 DEF StsStep, PodStep

\* The remaining steps, by the fields they change.
Reads ==
  /\ op'.obj = cache /\ op'.pc = "apply" /\ (op'.fresh <=> cache = cluster)
  /\ UNCHANGED <<cluster, cache, sts, pods>>

Applies ==
  /\ op.pc = "apply" /\ GoesOn("restart") /\ op'.obj = op.obj
  /\ sts'.tmpl = op.obj.tmpl /\ sts'.replicas = op.obj.replicas
  /\ sts'.partition = rolloutPartition(op.obj.rr, op.obj.replicas)
  /\ sts'.cur = sts.cur /\ sts'.upd = sts.upd
  /\ UNCHANGED <<cluster, cache, pods>>

Reports ==
  /\ sts'.tmpl = sts.tmpl /\ sts'.replicas = sts.replicas /\ sts'.partition = sts.partition
  /\ sts'.upd = sts.tmpl
  /\ \/ sts'.cur = sts.cur
     \/ /\ sts'.cur = sts.tmpl
        /\ \A o \in Ordinals : Present(o) => pods[o].rev = sts.tmpl
  /\ UNCHANGED <<cluster, cache, op, pods>>

Creates(n) ==
  /\ ~Present(n)
  /\ pods'[n].rev = IF n < sts.partition THEN sts.cur ELSE sts.tmpl
  /\ \A o \in Ordinals \ {n} : pods'[o] = pods[o]
  /\ UNCHANGED <<cluster, cache, op, sts>>

\* Every step, while edits wait.
LEMMA StepShape ==
  ASSUME TypeOK, EditsWait, [Next]_vars
  PROVE  \/ Ends \/ Reads \/ Applies \/ CacheSync
         \/ Clears \/ Starts \/ Writes \/ Hands
         \/ Reports \/ (\E n \in Ordinals : Creates(n)) \/ PodsMove \/ Ages \/ Edits
<1>1. pods \in [Ordinals -> [phase : PodPhases, rev : Revs]] /\ op \in OpTypes
      /\ sts \in StsTypes
  BY DEF TypeOK, OpTypes, StsTypes
<1>2. CASE UNCHANGED vars
  BY <1>2 DEF vars, PodsMove, Present
<1>3. CASE Begin
  BY <1>3 DEF Begin, Reads
<1>4. CASE ApplyStatefulSet
  <2>1. GoesOn("restart") /\ op'.obj = op.obj
    BY <1>1, <1>4 DEF ApplyStatefulSet, GoesOn, OpTypes
  <2> QED
    BY <1>1, <1>4, <2>1 DEF ApplyStatefulSet, Applies, StsTypes
<1>5. CASE StsStatus
  <2> DEFINE present == {o \in Ordinals : Present(o)}
             updated == {o \in Ordinals : /\ pods[o].phase \in {"starting", "unready", "ready"}
                                          /\ pods[o].rev = sts.tmpl}
  <2>1. /\ sts'.tmpl = sts.tmpl /\ sts'.replicas = sts.replicas
        /\ sts'.partition = sts.partition /\ sts'.upd = sts.tmpl
        /\ UNCHANGED <<cluster, cache, op, pods>>
    BY <1>1, <1>5 DEF StsStatus, StsTypes
  <2>2. sts'.cur = sts.cur \/ (sts'.cur = sts.tmpl /\ present = Wanted /\ updated = Wanted)
    BY <1>1, <1>5 DEF StsStatus, StsTypes
  <2>3. present = updated => \A o \in Ordinals : Present(o) => pods[o].rev = sts.tmpl
    OBVIOUS
  <2> QED
    BY <2>1, <2>2, <2>3 DEF Reports
<1>6. ASSUME NEW n \in Ordinals, StsCreate(n) PROVE Creates(n)
  BY <1>1, <1>6 DEF StsCreate, Creates
<1>7. CASE Next
  BY <1>3, <1>4, <1>5, <1>6, <1>7, OperatorShape, EnvironmentShape DEF Next
<1> QED
  BY <1>2, <1>7

-----------------------------------------------------------------------------
(* Which version of the spec the copies hold *)

Current(obj) == obj.tmpl = cluster.tmpl /\ obj.replicas = cluster.replicas

Applied(obj) == obj.tmpl = sts.tmpl /\ obj.replicas = sts.replicas

\* There are at most two versions of the spec about: the last one, and the one
\* before it, to which the cluster was rolled out. No restart begins before the
\* last one has been applied, and the pods' revision does not change until then.
LastIsApplied ==
  Current(sts) => Current(cache) /\ (op.pc # "idle" => Current(op.obj))

LastIsPending ==
  ~Current(sts) =>
    /\ cluster.rr.phase = "None"
    /\ sts.cur = sts.tmpl /\ sts.upd = sts.tmpl
    /\ op.pc # "idle" /\ Current(op.obj) => Current(cache)

CopyVersions ==
  /\ Current(cache) \/ Applied(cache)
  /\ op.pc # "idle" => Current(op.obj) \/ Applied(op.obj)
  /\ op.pc \in {"restart", "started"} => Applied(op.obj)
  /\ op.fresh => Current(op.obj)

\* The revisions the status reports: an update is pending only to the template
\* that has been applied, and a restart has seen it.
Revisions ==
  /\ sts.upd = sts.cur \/ sts.upd = sts.tmpl
  /\ cluster.rr.phase # "None" => sts.upd = sts.tmpl

VersionInv == LastIsApplied /\ LastIsPending /\ CopyVersions /\ Revisions

\* Initially there is one version.
LEMMA VersionInit == Init => VersionInv
BY DEF Init, IdleOp, NoRestart, Restart, VersionInv, LastIsApplied, LastIsPending,
     CopyVersions, Revisions, Current, Applied

\* Every step keeps the versions apart.
LEMMA VersionStep ==
  ASSUME PartitionInv, EditsWait, VersionInv, [Next]_vars
  PROVE  VersionInv'
<1> USE DEF VersionInv, LastIsApplied, LastIsPending, CopyVersions, Revisions, Current, Applied
<1>1. TypeOK /\ TypeOK' /\ cluster.rr.phase \in Phases /\ op.fresh \in BOOLEAN
  BY TypeStep DEF PartitionInv, TypeOK, Objects, RestartStates
<1>2. IdleOp.pc = "idle" /\ IdleOp.fresh = FALSE /\ NoRestart.phase = "None"
  BY DEF IdleOp, NoRestart, Restart
<1>3. CASE Ends
  BY <1>2, <1>3 DEF Ends
<1>4. CASE Reads
  BY <1>4 DEF Reads
<1>5. CASE Applies
  BY <1>5 DEF Applies, GoesOn
<1>6. CASE CacheSync
  BY <1>6 DEF CacheSync
<1>7. CASE Clears
  BY <1>2, <1>7 DEF Clears, Stores
<1>8. CASE Starts
  BY <1>8 DEF Starts, Stores, GoesOn, RollingUpgrade
<1>9. CASE Writes
  <2>1. cluster.rr.phase # "None"
    BY <1>9 DEF Writes, Stores, PartitionInv, PartitionCore, NextState, Active
  <2> QED
    BY <1>2, <1>9, <2>1 DEF Writes, Stores
<1>10. CASE Hands
  BY <1>10 DEF Hands, GoesOn
<1>11. CASE Reports
  BY <1>11 DEF Reports
<1>12. CASE (\E n \in Ordinals : Creates(n)) \/ PodsMove
  BY <1>12 DEF Creates, PodsMove
<1>13. CASE Ages
  BY <1>13 DEF Ages
<1>14. CASE Edits
  BY <1>14 DEF Edits, Settled
<1> QED
  BY <1>1, <1>3, <1>4, <1>5, <1>6, <1>7, <1>8, <1>9, <1>10, <1>11, <1>12, <1>13, <1>14,
     StepShape

-----------------------------------------------------------------------------
(* The pods above the restart's ordinal *)

\* The highest partition that a restart at this point may be applied with.
Bound(rr) == IF rr.phase = "Completed" THEN 0 ELSE rr.ordinal + 1

UpdatedFrom(rr) ==
  \A o \in 0 .. sts.replicas - 1 :
    (o > rr.ordinal \/ rr.phase = "Completed") /\ Present(o) => pods[o].rev = cluster.tmpl

\* No copy of the cluster pins a pod that a restart has already passed, so the
\* pods above its ordinal stay on the new template even when they are created anew.
Passed ==
  cluster.rr.phase # "None" =>
    /\ sts.partition <= Bound(cluster.rr)
    /\ rolloutPartition(cache.rr, cache.replicas) <= Bound(cluster.rr)
    /\ Reading => rolloutPartition(op.obj.rr, op.obj.replicas) <= Bound(cluster.rr)
    /\ UpdatedFrom(cluster.rr)

\* The same for the state that is about to be written.
AboutToPass ==
  op.pc = "write" /\ op.fresh =>
    /\ cluster.rr.phase # "None"
    /\ sts.partition <= Bound(op.obj.rr)
    /\ rolloutPartition(cluster.rr, cluster.replicas) <= Bound(op.obj.rr)
    /\ UpdatedFrom(op.obj.rr)

PassedInv == Passed /\ AboutToPass

\* No restart has been recorded initially.
LEMMA PassedInit == Init => PassedInv
BY DEF Init, IdleOp, NoRestart, Restart, PassedInv, Passed, AboutToPass

\* The partition of a restart that is recorded is within its own bound.
LEMMA WithinBound ==
  ASSUME NEW rr \in RestartStates, NEW n \in Nat, rr.phase # "None"
  PROVE  rolloutPartition(rr, n) <= Bound(rr)
BY ConstantsAssumption DEF rolloutPartition, Bound, RestartStates, Phases, Ordinals

\* Every step keeps the pods that a restart has passed on the new template.
LEMMA PassedStep ==
  ASSUME PartitionInv, EditsWait, VersionInv, PassedInv, [Next]_vars
  PROVE  PassedInv'
<1> USE DEF PassedInv, Passed, AboutToPass
<1>1. /\ TypeOK /\ TypeOK' /\ cluster.rr \in RestartStates /\ op.obj.rr \in RestartStates
      /\ cluster.rr' \in RestartStates
      /\ cluster.rr.phase \in Phases /\ op.fresh \in BOOLEAN /\ cluster.rr.ordinal \in Nat
      /\ op.obj.rr.ordinal \in Nat /\ op.obj.replicas \in Nat /\ cluster.replicas \in Nat
      /\ cache.rr.ordinal \in Nat /\ cache.replicas \in Nat
      /\ sts.partition \in Nat /\ sts.replicas \in Nat
      /\ sts'.partition \in Nat /\ sts.replicas - 1 < MaxReplicas
  BY TypeStep, Fields, ConstantsAssumption
     DEF PartitionInv, TypeOK, Objects, RestartStates
<1>2. IdleOp.pc = "idle" /\ IdleOp.fresh = FALSE /\ NoRestart.phase = "None"
  BY DEF IdleOp, NoRestart, Restart
<1>3. cluster.rr.phase # "None" => Current(sts) /\ sts.upd = sts.tmpl
  BY DEF VersionInv, LastIsPending, Revisions
<1>4. CASE Ends
  BY <1>2, <1>4 DEF Ends, Reading, Bound, rolloutPartition, UpdatedFrom, Present
<1>5. CASE Reads
  BY <1>5 DEF Reads, Reading, UpdatedFrom, Present
<1>6. CASE Applies
  <2>1. cluster.rr.phase # "None" => sts'.replicas = sts.replicas
    BY <1>3, <1>6 DEF Applies, VersionInv, LastIsApplied, Current
  <2>2. op'.pc = "restart"
    BY <1>6 DEF Applies, GoesOn
  <2> QED
    BY <1>6, <2>1, <2>2 DEF Applies, Reading, UpdatedFrom, Present
<1>7. CASE CacheSync
  BY <1>1, <1>7, WithinBound DEF CacheSync, Reading, UpdatedFrom, Present
<1>8. CASE Clears
  BY <1>2, <1>8 DEF Clears, Stores
<1>9. CASE Starts
  <2> DEFINE n == op.obj.replicas
             new == Restart("Excluding", n - 1, FALSE)
  <2>1. new.phase = "Excluding" /\ new.ordinal = n - 1
    BY DEF Restart
  <2>2. /\ cluster'.rr = new /\ op'.obj.rr = new /\ op'.pc = "started"
        /\ cache' = cluster \/ cache' = cluster'
        /\ UNCHANGED <<sts, pods>>
        /\ op.pc = "restart" /\ op.fresh /\ op.obj.rr.phase = "None"
    BY <1>9 DEF Starts, Stores, GoesOn
  <2>3. cluster.replicas = n /\ cluster.rr.phase = "None"
    BY <2>2 DEF PartitionInv, PartitionCore, FreshCopy, Reading
  <2>4. sts.partition = n
    BY <2>2 DEF PartitionInv, PartitionCore, AppliedPartition, rolloutPartition
  <2>5. sts.replicas = n
    BY <2>2 DEF VersionInv, CopyVersions, Applied
  <2> HIDE DEF new
  <2>6. Bound(new) = n
    BY <1>1, <2>1 DEF Bound
  <2>7. rolloutPartition(cluster.rr, cluster.replicas) = n
    BY <2>3 DEF rolloutPartition
  <2>8. \A k : rolloutPartition(new, k) = n
    BY <1>1, <2>1 DEF rolloutPartition
  <2>9. UpdatedFrom(cluster.rr)'
    BY <1>1, <2>1, <2>2, <2>5 DEF UpdatedFrom
  <2> QED
    BY <1>1, <2>1, <2>2, <2>4, <2>6, <2>7, <2>8, <2>9 DEF Reading
<1>10. CASE Writes
  <2> DEFINE new == op.obj.rr
  <2>1. /\ op.pc = "write" /\ op.fresh /\ cluster'.rr = new /\ op'.pc = "idle"
        /\ cluster'.tmpl = cluster.tmpl /\ cluster'.replicas = cluster.replicas
        /\ cache' = cluster \/ cache' = cluster'
        /\ UNCHANGED <<sts, pods>>
    BY <1>2, <1>10 DEF Writes, Stores
  <2>2. /\ new.phase # "None"
        /\ sts.partition <= Bound(new)
        /\ rolloutPartition(cluster.rr, cluster.replicas) <= Bound(new)
        /\ UpdatedFrom(new)
    BY <2>1 DEF PartitionInv, PartitionCore, NextState
  <2> HIDE DEF new
  <2>3. rolloutPartition(new, cluster.replicas) <= Bound(new)
    BY <1>1, <2>2, WithinBound DEF new
  <2>4. UpdatedFrom(cluster.rr)'
    BY <2>1, <2>2 DEF UpdatedFrom, Present
  <2> QED
    BY <2>1, <2>2, <2>3, <2>4 DEF Reading
<1>11. CASE Hands
  <2> DEFINE rr == op.obj.rr
             new == op'.obj.rr
  <2>1. /\ UNCHANGED <<cluster, cache, pods>> /\ op'.pc = "write" /\ op'.fresh = op.fresh
        /\ sts'.replicas = sts.replicas /\ sts'.partition <= sts.partition
        /\ op.pc \in {"restart", "started"} /\ Active(rr)
    BY <1>11 DEF Hands, GoesOn
  <2>2. Passed'
    <3>1. cluster.rr.phase # "None" => UpdatedFrom(cluster.rr)'
      BY <2>1 DEF UpdatedFrom, Present
    <3>2. cluster.rr.phase # "None" => sts'.partition <= Bound(cluster.rr)
      BY <1>1, <2>1 DEF Bound
    <3>3. Bound(cluster.rr)' = Bound(cluster.rr)
          /\ rolloutPartition(cache.rr, cache.replicas)' = rolloutPartition(cache.rr, cache.replicas)
      BY <2>1 DEF Bound, rolloutPartition
    <3> QED
      BY <2>1, <3>1, <3>2, <3>3 DEF Reading
  <2>3. ASSUME op.fresh PROVE AboutToPass'
    <3>1. cluster.rr.phase = rr.phase /\ cluster.rr.ordinal = rr.ordinal
      BY <2>1, <2>3 DEF PartitionInv, PartitionCore, FreshCopy, Reading
    <3>2. cluster.rr.phase # "None" /\ cluster.rr.phase # "Completed"
      BY <2>1, <3>1 DEF Active
    <3>3. sts'.partition <= rr.ordinal + 1 /\ UpdatedFrom(cluster.rr)
      BY <1>1, <2>1, <3>1, <3>2 DEF Bound
    <3>4. rolloutPartition(cluster.rr, cluster.replicas) <= rr.ordinal + 1
      BY <1>1, <3>1, <3>2, WithinBound DEF Bound
    <3>5. CASE new.phase \in {"Draining", "WaitingReady"} /\ new.ordinal = rr.ordinal
      <4>1. Bound(op.obj.rr)' = rr.ordinal + 1
        BY <3>5 DEF Bound
      <4>2. UpdatedFrom(op.obj.rr)'
        BY <2>1, <3>1, <3>3, <3>5 DEF UpdatedFrom, Present
      <4> QED
        BY <2>1, <3>2, <3>3, <3>4, <4>1, <4>2 DEF rolloutPartition
    <3>6. CASE /\ op.pc = "restart" /\ rr.phase = "WaitingReady"
               /\ Replaced(rr.ordinal) /\ new = AfterInclude(rr.ordinal)
      <4>1. sts.partition = rr.ordinal
        BY <3>6 DEF PartitionInv, PartitionCore, AppliedPartition, rolloutPartition
      <4>2. rolloutPartition(cluster.rr, cluster.replicas) = rr.ordinal
        BY <3>1, <3>6 DEF rolloutPartition
      <4>3. pods[rr.ordinal].rev = cluster.tmpl
        BY <1>3, <3>2, <3>6 DEF Replaced, Current
      <4>4. Bound(new) = rr.ordinal
        BY <1>1, <3>6 DEF AfterInclude, Restart, Bound
      <4>5. \A o \in 0 .. sts.replicas - 1 :
              o > new.ordinal \/ new.phase = "Completed" => o > rr.ordinal \/ o = rr.ordinal
        BY <1>1, <3>6 DEF AfterInclude, Restart
      <4>6. UpdatedFrom(op.obj.rr)'
        BY <2>1, <3>3, <4>3, <4>5, <3>1 DEF UpdatedFrom, Present
      <4>7. /\ Bound(op.obj.rr)' = rr.ordinal /\ sts'.partition <= rr.ordinal
            /\ rolloutPartition(cluster.rr, cluster.replicas)' = rr.ordinal
        BY <1>1, <2>1, <4>1, <4>2, <4>4 DEF Bound, rolloutPartition
      <4> QED
        BY <1>1, <2>1, <3>2, <4>6, <4>7
    <3> QED
      BY <1>11, <3>5, <3>6 DEF Hands
  <2> QED
    BY <2>1, <2>2, <2>3
<1>12. CASE Reports
  BY <1>12 DEF Reports, Reading, UpdatedFrom, Present, Bound, rolloutPartition
<1>13. ASSUME NEW n \in Ordinals, Creates(n) PROVE PassedInv'
  <2>1. /\ UNCHANGED <<cluster, cache, op, sts>>
        /\ \A o \in Ordinals \ {n} : pods'[o] = pods[o]
        /\ n >= sts.partition => pods'[n].rev = sts.tmpl
    BY <1>1, <1>13 DEF Creates, Ordinals
  <2>2. ASSUME NEW rr \in RestartStates, cluster.rr.phase # "None",
               sts.partition <= Bound(rr), UpdatedFrom(rr)
        PROVE  \A o \in 0 .. sts.replicas - 1 :
                 (o > rr.ordinal \/ rr.phase = "Completed") /\ pods'[o].phase # "absent"
                   => pods'[o].rev = cluster.tmpl
    <3> SUFFICES ASSUME NEW o \in 0 .. sts.replicas - 1, pods'[o].phase # "absent",
                        o > rr.ordinal \/ rr.phase = "Completed"
                 PROVE  pods'[o].rev = cluster.tmpl
      OBVIOUS
    <3>1. o \in Ordinals
      BY <1>1, ConstantsAssumption DEF Ordinals
    <3>2. CASE o = n
      <4>1. rr.ordinal \in Nat
        BY ConstantsAssumption DEF RestartStates, Ordinals
      <4>2. n >= sts.partition
        BY <1>1, <2>2, <3>2, <4>1 DEF Bound
      <4> QED
        BY <1>3, <2>1, <2>2, <3>2, <4>2 DEF Current
    <3>3. CASE o # n
      BY <2>1, <2>2, <3>1, <3>3 DEF UpdatedFrom, Present
    <3> QED
      BY <3>2, <3>3
  <2>3. cluster.rr.phase # "None" => UpdatedFrom(cluster.rr)'
    BY <1>1, <2>1, <2>2 DEF UpdatedFrom, Present
  <2>4. op.pc = "write" /\ op.fresh => UpdatedFrom(op.obj.rr)'
    BY <1>1, <2>1, <2>2 DEF UpdatedFrom, Present
  <2> QED
    BY <2>1, <2>3, <2>4 DEF Reading, Bound, rolloutPartition
<1>14. CASE PodsMove
  <2>1. UNCHANGED <<cluster, cache, op, sts>>
    BY <1>14 DEF PodsMove
  <2>2. \A o \in 0 .. sts.replicas - 1 : pods'[o].rev = pods[o].rev /\ (Present(o)' => Present(o))
    BY <1>1, <1>14, ConstantsAssumption DEF PodsMove, Ordinals
  <2>3. (UpdatedFrom(cluster.rr) => UpdatedFrom(cluster.rr)')
        /\ (UpdatedFrom(op.obj.rr) => UpdatedFrom(op.obj.rr)')
    BY <2>1, <2>2 DEF UpdatedFrom
  <2> QED
    BY <2>1, <2>3 DEF Reading, Bound, rolloutPartition
<1>15. CASE Ages
  <2>1. UpdatedFrom(cluster.rr) => UpdatedFrom(cluster.rr)'
    BY <1>15 DEF Ages, UpdatedFrom, Present
  <2>2. UpdatedFrom(op.obj.rr) => UpdatedFrom(op.obj.rr)'
    BY <1>15 DEF Ages, UpdatedFrom, Present
  <2>3. /\ Bound(cluster.rr)' = Bound(cluster.rr) /\ Bound(op.obj.rr)' = Bound(op.obj.rr)
        /\ rolloutPartition(cluster.rr, cluster.replicas)' = rolloutPartition(cluster.rr, cluster.replicas)
        /\ rolloutPartition(cache.rr, cache.replicas)' = rolloutPartition(cache.rr, cache.replicas)
        /\ rolloutPartition(op.obj.rr, op.obj.replicas)' = rolloutPartition(op.obj.rr, op.obj.replicas)
    BY <1>15 DEF Ages, Bound, rolloutPartition
  <2> QED
    BY <1>15, <2>1, <2>2, <2>3 DEF Ages, Reading
<1>16. CASE Edits
  BY <1>16 DEF Edits, Settled
<1> QED
  BY <1>1, <1>4, <1>5, <1>6, <1>7, <1>8, <1>9, <1>10, <1>11, <1>12, <1>13, <1>14, <1>15,
     <1>16, StepShape

\* While every edit waits for the one before it to be rolled out, the pods above
\* the restart's ordinal run the new template, and after a completed restart all
\* of them do: no crash, stale read, lost pod or refusing proxy makes the operator
\* move on from a pod it has not replaced, or brings one back on the old template.
THEOREM PassedAreUpdated == EditsWait /\ Spec => []UpdatedAbove
<1> DEFINE Inv == PartitionInv /\ EditsWait /\ VersionInv /\ PassedInv
<1>1. EditsWait /\ Init => Inv
  BY TypeInit, PartitionInit, VersionInit, PassedInit DEF PartitionInv
<1>2. Inv /\ [Next]_vars => Inv'
  BY PartitionStep, VersionStep, PassedStep DEF EditsWait
<1>3. Inv => UpdatedAbove
  BY DEF PassedInv, Passed, UpdatedFrom, UpdatedAbove
<1> QED
  BY <1>1, <1>2, <1>3, PTL DEF Spec

-----------------------------------------------------------------------------
(* Pods are replaced in a recorded restart only *)

\* A completed restart is at ordinal 0.
CompletedAtZero ==
  /\ cluster.rr.phase = "Completed" => cluster.rr.ordinal = 0
  /\ op.pc = "write" /\ op.obj.rr.phase = "Completed" => op.obj.rr.ordinal = 0

\* When the status says that the rollout is over, there is no other pod.
CurrentIsUniform ==
  sts.cur = sts.tmpl => \A o \in Ordinals : Present(o) => pods[o].rev = sts.tmpl

\* Why nothing is replaced between restarts: the pods are pinned, and no copy of
\* the cluster releases them; or all of them were replaced, and the copies are of
\* the restart that did it; or the rollout is over.
Pinned ==
  /\ sts.partition >= sts.replicas
  /\ cache.rr.phase = "None"
  /\ Reading => op.obj.rr.phase = "None"

AllReplaced ==
  /\ sts.partition = 0
  /\ cache.rr.phase \in {"None", "Completed"}
  /\ Reading => op.obj.rr.phase \in {"None", "Completed"}
  /\ \A o \in 0 .. sts.replicas - 1 : Present(o) => pods[o].rev = sts.tmpl

\* A copy that still holds a restart is of the version that has been applied, and
\* the cache is never further behind than the reconcile.
BetweenRestarts ==
  cluster.rr.phase = "None" =>
    /\ Pinned \/ AllReplaced \/ sts.cur = sts.tmpl
    /\ cache.rr.phase # "None" => Applied(cache) /\ Current(sts)
    /\ Reading =>
         IF op.obj.rr.phase = "None" THEN cache.rr.phase = "None" ELSE Applied(op.obj)

TurnInv == CompletedAtZero /\ CurrentIsUniform /\ BetweenRestarts

\* Initially the rollout is over.
LEMMA TurnInit == Init => TurnInv
BY DEF Init, IdleOp, NoRestart, Restart, TurnInv, CompletedAtZero, CurrentIsUniform,
     BetweenRestarts, Present, Reading

\* A completed restart stays at ordinal 0.
LEMMA CompletedStep ==
  ASSUME TypeOK, EditsWait, CompletedAtZero, [Next]_vars
  PROVE  CompletedAtZero'
<1> USE DEF CompletedAtZero
<1>1. IdleOp.pc = "idle" /\ NoRestart.phase = "None"
  BY DEF IdleOp, NoRestart, Restart
<1>2. CASE Ends \/ Reads \/ Applies \/ CacheSync
  BY <1>1, <1>2 DEF Ends, Reads, Applies, CacheSync, GoesOn
<1>3. CASE Clears \/ Writes
  BY <1>1, <1>3 DEF Clears, Writes, Stores
<1>4. CASE Starts
  BY <1>4 DEF Starts, Stores, GoesOn, Restart
<1>5. CASE Hands
  BY <1>5 DEF Hands, GoesOn, AfterInclude, Restart
<1>6. CASE Reports \/ (\E n \in Ordinals : Creates(n)) \/ PodsMove \/ Ages \/ Edits
  BY <1>6 DEF Reports, Creates, PodsMove, Ages, Edits
<1> QED
  BY <1>2, <1>3, <1>4, <1>5, <1>6, StepShape

\* What the status says of a rollout that is over stays true of the pods.
LEMMA UniformStep ==
  ASSUME PartitionInv, EditsWait, VersionInv, CurrentIsUniform, [Next]_vars
  PROVE  CurrentIsUniform'
<1> USE DEF CurrentIsUniform
<1>1. TypeOK
  BY DEF PartitionInv
<1>2. CASE Ends \/ Reads \/ CacheSync \/ Clears \/ Starts \/ Writes \/ Ages \/ Edits
  BY <1>2 DEF Ends, Reads, CacheSync, Clears, Starts, Writes, Stores, Ages, Edits, Present
<1>3. CASE Applies
  <2>1. sts'.cur = sts'.tmpl => sts.tmpl = sts'.tmpl /\ sts.cur = sts.tmpl
    BY <1>3 DEF Applies, VersionInv, LastIsApplied, LastIsPending, Current
  <2> QED
    BY <1>3, <2>1 DEF Applies, Present
<1>4. CASE Hands
  BY <1>4 DEF Hands, Present
<1>5. CASE Reports
  BY <1>5 DEF Reports, Present
<1>6. ASSUME NEW n \in Ordinals, Creates(n) PROVE CurrentIsUniform'
  BY <1>6 DEF Creates, Present
<1>7. CASE PodsMove
  BY <1>7 DEF PodsMove
<1> QED
  BY <1>1, <1>2, <1>3, <1>4, <1>5, <1>6, <1>7, StepShape

\* Every step keeps what holds between two restarts, or starts one.
LEMMA BetweenStep ==
  ASSUME PartitionInv, EditsWait, VersionInv, PassedInv, TurnInv, [Next]_vars
  PROVE  BetweenRestarts'
<1> SUFFICES ASSUME cluster'.rr.phase = "None" PROVE BetweenRestarts'
  BY DEF BetweenRestarts
<1>1. /\ TypeOK /\ TypeOK' /\ op.fresh \in BOOLEAN
      /\ cluster.rr.ordinal \in Nat /\ op.obj.rr.phase \in Phases
      /\ op.obj.rr.ordinal \in Nat /\ op.obj.replicas \in Nat
      /\ sts.partition \in Nat /\ sts.replicas \in Nat /\ sts.replicas - 1 < MaxReplicas
  BY TypeStep, Fields, ConstantsAssumption DEF PartitionInv, TypeOK, Objects, RestartStates
<1>2. IdleOp.pc = "idle" /\ NoRestart.phase = "None"
  BY DEF IdleOp, NoRestart, Restart
<1>3. \A o \in 0 .. sts.replicas - 1 : o \in Ordinals
  BY <1>1, ConstantsAssumption DEF Ordinals
<1>4. cluster.rr.phase = "None" =>
        /\ Pinned \/ AllReplaced \/ sts.cur = sts.tmpl
        /\ cache.rr.phase # "None" => Applied(cache) /\ Current(sts)
        /\ Reading /\ op.obj.rr.phase = "None" => cache.rr.phase = "None"
        /\ Reading /\ op.obj.rr.phase # "None" => Applied(op.obj)
  BY DEF TurnInv, BetweenRestarts
<1>5. CASE Ends
  <2>1. cluster.rr.phase = "None"
    BY <1>5 DEF Ends
  <2> QED
    BY <1>2, <1>4, <1>5, <2>1 DEF Ends, BetweenRestarts, Pinned, AllReplaced, Reading, Present,
         Applied, Current
<1>6. CASE Reads
  <2>1. cluster.rr.phase = "None" /\ ~(op'.pc = "restart")
    BY <1>6 DEF Reads
  <2> QED
    BY <1>4, <1>6, <2>1 DEF Reads, BetweenRestarts, Pinned, AllReplaced, Reading, Present,
         Applied, Current
<1>7. CASE Applies
  <2>1. /\ cluster.rr.phase = "None" /\ Reading /\ op'.pc = "restart" /\ op'.obj = op.obj
        /\ UNCHANGED <<cluster, cache, pods>>
    BY <1>7 DEF Applies, GoesOn, Reading
  <2>2. CASE op.obj.rr.phase = "None"
    <3>1. sts'.partition = sts'.replicas /\ cache.rr.phase = "None"
      BY <1>4, <1>7, <2>1, <2>2 DEF Applies, rolloutPartition
    <3>2. Pinned'
      BY <1>1, <1>7, <2>1, <2>2, <3>1 DEF Applies, Pinned
    <3> QED
      BY <2>1, <2>2, <3>1, <3>2 DEF BetweenRestarts
  <2>3. CASE op.obj.rr.phase # "None"
    <3>1. /\ sts'.tmpl = sts.tmpl /\ sts'.replicas = sts.replicas /\ sts'.cur = sts.cur
          /\ Applied(op.obj) /\ ~Pinned
      BY <1>4, <1>7, <2>1, <2>3 DEF Applies, Applied, Pinned
    <3>2. AllReplaced => AllReplaced'
      <4>1. AllReplaced => op.obj.rr.phase = "Completed"
        BY <2>1, <2>3 DEF AllReplaced
      <4>2. AllReplaced => sts'.partition = 0
        BY <1>7, <4>1 DEF Applies, rolloutPartition
      <4> QED
        BY <2>1, <3>1, <4>1, <4>2 DEF AllReplaced, Present
    <3>3. (Pinned \/ AllReplaced \/ sts.cur = sts.tmpl)'
      BY <1>4, <2>1, <3>1, <3>2
    <3> QED
      BY <1>4, <2>1, <2>3, <3>1, <3>3 DEF BetweenRestarts, Applied, Current
  <2> QED
    BY <2>2, <2>3
<1>8. CASE CacheSync
  <2>1. cluster.rr.phase = "None" /\ cache'.rr.phase = "None"
    BY <1>8 DEF CacheSync
  <2> QED
    BY <1>4, <1>8, <2>1 DEF CacheSync, BetweenRestarts, Pinned, AllReplaced, Reading, Present,
         Applied
<1>9. CASE Clears
  <2>1. /\ op.pc = "restart" /\ op.obj.rr.phase # "None" /\ op.fresh
        /\ op.obj.rr.phase = "Completed" \/ ~RollingUpgrade
        /\ op'.pc = "idle" /\ cluster'.rr.phase = "None"
        /\ cluster'.tmpl = cluster.tmpl /\ cluster'.replicas = cluster.replicas
        /\ cache' = cluster \/ cache' = cluster'
        /\ UNCHANGED <<sts, pods>>
    BY <1>2, <1>9 DEF Clears, Stores
  <2>2. cluster.rr.phase = op.obj.rr.phase
    BY <2>1 DEF PartitionInv, PartitionCore, FreshCopy, Reading
  <2>3. Current(sts) /\ sts.upd = sts.tmpl
    BY <2>1, <2>2 DEF VersionInv, LastIsPending, Revisions
  <2>4. Current(sts)' /\ Applied(cache)'
    BY <2>1, <2>3 DEF Current, Applied
  <2>5. CASE op.obj.rr.phase = "Completed"
    <3>1. sts.partition = 0
      BY <2>1, <2>5 DEF PartitionInv, PartitionCore, AppliedPartition, rolloutPartition
    <3>2. UpdatedFrom(cluster.rr)
      BY <2>2, <2>5 DEF PassedInv, Passed
    <3>3. \A o \in 0 .. sts.replicas - 1 : Present(o) => pods[o].rev = sts.tmpl
      BY <2>2, <2>3, <2>5, <3>2 DEF UpdatedFrom, Current
    <3>4. AllReplaced'
      BY <2>1, <2>2, <2>5, <3>1, <3>3 DEF AllReplaced, Reading, Present
    <3> QED
      BY <2>1, <2>4, <3>4 DEF BetweenRestarts, Reading
  <2>6. CASE ~RollingUpgrade
    <3>1. sts'.cur = sts'.tmpl
      BY <2>1, <2>3, <2>6 DEF RollingUpgrade
    <3> QED
      BY <2>1, <2>4, <3>1 DEF BetweenRestarts, Reading
  <2> QED
    BY <2>1, <2>5, <2>6
<1>10. CASE Starts
  BY <1>10 DEF Starts, Stores, Restart
<1>11. CASE Writes
  BY <1>11 DEF Writes, Stores, PartitionInv, PartitionCore, NextState
<1>12. CASE Hands
  <2>1. /\ cluster.rr.phase = "None" /\ Reading /\ op'.pc = "write" /\ Active(op.obj.rr)
        /\ UNCHANGED <<cluster, cache, pods>>
        /\ sts'.tmpl = sts.tmpl /\ sts'.replicas = sts.replicas /\ sts'.cur = sts.cur
    BY <1>12 DEF Hands, GoesOn, Reading
  <2>2. sts.cur = sts.tmpl
    BY <1>4, <2>1 DEF Pinned, AllReplaced, Active
  <2> QED
    BY <1>4, <2>1, <2>2 DEF BetweenRestarts, Reading, Applied, Current
<1>13. CASE Reports
  <2>1. /\ UNCHANGED <<cluster, cache, op, pods>>
        /\ sts'.tmpl = sts.tmpl /\ sts'.replicas = sts.replicas
        /\ sts'.partition = sts.partition
        /\ sts.cur = sts.tmpl => sts'.cur = sts'.tmpl
    BY <1>13 DEF Reports
  <2>2. (Pinned => Pinned') /\ (AllReplaced => AllReplaced')
    BY <2>1 DEF Pinned, AllReplaced, Reading, Present
  <2> QED
    BY <1>4, <2>1, <2>2 DEF BetweenRestarts, Reading, Applied, Current
<1>14. ASSUME NEW n \in Ordinals, Creates(n) PROVE BetweenRestarts'
  <2>1. UNCHANGED <<cluster, cache, op, sts>> /\ cluster.rr.phase = "None"
    BY <1>14 DEF Creates
  <2>2. Pinned => Pinned'
    BY <2>1 DEF Pinned, Reading
  <2>3. AllReplaced => AllReplaced'
    <3>1. sts.partition = 0 => pods'[n].rev = sts.tmpl
      BY <1>14 DEF Creates, Ordinals
    <3> QED
      BY <1>3, <1>14, <2>1, <3>1 DEF AllReplaced, Creates, Reading, Present
  <2> QED
    BY <1>4, <2>1, <2>2, <2>3 DEF BetweenRestarts, Reading, Applied, Current
<1>15. CASE PodsMove
  <2>1. UNCHANGED <<cluster, cache, op, sts>> /\ cluster.rr.phase = "None"
    BY <1>15 DEF PodsMove
  <2>2. Pinned => Pinned'
    BY <2>1 DEF Pinned, Reading
  <2>3. AllReplaced => AllReplaced'
    BY <1>3, <1>15, <2>1 DEF AllReplaced, PodsMove, Reading
  <2> QED
    BY <1>4, <2>1, <2>2, <2>3 DEF BetweenRestarts, Reading, Applied, Current
<1>16. CASE Ages
  <2>1. (Pinned => Pinned') /\ (AllReplaced => AllReplaced')
    BY <1>16 DEF Ages, Pinned, AllReplaced, Reading, Present
  <2> QED
    BY <1>4, <1>16, <2>1 DEF Ages, BetweenRestarts, Reading, Applied, Current
<1>17. CASE Edits
  <2>1. /\ cluster.rr.phase = "None" /\ sts'.cur = sts'.tmpl /\ cache'.rr.phase = "None"
        /\ op'.pc = op.pc /\ op'.obj = op.obj /\ sts' = sts
    BY <1>17 DEF Edits, Settled
  <2> QED
    BY <1>4, <2>1 DEF BetweenRestarts, Reading, Applied
<1> QED
  BY <1>1, <1>5, <1>6, <1>7, <1>8, <1>9, <1>10, <1>11, <1>12, <1>13, <1>14, <1>15, <1>16,
     <1>17, StepShape

\* All of it together.
TurnsInv == PartitionInv /\ EditsWait /\ VersionInv /\ PassedInv /\ TurnInv

\* It holds initially.
LEMMA TurnsInit == EditsWait /\ Init => TurnsInv
BY TypeInit, PartitionInit, VersionInit, PassedInit, TurnInit DEF PartitionInv, TurnsInv

\* Every step preserves it.
LEMMA TurnsStep == TurnsInv /\ [Next]_vars => TurnsInv'
<1> SUFFICES ASSUME TurnsInv, [Next]_vars PROVE TurnsInv'
  OBVIOUS
<1>1. PartitionInv' /\ EditsWait' /\ VersionInv' /\ PassedInv'
  BY PartitionStep, VersionStep, PassedStep DEF EditsWait, TurnsInv
<1>2. TurnInv'
  BY CompletedStep, UniformStep, BetweenStep DEF TurnInv, PartitionInv, TurnsInv
<1> QED
  BY <1>1, <1>2 DEF TurnsInv

\* A pod that the StatefulSet controller may replace is in a recorded restart, at
\* or above its ordinal.
LEMMA OutdatedInTurn ==
  ASSUME TurnsInv, NEW o \in Ordinals, Outdated(o)
  PROVE  cluster.rr.phase # "None" /\ o >= cluster.rr.ordinal
<1> USE DEF TurnsInv
<1>1. /\ o \in 0 .. sts.replicas - 1 /\ o >= sts.partition /\ Present(o)
      /\ pods[o].rev # sts.tmpl
  BY DEF Outdated, Wanted, Present
<1>2. /\ sts.partition \in Nat /\ sts.replicas \in Nat /\ cluster.rr.ordinal \in Nat
      /\ cluster.rr.phase \in Phases
  BY Fields, ConstantsAssumption DEF PartitionInv, TypeOK, Objects, RestartStates
<1>3. cluster.rr.phase # "None"
  BY <1>1, <1>2 DEF TurnInv, BetweenRestarts, CurrentIsUniform, Pinned, AllReplaced
<1>4. CASE cluster.rr.phase = "Completed"
  BY <1>1, <1>2, <1>4 DEF TurnInv, CompletedAtZero
<1>5. CASE Active(cluster.rr)
  BY <1>1, <1>2, <1>3, <1>5 DEF PartitionInv, PartitionCore, PartitionGuards
<1> QED
  BY <1>2, <1>3, <1>4, <1>5 DEF Active, Phases

\* While every edit waits for the one before it to be rolled out, the StatefulSet
\* controller replaces a pod only during a restart that the operator has recorded,
\* and never one below the ordinal it has reached, whatever else fails.
THEOREM AlwaysReplacedInTurn == EditsWait /\ Spec => ReplacedInTurn
<1>1. TurnsInv => [\A o \in Ordinals : StsReplace(o) =>
                     cluster.rr.phase # "None" /\ o >= cluster.rr.ordinal]_vars
  BY OutdatedInTurn DEF StsReplace
<1> QED
  BY <1>1, TurnsInit, TurnsStep, PTL DEF Spec, ReplacedInTurn

=============================================================================
