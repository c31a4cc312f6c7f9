--------------------------- MODULE Rotation_proofs ---------------------------
(***************************************************************************)
(* Theorems about RollingRestart that follow the pods and the proxies: in  *)
(* which order pods are replaced, and which of them the proxies leave out  *)
(* of rotation. Pods do not fail by themselves here, and every edit waits  *)
(* for the one before it. The last two theorems are about an operator that *)
(* is not interrupted.                                                     *)
(***************************************************************************)
EXTENDS RollingRestart_proofs

\* No pod is lost but by the StatefulSet controller.
Calm == EditsWait /\ "podfail" \notin Faults

Up(o) == pods[o].phase \in {"starting", "unready", "ready"}

UpToDate(o) == Up(o) /\ pods[o].rev = sts.tmpl

\* The pods that a restart has passed have been replaced, and are there.
UpFrom(rr) ==
  /\ rr.ordinal < sts.replicas
  /\ \A o \in 0 .. sts.replicas - 1 : o > rr.ordinal \/ rr.phase = "Completed" => UpToDate(o)

UpAbove ==
  /\ cluster.rr.phase # "None" => UpFrom(cluster.rr)
  /\ op.pc = "write" /\ op.fresh => UpFrom(op.obj.rr)

\* A restart goes through Excluding, perhaps Draining, and WaitingReady, and then
\* to the ordinal below.
NextInOrder ==
  op.pc = "write" /\ op.fresh =>
    LET old == cluster.rr
        new == op.obj.rr
    IN  \/ /\ old.phase \in {"Excluding", "Draining"}
           /\ new.phase \in {"Draining", "WaitingReady"} /\ new.ordinal = old.ordinal
        \/ /\ old.phase = "WaitingReady"
           /\ \/ new.phase = "Completed"
              \/ new.phase = "Excluding" /\ new.ordinal + 1 = old.ordinal

\* A copy of the cluster is one write behind at most.
Behind(obj) ==
  obj.rr.phase \in {"Excluding", "Draining"} /\ cluster.rr.phase # "None" =>
    /\ Active(cluster.rr) /\ cluster.rr.ordinal = obj.rr.ordinal
    /\ obj.rr.phase = "Draining" => cluster.rr.phase # "Excluding"

Lag == Behind(cache) /\ (Reading => Behind(op.obj))

\* A pod that is still to be excluded is below the partition, unless it is gone
\* or needs no restart, and no copy of the cluster releases it.
Guarded ==
  cluster.rr.phase = "Excluding" =>
    /\ rolloutPartition(cache.rr, cache.replicas) > cluster.rr.ordinal
    /\ Reading => rolloutPartition(op.obj.rr, op.obj.replicas) > cluster.rr.ordinal
    /\ \/ sts.partition > cluster.rr.ordinal
       \/ ~Present(cluster.rr.ordinal) \/ pods[cluster.rr.ordinal].rev = sts.tmpl

OrderInv == UpAbove /\ NextInOrder /\ Lag /\ Guarded

\* No restart is recorded initially.
LEMMA OrderInit == Init => OrderInv
BY DEF Init, IdleOp, NoRestart, Restart, OrderInv, UpAbove, NextInOrder, Lag, Behind,
     Guarded, Reading

\* The facts about types that the steps below use.
LEMMA MoreFields ==
  ASSUME TypeOK
  PROVE  /\ cluster.rr.ordinal \in Ordinals /\ op.obj.rr.ordinal \in Ordinals
         /\ cluster.rr.phase \in Phases /\ op.obj.rr.phase \in Phases
         /\ op.fresh \in BOOLEAN
         /\ cache.rr \in RestartStates
         /\ sts.partition \in Nat /\ sts.replicas \in Nat /\ cache.replicas \in Nat
         /\ \A o \in 0 .. sts.replicas - 1 : o \in Ordinals
         /\ \A o \in Ordinals : o \in Nat
         /\ 0 \in Ordinals /\ 0 \in 0 .. sts.replicas - 1
BY ConstantsAssumption DEF TypeOK, Objects, RestartStates, Ordinals

\* During a restart the last version of the spec has been applied, and stays so.
LEMMA DuringRestart ==
  ASSUME TurnsInv, cluster.rr.phase # "None"
  PROVE  /\ Current(sts) /\ sts.upd = sts.tmpl
         /\ op.pc # "idle" => op.obj.tmpl = sts.tmpl /\ op.obj.replicas = sts.replicas
BY DEF TurnsInv, VersionInv, LastIsPending, LastIsApplied, Revisions, Current

\* Without failures a pod is taken down only by the StatefulSet controller: it is
\* outdated and released, or beyond the replicas.
LEMMA StaysUp ==
  ASSUME TypeOK, "podfail" \notin Faults, [Next]_vars, NEW o \in Ordinals, Up(o), ~Up(o)'
  PROVE  Outdated(o) \/ o \notin 0 .. sts.replicas - 1
<1>1. pods \in [Ordinals -> [phase : PodPhases, rev : Revs]]
  BY DEF TypeOK
<1>2. pods' # pods
  BY DEF Up
<1>3. CASE \E n \in Ordinals : StsReplace(n)
  BY <1>1, <1>3 DEF StsReplace, Terminate, Up
<1>4. CASE \E n \in Ordinals : StsScaleDown(n)
  BY <1>1, <1>4 DEF StsScaleDown, Terminate, Up, Wanted
<1>5. CASE \E n \in Ordinals : StsCreate(n)
  BY <1>1, <1>5 DEF StsCreate, Up
<1>6. CASE PodStep
  BY <1>1, <1>6 DEF PodStep, PodGetsIP, PodBecomesReady, PodGone, PodMoves, Up
<1>7. CASE OperatorStep \/ HoldForEvacuation \/ OperatorCrash \/ CacheSync
  <2>1. UNCHANGED pods
    BY <1>7 DEF OperatorStep, HoldForEvacuation, OperatorCrash, CacheSync, Begin,
         ApplyStatefulSet, Handler, NothingToRestart, ClearCompleted, CompletedWait,
         ClearUnstarted, StartRestart, ExcludeSkip, ExcludeNoIP, Exclude, DrainWait, DrainDone,
         WaitForReplacement, Include, WriteStatus, Return, UpdateNow, Release
  <2> QED
    BY <1>2, <2>1
<1>8. CASE StsStatus \/ Tick \/ EditTemplate \/ EditReplicas
           \/ \E p \in Proxies : ProxyStop(p) \/ ProxyStart(p)
  <2>1. UNCHANGED pods
    BY <1>8 DEF StsStatus, Tick, EditTemplate, EditReplicas, Edit, ProxyStop, ProxyStart
  <2> QED
    BY <1>2, <2>1
<1>9. CASE \E n \in Ordinals : PodUnready(n) \/ PodEvicted(n)
  BY <1>9 DEF PodUnready, PodEvicted
<1>10. CASE UNCHANGED vars
  BY <1>2, <1>10 DEF vars
<1> QED
  BY <1>3, <1>4, <1>5, <1>6, <1>7, <1>8, <1>9, <1>10 DEF Next, StsStep

\* A pod that is there keeps its revision.
LEMMA RevisionStays ==
  ASSUME TypeOK, EditsWait, [Next]_vars, NEW o \in Ordinals, Present(o)
  PROVE  pods'[o].rev = pods[o].rev
<1>1. CASE PodsMove
  BY <1>1 DEF PodsMove
<1>2. ASSUME NEW n \in Ordinals, Creates(n) PROVE pods'[o].rev = pods[o].rev
  BY <1>2 DEF Creates
<1>3. CASE Ends \/ Reads \/ Applies \/ CacheSync \/ Clears \/ Starts \/ Writes \/ Hands
           \/ Reports \/ Ages \/ Edits
  BY <1>3 DEF Ends, Reads, Applies, CacheSync, Clears, Starts, Writes, Stores, Hands, Reports,
       Ages, Edits
<1> QED
  BY <1>1, <1>2, <1>3, StepShape

\* A pod on the template that has been applied stays, as long as that template does.
LEMMA UpToDateStays ==
  ASSUME TypeOK, Calm, [Next]_vars, sts'.tmpl = sts.tmpl,
         NEW o \in 0 .. sts.replicas - 1, UpToDate(o)
  PROVE  UpToDate(o)'
<1>1. o \in Ordinals /\ Up(o) /\ Present(o) /\ pods[o].rev = sts.tmpl
  BY MoreFields DEF UpToDate, Up, Present
<1>2. Up(o)'
  BY <1>1, StaysUp DEF Calm, Outdated
<1>3. pods'[o].rev = pods[o].rev
  BY <1>1, RevisionStays DEF Calm
<1> QED
  BY <1>1, <1>2, <1>3 DEF UpToDate

\* The pods that a restart has passed stay up to date.
LEMMA UpAboveStep ==
  ASSUME TurnsInv, Calm, OrderInv, [Next]_vars
  PROVE  UpAbove'
<1> USE DEF TurnsInv
<1>1. TypeOK /\ EditsWait
  BY DEF PartitionInv
<1>2. /\ \A o \in 0 .. sts.replicas - 1 : o \in Ordinals
      /\ sts.replicas \in Nat /\ op.obj.rr.ordinal \in Nat /\ cluster.rr.ordinal \in Nat
      /\ cluster.rr.phase \in Phases
  BY <1>1, MoreFields
<1>3. IdleOp.pc = "idle" /\ NoRestart.phase = "None"
  BY DEF IdleOp, NoRestart, Restart
<1>4. /\ cluster.rr.phase # "None" => UpFrom(cluster.rr)
      /\ op.pc = "write" /\ op.fresh => UpFrom(op.obj.rr)
  BY DEF OrderInv, UpAbove
<1>5. ASSUME NEW rr, UpFrom(rr), sts'.tmpl = sts.tmpl, sts'.replicas = sts.replicas
      PROVE  /\ rr.ordinal < sts'.replicas
             /\ \A o \in 0 .. sts'.replicas - 1 :
                  o > rr.ordinal \/ rr.phase = "Completed" => UpToDate(o)'
  BY <1>1, <1>5, UpToDateStays DEF UpFrom
<1>6. CASE Ends \/ Reads \/ CacheSync \/ Reports \/ (\E n \in Ordinals : Creates(n)) \/ PodsMove
  <2>1. /\ UNCHANGED cluster /\ sts'.tmpl = sts.tmpl /\ sts'.replicas = sts.replicas
        /\ op' = op \/ op'.pc # "write"
    BY <1>3, <1>6 DEF Ends, Reads, CacheSync, Reports, Creates, PodsMove
  <2> QED
    BY <1>4, <1>5, <2>1 DEF UpAbove, UpFrom
<1>7. CASE Applies
  <2>1. UNCHANGED cluster /\ op'.pc # "write"
    BY <1>7 DEF Applies, GoesOn
  <2>2. cluster.rr.phase # "None" => sts'.tmpl = sts.tmpl /\ sts'.replicas = sts.replicas
    BY <1>7, DuringRestart DEF Applies
  <2> QED
    BY <1>4, <1>5, <2>1, <2>2 DEF UpAbove, UpFrom
<1>8. CASE Clears
  BY <1>3, <1>8 DEF Clears, Stores, UpAbove
<1>9. CASE Starts
  <2> DEFINE n == op.obj.replicas
             new == Restart("Excluding", n - 1, FALSE)
  <2>1. new.phase = "Excluding" /\ new.ordinal = n - 1
    BY DEF Restart
  <2>2. cluster'.rr = new /\ op'.pc = "started" /\ UNCHANGED sts /\ op.pc = "restart"
    BY <1>9 DEF Starts, Stores, GoesOn
  <2>3. sts.replicas = n
    BY <2>2 DEF VersionInv, CopyVersions, Applied
  <2> HIDE DEF new
  <2> QED
    BY <1>2, <2>1, <2>2, <2>3 DEF UpAbove, UpFrom
<1>10. CASE Writes
  <2>1. cluster'.rr = op.obj.rr /\ op'.pc = "idle" /\ UNCHANGED sts /\ op.pc = "write" /\ op.fresh
    BY <1>3, <1>10 DEF Writes, Stores
  <2> QED
    BY <1>4, <1>5, <2>1 DEF UpAbove, UpFrom
<1>11. CASE Hands
  <2> DEFINE rr == op.obj.rr
             new == op'.obj.rr
  <2>1. /\ UNCHANGED <<cluster, pods>> /\ op'.fresh = op.fresh
        /\ sts'.tmpl = sts.tmpl /\ sts'.replicas = sts.replicas
        /\ op.pc \in {"restart", "started"} /\ Active(rr)
    BY <1>11 DEF Hands, GoesOn
  <2>2. cluster.rr.phase # "None" => UpFrom(cluster.rr)'
    BY <1>4, <1>5, <2>1 DEF UpFrom
  <2>3. ASSUME op.fresh PROVE UpFrom(op.obj.rr)'
    <3>1. cluster.rr.phase = rr.phase /\ cluster.rr.ordinal = rr.ordinal
      BY <2>1, <2>3 DEF PartitionInv, PartitionCore, FreshCopy, Reading
    <3>2. cluster.rr.phase # "None"
      BY <2>1, <3>1 DEF Active
    <3>3. /\ rr.ordinal < sts'.replicas
          /\ \A o \in 0 .. sts'.replicas - 1 : o > rr.ordinal => UpToDate(o)'
      BY <2>1, <2>2, <3>1, <3>2 DEF UpFrom
    <3>4. CASE new.phase \in {"Draining", "WaitingReady"} /\ new.ordinal = rr.ordinal
      BY <3>3, <3>4 DEF UpFrom
    <3>5. CASE Replaced(rr.ordinal) /\ new = AfterInclude(rr.ordinal)
      <4>1. \A o \in 0 .. sts'.replicas - 1 : o = rr.ordinal => UpToDate(o)'
        BY <2>1, <3>2, <3>5, DuringRestart DEF Replaced, Healthy, UpToDate, Up
      <4>2. \A o \in 0 .. sts'.replicas - 1 :
              o > new.ordinal \/ new.phase = "Completed" => o > rr.ordinal \/ o = rr.ordinal
        BY <1>2, <2>1, <3>5 DEF AfterInclude, Restart
      <4>3. new.ordinal < sts'.replicas
        BY <1>2, <2>1, <3>3, <3>5 DEF AfterInclude, Restart
      <4> QED
        BY <3>3, <4>1, <4>2, <4>3 DEF UpFrom
    <3> QED
      BY <1>11, <3>4, <3>5 DEF Hands
  <2> QED
    BY <2>1, <2>2, <2>3 DEF UpAbove
<1>12. CASE Ages
  <2>1. /\ cluster'.rr.phase = cluster.rr.phase /\ cluster'.rr.ordinal = cluster.rr.ordinal
        /\ UNCHANGED <<op, sts, pods>>
    BY <1>12 DEF Ages
  <2> QED
    BY <1>4, <1>5, <2>1 DEF UpAbove, UpFrom
<1>13. CASE Edits
  BY <1>13 DEF Edits, Settled, UpAbove
<1> QED
  BY <1>1, <1>6, <1>7, <1>8, <1>9, <1>10, <1>11, <1>12, <1>13, StepShape

\* The states of a restart follow each other in order.
LEMMA NextInOrderStep ==
  ASSUME TurnsInv, OrderInv, [Next]_vars
  PROVE  NextInOrder'
<1> USE DEF TurnsInv
<1>1. TypeOK /\ EditsWait
  BY DEF PartitionInv
<1>2. op.obj.rr.ordinal \in Nat
  BY <1>1, Fields
<1>3. IdleOp.pc = "idle"
  BY DEF IdleOp
<1>4. CASE Hands
  <2> DEFINE rr == op.obj.rr
             new == op'.obj.rr
  <2>1. /\ UNCHANGED cluster /\ op'.fresh = op.fresh
        /\ op.pc \in {"restart", "started"} /\ Active(rr)
    BY <1>4 DEF Hands, GoesOn
  <2>2. op.fresh => cluster.rr.phase = rr.phase /\ cluster.rr.ordinal = rr.ordinal
    BY <2>1 DEF PartitionInv, PartitionCore, FreshCopy, Reading
  <2>3. CASE /\ rr.phase # "WaitingReady" /\ new.phase \in {"Draining", "WaitingReady"}
             /\ new.ordinal = rr.ordinal
    BY <2>1, <2>2, <2>3 DEF NextInOrder, Active
  <2>4. CASE rr.phase = "WaitingReady" /\ new = AfterInclude(rr.ordinal)
    <3>1. new.phase = "Completed" \/ (new.phase = "Excluding" /\ new.ordinal + 1 = rr.ordinal)
      BY <1>2, <2>4 DEF AfterInclude, Restart
    <3> QED
      BY <2>1, <2>2, <2>4, <3>1 DEF NextInOrder
  <2> QED
    BY <1>4, <2>3, <2>4 DEF Hands
<1>5. CASE Ends \/ Reads \/ Applies \/ Clears \/ Starts \/ Writes
  <2>1. op'.pc # "write"
    BY <1>3, <1>5 DEF Ends, Reads, Applies, Clears, Starts, Writes, GoesOn
  <2> QED
    BY <2>1 DEF NextInOrder
<1>6. CASE CacheSync \/ Reports \/ (\E n \in Ordinals : Creates(n)) \/ PodsMove
  <2>1. UNCHANGED <<cluster, op>>
    BY <1>6 DEF CacheSync, Reports, Creates, PodsMove
  <2> QED
    BY <2>1 DEF OrderInv, NextInOrder
<1>7. CASE Ages
  BY <1>7 DEF Ages, OrderInv, NextInOrder
<1>8. CASE Edits
  BY <1>8 DEF Edits, NextInOrder
<1> QED
  BY <1>1, <1>4, <1>5, <1>6, <1>7, <1>8, StepShape

\* No copy falls further behind.
LEMMA LagStep ==
  ASSUME TurnsInv, OrderInv, [Next]_vars
  PROVE  Lag'
<1> USE DEF TurnsInv
<1>1. TypeOK /\ EditsWait
  BY DEF PartitionInv
<1>2. IdleOp.pc = "idle" /\ NoRestart.phase = "None"
  BY DEF IdleOp, NoRestart, Restart
<1>3. Behind(cache) /\ (Reading => Behind(op.obj)) /\ Behind(cluster)
  BY DEF OrderInv, Lag, Behind, Active
<1>4. CASE Ends \/ Reads \/ Applies \/ CacheSync \/ Hands \/ Reports
           \/ (\E n \in Ordinals : Creates(n)) \/ PodsMove
  <2>1. /\ UNCHANGED cluster
        /\ cache' = cache \/ cache' = cluster
        /\ Reading' => op'.obj = cache \/ (op'.obj = op.obj /\ Reading)
    BY <1>2, <1>4 DEF Ends, Reads, Applies, CacheSync, Hands, Reports, Creates, PodsMove, GoesOn,
         Reading
  <2> QED
    BY <1>3, <2>1 DEF Lag, Behind
<1>5. CASE Clears
  BY <1>2, <1>5 DEF Clears, Stores, Lag, Behind
<1>6. CASE Starts
  <2> DEFINE new == Restart("Excluding", op.obj.replicas - 1, FALSE)
  <2>1. new.phase = "Excluding"
    BY DEF Restart
  <2>2. /\ cluster'.rr = new /\ op'.obj.rr = new /\ (cache' = cluster \/ cache' = cluster')
        /\ op.pc = "restart" /\ op.fresh /\ op.obj.rr.phase = "None"
    BY <1>6 DEF Starts, Stores
  <2>3. cluster.rr.phase = "None"
    BY <2>2 DEF PartitionInv, PartitionCore, FreshCopy, Reading
  <2> HIDE DEF new
  <2> QED
    BY <2>1, <2>2, <2>3 DEF Lag, Behind, Active
<1>7. CASE Writes
  <2>1. /\ cluster'.rr = op.obj.rr /\ (cache' = cluster \/ cache' = cluster')
        /\ op'.pc = "idle" /\ op.pc = "write" /\ op.fresh
    BY <1>2, <1>7 DEF Writes, Stores
  <2>2. cluster.rr.phase \in {"Excluding", "Draining"} =>
          op.obj.rr.phase \in {"Draining", "WaitingReady"} /\ op.obj.rr.ordinal = cluster.rr.ordinal
    BY <2>1 DEF OrderInv, NextInOrder
  <2>3. CASE cache' = cluster
    BY <2>1, <2>2, <2>3 DEF Lag, Behind, Active, Reading
  <2>4. CASE cache' = cluster'
    BY <2>1, <2>4 DEF Lag, Behind, Active, Reading
  <2> QED
    BY <2>1, <2>3, <2>4
<1>8. CASE Ages
  BY <1>3, <1>8 DEF Ages, Lag, Behind, Active, Reading
<1>9. CASE Edits
  BY <1>9 DEF Edits, Settled, Lag, Behind
<1> QED
  BY <1>1, <1>4, <1>5, <1>6, <1>7, <1>8, <1>9, StepShape

\* The pod at the restart's ordinal stays guarded until it has been excluded.
LEMMA GuardedStep ==
  ASSUME TurnsInv, OrderInv, [Next]_vars
  PROVE  Guarded'
<1> USE DEF TurnsInv
<1>1. TypeOK /\ EditsWait
  BY DEF PartitionInv
<1>2. /\ op.obj.rr.ordinal \in Nat /\ cluster.rr.ordinal \in Nat /\ cluster.rr.ordinal \in Ordinals
      /\ sts.partition \in Nat /\ cluster.replicas \in Nat /\ op.obj.replicas \in Nat
      /\ op.obj.replicas > 0
  BY <1>1, Fields, MoreFields DEF TypeOK, Objects
<1>3. IdleOp.pc = "idle" /\ NoRestart.phase = "None"
  BY DEF IdleOp, NoRestart, Restart
<1> DEFINE k == cluster.rr.ordinal
           Open == ~Present(k) \/ pods[k].rev = sts.tmpl
<1>4. cluster.rr.phase = "Excluding" =>
        /\ rolloutPartition(cache.rr, cache.replicas) > k
        /\ Reading => rolloutPartition(op.obj.rr, op.obj.replicas) > k
        /\ sts.partition > k \/ Open
        /\ rolloutPartition(cluster.rr, cluster.replicas) > k
  BY <1>2 DEF OrderInv, Guarded, rolloutPartition
<1>5. CASE Ends \/ Reads \/ CacheSync \/ Reports
  <2>1. /\ UNCHANGED <<cluster, pods>> /\ sts'.tmpl = sts.tmpl /\ sts'.partition = sts.partition
        /\ cache' = cache \/ cache' = cluster
        /\ Reading' => op'.obj = cache \/ (op'.obj = op.obj /\ Reading)
    BY <1>3, <1>5 DEF Ends, Reads, CacheSync, Reports, Reading
  <2> QED
    BY <1>4, <2>1 DEF Guarded, Present
<1>6. CASE Applies
  <2>1. /\ UNCHANGED <<cluster, cache>> /\ op'.obj = op.obj /\ Reading
        /\ sts'.partition = rolloutPartition(op.obj.rr, op.obj.replicas)
    BY <1>6 DEF Applies, Reading
  <2> QED
    BY <1>4, <2>1 DEF Guarded
<1>7. CASE Clears
  BY <1>3, <1>7 DEF Clears, Stores, Guarded
<1>8. CASE Starts
  <2> DEFINE n == op.obj.replicas
             new == Restart("Excluding", n - 1, FALSE)
  <2>1. new.phase = "Excluding" /\ new.ordinal = n - 1
    BY DEF Restart
  <2>2. /\ cluster'.rr = new /\ op'.obj.rr = new /\ (cache' = cluster \/ cache' = cluster')
        /\ op.pc = "restart" /\ op.fresh /\ op.obj.rr.phase = "None" /\ UNCHANGED sts
    BY <1>8 DEF Starts, Stores
  <2>3. cluster.rr.phase = "None" /\ cluster.replicas = n
    BY <2>2 DEF PartitionInv, PartitionCore, FreshCopy, Reading
  <2>4. sts.partition = n
    BY <2>2 DEF PartitionInv, PartitionCore, AppliedPartition, rolloutPartition
  <2> HIDE DEF new
  <2>5. rolloutPartition(cluster.rr, cluster.replicas) = n /\ \A m : rolloutPartition(new, m) = n
    BY <1>2, <2>1, <2>3 DEF rolloutPartition
  <2>6. rolloutPartition(cache.rr, cache.replicas)' = n
    BY <2>2, <2>5
  <2> QED
    BY <1>2, <2>1, <2>2, <2>4, <2>5, <2>6 DEF Guarded
<1>9. CASE Writes
  <2>1. /\ cluster'.rr = op.obj.rr /\ (cache' = cluster \/ cache' = cluster')
        /\ op'.pc = "idle" /\ op.pc = "write" /\ op.fresh /\ UNCHANGED sts
    BY <1>3, <1>9 DEF Writes, Stores
  <2>2. op.obj.rr.phase = "Excluding" =>
          cluster.rr.phase = "WaitingReady" /\ op.obj.rr.ordinal + 1 = k
    BY <2>1 DEF OrderInv, NextInOrder
  <2>3. cluster.rr.phase = "WaitingReady" =>
          sts.partition >= k /\ rolloutPartition(cluster.rr, cluster.replicas) = k
    BY DEF PartitionInv, PartitionCore, PartitionGuards, Active, rolloutPartition
  <2>4. op.obj.rr.phase = "Excluding" =>
          \A m : rolloutPartition(op.obj.rr, m) = op.obj.rr.ordinal + 1
    BY DEF rolloutPartition
  <2>5. op.obj.rr.phase = "Excluding" =>
          rolloutPartition(cache.rr, cache.replicas)' = op.obj.rr.ordinal + 1
    BY <2>1, <2>2, <2>3, <2>4
  <2> QED
    BY <1>2, <2>1, <2>2, <2>3, <2>5 DEF Guarded, Reading
<1>10. CASE Hands
  <2>1. /\ UNCHANGED <<cluster, cache, pods>> /\ op'.pc = "write" /\ sts'.tmpl = sts.tmpl
        /\ op.pc \in {"restart", "started"} /\ Active(op.obj.rr)
        /\ sts'.partition = sts.partition \/ Lowers
    BY <1>10 DEF Hands, GoesOn
  <2>2. ASSUME Lowers, cluster.rr.phase = "Excluding" PROVE Open
    <3>1. op.obj.rr.phase = "Excluding" /\ op.obj.rr.ordinal = k
      BY <2>1, <2>2 DEF Lowers, OrderInv, Lag, Behind, Reading
    <3>2. sts.upd = sts.tmpl
      BY <2>2, DuringRestart
    <3> QED
      BY <2>2, <3>1, <3>2 DEF Lowers
  <2> QED
    BY <1>4, <2>1, <2>2 DEF Guarded, Present, Reading
<1>11. ASSUME NEW n \in Ordinals, Creates(n) PROVE Guarded'
  <2>1. /\ UNCHANGED <<cluster, cache, op, sts>>
        /\ k # n => pods'[k] = pods[k]
        /\ ~(n < sts.partition) => pods'[n].rev = sts.tmpl
    BY <1>2, <1>11 DEF Creates
  <2>2. cluster.rr.phase = "Excluding" =>
          sts.partition > k \/ pods'[k].phase = "absent" \/ pods'[k].rev = sts.tmpl
    BY <1>2, <1>4, <2>1 DEF Present
  <2> QED
    BY <1>4, <2>1, <2>2 DEF Guarded, Present, Reading
<1>12. CASE PodsMove
  <2>1. /\ UNCHANGED <<cluster, cache, op, sts>>
        /\ pods'[k].rev = pods[k].rev /\ (pods'[k].phase # "absent" => Present(k))
    BY <1>2, <1>12 DEF PodsMove, Present
  <2> QED
    BY <1>4, <2>1 DEF Guarded, Present, Reading
<1>13. CASE Ages
  <2>1. rolloutPartition(cache.rr, cache.replicas)' = rolloutPartition(cache.rr, cache.replicas)
    BY <1>13 DEF Ages, rolloutPartition
  <2> QED
    BY <1>4, <1>13, <2>1 DEF Ages, Guarded, Present, Reading
<1>14. CASE Edits
  BY <1>14 DEF Edits, Settled, Guarded
<1> QED
  BY <1>1, <1>5, <1>6, <1>7, <1>8, <1>9, <1>10, <1>11, <1>12, <1>13, <1>14, StepShape

\* Every step keeps the order.
LEMMA OrderStep ==
  ASSUME TurnsInv, Calm, OrderInv, [Next]_vars
  PROVE  OrderInv'
BY UpAboveStep, NextInOrderStep, LagStep, GuardedStep DEF OrderInv

\* The recorded restart changes in three ways only.
LEMMA RestartMoves ==
  ASSUME TurnsInv, [Next]_vars
  PROVE  \/ /\ cluster'.rr.phase = cluster.rr.phase /\ cluster'.rr.ordinal = cluster.rr.ordinal
            /\ cluster'.rr.confirmed = cluster.rr.confirmed
            /\ ~Hands => op' = op \/ op'.pc # "write" \/ ~op'.fresh
         \/ Clears \/ Starts \/ Writes
<1>1. TypeOK /\ EditsWait
  BY DEF TurnsInv, PartitionInv
<1>2. IdleOp.pc = "idle"
  BY DEF IdleOp
<1>3. CASE Ends \/ Reads \/ Applies \/ CacheSync \/ Reports \/ (\E n \in Ordinals : Creates(n))
           \/ PodsMove \/ Edits
  BY <1>2, <1>3 DEF Ends, Reads, Applies, CacheSync, Reports, Creates, PodsMove, Edits, GoesOn
<1>4. CASE Hands
  BY <1>4 DEF Hands
<1>5. CASE Ages
  BY <1>5 DEF Ages
<1> QED
  BY <1>1, <1>3, <1>4, <1>5, StepShape

\* A recorded restart keeps the template and the replicas as they have been applied.
LEMMA TemplateStays ==
  ASSUME TurnsInv, [Next]_vars, ~Applies \/ cluster.rr.phase # "None"
  PROVE  /\ sts'.tmpl = sts.tmpl /\ sts'.replicas = sts.replicas
         /\ sts'.cur = sts.cur \/ sts'.cur = sts.tmpl
<1>1. TypeOK /\ EditsWait
  BY DEF TurnsInv, PartitionInv
<1>2. CASE Applies
  BY <1>2, DuringRestart DEF Applies
<1>3. CASE Ends \/ Reads \/ CacheSync \/ Clears \/ Starts \/ Writes \/ Hands \/ Reports
           \/ (\E n \in Ordinals : Creates(n)) \/ PodsMove \/ Ages \/ Edits
  BY <1>3 DEF Ends, Reads, CacheSync, Clears, Starts, Writes, Stores, Hands, Reports, Creates,
       PodsMove, Ages, Edits
<1> QED
  BY <1>1, <1>2, <1>3, StepShape

-----------------------------------------------------------------------------
(* Which steps touch the proxies' exclusions *)

\* Only Exclude adds to them.
LEMMA OnlyExcludeAdds ==
  ASSUME TypeOK, [Next]_vars, ~Exclude
  PROVE  \A p \in Proxies : excl'[p] \subseteq excl[p]
<1>1. excl \in [Proxies -> SUBSET Ordinals]
  BY DEF TypeOK
<1>2. CASE Include
  BY <1>1, <1>2 DEF Include
<1>3. CASE \E o \in Ordinals : StsCreate(o)
  BY <1>1, <1>3 DEF StsCreate
<1>4. CASE \E p \in Proxies : ProxyStop(p)
  BY <1>1, <1>4 DEF ProxyStop
<1>5. CASE UNCHANGED excl
  BY <1>5
<1>6. CASE \/ Begin \/ ApplyStatefulSet \/ WriteStatus \/ HoldForEvacuation \/ OperatorCrash
           \/ CacheSync \/ NothingToRestart \/ ClearCompleted \/ CompletedWait \/ ClearUnstarted
           \/ StartRestart \/ ExcludeSkip \/ ExcludeNoIP \/ DrainWait \/ DrainDone
           \/ WaitForReplacement
  BY <1>5, <1>6
     DEF Begin, ApplyStatefulSet, WriteStatus, HoldForEvacuation, OperatorCrash, CacheSync,
         NothingToRestart, ClearCompleted, CompletedWait, ClearUnstarted, StartRestart,
         ExcludeSkip, ExcludeNoIP, DrainWait, DrainDone, WaitForReplacement, Return, UpdateNow,
         Release
<1>7. CASE \/ StsStatus \/ PodStep \/ Tick \/ EditTemplate \/ EditReplicas
           \/ \E o \in Ordinals : StsReplace(o) \/ StsScaleDown(o) \/ PodUnready(o) \/ PodEvicted(o)
           \/ \E p \in Proxies : ProxyStart(p)
  BY <1>5, <1>7
     DEF StsStatus, PodStep, Tick, EditTemplate, EditReplicas, Edit, StsReplace, StsScaleDown,
         Terminate, PodGetsIP, PodBecomesReady, PodGone, PodUnready, PodEvicted, PodMoves,
         ProxyStart
<1> QED
  BY <1>2, <1>3, <1>4, <1>5, <1>6, <1>7 DEF Next, OperatorStep, Handler, StsStep, vars

\* A proxy that is not running excludes nothing.
Stopped == \A p \in Proxies : ~up[p] => excl[p] = {}

\* It stays so.
LEMMA StoppedStep ==
  ASSUME TypeOK, Stopped, [Next]_vars
  PROVE  Stopped'
<1>1. /\ excl \in [Proxies -> SUBSET Ordinals] /\ up \in [Proxies -> BOOLEAN]
  BY DEF TypeOK
<1>2. CASE \E p \in Proxies : ProxyStop(p)
  BY <1>1, <1>2 DEF ProxyStop, Stopped
<1>3. CASE \E p \in Proxies : ProxyStart(p)
  BY <1>1, <1>3 DEF ProxyStart, Stopped
<1>4. CASE Exclude
  <2>1. /\ UNCHANGED up
        /\ \E told \in SUBSET Running :
             excl' = [p \in Proxies |-> IF p \in told THEN excl[p] \cup {op.obj.rr.ordinal}
                                        ELSE excl[p]]
    BY <1>4 DEF Exclude, Told
  <2> QED
    BY <2>1 DEF Running, Stopped
<1>5. CASE UNCHANGED up /\ ~Exclude
  BY <1>1, <1>5, OnlyExcludeAdds DEF Stopped
<1>6. CASE UNCHANGED vars
  BY <1>6 DEF vars, Stopped
<1>7. CASE OperatorStep \/ HoldForEvacuation \/ OperatorCrash \/ CacheSync
  <2>1. UNCHANGED up
    BY <1>7 DEF OperatorStep, HoldForEvacuation, OperatorCrash, CacheSync, Begin,
         ApplyStatefulSet, Handler, NothingToRestart, ClearCompleted, CompletedWait,
         ClearUnstarted, StartRestart, ExcludeSkip, ExcludeNoIP, Exclude, DrainWait, DrainDone,
         WaitForReplacement, Include, WriteStatus, Return, UpdateNow, Release
  <2> QED
    BY <1>4, <1>5, <2>1
<1>8. CASE \/ StsStep \/ PodStep \/ Tick \/ EditTemplate \/ EditReplicas
           \/ \E o \in Ordinals : PodUnready(o) \/ PodEvicted(o)
  <2>1. UNCHANGED up
    BY <1>8 DEF StsStep, StsStatus, StsCreate, PodStep, Tick, EditTemplate, EditReplicas, Edit,
         StsReplace, StsScaleDown, Terminate, PodGetsIP, PodBecomesReady, PodGone, PodUnready,
         PodEvicted, PodMoves
  <2> QED
    BY <1>4, <1>5, <2>1
<1> QED
  BY <1>2, <1>3, <1>6, <1>7, <1>8 DEF Next

\* The four handlers that come to a next state.
LEMMA HandlerActs ==
  ASSUME TypeOK, [Next]_vars, Hands
  PROVE  Exclude \/ ExcludeSkip \/ DrainDone \/ Include
<1>1. op.pc \in {"restart", "started"} /\ op'.pc = "write" /\ op' # op /\ IdleOp.pc = "idle"
  BY DEF Hands, GoesOn, IdleOp
<1>2. Next
  BY <1>1 DEF vars
<1>3. op \in OpTypes
  BY DEF TypeOK, OpTypes
<1>4. ~(\/ Begin \/ ApplyStatefulSet \/ WriteStatus \/ HoldForEvacuation \/ OperatorCrash
        \/ CacheSync \/ NothingToRestart \/ CompletedWait \/ ExcludeNoIP \/ DrainWait
        \/ WaitForReplacement)
  BY <1>1
     DEF Begin, ApplyStatefulSet, WriteStatus, HoldForEvacuation, OperatorCrash, CacheSync,
         NothingToRestart, CompletedWait, ExcludeNoIP, DrainWait, WaitForReplacement, Return
<1>5. ASSUME NEW rr, NEW pc \in {"idle", "started"}, UpdateNow(rr, pc) PROVE FALSE
  BY <1>1, <1>3, <1>5 DEF UpdateNow, OpTypes
<1>6. ~(ClearCompleted \/ ClearUnstarted \/ StartRestart)
  BY <1>5 DEF ClearCompleted, ClearUnstarted, StartRestart
<1>7. ASSUME EditTemplate \/ EditReplicas PROVE op'.pc = op.pc
  BY <1>3, <1>7 DEF EditTemplate, EditReplicas, Edit, OpTypes
<1>8. ~(\/ StsStep \/ PodStep \/ Tick \/ EditTemplate \/ EditReplicas
        \/ (\E o \in Ordinals : PodUnready(o) \/ PodEvicted(o))
        \/ (\E p \in Proxies : ProxyStop(p) \/ ProxyStart(p)))
  BY <1>1, <1>7
     DEF StsStep, StsStatus, StsCreate, PodStep, Tick, StsReplace, StsScaleDown, Terminate,
         PodGetsIP, PodBecomesReady, PodGone, PodUnready, PodEvicted, PodMoves, ProxyStop,
         ProxyStart
<1> QED
  BY <1>2, <1>4, <1>6, <1>8 DEF Next, OperatorStep, Handler

\* When no proxy refuses for ever, the restart moves on to another ordinal only
\* after all running proxies have taken the pod back.
LEMMA IncludeTellsAll ==
  ASSUME TypeOK, "refuse" \notin Faults, [Next]_vars, Hands,
         op'.obj.rr.phase \in {"Excluding", "Completed"}
  PROVE  ~Exclude /\ \A p \in Proxies : up[p] => excl'[p] = excl[p] \ {op.obj.rr.ordinal}
<1> DEFINE rr == op.obj.rr
<1>1. /\ rr.phase = "WaitingReady" /\ op.pc = "restart" /\ op'.pc = "write"
  BY DEF Hands, GoesOn
<1>2. IdleOp.pc = "idle" /\ op' # op /\ rr.aged \in BOOLEAN
  BY <1>1, Fields DEF IdleOp, RestartStates
<1>3. Include
  BY <1>1, HandlerActs DEF ExcludeSkip, Exclude, Excluding, DrainDone
<1>4. PICK ok \in BOOLEAN, told \in SUBSET Running :
        /\ told \in Told(ok)
        /\ ok \/ CallFails(rr)
        /\ excl' = [p \in Proxies |-> IF p \in told THEN excl[p] \ {rr.ordinal} ELSE excl[p]]
        /\ IF MovesOn(rr, ok) THEN ThenWrite(AfterInclude(rr.ordinal)) ELSE op' = IdleOp
  BY <1>3 DEF Include, Told
<1>5. MovesOn(rr, ok)
  BY <1>1, <1>2, <1>4
<1>6. ok
  BY <1>2, <1>4, <1>5 DEF MovesOn, CallFails
<1>7. told = Running
  BY <1>4, <1>6 DEF Told
<1>8. ~Exclude
  BY <1>1 DEF Exclude, Excluding
<1> QED
  BY <1>4, <1>7, <1>8 DEF Running

\* A pod is excluded only while the restart is at it, and before it is replaced.
LEMMA ExcludeInTurn ==
  ASSUME TurnsInv, OrderInv, Exclude
  PROVE  /\ Active(cluster.rr) /\ cluster.rr.ordinal = op.obj.rr.ordinal
         /\ pods[cluster.rr.ordinal].rev # sts.tmpl
         /\ UNCHANGED <<cluster, sts, pods>>
<1> USE DEF TurnsInv
<1> DEFINE k == op.obj.rr.ordinal
<1>1. /\ Reading /\ op.obj.rr.phase = "Excluding" /\ Present(k) /\ pods[k].rev # sts.upd
      /\ UNCHANGED <<cluster, sts, pods>>
  BY DEF Exclude, Excluding, Reading, HasIP, Present
<1>2. k \in Ordinals
  BY MoreFields DEF PartitionInv
<1>3. cluster.rr.phase # "None"
  <2> SUFFICES ASSUME cluster.rr.phase = "None" PROVE FALSE
    OBVIOUS
  <2>1. sts.cur = sts.tmpl
    BY <1>1 DEF TurnInv, BetweenRestarts, Pinned, AllReplaced
  <2>2. sts.upd = sts.tmpl
    BY <2>1 DEF VersionInv, Revisions
  <2> QED
    BY <1>1, <1>2, <2>1, <2>2 DEF TurnInv, CurrentIsUniform
<1>4. Active(cluster.rr) /\ cluster.rr.ordinal = k
  BY <1>1, <1>3 DEF OrderInv, Lag, Behind
<1>5. sts.upd = sts.tmpl
  BY <1>3, DuringRestart
<1> QED
  BY <1>1, <1>4, <1>5

-----------------------------------------------------------------------------
(* No exclusion is forgotten *)

Nobody == \A p \in Proxies : excl[p] = {}

FirstIsOld == Up(0) /\ pods[0].rev # sts.tmpl

AllUpToDate == \A o \in 0 .. sts.replicas - 1 : UpToDate(o)

\* Pod 0 goes last: until its turn the update is pending, or there is nothing left
\* to replace and so nothing is excluded.
FirstPod ==
  /\ cluster.rr.phase = "None" => Up(0) /\ (sts.cur = sts.tmpl \/ FirstIsOld \/ AllUpToDate)
  /\ Active(cluster.rr) /\ (cluster.rr.phase = "Excluding" \/ cluster.rr.ordinal > 0) =>
       FirstIsOld \/ (AllUpToDate /\ Nobody)

\* The only ordinal that is excluded is the restart's, and before the restart
\* leaves it every proxy has taken it back.
Accounted ==
  /\ Stopped
  /\ Active(cluster.rr) => \A p \in Proxies : excl[p] \subseteq {cluster.rr.ordinal}
  /\ ~Active(cluster.rr) => Nobody
  /\ op.pc = "write" /\ op.fresh /\ op.obj.rr.phase \in {"Excluding", "Completed"} => Nobody

ExclusionInv ==
  TurnsInv /\ Calm /\ "refuse" \notin Faults /\ OrderInv /\ FirstPod /\ Accounted

\* Initially nothing is excluded, and pod 0 is there.
LEMMA ExclusionInit == Calm /\ "refuse" \notin Faults /\ Init => ExclusionInv
<1> SUFFICES ASSUME Calm, "refuse" \notin Faults, Init PROVE ExclusionInv
  OBVIOUS
<1>1. TurnsInv /\ OrderInv
  BY TurnsInit, OrderInit DEF Calm
<1>2. FirstPod
  <2>1. cluster.rr.phase = "None" /\ sts.cur = sts.tmpl
    BY DEF Init, NoRestart, Restart
  <2>2. 0 \in Ordinals
    BY <1>1, MoreFields DEF TurnsInv, PartitionInv
  <2>3. pods[0].phase = "ready"
    BY <2>2 DEF Init
  <2> QED
    BY <2>1, <2>3 DEF FirstPod, Up, Active
<1>3. Accounted
  BY DEF Init, IdleOp, NoRestart, Restart, Accounted, Stopped, Nobody, Active
<1> QED
  BY <1>1, <1>2, <1>3 DEF ExclusionInv

\* An old pod 0 stays until it is its turn.
LEMMA FirstStaysOld ==
  ASSUME TurnsInv, Calm, OrderInv, [Next]_vars, FirstIsOld, sts'.tmpl = sts.tmpl,
         \/ cluster.rr.phase \in {"None", "Excluding"}
         \/ Active(cluster.rr) /\ cluster.rr.ordinal > 0
  PROVE  FirstIsOld'
<1>1. /\ TypeOK /\ 0 \in Ordinals /\ 0 \in 0 .. sts.replicas - 1
      /\ sts.partition \in Nat /\ cluster.rr.ordinal \in Nat
  BY MoreFields, Fields DEF TurnsInv, PartitionInv
<1>2. Up(0) /\ Present(0) /\ pods[0].rev # sts.tmpl
  BY DEF FirstIsOld, Up, Present
<1>3. ASSUME Outdated(0) PROVE FALSE
  <2>1. cluster.rr.phase # "None" /\ cluster.rr.ordinal = 0 /\ 0 >= sts.partition
    BY <1>1, <1>3, OutdatedInTurn DEF Outdated
  <2>2. cluster.rr.phase = "Excluding"
    BY <2>1
  <2> QED
    BY <1>1, <1>2, <2>1, <2>2 DEF OrderInv, Guarded
<1>4. Up(0)'
  BY <1>1, <1>2, <1>3, StaysUp DEF Calm
<1>5. pods'[0].rev = pods[0].rev
  BY <1>1, <1>2, RevisionStays DEF Calm
<1> QED
  BY <1>2, <1>4, <1>5 DEF FirstIsOld

\* So does a cluster in which there is nothing left to replace.
LEMMA StaysUpToDate ==
  ASSUME TurnsInv, Calm, OrderInv, [Next]_vars, AllUpToDate,
         sts'.tmpl = sts.tmpl, sts'.replicas = sts.replicas
  PROVE  AllUpToDate' /\ (Nobody => Nobody')
<1>1. TypeOK
  BY DEF TurnsInv, PartitionInv
<1>2. AllUpToDate'
  BY <1>1, UpToDateStays DEF AllUpToDate
<1>3. ~Exclude
  <2> SUFFICES ASSUME Exclude PROVE FALSE
    OBVIOUS
  <2>1. Active(cluster.rr) /\ pods[cluster.rr.ordinal].rev # sts.tmpl
    BY ExcludeInTurn
  <2>2. cluster.rr.ordinal \in 0 .. sts.replicas - 1
    BY <1>1, <2>1, MoreFields, Fields DEF OrderInv, UpAbove, UpFrom, Active
  <2> QED
    BY <2>1, <2>2 DEF AllUpToDate, UpToDate
<1>4. Nobody => Nobody'
  BY <1>1, <1>3, OnlyExcludeAdds DEF Nobody
<1> QED
  BY <1>2, <1>4

\* Pod 0 goes last.
LEMMA FirstPodStep ==
  ASSUME ExclusionInv, [Next]_vars
  PROVE  FirstPod'
<1> USE DEF ExclusionInv
<1>1. /\ TypeOK /\ EditsWait /\ 0 \in Ordinals /\ 0 \in 0 .. sts.replicas - 1
      /\ cluster.rr.ordinal \in Nat /\ cluster.rr.phase \in Phases
  BY MoreFields, Fields DEF TurnsInv, PartitionInv
<1> DEFINE Early(rr) == Active(rr) /\ (rr.phase = "Excluding" \/ rr.ordinal > 0)
<1>2. ASSUME Early(cluster.rr) PROVE FirstIsOld' \/ (AllUpToDate' /\ Nobody')
  <2>1. cluster.rr.phase # "None" /\ (FirstIsOld \/ (AllUpToDate /\ Nobody))
    BY <1>2 DEF FirstPod, Active
  <2>2. sts'.tmpl = sts.tmpl /\ sts'.replicas = sts.replicas
    BY <2>1, TemplateStays
  <2> QED
    BY <1>2, <2>1, <2>2, FirstStaysOld, StaysUpToDate
<1>3. ASSUME cluster.rr.phase = "None", ~Starts
      PROVE  Up(0)' /\ (sts'.cur = sts'.tmpl \/ FirstIsOld' \/ AllUpToDate')
  <2>1. Up(0) /\ (sts.cur = sts.tmpl \/ FirstIsOld \/ AllUpToDate)
    BY <1>3 DEF FirstPod
  <2>2. Up(0)'
    BY <1>1, <1>3, <2>1, StaysUp, OutdatedInTurn DEF Calm
  <2>3. CASE Applies
    <3>1. CASE Current(sts)
      <4>1. sts'.tmpl = sts.tmpl /\ sts'.replicas = sts.replicas /\ sts'.cur = sts.cur
        BY <2>3, <3>1 DEF Applies, TurnsInv, VersionInv, LastIsApplied, Current
      <4> QED
        BY <1>3, <2>1, <2>2, <4>1, FirstStaysOld, StaysUpToDate
    <3>2. CASE ~Current(sts)
      <4>1. sts.cur = sts.tmpl /\ sts'.cur = sts.cur /\ UNCHANGED pods
        BY <2>3, <3>2 DEF Applies, TurnsInv, VersionInv, LastIsPending
      <4>2. pods[0].rev = sts.tmpl
        BY <1>1, <2>1, <4>1 DEF TurnsInv, TurnInv, CurrentIsUniform, Up, Present
      <4> QED
        BY <2>2, <4>1, <4>2 DEF FirstIsOld
    <3> QED
      BY <3>1, <3>2
  <2>4. CASE ~Applies
    <3>1. /\ sts'.tmpl = sts.tmpl /\ sts'.replicas = sts.replicas
          /\ sts'.cur = sts.cur \/ sts'.cur = sts.tmpl
      BY <2>4, TemplateStays
    <3> QED
      BY <1>3, <2>1, <2>2, <3>1, FirstStaysOld, StaysUpToDate
  <2> QED
    BY <2>3, <2>4
<1>4. CASE cluster'.rr.phase = cluster.rr.phase /\ cluster'.rr.ordinal = cluster.rr.ordinal
  <2>1. ~Starts \/ cluster.rr.phase # "None"
    BY <1>4 DEF Starts, Stores, Restart
  <2>2. Early(cluster'.rr) => Early(cluster.rr)
    BY <1>4 DEF Active
  <2> QED
    BY <1>2, <1>3, <1>4, <2>1, <2>2 DEF FirstPod
<1>5. CASE Clears
  <2>1. /\ UNCHANGED <<sts, pods>> /\ cluster'.rr.phase = "None" /\ op.pc = "restart" /\ op.fresh
        /\ op.obj.rr.phase = "Completed" \/ (op.obj.rr.phase = "Excluding" /\ ~RollingUpgrade)
    BY <1>5 DEF Clears, Stores, NoRestart, Restart
  <2>2. cluster.rr.phase = op.obj.rr.phase
    BY <2>1 DEF TurnsInv, PartitionInv, PartitionCore, FreshCopy, Reading
  <2>3. CASE cluster.rr.phase = "Completed"
    <3>1. AllUpToDate
      BY <2>3 DEF OrderInv, UpAbove, UpFrom, AllUpToDate
    <3>2. Up(0) /\ AllUpToDate'
      BY <1>1, <2>1, <3>1 DEF AllUpToDate, UpToDate, Up
    <3> QED
      BY <2>1, <3>2 DEF FirstPod, Up, Active
  <2>4. CASE cluster.rr.phase = "Excluding" /\ ~RollingUpgrade
    <3>1. sts.cur = sts.tmpl
      BY <2>4, DuringRestart DEF RollingUpgrade
    <3>2. Up(0)
      BY <1>1, <2>4 DEF FirstPod, Active, FirstIsOld, AllUpToDate, UpToDate
    <3> QED
      BY <2>1, <3>1, <3>2 DEF FirstPod, Up, Active
  <2> QED
    BY <2>1, <2>2, <2>3, <2>4
<1>6. CASE Starts
  <2>1. /\ UNCHANGED <<sts, pods>> /\ cluster'.rr.phase = "Excluding" /\ op'.pc = "started"
        /\ op.pc = "restart" /\ op.fresh /\ op.obj.rr.phase = "None" /\ RollingUpgrade
    BY <1>6 DEF Starts, Stores, GoesOn, Restart
  <2>2. cluster.rr.phase = "None"
    BY <2>1 DEF TurnsInv, PartitionInv, PartitionCore, FreshCopy, Reading
  <2>3. sts.cur # sts.tmpl
    BY <2>1 DEF RollingUpgrade, TurnsInv, VersionInv, Revisions
  <2>4. FirstIsOld \/ (AllUpToDate /\ Nobody)
    BY <2>2, <2>3 DEF FirstPod, Accounted, Active
  <2>5. (FirstIsOld => FirstIsOld') /\ (AllUpToDate /\ Nobody => AllUpToDate' /\ Nobody')
    BY <2>1, <2>2, FirstStaysOld, StaysUpToDate
  <2> QED
    BY <2>1, <2>4, <2>5 DEF FirstPod
<1>7. CASE Writes
  <2>1. cluster'.rr = op.obj.rr /\ op.pc = "write" /\ op.fresh
    BY <1>7 DEF Writes, Stores
  <2>2. op.obj.rr.phase # "None"
    BY <2>1 DEF TurnsInv, PartitionInv, PartitionCore, NextState
  <2>3. Early(cluster'.rr) => Early(cluster.rr)
    <3>1. op.obj.rr.ordinal \in Nat
      BY <1>1, Fields
    <3> QED
      BY <1>1, <2>1, <3>1 DEF OrderInv, NextInOrder, Active
  <2> QED
    BY <1>2, <2>1, <2>2, <2>3 DEF FirstPod
<1> QED
  BY <1>4, <1>5, <1>6, <1>7, RestartMoves

\* Every exclusion stays accounted for.
LEMMA AccountedStep ==
  ASSUME ExclusionInv, [Next]_vars
  PROVE  Accounted'
<1> USE DEF ExclusionInv
<1>1. TypeOK /\ excl \in [Proxies -> SUBSET Ordinals]
  BY DEF TurnsInv, PartitionInv, TypeOK
<1>2. Stopped'
  BY <1>1, StoppedStep DEF Accounted
<1>3. ASSUME ~Exclude, Nobody PROVE Nobody'
  BY <1>1, <1>3, OnlyExcludeAdds DEF Nobody
<1>4. op.pc = "write" => ~Exclude
  BY DEF Exclude, Excluding
<1>5. ASSUME op'.pc = "write", op'.fresh, op'.obj.rr.phase \in {"Excluding", "Completed"},
             op' = op \/ Hands
      PROVE  Nobody'
  <2>1. CASE op' = op
    BY <1>3, <1>4, <1>5, <2>1 DEF Accounted
  <2>2. CASE Hands
    <3> DEFINE k == op.obj.rr.ordinal
    <3>1. op.fresh /\ op.pc \in {"restart", "started"} /\ Active(op.obj.rr)
      BY <1>5, <2>2 DEF Hands, GoesOn
    <3>2. Active(cluster.rr) /\ cluster.rr.ordinal = k
      BY <3>1 DEF TurnsInv, PartitionInv, PartitionCore, FreshCopy, Reading, Active
    <3>3. ~Exclude /\ \A p \in Proxies : up[p] => excl'[p] = excl[p] \ {k}
      BY <1>1, <1>5, <2>2, IncludeTellsAll
    <3>4. \A p \in Proxies : excl[p] \subseteq {k} /\ (~up[p] => excl[p] = {})
      BY <3>2 DEF Accounted, Stopped
    <3>5. \A p \in Proxies : excl'[p] \subseteq excl[p]
      BY <1>1, <3>3, OnlyExcludeAdds
    <3> QED
      BY <3>3, <3>4, <3>5 DEF Nobody
  <2> QED
    BY <1>5, <2>1, <2>2
<1>6. CASE Exclude
  <2>1. Active(cluster.rr) /\ cluster.rr.ordinal = op.obj.rr.ordinal /\ UNCHANGED cluster
    BY <1>6, ExcludeInTurn
  <2>2. \A p \in Proxies : excl'[p] \subseteq excl[p] \cup {cluster.rr.ordinal}
    BY <1>6, <2>1 DEF Exclude
  <2>3. ~(op'.pc = "write" /\ op'.obj.rr.phase \in {"Excluding", "Completed"})
    <3>1. PICK ok \in BOOLEAN :
            \/ ThenWrite(Restart("Draining", op.obj.rr.ordinal, op.obj.rr.confirmed \/ ok))
            \/ op' = IdleOp
      BY <1>6 DEF Exclude
    <3> DEFINE new == Restart("Draining", op.obj.rr.ordinal, op.obj.rr.confirmed \/ ok)
    <3>2. new.phase = "Draining" /\ new \in RestartStates
      <4>1. (op.obj.rr.confirmed \/ ok) \in BOOLEAN
        OBVIOUS
      <4> QED
        BY <1>1, <4>1, MoreFields DEF Restart, RestartStates, Phases
    <3> HIDE DEF new
    <3>3. CASE ThenWrite(new)
      BY <1>1, <3>2, <3>3, ThenWriteShape
    <3>4. CASE op' = IdleOp
      BY <3>4 DEF IdleOp
    <3> QED
      BY <3>1, <3>3, <3>4 DEF new
  <2> QED
    BY <1>2, <2>1, <2>2, <2>3 DEF Accounted
<1>7. CASE ~Exclude
  <2>1. \A p \in Proxies : excl'[p] \subseteq excl[p]
    BY <1>1, <1>7, OnlyExcludeAdds
  <2>2. CASE /\ cluster'.rr.phase = cluster.rr.phase /\ cluster'.rr.ordinal = cluster.rr.ordinal
             /\ ~Hands => op' = op \/ op'.pc # "write" \/ ~op'.fresh
    <3>1. Active(cluster'.rr) = Active(cluster.rr)
      BY <2>2 DEF Active
    <3> QED
      BY <1>2, <1>3, <1>5, <1>7, <2>1, <2>2, <3>1 DEF Accounted
  <2>3. CASE Clears
    <3>1. /\ cluster'.rr.phase = "None" /\ op.pc = "restart" /\ op.fresh /\ op'.pc = "idle"
          /\ op.obj.rr.phase = "Completed" \/ (op.obj.rr.phase = "Excluding" /\ ~RollingUpgrade)
      BY <2>3 DEF Clears, Stores, NoRestart, Restart, IdleOp
    <3>2. cluster.rr.phase = op.obj.rr.phase
      BY <3>1 DEF TurnsInv, PartitionInv, PartitionCore, FreshCopy, Reading
    <3>3. CASE cluster.rr.phase = "Completed"
      BY <1>2, <1>3, <1>7, <3>1, <3>3 DEF Accounted, Active
    <3>4. CASE cluster.rr.phase = "Excluding" /\ ~RollingUpgrade
      <4>1. sts.cur = sts.tmpl /\ 0 \in Ordinals
        BY <1>1, <3>4, DuringRestart, MoreFields DEF RollingUpgrade
      <4>2. ~FirstIsOld
        BY <4>1 DEF TurnsInv, TurnInv, CurrentIsUniform, FirstIsOld, Up, Present
      <4>3. Nobody
        BY <3>4, <4>2 DEF FirstPod, Active
      <4> QED
        BY <1>2, <1>3, <1>7, <3>1, <4>3 DEF Accounted, Active
    <3> QED
      BY <3>1, <3>2, <3>3, <3>4
  <2>4. CASE Starts
    <3>1. /\ cluster'.rr.phase = "Excluding" /\ op'.pc = "started"
          /\ op.pc = "restart" /\ op.fresh /\ op.obj.rr.phase = "None"
      BY <2>4 DEF Starts, Stores, GoesOn, Restart
    <3>2. cluster.rr.phase = "None"
      BY <3>1 DEF TurnsInv, PartitionInv, PartitionCore, FreshCopy, Reading
    <3>3. Nobody'
      BY <1>3, <1>7, <3>2 DEF Accounted, Active
    <3> QED
      BY <1>2, <3>1, <3>3 DEF Accounted, Active, Nobody
  <2>5. CASE Writes
    <3>1. cluster'.rr = op.obj.rr /\ op.pc = "write" /\ op.fresh /\ op'.pc = "idle"
      BY <2>5 DEF Writes, Stores, IdleOp
    <3>2. CASE op.obj.rr.phase \in {"Excluding", "Completed"}
      <4>1. Nobody'
        BY <1>3, <1>7, <3>1, <3>2 DEF Accounted
      <4> QED
        BY <1>2, <3>1, <4>1 DEF Accounted, Nobody
    <3>3. CASE op.obj.rr.phase \notin {"Excluding", "Completed"}
      <4>1. /\ op.obj.rr.phase \in {"Draining", "WaitingReady"} /\ Active(cluster.rr)
            /\ op.obj.rr.ordinal = cluster.rr.ordinal
        BY <3>1, <3>3 DEF OrderInv, NextInOrder, Active
      <4> QED
        BY <1>2, <2>1, <3>1, <4>1 DEF Accounted, Active
    <3> QED
      BY <3>2, <3>3
  <2> QED
    BY <2>2, <2>3, <2>4, <2>5, RestartMoves
<1> QED
  BY <1>6, <1>7

\* As long as pods do not fail by themselves, no proxy refuses for ever, and each
\* edit waits for the one before it, a running proxy leaves a serving pod out of
\* rotation only while the restart is at that pod: no crash of the operator, stale
\* read, or restart of a proxy makes the operator forget an exclusion.
THEOREM ExclusionsAlwaysAccountedFor ==
  Calm /\ "refuse" \notin Faults /\ Spec => []ExclusionsAccountedFor
<1>1. ExclusionInv /\ [Next]_vars => ExclusionInv'
  BY TurnsStep, OrderStep, FirstPodStep, AccountedStep DEF ExclusionInv, Calm, EditsWait
<1>2. ExclusionInv => ExclusionsAccountedFor
  <2> SUFFICES ASSUME ExclusionInv, NEW p \in Proxies, NEW o \in excl[p]
               PROVE  cluster.rr.phase # "None" /\ cluster.rr.ordinal = o
    BY DEF ExclusionsAccountedFor, Running
  <2> QED
    BY DEF ExclusionInv, Accounted, Nobody, Active
<1> QED
  BY <1>1, <1>2, ExclusionInit, PTL DEF Spec

-----------------------------------------------------------------------------
(* Each pod is restarted once, out of rotation *)

\* Nothing fails but calls of proxies, and edits wait for the pods too.
Quiet == Faults \subseteq {"refuse"}

\* An undisturbed operator is a calm one.
LEMMA QuietIsCalm ==
  ASSUME Quiet
  PROVE  /\ Calm /\ EditsWait
         /\ "stale" \notin Faults /\ "crash" \notin Faults /\ "proxyfail" \notin Faults
         /\ "overlap" \notin Faults /\ "podfail" \notin Faults
BY DEF Quiet, Calm, EditsWait

\* A pod that has not been replaced.
Old(o) == Up(o) /\ pods[o].rev # sts.tmpl

Excluded(o) == \A p \in Proxies : o \in excl[p]

\* The operator reads what it has written, and nothing but an edit of a cluster
\* without a restart comes between.
Synced ==
  /\ cache = cluster
  /\ \A p \in Proxies : up[p]
  /\ \/ op.pc = "idle" \/ op.fresh
     \/ op.pc \in {"apply", "restart"} /\ cluster.rr.phase = "None" /\ op.obj.rr.phase = "None"
  /\ Reading /\ op.fresh => op.obj.rr.confirmed = cluster.rr.confirmed

\* An edit changes the template or the replicas.
OneChange == cluster.tmpl = sts.tmpl \/ cluster.replicas = sts.replicas

\* A wanted pod that terminates is the one whose turn it is, or is left from a
\* scale-down, and then no restart begins before it is gone.
Departures ==
  \A o \in 0 .. sts.replicas - 1 : pods[o].phase = "terminating" =>
    \/ cluster.rr.phase = "None" /\ sts.cur = sts.tmpl /\ cluster.tmpl = sts.tmpl
    \/ cluster.rr.phase \in {"Draining", "WaitingReady"} /\ o = cluster.rr.ordinal

\* A pod that is drained is there and pinned, one that is released is not; while it
\* is the old one it stays excluded, if the exclude has been confirmed.
Drained(rr) ==
  /\ Up(rr.ordinal) /\ sts.partition > rr.ordinal
  /\ rr.confirmed => Excluded(rr.ordinal)

Released(rr) ==
  /\ sts.partition <= rr.ordinal
  /\ rr.confirmed /\ Old(rr.ordinal) => Excluded(rr.ordinal)

\* In every state of the restart, and in the state that is about to be stored.
Stages ==
  /\ cluster.rr.phase = "Excluding" => ~cluster.rr.confirmed
  /\ cluster.rr.phase = "Draining" =>
       IF op.pc = "write"
       THEN op.obj.rr.phase = "WaitingReady" /\ op.obj.rr.confirmed = cluster.rr.confirmed
       ELSE Drained(cluster.rr)
  /\ cluster.rr.phase = "WaitingReady" => Released(cluster.rr)

NextStages ==
  op.pc = "write" =>
    /\ op.obj.rr.phase = "Excluding" => ~op.obj.rr.confirmed
    /\ op.obj.rr.phase = "Draining" => Drained(op.obj.rr)
    /\ op.obj.rr.phase = "WaitingReady" => Released(op.obj.rr)

QuietInv ==
  TurnsInv /\ Quiet /\ OrderInv /\ Synced /\ OneChange /\ Departures /\ Stages /\ NextStages

\* Initially nothing goes on.
LEMMA QuietInit == Quiet /\ Init => QuietInv
<1> SUFFICES ASSUME Quiet, Init PROVE QuietInv
  OBVIOUS
<1>1. TurnsInv /\ OrderInv
  BY TurnsInit, OrderInit, QuietIsCalm
<1>2. Synced /\ OneChange /\ Stages /\ NextStages
  BY DEF Init, IdleOp, NoRestart, Restart, Synced, OneChange, Stages, NextStages, Reading
<1>3. Departures
  BY DEF Init, NoRestart, Restart, Departures
<1> QED
  BY <1>1, <1>2, <1>3 DEF QuietInv

\* The life of a pod, as long as pods do not fail.
LEMMA PodLife ==
  ASSUME TypeOK, "podfail" \notin Faults, [Next]_vars, NEW o \in Ordinals
  PROVE  \/ pods'[o] = pods[o]
         \/ Up(o) /\ Up(o)' /\ pods'[o].rev = pods[o].rev
         \/ StsCreate(o) /\ pods'[o].phase = "starting"
         \/ /\ Outdated(o) \/ o \notin 0 .. sts.replicas - 1
            /\ pods'[o].phase = "terminating"
         \/ pods[o].phase = "terminating" /\ pods'[o].phase = "absent"
<1>1. pods \in [Ordinals -> [phase : PodPhases, rev : Revs]]
  BY DEF TypeOK
<1>2. ASSUME NEW n \in Ordinals, StsReplace(n) \/ StsScaleDown(n)
      PROVE  \/ pods'[o] = pods[o]
             \/ /\ Outdated(o) \/ o \notin 0 .. sts.replicas - 1
                /\ pods'[o].phase = "terminating"
  <2>1. /\ pods' = [pods EXCEPT ![n].phase = "terminating"]
        /\ Outdated(n) \/ n \notin 0 .. sts.replicas - 1
    BY <1>2 DEF StsReplace, StsScaleDown, Terminate, Wanted
  <2> QED
    BY <1>1, <2>1
<1>3. ASSUME NEW n \in Ordinals, StsCreate(n)
      PROVE  pods'[o] = pods[o] \/ (StsCreate(o) /\ pods'[o].phase = "starting")
  <2>1. CASE n = o
    BY <1>1, <1>3, <2>1 DEF StsCreate
  <2>2. CASE n # o
    BY <1>1, <1>3, <2>2 DEF StsCreate
  <2> QED
    BY <2>1, <2>2
<1>4. ASSUME NEW n \in Ordinals, PodGetsIP(n) \/ PodBecomesReady(n) \/ PodGone(n)
      PROVE  \/ pods'[o] = pods[o]
             \/ Up(o) /\ Up(o)' /\ pods'[o].rev = pods[o].rev
             \/ pods[o].phase = "terminating" /\ pods'[o].phase = "absent"
  BY <1>1, <1>4 DEF PodGetsIP, PodBecomesReady, PodGone, PodMoves, Up
<1>5. CASE OperatorStep \/ HoldForEvacuation \/ OperatorCrash \/ CacheSync
  <2>1. UNCHANGED pods
    BY <1>5 DEF OperatorStep, HoldForEvacuation, OperatorCrash, CacheSync, Begin,
         ApplyStatefulSet, Handler, NothingToRestart, ClearCompleted, CompletedWait,
         ClearUnstarted, StartRestart, ExcludeSkip, ExcludeNoIP, Exclude, DrainWait, DrainDone,
         WaitForReplacement, Include, WriteStatus, Return, UpdateNow, Release
  <2> QED
    BY <2>1
<1>6. CASE StsStatus \/ Tick \/ EditTemplate \/ EditReplicas
           \/ \E p \in Proxies : ProxyStop(p) \/ ProxyStart(p)
  <2>1. UNCHANGED pods
    BY <1>6 DEF StsStatus, Tick, EditTemplate, EditReplicas, Edit, ProxyStop, ProxyStart
  <2> QED
    BY <2>1
<1>7. CASE \E n \in Ordinals : PodUnready(n) \/ PodEvicted(n)
  BY <1>7 DEF PodUnready, PodEvicted
<1>8. CASE UNCHANGED vars
  BY <1>8 DEF vars
<1> QED
  BY <1>2, <1>3, <1>4, <1>5, <1>6, <1>7, <1>8 DEF Next, StsStep, PodStep

\* A pod that may be replaced is the one whose turn it is, after its exclusion.
LEMMA OutdatedAtTurn ==
  ASSUME TurnsInv, OrderInv, NEW o \in Ordinals, Outdated(o)
  PROVE  cluster.rr.phase \in {"Draining", "WaitingReady"} /\ o = cluster.rr.ordinal
<1>1. /\ o \in 0 .. sts.replicas - 1 /\ o >= sts.partition /\ Up(o) /\ Present(o)
      /\ pods[o].rev # sts.tmpl
  BY DEF Outdated, Wanted, Present, Up
<1>2. /\ sts.partition \in Nat /\ cluster.rr.ordinal \in Nat /\ o \in Nat
      /\ cluster.rr.phase \in Phases
  BY MoreFields, Fields DEF TurnsInv, PartitionInv
<1>3. cluster.rr.phase # "None" /\ o >= cluster.rr.ordinal
  BY OutdatedInTurn
<1>4. cluster.rr.phase # "Completed" /\ o = cluster.rr.ordinal
  BY <1>1, <1>2, <1>3 DEF OrderInv, UpAbove, UpFrom, UpToDate
<1>5. cluster.rr.phase # "Excluding"
  BY <1>1, <1>2, <1>4 DEF OrderInv, Guarded
<1> QED
  BY <1>2, <1>3, <1>4, <1>5 DEF Phases


\* Without delay the cache follows the cluster.
LEMMA CacheFollows ==
  ASSUME TypeOK, "stale" \notin Faults, cache = cluster, [Next]_vars
  PROVE  cache' = cluster'
<1>1. ASSUME NEW obj, Store(obj) PROVE cache' = cluster'
  BY <1>1 DEF Store
<1>2. ASSUME NEW rr, NEW pc, UpdateNow(rr, pc) PROVE cache' = cluster'
  BY <1>1, <1>2 DEF UpdateNow
<1>3. CASE ClearCompleted \/ ClearUnstarted \/ StartRestart \/ WriteStatus
  BY <1>2, <1>3 DEF ClearCompleted, ClearUnstarted, StartRestart, WriteStatus
<1>4. CASE EditTemplate \/ EditReplicas
  BY <1>1, <1>4 DEF EditTemplate, EditReplicas, Edit
<1>5. CASE Tick
  BY <1>5 DEF Tick
<1>6. CASE \/ Begin \/ ApplyStatefulSet \/ HoldForEvacuation \/ OperatorCrash \/ CacheSync
           \/ NothingToRestart \/ CompletedWait \/ ExcludeSkip \/ ExcludeNoIP \/ Exclude
           \/ DrainWait \/ DrainDone \/ WaitForReplacement \/ Include
  BY <1>6
     DEF Begin, ApplyStatefulSet, HoldForEvacuation, OperatorCrash, CacheSync,
         NothingToRestart, CompletedWait, ExcludeSkip, ExcludeNoIP, Exclude, DrainWait, DrainDone,
         WaitForReplacement, Include, Return, Release
<1>7. CASE \/ StsStep \/ PodStep \/ \E o \in Ordinals : PodUnready(o) \/ PodEvicted(o)
           \/ \E p \in Proxies : ProxyStop(p) \/ ProxyStart(p)
  BY <1>7
     DEF StsStep, StsStatus, StsCreate, PodStep, StsReplace, StsScaleDown, Terminate, PodGetsIP,
         PodBecomesReady, PodGone, PodUnready, PodEvicted, PodMoves, ProxyStop, ProxyStart
<1>8. CASE UNCHANGED vars
  BY <1>8 DEF vars
<1> QED
  BY <1>3, <1>4, <1>5, <1>6, <1>7, <1>8 DEF Next, OperatorStep, Handler

\* Without failures every proxy keeps running.
LEMMA ProxiesStayUp ==
  ASSUME "proxyfail" \notin Faults, \A p \in Proxies : up[p], [Next]_vars
  PROVE  UNCHANGED up
<1>1. CASE OperatorStep \/ HoldForEvacuation \/ OperatorCrash \/ CacheSync
  BY <1>1 DEF OperatorStep, HoldForEvacuation, OperatorCrash, CacheSync, Begin,
       ApplyStatefulSet, Handler, NothingToRestart, ClearCompleted, CompletedWait,
       ClearUnstarted, StartRestart, ExcludeSkip, ExcludeNoIP, Exclude, DrainWait, DrainDone,
       WaitForReplacement, Include, WriteStatus, Return, UpdateNow, Release
<1>2. CASE \/ StsStep \/ PodStep \/ Tick \/ EditTemplate \/ EditReplicas
           \/ \E o \in Ordinals : PodUnready(o) \/ PodEvicted(o)
  BY <1>2 DEF StsStep, StsStatus, StsCreate, PodStep, Tick, EditTemplate, EditReplicas, Edit,
       StsReplace, StsScaleDown, Terminate, PodGetsIP, PodBecomesReady, PodGone, PodUnready,
       PodEvicted, PodMoves
<1>3. CASE \E p \in Proxies : ProxyStop(p) \/ ProxyStart(p)
  BY <1>3 DEF ProxyStop, ProxyStart
<1>4. CASE UNCHANGED vars
  BY <1>4 DEF vars
<1> QED
  BY <1>1, <1>2, <1>3, <1>4 DEF Next

\* The operator's copy stays the last one.
LEMMA SyncedStep ==
  ASSUME QuietInv, [Next]_vars
  PROVE  Synced'
<1> USE DEF QuietInv, TurnsInv
<1>1. TypeOK /\ EditsWait /\ cache = cluster
  BY DEF PartitionInv, Synced
<1>2. IdleOp.pc = "idle"
  BY DEF IdleOp
<1>3. cache' = cluster'
  BY <1>1, CacheFollows, QuietIsCalm
<1>4. \A p \in Proxies : up'[p]
  BY ProxiesStayUp, QuietIsCalm DEF Synced
<1>5. /\ \/ op.pc = "idle" \/ op.fresh
         \/ op.pc \in {"apply", "restart"} /\ cluster.rr.phase = "None" /\ op.obj.rr.phase = "None"
      /\ Reading /\ op.fresh => op.obj.rr.confirmed = cluster.rr.confirmed
  BY DEF Synced
<1>6. CASE Ends \/ Clears \/ Writes
  BY <1>2, <1>3, <1>4, <1>6 DEF Ends, Clears, Writes, Synced, Reading
<1>7. CASE Reads
  BY <1>1, <1>3, <1>4, <1>7 DEF Reads, Synced
<1>8. CASE Applies
  BY <1>3, <1>4, <1>5, <1>8 DEF Applies, GoesOn, Synced, Reading
<1>9. CASE Starts
  <2> DEFINE new == Restart("Excluding", op.obj.replicas - 1, FALSE)
  <2>1. op'.fresh = op.fresh /\ op.fresh /\ op'.obj.rr = new /\ cluster'.rr = new
    BY <1>9 DEF Starts, Stores, GoesOn
  <2> QED
    BY <1>3, <1>4, <2>1 DEF Synced
<1>10. CASE Hands
  BY <1>3, <1>4, <1>5, <1>10 DEF Hands, GoesOn, Active, Synced, Reading
<1>11. CASE CacheSync \/ Reports \/ (\E n \in Ordinals : Creates(n)) \/ PodsMove \/ Ages
  <2>1. /\ UNCHANGED op /\ cluster'.rr.phase = cluster.rr.phase
        /\ cluster'.rr.confirmed = cluster.rr.confirmed
    BY <1>11 DEF CacheSync, Reports, Creates, PodsMove, Ages
  <2> QED
    BY <1>3, <1>4, <1>5, <2>1 DEF Synced, Reading
<1>12. CASE Edits
  <2>1. /\ cluster.rr.phase = "None" /\ cluster'.rr = cluster.rr
        /\ op'.pc = op.pc /\ op'.obj = op.obj /\ ~op'.fresh
    BY <1>12 DEF Edits, Settled
  <2>2. op.pc = "write" => ~op.fresh
    BY <2>1 DEF OrderInv, NextInOrder
  <2>3. Reading /\ op.fresh => op.obj.rr.phase = "None"
    BY <2>1 DEF PartitionInv, PartitionCore, FreshCopy
  <2>4. op.pc = "started" => op.obj.rr.phase = "Excluding"
    BY DEF PartitionInv, PartitionCore, StartedCopy
  <2>5. op.pc \in {"idle", "apply", "restart", "started", "write"}
    BY <1>1 DEF TypeOK
  <2> QED
    BY <1>3, <1>4, <1>5, <2>1, <2>2, <2>3, <2>4, <2>5 DEF Synced, Reading
<1> QED
  BY <1>1, <1>6, <1>7, <1>8, <1>9, <1>10, <1>11, <1>12, StepShape

\* What was applied stays, but for one change of the spec.
LEMMA OneChangeStep ==
  ASSUME QuietInv, [Next]_vars
  PROVE  OneChange'
<1> USE DEF QuietInv, TurnsInv
<1>1. TypeOK /\ EditsWait
  BY DEF PartitionInv
<1>2. CASE Edits
  BY <1>2 DEF Edits, Settled, OneChange
<1>3. CASE Applies
  BY <1>3 DEF Applies, VersionInv, CopyVersions, Current, Applied, OneChange
<1>4. CASE Ends \/ Reads \/ CacheSync \/ Clears \/ Starts \/ Writes \/ Hands \/ Reports
           \/ (\E n \in Ordinals : Creates(n)) \/ PodsMove \/ Ages
  <2>1. /\ cluster'.tmpl = cluster.tmpl /\ cluster'.replicas = cluster.replicas
        /\ sts'.tmpl = sts.tmpl /\ sts'.replicas = sts.replicas
    BY <1>4 DEF Ends, Reads, CacheSync, Clears, Starts, Writes, Stores, Hands, Reports, Creates,
         PodsMove, Ages
  <2> QED
    BY <2>1 DEF OneChange
<1> QED
  BY <1>1, <1>2, <1>3, <1>4, StepShape

\* A pod terminates at its turn only, or for a scale-down.
LEMMA DeparturesStep ==
  ASSUME QuietInv, [Next]_vars
  PROVE  Departures'
<1> USE DEF QuietInv, TurnsInv
<1>1. TypeOK /\ EditsWait
  BY DEF PartitionInv
<1>2. /\ \A o \in 0 .. sts.replicas - 1 : o \in Ordinals
      /\ cluster.rr.ordinal \in Nat /\ cluster.rr.phase \in Phases
      /\ NoRestart.phase = "None"
  BY <1>1, MoreFields, Fields DEF NoRestart, Restart
<1> DEFINE Left == cluster.rr.phase = "None" /\ sts.cur = sts.tmpl /\ cluster.tmpl = sts.tmpl
           AtTurn == cluster.rr.phase \in {"Draining", "WaitingReady"}
           Ending(o) == pods[o].phase = "terminating"
<1>3. \A o \in 0 .. sts.replicas - 1 : Ending(o) => Left \/ (AtTurn /\ o = cluster.rr.ordinal)
  BY DEF Departures
<1>4. CASE Ends \/ Reads \/ CacheSync \/ Hands \/ Reports \/ Ages
  <2>1. /\ cluster'.rr.phase = cluster.rr.phase /\ cluster'.rr.ordinal = cluster.rr.ordinal
        /\ cluster'.tmpl = cluster.tmpl
        /\ sts'.tmpl = sts.tmpl /\ sts'.replicas = sts.replicas
        /\ sts'.cur = sts.cur \/ sts'.cur = sts.tmpl
        /\ UNCHANGED pods
    BY <1>4 DEF Ends, Reads, CacheSync, Hands, Reports, Ages
  <2> QED
    BY <1>3, <2>1 DEF Departures
<1>5. CASE Applies
  <2>1. /\ UNCHANGED <<cluster, pods>> /\ sts'.cur = sts.cur
        /\ sts'.tmpl = op.obj.tmpl /\ sts'.replicas = op.obj.replicas /\ op.pc # "idle"
    BY <1>5 DEF Applies
  <2>2. CASE Applied(op.obj)
    BY <1>3, <2>1, <2>2 DEF Departures, Applied
  <2>3. CASE ~Applied(op.obj)
    <3>1. Current(op.obj) /\ ~Current(sts)
      BY <2>1, <2>3 DEF VersionInv, CopyVersions, LastIsApplied, Current, Applied
    <3>2. cluster.rr.phase = "None" /\ sts.cur = sts.tmpl
      BY <3>1 DEF VersionInv, LastIsPending
    <3>3. CASE cluster.tmpl = sts.tmpl
      BY <2>1, <3>1, <3>2, <3>3 DEF Departures, Current
    <3>4. CASE cluster.tmpl # sts.tmpl
      <4>1. sts'.replicas = sts.replicas
        BY <2>1, <3>1, <3>4 DEF OneChange, Current
      <4> QED
        BY <1>3, <2>1, <3>2, <3>4, <4>1 DEF Departures
    <3> QED
      BY <3>3, <3>4
  <2> QED
    BY <2>2, <2>3
<1>6. CASE Clears
  <2>1. /\ UNCHANGED <<sts, pods>> /\ op.pc = "restart" /\ op.fresh
        /\ op.obj.rr.phase \in {"Completed", "Excluding"}
    BY <1>6 DEF Clears, Stores
  <2>2. cluster.rr.phase \in {"Completed", "Excluding"}
    BY <2>1 DEF PartitionInv, PartitionCore, FreshCopy, Reading
  <2> QED
    BY <1>3, <2>1, <2>2 DEF Departures
<1>7. CASE Starts
  <2>1. /\ UNCHANGED <<sts, pods>> /\ op.pc = "restart" /\ op.fresh /\ RollingUpgrade
        /\ op.obj.rr.phase = "None"
    BY <1>7 DEF Starts, Stores
  <2>2. cluster.rr.phase = "None"
    BY <2>1 DEF PartitionInv, PartitionCore, FreshCopy, Reading
  <2>3. sts.cur # sts.tmpl
    BY <2>1 DEF RollingUpgrade, VersionInv, Revisions
  <2> QED
    BY <1>3, <2>1, <2>2, <2>3 DEF Departures
<1>8. CASE Writes
  <2>1. UNCHANGED <<sts, pods>> /\ cluster'.rr = op.obj.rr /\ op.pc = "write" /\ op.fresh
    BY <1>8 DEF Writes, Stores
  <2>2. cluster.rr.phase # "None" /\ UpFrom(op.obj.rr)
    BY <2>1 DEF OrderInv, NextInOrder, UpAbove
  <2>3. CASE op.obj.rr.phase \in {"Draining", "WaitingReady"} /\ op.obj.rr.ordinal = cluster.rr.ordinal
    BY <1>3, <2>1, <2>2, <2>3 DEF Departures
  <2>4. CASE \/ op.obj.rr.phase = "Completed"
             \/ op.obj.rr.phase = "Excluding" /\ op.obj.rr.ordinal + 1 = cluster.rr.ordinal
    <3>1. op.obj.rr.ordinal \in Nat
      BY <1>1, Fields
    <3>2. \A o \in 0 .. sts.replicas - 1 : o = cluster.rr.ordinal => UpToDate(o)
      BY <1>2, <2>2, <2>4, <3>1 DEF UpFrom
    <3> QED
      BY <1>3, <2>1, <2>2, <3>2 DEF Departures, UpToDate, Up
  <2> QED
    BY <2>1, <2>3, <2>4 DEF OrderInv, NextInOrder
<1>9. CASE (\E n \in Ordinals : Creates(n)) \/ PodsMove
  <2>1. UNCHANGED <<cluster, sts>>
    BY <1>9 DEF Creates, PodsMove
  <2>2. ASSUME NEW o \in 0 .. sts.replicas - 1, pods'[o].phase = "terminating"
        PROVE  Ending(o) \/ Outdated(o)
    BY <1>1, <1>2, <2>2, PodLife, QuietIsCalm DEF Up
  <2> QED
    BY <1>2, <1>3, <2>1, <2>2, OutdatedAtTurn DEF Departures
<1>10. CASE Edits
  <2>1. UNCHANGED <<sts, pods>> /\ \A o \in Ordinals : ~Ending(o)
    BY <1>10, QuietIsCalm DEF Edits, Settled
  <2> QED
    BY <1>2, <2>1 DEF Departures
<1> QED
  BY <1>1, <1>4, <1>5, <1>6, <1>7, <1>8, <1>9, <1>10, StepShape


\* A running proxy forgets an exclusion only when it is told to, or when the pod
\* comes back with another address.
LEMMA ExclusionKept ==
  ASSUME TypeOK, "proxyfail" \notin Faults, [Next]_vars,
         NEW p \in Proxies, NEW o \in excl[p], o \notin excl'[p]
  PROVE  (Include /\ o = op.obj.rr.ordinal) \/ StsCreate(o)
<1>1. excl \in [Proxies -> SUBSET Ordinals]
  BY DEF TypeOK
<1>2. CASE Include
  BY <1>1, <1>2 DEF Include
<1>3. CASE \E n \in Ordinals : StsCreate(n)
  BY <1>1, <1>3 DEF StsCreate
<1>4. CASE Exclude
  BY <1>1, <1>4 DEF Exclude
<1>5. CASE UNCHANGED excl
  BY <1>5
<1>6. CASE \/ Begin \/ ApplyStatefulSet \/ WriteStatus \/ HoldForEvacuation \/ OperatorCrash
           \/ CacheSync \/ NothingToRestart \/ ClearCompleted \/ CompletedWait \/ ClearUnstarted
           \/ StartRestart \/ ExcludeSkip \/ ExcludeNoIP \/ DrainWait \/ DrainDone
           \/ WaitForReplacement
  BY <1>5, <1>6
     DEF Begin, ApplyStatefulSet, WriteStatus, HoldForEvacuation, OperatorCrash, CacheSync,
         NothingToRestart, ClearCompleted, CompletedWait, ClearUnstarted, StartRestart,
         ExcludeSkip, ExcludeNoIP, DrainWait, DrainDone, WaitForReplacement, Return, UpdateNow,
         Release
<1>7. CASE \/ StsStatus \/ PodStep \/ Tick \/ EditTemplate \/ EditReplicas
           \/ \E n \in Ordinals : StsReplace(n) \/ StsScaleDown(n) \/ PodUnready(n) \/ PodEvicted(n)
           \/ \E q \in Proxies : ProxyStop(q) \/ ProxyStart(q)
  BY <1>5, <1>7
     DEF StsStatus, PodStep, Tick, EditTemplate, EditReplicas, Edit, StsReplace, StsScaleDown,
         Terminate, PodGetsIP, PodBecomesReady, PodGone, PodUnready, PodEvicted, PodMoves,
         ProxyStop, ProxyStart
<1> QED
  BY <1>2, <1>3, <1>4, <1>5, <1>6, <1>7 DEF Next, OperatorStep, Handler, StsStep, vars

\* A released pod that is still the old one was so before, and nothing gives it
\* back to the proxies.
LEMMA OldStays ==
  ASSUME TurnsInv, Quiet, [Next]_vars, cluster.rr.phase # "None",
         NEW k \in Ordinals, sts.partition <= k, Old(k)'
  PROVE  Old(k) /\ (Excluded(k) => Excluded(k)')
<1>1. TypeOK /\ sts.partition \in Nat /\ k \in Nat
  BY MoreFields DEF TurnsInv, PartitionInv
<1>2. sts'.tmpl = sts.tmpl /\ sts.upd = sts.tmpl
  BY TemplateStays, DuringRestart
<1>3. ~(StsCreate(k) /\ pods'[k].phase = "starting")
  <2>1. pods \in [Ordinals -> [phase : PodPhases, rev : Revs]]
    BY <1>1 DEF TypeOK
  <2> QED
    BY <1>1, <1>2, <2>1 DEF StsCreate, Old
<1>4. Old(k)
  BY <1>1, <1>2, <1>3, PodLife, QuietIsCalm DEF Old, Up
<1>5. ~StsCreate(k)
  BY <1>4 DEF StsCreate, Old, Up, Present
<1>6. ~(Include /\ k = op.obj.rr.ordinal)
  BY <1>2, <1>4 DEF Include, Replaced, Old
<1> QED
  BY <1>1, <1>4, <1>5, <1>6, ExclusionKept, QuietIsCalm DEF Excluded

\* A pinned pod stays, and stays excluded until it is included again.
LEMMA PinnedStays ==
  ASSUME TurnsInv, Quiet, [Next]_vars,
         NEW k \in 0 .. sts.replicas - 1, sts.partition > k, Up(k), ~Include
  PROVE  Up(k)' /\ (Excluded(k) => Excluded(k)')
<1>1. TypeOK /\ sts.partition \in Nat /\ k \in Nat /\ k \in Ordinals
  BY MoreFields DEF TurnsInv, PartitionInv
<1>2. ~Outdated(k)
  BY <1>1 DEF Outdated
<1>3. Up(k)'
  BY <1>1, <1>2, StaysUp, QuietIsCalm
<1>4. ~StsCreate(k)
  BY DEF StsCreate, Up, Present
<1> QED
  BY <1>1, <1>3, <1>4, ExclusionKept, QuietIsCalm DEF Excluded

\* Only two steps move the partition.
LEMMA PartitionMoves ==
  ASSUME TurnsInv, [Next]_vars
  PROVE  sts'.partition = sts.partition \/ Applies \/ Hands
<1>1. TypeOK /\ EditsWait
  BY DEF TurnsInv, PartitionInv
<1>2. CASE Ends \/ Reads \/ CacheSync \/ Clears \/ Starts \/ Writes \/ Reports
           \/ (\E n \in Ordinals : Creates(n)) \/ PodsMove \/ Ages \/ Edits
  BY <1>2 DEF Ends, Reads, CacheSync, Clears, Starts, Writes, Stores, Reports, Creates, PodsMove,
       Ages, Edits
<1> QED
  BY <1>1, <1>2, StepShape

\* An operator that is not interrupted stores what its handler has come to.
LEMMA WriteGoesThrough ==
  ASSUME TypeOK, Quiet, [Next]_vars, op.pc = "write", op.fresh
  PROVE  op' = op \/ Writes \/ Edits
<1>1. EditsWait /\ IdleOp.pc = "idle"
  BY QuietIsCalm DEF IdleOp
<1>2. CASE WriteStatus
  <2>1. op.obj.rr \in RestartStates
    BY Fields
  <2>2. cluster \in Objects
    BY DEF TypeOK
  <2>3. /\ cluster' = [cluster EXCEPT !.rr = op.obj.rr] /\ op' = IdleOp
        /\ cache' = cluster \/ cache' = cluster'
        /\ UNCHANGED <<sts, pods>>
    BY <1>2 DEF WriteStatus, UpdateNow, Store
  <2>4. Stores(op.obj.rr)
    BY <2>1, <2>2, <2>3 DEF Stores, Objects
  <2> QED
    BY <2>3, <2>4 DEF Writes
<1>3. ~(\/ Begin \/ ApplyStatefulSet \/ HoldForEvacuation \/ OperatorCrash \/ Handler)
  BY QuietIsCalm
     DEF Begin, ApplyStatefulSet, HoldForEvacuation, OperatorCrash, Handler, NothingToRestart,
         ClearCompleted, CompletedWait, ClearUnstarted, StartRestart, ExcludeSkip, ExcludeNoIP,
         Exclude, Excluding, DrainWait, DrainDone, WaitForReplacement, Include
<1>4. CASE CacheSync \/ UNCHANGED vars
  BY <1>4 DEF CacheSync, vars
<1>5. CASE \/ StsStep \/ PodStep \/ Tick \/ EditTemplate \/ EditReplicas
           \/ \E o \in Ordinals : PodUnready(o) \/ PodEvicted(o)
           \/ \E p \in Proxies : ProxyStop(p) \/ ProxyStart(p)
  <2>1. StsStatus \/ (\E o \in Ordinals : StsCreate(o)) \/ PodsMove \/ Ages \/ Edits
    BY <1>1, <1>5, EnvironmentShape
  <2> QED
    BY <2>1 DEF StsStatus, StsCreate, PodsMove, Ages
<1> QED
  BY <1>2, <1>3, <1>4, <1>5 DEF Next, OperatorStep


\* The facts the two lemmas below share.
LEMMA AtRestart ==
  ASSUME QuietInv
  PROVE  /\ TypeOK /\ EditsWait
         /\ cluster.rr.ordinal \in Ordinals /\ cluster.rr.ordinal \in Nat
         /\ op.obj.rr.ordinal \in Ordinals /\ op.obj.rr.ordinal \in Nat
         /\ sts.partition \in Nat
         /\ cluster.rr.phase # "None" => cluster.rr.ordinal \in 0 .. sts.replicas - 1
         /\ op.pc = "write" =>
              /\ op.fresh /\ cluster.rr.phase # "None"
              /\ op.obj.rr.phase \in {"Draining", "WaitingReady"} =>
                   op.obj.rr.ordinal = cluster.rr.ordinal
         /\ Reading /\ cluster.rr.phase # "None" =>
              /\ op.fresh /\ op.obj.rr.phase = cluster.rr.phase
              /\ op.obj.rr.ordinal = cluster.rr.ordinal
              /\ op.obj.rr.confirmed = cluster.rr.confirmed
<1> USE DEF QuietInv, TurnsInv
<1>1. /\ TypeOK /\ EditsWait
      /\ cluster.rr.ordinal \in Ordinals /\ cluster.rr.ordinal \in Nat
      /\ op.obj.rr.ordinal \in Ordinals /\ op.obj.rr.ordinal \in Nat
      /\ sts.partition \in Nat /\ sts.replicas \in Nat
  BY MoreFields, Fields DEF PartitionInv
<1>2. cluster.rr.phase # "None" => cluster.rr.ordinal \in 0 .. sts.replicas - 1
  BY <1>1 DEF OrderInv, UpAbove, UpFrom
<1>3. op.pc = "write" => op.fresh
  BY DEF Synced
<1>4. op.pc = "write" =>
        /\ cluster.rr.phase # "None"
        /\ op.obj.rr.phase \in {"Draining", "WaitingReady"} =>
             op.obj.rr.ordinal = cluster.rr.ordinal
  BY <1>3 DEF OrderInv, NextInOrder
<1>5. Reading /\ cluster.rr.phase # "None" =>
        /\ op.fresh /\ op.obj.rr.phase = cluster.rr.phase
        /\ op.obj.rr.ordinal = cluster.rr.ordinal
        /\ op.obj.rr.confirmed = cluster.rr.confirmed
  BY DEF Synced, Reading, PartitionInv, PartitionCore, FreshCopy
<1> QED
  BY <1>1, <1>2, <1>3, <1>4, <1>5

\* While a handler's result waits to be stored, and when it is.
LEMMA StoringStep ==
  ASSUME QuietInv, [Next]_vars, op.pc = "write"
  PROVE  Stages' /\ NextStages'
<1> USE DEF QuietInv
<1> DEFINE k == cluster.rr.ordinal
           new == op.obj.rr
<1>1. /\ TypeOK /\ k \in Ordinals /\ k \in Nat /\ k \in 0 .. sts.replicas - 1 /\ sts.partition \in Nat
      /\ op.fresh /\ cluster.rr.phase # "None"
      /\ new.phase \in {"Draining", "WaitingReady"} => new.ordinal = k
  BY AtRestart
<1>2. ~Include /\ ~Applies /\ ~Hands /\ ~Clears /\ ~Starts
  BY DEF Include, Applies, Hands, Clears, Starts
<1>3. sts'.partition = sts.partition
  BY <1>2, PartitionMoves
<1>4. \A o \in Ordinals :
        sts.partition <= o /\ Old(o)' => Old(o) /\ (Excluded(o) => Excluded(o)')
  BY <1>1, OldStays
<1>5. \A o \in 0 .. sts.replicas - 1 :
        sts.partition > o /\ Up(o) => Up(o)' /\ (Excluded(o) => Excluded(o)')
  BY <1>1, <1>2, PinnedStays
<1>6. CASE op' = op
  <2>1. /\ cluster'.rr.phase = cluster.rr.phase /\ cluster'.rr.ordinal = k
        /\ cluster'.rr.confirmed = cluster.rr.confirmed
    <3>1. ~Writes
      BY <1>6 DEF Writes, IdleOp
    <3> QED
      BY <1>2, <3>1, RestartMoves
  <2>2. cluster.rr.phase = "WaitingReady" => Released(cluster.rr)'
    BY <1>1, <1>3, <1>4, <2>1 DEF Stages, Released, Old, Excluded, Up
  <2>3. new.phase = "WaitingReady" => Released(op.obj.rr)'
    BY <1>1, <1>3, <1>4, <1>6 DEF NextStages, Released, Old, Excluded, Up
  <2>4. new.phase = "Draining" => Drained(op.obj.rr)'
    BY <1>1, <1>3, <1>5, <1>6 DEF NextStages, Drained, Excluded, Up
  <2> QED
    BY <1>6, <2>1, <2>2, <2>3, <2>4 DEF Stages, NextStages
<1>7. CASE Writes
  <2>1. cluster'.rr = new /\ op'.pc = "idle"
    BY <1>7 DEF Writes, Stores, IdleOp
  <2>2. new.phase = "WaitingReady" => Released(cluster.rr)'
    BY <1>1, <1>3, <1>4, <2>1 DEF NextStages, Released, Old, Excluded, Up
  <2>3. new.phase = "Draining" => Drained(cluster.rr)'
    BY <1>1, <1>3, <1>5, <2>1 DEF NextStages, Drained, Excluded, Up
  <2> QED
    BY <2>1, <2>2, <2>3 DEF Stages, NextStages
<1>8. CASE Edits
  BY <1>1, <1>8 DEF Edits, Settled
<1> QED
  BY <1>1, <1>6, <1>7, <1>8, WriteGoesThrough

\* When a handler comes to a result.
LEMMA HandledStep ==
  ASSUME QuietInv, [Next]_vars, Hands
  PROVE  Stages' /\ NextStages'
<1> USE DEF QuietInv
<1> DEFINE k == cluster.rr.ordinal
           rr == op.obj.rr
           new == op'.obj.rr
<1>1. /\ UNCHANGED <<cluster, pods>> /\ op'.pc = "write" /\ Reading /\ Active(rr)
      /\ sts'.tmpl = sts.tmpl /\ sts'.partition <= sts.partition
  BY DEF Hands, GoesOn, Reading
<1>2. cluster.rr.phase # "None"
  BY <1>1 DEF Synced, Reading, Active, TurnsInv, PartitionInv, PartitionCore, FreshCopy
<1>3. /\ TypeOK /\ k \in Ordinals /\ k \in Nat /\ k \in 0 .. sts.replicas - 1 /\ sts.partition \in Nat
      /\ rr.phase = cluster.rr.phase /\ rr.ordinal = k /\ rr.confirmed = cluster.rr.confirmed
  BY <1>1, <1>2, AtRestart
<1>4. rr \in RestartStates /\ sts'.partition \in Nat
  <2>1. TypeOK'
    BY TurnsStep DEF TurnsInv, PartitionInv
  <2> QED
    BY <1>3, <2>1, Fields DEF TypeOK
<1>5. sts.upd = sts.tmpl
  BY <1>2, DuringRestart
<1>6. CASE Exclude
  <2>1. PICK ok \in BOOLEAN, told \in SUBSET Running :
          /\ ok => told = Running
          /\ excl' = [p \in Proxies |-> IF p \in told THEN excl[p] \cup {k} ELSE excl[p]]
          /\ ThenWrite(Restart("Draining", k, rr.confirmed \/ ok)) \/ op' = IdleOp
    BY <1>3, <1>6 DEF Exclude, Told
  <2>2. op' # IdleOp
    BY <1>1 DEF IdleOp
  <2>3. rr.phase = "Excluding" /\ HasIP(k) /\ pods[k].rev # sts.tmpl /\ UNCHANGED sts
    BY <1>3, <1>5, <1>6 DEF Exclude, Excluding
  <2>4. ~rr.confirmed
    BY <1>3, <2>3 DEF Stages
  <2> DEFINE next == Restart("Draining", k, rr.confirmed \/ ok)
  <2>5. next.phase = "Draining" /\ next.ordinal = k /\ (next.confirmed <=> ok)
        /\ next \in RestartStates
    <3>1. (rr.confirmed \/ ok) \in BOOLEAN /\ ((rr.confirmed \/ ok) <=> ok)
      BY <2>4
    <3> QED
      BY <1>3, <3>1 DEF Restart, RestartStates, Phases
  <2> HIDE DEF next
  <2>6. new = next
    BY <1>3, <2>1, <2>2, <2>5, ThenWriteShape DEF next
  <2>7. Up(k) /\ Present(k)
    BY <1>2, <1>3, <2>3 DEF HasIP, Departures, Up, Present
  <2>8. sts.partition > k
    BY <1>3, <2>3, <2>7 DEF OrderInv, Guarded
  <2>9. ok => \A p \in Proxies : k \in excl'[p]
    <3>1. Running = Proxies
      BY DEF Running, Synced
    <3> QED
      BY <2>1, <3>1
  <2>10. Drained(op.obj.rr)'
    BY <1>1, <2>3, <2>5, <2>6, <2>7, <2>8, <2>9 DEF Drained, Excluded, Up
  <2> QED
    BY <1>1, <1>3, <2>3, <2>4, <2>5, <2>6, <2>10 DEF Stages, NextStages
<1>7. CASE ExcludeSkip \/ DrainDone
  <2> DEFINE next == Restart("WaitingReady", k, rr.confirmed)
  <2>1. next.phase = "WaitingReady" /\ next.ordinal = k /\ next.confirmed = rr.confirmed
        /\ next \in RestartStates
    BY <1>3, <1>4 DEF Restart, RestartStates, Phases
  <2> HIDE DEF next
  <2>2. /\ ThenWrite(next) /\ UNCHANGED excl /\ rr.phase \in {"Excluding", "Draining"}
        /\ sts' = [sts EXCEPT !.partition = IF @ <= k THEN @ ELSE k]
    BY <1>3, <1>7 DEF ExcludeSkip, Excluding, DrainDone, Release, next
  <2>3. new = next
    BY <1>3, <2>1, <2>2, ThenWriteShape
  <2>4. sts'.partition <= k
    BY <1>3, <2>2 DEF TypeOK
  <2>5. rr.confirmed => rr.phase = "Draining" /\ Excluded(k)
    BY <1>1, <1>3, <2>2 DEF Stages, Drained, Reading
  <2>6. Released(op.obj.rr)'
    BY <2>1, <2>2, <2>3, <2>4, <2>5 DEF Released, Excluded
  <2> QED
    BY <1>1, <1>3, <2>1, <2>2, <2>3, <2>5, <2>6 DEF Stages, NextStages
<1>8. CASE Include
  <2>1. rr.phase = "WaitingReady" /\ UNCHANGED sts /\ Replaced(k)
    BY <1>3, <1>8 DEF Include
  <2>2. new = AfterInclude(k)
    BY <1>3, <2>1 DEF Hands
  <2>3. new.phase \in {"Excluding", "Completed"} /\ ~new.confirmed
    BY <2>2 DEF AfterInclude, Restart
  <2>4. ~Old(k)
    BY <1>5, <2>1 DEF Replaced, Old
  <2>5. Released(cluster.rr)'
    BY <1>1, <1>3, <2>1, <2>4 DEF Stages, Released, Old, Up
  <2> QED
    BY <1>1, <1>3, <2>1, <2>3, <2>5 DEF Stages, NextStages
<1> QED
  BY <1>3, <1>6, <1>7, <1>8, HandlerActs

\* In every other step of the operator, and around it.
LEMMA WaitingStep ==
  ASSUME QuietInv, [Next]_vars, op.pc # "write", ~Hands
  PROVE  Stages' /\ NextStages'
<1> USE DEF QuietInv
<1> DEFINE k == cluster.rr.ordinal
<1>1. /\ TypeOK /\ k \in Ordinals /\ k \in Nat /\ sts.partition \in Nat
      /\ cluster.rr.phase # "None" => k \in 0 .. sts.replicas - 1
      /\ Reading /\ cluster.rr.phase # "None" =>
           op.obj.rr.phase = cluster.rr.phase /\ op.obj.rr.ordinal = k
  BY AtRestart
<1>2. CASE Clears \/ Starts
  <2>1. /\ op'.pc # "write" /\ cluster'.rr.phase \in {"None", "Excluding"}
        /\ cluster'.rr.phase = "Excluding" => ~cluster'.rr.confirmed
    BY <1>2 DEF Clears, Starts, Stores, GoesOn, NoRestart, Restart, IdleOp
  <2> QED
    BY <2>1 DEF Stages, NextStages
<1>3. CASE /\ cluster'.rr.phase = cluster.rr.phase /\ cluster'.rr.ordinal = k
           /\ cluster'.rr.confirmed = cluster.rr.confirmed
           /\ op' = op \/ op'.pc # "write" \/ ~op'.fresh
  <2>1. op'.pc # "write"
    BY <1>3, SyncedStep DEF Synced
  <2>2. ASSUME cluster.rr.phase = "WaitingReady" PROVE Released(cluster.rr)'
    <3>1. sts.partition <= k
      BY <2>2 DEF Stages, Released
    <3>2. sts'.partition <= k
      <4>1. CASE Applies
        BY <1>1, <2>2, <4>1 DEF Applies, Reading, rolloutPartition
      <4> QED
        BY <3>1, <4>1, PartitionMoves
    <3>3. \A o \in Ordinals :
            sts.partition <= o /\ Old(o)' => Old(o) /\ (Excluded(o) => Excluded(o)')
      BY <2>2, OldStays
    <3> QED
      BY <1>1, <1>3, <2>2, <3>1, <3>2, <3>3 DEF Stages, Released, Old, Excluded, Up
  <2>3. ASSUME cluster.rr.phase = "Draining" PROVE Drained(cluster.rr)'
    <3>1. Up(k) /\ sts.partition > k /\ (cluster.rr.confirmed => Excluded(k))
      BY <2>3 DEF Stages, Drained
    <3>2. sts'.partition > k
      <4>1. CASE Applies
        BY <1>1, <2>3, <4>1 DEF Applies, Reading, rolloutPartition
      <4> QED
        BY <3>1, <4>1, PartitionMoves
    <3>3. ~Include
      BY <1>1, <2>3 DEF Include, Reading
    <3>4. \A o \in 0 .. sts.replicas - 1 :
            sts.partition > o /\ Up(o) => Up(o)' /\ (Excluded(o) => Excluded(o)')
      BY <3>3, PinnedStays
    <3> QED
      BY <1>1, <1>3, <2>3, <3>1, <3>2, <3>4 DEF Drained, Excluded, Up
  <2> QED
    BY <1>3, <2>1, <2>2, <2>3 DEF Stages, NextStages
<1>4. CASE Writes
  BY <1>4 DEF Writes
<1> QED
  BY <1>2, <1>3, <1>4, RestartMoves

\* Every step preserves all of it.
LEMMA QuietStep == QuietInv /\ [Next]_vars => QuietInv'
<1> SUFFICES ASSUME QuietInv, [Next]_vars PROVE QuietInv'
  OBVIOUS
<1>1. TurnsInv' /\ Quiet' /\ OrderInv'
  BY TurnsStep, OrderStep, QuietIsCalm DEF QuietInv, Quiet
<1>2. Synced' /\ OneChange' /\ Departures'
  BY SyncedStep, OneChangeStep, DeparturesStep
<1>3. Stages' /\ NextStages'
  BY StoringStep, HandledStep, WaitingStep
<1> QED
  BY <1>1, <1>2, <1>3 DEF QuietInv

\* The restart's pod, once it has been excluded and as long as it is pinned, is there.
LEMMA ReleasedOrUp ==
  ASSUME QuietInv, cluster.rr.phase \in {"Draining", "WaitingReady"}
  PROVE  \/ Up(cluster.rr.ordinal) /\ sts.partition > cluster.rr.ordinal
         \/ /\ sts.partition <= cluster.rr.ordinal
            /\ cluster.rr.confirmed /\ Old(cluster.rr.ordinal) => Excluded(cluster.rr.ordinal)
<1>1. CASE op.pc = "write" /\ cluster.rr.phase = "Draining"
  <2>1. op.obj.rr.phase = "WaitingReady" /\ op.obj.rr.confirmed = cluster.rr.confirmed
    BY <1>1 DEF QuietInv, Stages
  <2>2. op.obj.rr.ordinal = cluster.rr.ordinal
    BY <1>1, <2>1, AtRestart
  <2> QED
    BY <1>1, <2>1, <2>2 DEF QuietInv, NextStages, Released
<1>2. CASE op.pc # "write" /\ cluster.rr.phase = "Draining"
  BY <1>2 DEF QuietInv, Stages, Drained
<1>3. CASE cluster.rr.phase = "WaitingReady"
  BY <1>3 DEF QuietInv, Stages, Released
<1> QED
  BY <1>1, <1>2, <1>3

\* An operator that is not interrupted takes every pod down at its turn and, when
\* the proxies have confirmed the exclude, out of rotation: for every number of
\* replicas, proxies and edits, and although proxies refuse calls.
THEOREM AlwaysOutOfRotation == Quiet /\ Spec => ReplacedOutOfRotation
<1>1. QuietInv =>
        [\A o \in Ordinals : StsReplace(o) =>
           /\ cluster.rr.phase \in {"Draining", "WaitingReady"}
           /\ cluster.rr.ordinal = o
           /\ cluster.rr.confirmed => \A p \in Running : o \in excl[p]]_vars
  <2> SUFFICES ASSUME QuietInv, NEW o \in Ordinals, Outdated(o)
               PROVE  /\ cluster.rr.phase \in {"Draining", "WaitingReady"}
                      /\ cluster.rr.ordinal = o
                      /\ cluster.rr.confirmed => \A p \in Running : o \in excl[p]
    BY DEF StsReplace
  <2>1. cluster.rr.phase \in {"Draining", "WaitingReady"} /\ o = cluster.rr.ordinal
    BY OutdatedAtTurn DEF QuietInv
  <2>2. Old(o) /\ o >= sts.partition
    BY DEF Outdated, Old, Up
  <2>3. o \in Nat /\ sts.partition \in Nat
    BY <2>1, AtRestart
  <2> QED
    BY <2>1, <2>2, <2>3, ReleasedOrUp DEF Excluded, Running
<1> QED
  BY <1>1, QuietInit, QuietStep, PTL DEF Spec, ReplacedOutOfRotation

\* And it restarts every pod once: what is created at the restart's ordinal or above
\* it, after the exclude, is of the new template.
THEOREM AlwaysRestartedOnce == Quiet /\ Spec => RestartedOnce
<1>1. QuietInv =>
        [\A o \in Ordinals :
           /\ StsCreate(o)
           /\ cluster.rr.phase \in {"Draining", "WaitingReady", "Completed"}
           /\ o >= cluster.rr.ordinal
           => pods'[o].rev = cluster.tmpl]_vars
  <2> SUFFICES ASSUME QuietInv, NEW o \in Ordinals, StsCreate(o), o >= cluster.rr.ordinal,
                      cluster.rr.phase \in {"Draining", "WaitingReady", "Completed"}
               PROVE  pods'[o].rev = cluster.tmpl
    OBVIOUS
  <2>1. TypeOK /\ cluster.rr.ordinal \in Nat /\ o \in Nat /\ sts.partition \in Nat
    BY AtRestart, MoreFields
  <2>2. o \in 0 .. sts.replicas - 1 /\ ~Present(o)
    BY DEF StsCreate, Wanted
  <2>3. cluster.rr.phase # "Completed" /\ o = cluster.rr.ordinal
    BY <2>1, <2>2 DEF QuietInv, OrderInv, UpAbove, UpFrom, UpToDate, Up, Present
  <2>4. sts.partition <= o
    BY <2>2, <2>3, ReleasedOrUp DEF Up, Present
  <2>5. pods'[o].rev = sts.tmpl
    <3>1. pods \in [Ordinals -> [phase : PodPhases, rev : Revs]]
      BY <2>1 DEF TypeOK
    <3> QED
      BY <2>1, <2>4, <3>1 DEF StsCreate
  <2> QED
    BY <2>5, DuringRestart DEF QuietInv, Current
<1> QED
  BY <1>1, QuietInit, QuietStep, PTL DEF Spec, RestartedOnce

=============================================================================
