---------------------------- MODULE RollingRestart ----------------------------
(***************************************************************************)
(* The operator-driven rolling restart of a HyperbyteDB cluster that has   *)
(* the proxy enabled: HyperbytedbClusterReconciler.Reconcile restricted to *)
(* reconcileStatefulSet, rolloutPartition and reconcileRollingRestart,     *)
(* together with what they drive, the StatefulSet controller, the database *)
(* pods and the proxies (external).                                        *)
(*                                                                         *)
(* One reconcile is four steps, so that everything outside the operator    *)
(* interleaves with it: Begin reads the cluster from the informer cache,   *)
(* Apply writes the StatefulSet, one handler step does the phase's work    *)
(* (proxy calls, lowering the partition) and WriteStatus stores the new    *)
(* phase. Status().Update is a compare-and-swap on the object the          *)
(* reconcile read: it fails when the cluster has changed since.            *)
(*                                                                         *)
(* Abstractions: a template is a revision (StatefulSet revisions are       *)
(* content hashes: an edit back gives the old revision again). Each phase  *)
(* has one time limit, counted from PhaseStartedAt, and rr.aged says that  *)
(* it has passed. A proxy's exclusion of a pod's address is kept by        *)
(* ordinal: it stays when the replacement pod keeps the address and goes   *)
(* when it gets a fresh one. OldPodIP and TotalOrdinals are never read.    *)
(***************************************************************************)
EXTENDS Integers, FiniteSets

CONSTANTS
  MaxReplicas,   \* bound on spec.replicas
  Proxies,       \* the proxy pods
  Revs,          \* pod template revisions
  MaxEdits,      \* bound on the user's edits of the cluster's spec
  OrderedReady,  \* the StatefulSet's podManagementPolicy
  Faults         \* which of FaultKinds happen

\* "stale": a reconcile may read a cluster that is one write behind.
\* "crash": the operator stops (or its API calls fail) anywhere in a reconcile.
\* "podfail": pods lose readiness or are evicted.
\* "proxyfail": proxies stop and start.
\* "refuse": proxy calls may still fail once the phase's time limit has passed.
\* "midedit", "midscale": the user edits the template, or the replicas, while
\* an earlier edit is still being rolled out.
\* "overlap": the user edits while pods still terminate.
FaultKinds ==
  {"stale", "crash", "podfail", "proxyfail", "refuse", "midedit", "midscale", "overlap"}

ASSUME ConstantsAssumption ==
  /\ MaxReplicas \in Nat \ {0}
  /\ MaxEdits \in Nat
  /\ Revs # {}
  /\ IsFiniteSet(Proxies)
  /\ OrderedReady \in BOOLEAN
  /\ Faults \subseteq FaultKinds

VARIABLES
  cluster,  \* the HyperbytedbCluster in the API: template, replicas, status.rollingRestart
  cache,    \* what the operator's informer cache holds of it
  edits,    \* how many edits the user has made
  op,       \* the reconcile under way: its step, its copy of the cluster
  sts,      \* the StatefulSet: spec and status
  pods,     \* the database pods by ordinal
  up,       \* which proxy processes run
  excl      \* the ordinals each proxy does not route to

vars == <<cluster, cache, edits, op, sts, pods, up, excl>>

Ordinals == 0 .. MaxReplicas - 1

Phases == {"None", "Excluding", "Draining", "WaitingReady", "Completed"}

\* status.rollingRestart; phase "None" is the nil pointer.
RestartStates ==
  [phase : Phases, ordinal : Ordinals, confirmed : BOOLEAN, aged : BOOLEAN]

Restart(phase, ordinal, confirmed) ==
  [phase |-> phase, ordinal |-> ordinal, confirmed |-> confirmed, aged |-> FALSE]

NoRestart == Restart("None", 0, FALSE)

Objects == [tmpl : Revs, replicas : 1 .. MaxReplicas, rr : RestartStates]

PodPhases == {"absent", "starting", "unready", "ready", "terminating"}

\* The StatefulSet's counters are kept as the sets they count.
TypeOK ==
  /\ cluster \in Objects
  /\ cache \in Objects
  /\ edits \in 0 .. MaxEdits
  /\ op \in [pc : {"idle", "apply", "restart", "started", "write"}, fresh : BOOLEAN,
             obj : Objects, ready : BOOLEAN]
  /\ sts \in [tmpl : Revs, replicas : 1 .. MaxReplicas, partition : 0 .. MaxReplicas,
              cur : Revs, upd : Revs, pods : SUBSET Ordinals,
              ready : SUBSET Ordinals, updated : SUBSET Ordinals]
  /\ pods \in [Ordinals -> [phase : PodPhases, rev : Revs]]
  /\ up \in [Proxies -> BOOLEAN]
  /\ excl \in [Proxies -> SUBSET Ordinals]

-----------------------------------------------------------------------------
(* Helpers *)

\* isPodReady, and not being deleted.
Healthy(o) == pods[o].phase = "ready"

Present(o) == pods[o].phase # "absent"

HasIP(o) == pods[o].phase \in {"unready", "ready", "terminating"}

Running == {p \in Proxies : up[p]}

\* Seeded faults of rolloutPartition: an idle cluster is not pinned; the pod
\* still to be excluded is released; a released pod is pinned again.
PartitionUnpinned(rr, replicas) ==
  CASE rr.phase = "None"         -> 0
    [] rr.phase = "Completed"    -> 0
    [] rr.phase = "WaitingReady" -> rr.ordinal
    [] OTHER                     -> rr.ordinal + 1

PartitionEarly(rr, replicas) ==
  CASE rr.phase = "None"         -> replicas
    [] rr.phase = "Completed"    -> 0
    [] OTHER                     -> rr.ordinal

PartitionRepinned(rr, replicas) ==
  CASE rr.phase = "None"         -> replicas
    [] rr.phase = "Completed"    -> 0
    [] OTHER                     -> rr.ordinal + 1

\* rolloutPartition
rolloutPartition(rr, replicas) ==
  CASE rr.phase = "None"         -> replicas
    [] rr.phase = "Completed"    -> 0
    [] rr.phase = "WaitingReady" -> rr.ordinal
    [] OTHER                     -> rr.ordinal + 1

\* An update of the StatefulSet is pending, as its status tells.
RollingUpgrade == sts.upd # sts.cur

\* The cluster changes in the API; the cache follows at once, or one write behind.
Store(obj) ==
  /\ cluster' = obj
  /\ cache' = IF "stale" \in Faults THEN cluster ELSE obj

Settled ==
  /\ cluster.rr.phase = "None"
  /\ sts.tmpl = cluster.tmpl /\ sts.upd = cluster.tmpl /\ sts.cur = cluster.tmpl
  /\ sts.replicas = cluster.replicas
  /\ "overlap" \in Faults \/ \A o \in Ordinals : pods[o].phase # "terminating"

\* Between reconciles the operator remembers nothing.
IdleOp ==
  [pc |-> "idle", fresh |-> FALSE, ready |-> FALSE,
   obj |-> [tmpl |-> CHOOSE r \in Revs : TRUE, replicas |-> 1, rr |-> NoRestart]]

-----------------------------------------------------------------------------
Init ==
  /\ \E r \in Revs, n \in 1 .. MaxReplicas :
       /\ cluster = [tmpl |-> r, replicas |-> n, rr |-> NoRestart]
       /\ sts = [tmpl |-> r, replicas |-> n, partition |-> n, cur |-> r, upd |-> r,
                 pods |-> 0 .. n - 1, ready |-> 0 .. n - 1, updated |-> 0 .. n - 1]
       /\ pods = [o \in Ordinals |->
                   [phase |-> IF o < n THEN "ready" ELSE "absent", rev |-> r]]
  /\ cache = cluster
  /\ edits = 0
  /\ op = IdleOp
  /\ up = [p \in Proxies |-> TRUE]
  /\ excl = [p \in Proxies |-> {}]

-----------------------------------------------------------------------------
(* The operator *)

Begin ==
  /\ op.pc = "idle"
  /\ op' = [pc |-> "apply", fresh |-> (cache = cluster), obj |-> cache, ready |-> FALSE]
  /\ UNCHANGED <<cluster, cache, edits, sts, pods, up, excl>>

\* runScaleDownClusterHooks holds the reconcile while a departing node still
\* has regions (module ScaleDown has the details).
HoldForEvacuation ==
  /\ op.pc = "apply"
  /\ op.obj.replicas < sts.replicas
  /\ op' = IdleOp
  /\ UNCHANGED <<cluster, cache, edits, sts, pods, up, excl>>

\* reconcileStatefulSet: replicas, template and partition in one Update.
ApplyStatefulSet ==
  /\ op.pc = "apply"
  /\ sts' = [sts EXCEPT !.tmpl = op.obj.tmpl,
                        !.replicas = op.obj.replicas,
                        !.partition = rolloutPartition(op.obj.rr, op.obj.replicas)]
  /\ op' = [op EXCEPT !.pc = "restart",
                      !.ready = Cardinality(sts.ready) = op.obj.replicas]
  /\ UNCHANGED <<cluster, cache, edits, pods, up, excl>>

\* The reconcile ends without touching the restart: it returns a requeue, or
\* goes on to steps that do not concern it.
Return ==
  /\ op' = IdleOp
  /\ UNCHANGED <<cluster, cache, edits, sts, pods, up, excl>>

\* Status().Update in the middle of a reconcile, which then continues at pc.
UpdateNow(rr, pc) ==
  /\ UNCHANGED <<edits, sts, pods, up, excl>>
  /\ \/ /\ op.fresh
        /\ Store([cluster EXCEPT !.rr = rr])
        /\ op' = IF pc = "idle" THEN IdleOp ELSE [op EXCEPT !.pc = pc, !.obj.rr = rr]
     \/ /\ ~op.fresh
        /\ op' = IdleOp
        /\ UNCHANGED <<cluster, cache>>

\* reconcileRollingRestart: no update pending, no restart under way.
NothingToRestart ==
  /\ op.pc = "restart"
  /\ ~RollingUpgrade
  /\ op.obj.rr.phase = "None"
  /\ Return

\* tryClearCompletedRollingRestart
CanClear ==
  /\ op.obj.rr.phase = "Completed"
  /\ op.ready
  /\ sts.ready = sts.pods
  /\ sts.updated = sts.pods

ClearCompleted ==
  /\ op.pc = "restart"
  /\ CanClear
  /\ UpdateNow(NoRestart, "idle")

CompletedWait ==
  /\ op.pc = "restart"
  /\ op.obj.rr.phase = "Completed"
  /\ ~CanClear
  /\ Return

\* A restart that has not excluded anything while no update is pending.
ClearUnstarted ==
  /\ op.pc = "restart"
  /\ ~RollingUpgrade
  /\ op.obj.rr.phase = "Excluding" /\ ~op.obj.rr.confirmed
  /\ UpdateNow(NoRestart, "idle")

\* ensureRollingRestartState: highest ordinal first. The Excluding handler
\* follows in the same reconcile.
StartRestart ==
  /\ op.pc = "restart"
  /\ RollingUpgrade
  /\ op.obj.rr.phase = "None"
  /\ UpdateNow(Restart("Excluding", op.obj.replicas - 1, FALSE), "started")

\* The handler has computed the new status; WriteStatus stores it.
ThenWrite(rr) == op' = [op EXCEPT !.pc = "write", !.obj.rr = rr]

\* rollingRestartRelease with releaseOrdinal: it lowers the partition, never
\* raises it.
Release(rr) ==
  /\ sts' = [sts EXCEPT !.partition = IF @ <= rr.ordinal THEN @ ELSE rr.ordinal]
  /\ ThenWrite(Restart("WaitingReady", rr.ordinal, rr.confirmed))
  /\ UNCHANGED <<cluster, cache, edits, pods, up, excl>>

Excluding ==
  /\ op.obj.rr.phase = "Excluding"
  /\ \/ op.pc = "started"
     \/ op.pc = "restart" /\ (RollingUpgrade \/ op.obj.rr.confirmed)

\* rollingRestartExcluding: the pod is gone, or already runs the update revision.
ExcludeSkip ==
  /\ Excluding
  /\ LET o == op.obj.rr.ordinal IN ~Present(o) \/ pods[o].rev = sts.upd
  /\ Release(op.obj.rr)

ExcludeNoIP ==
  /\ Excluding
  /\ LET o == op.obj.rr.ordinal IN Present(o) /\ pods[o].rev # sts.upd /\ ~HasIP(o)
  /\ Return

\* What forEachRunningProxy may come to: the proxies reached before the first
\* error, in the order of the list, and whether there was none. A call that
\* failed may still have been carried out.
Told(ok) == {told \in SUBSET Running : ok => told = Running}

CallFails(rr) == ~rr.aged \/ "refuse" \in Faults

\* Seeded faults of MovesOn: no time limit; the first failure is ignored.
NeverGivesUp(rr, ok) == ok

GivesUpAtOnce(rr, ok) == TRUE

\* The phase is left: the calls went through, or the time limit has passed.
MovesOn(rr, ok) == ok \/ rr.aged

\* excludeFromAllProxies; a failure is retried until the time limit.
Exclude ==
  /\ Excluding
  /\ LET rr == op.obj.rr IN
       /\ HasIP(rr.ordinal)
       /\ pods[rr.ordinal].rev # sts.upd
       /\ \E ok \in BOOLEAN : \E told \in Told(ok) :
            /\ ok \/ CallFails(rr)
            /\ excl' = [p \in Proxies |->
                          IF p \in told THEN excl[p] \cup {rr.ordinal} ELSE excl[p]]
            /\ IF MovesOn(rr, ok)
               THEN ThenWrite(Restart("Draining", rr.ordinal, rr.confirmed \/ ok))
               ELSE op' = IdleOp
  /\ UNCHANGED <<cluster, cache, edits, sts, pods, up>>

\* rollingRestartDraining
DrainWait ==
  /\ op.pc = "restart"
  /\ op.obj.rr.phase = "Draining"
  /\ ~op.obj.rr.aged
  /\ Return

DrainDone ==
  /\ op.pc = "restart"
  /\ op.obj.rr.phase = "Draining"
  /\ op.obj.rr.aged
  /\ Release(op.obj.rr)

\* Seeded fault of Replaced: the old pod, still Ready, counts as the replacement.
ReadyIsEnough(o) == Healthy(o)

\* rollingRestartWaitingReady: the replacement runs the update revision and is Ready.
Replaced(o) == Healthy(o) /\ pods[o].rev = sts.upd

WaitForReplacement ==
  /\ op.pc = "restart"
  /\ op.obj.rr.phase = "WaitingReady"
  /\ ~Replaced(op.obj.rr.ordinal)
  /\ Return

\* Seeded fault of AfterInclude: the last ordinal is not recognised.
NoLastOrdinal(o) == Restart("Excluding", o - 1, FALSE)

AfterInclude(o) ==
  IF o = 0 THEN Restart("Completed", 0, FALSE) ELSE Restart("Excluding", o - 1, FALSE)

\* includeFromAllProxies; a failure is retried until the time limit.
Include ==
  /\ op.pc = "restart"
  /\ op.obj.rr.phase = "WaitingReady"
  /\ LET rr == op.obj.rr IN
       /\ Replaced(rr.ordinal)
       /\ \E ok \in BOOLEAN : \E told \in Told(ok) :
            /\ ok \/ CallFails(rr)
            /\ excl' = [p \in Proxies |->
                          IF p \in told THEN excl[p] \ {rr.ordinal} ELSE excl[p]]
            /\ IF MovesOn(rr, ok) THEN ThenWrite(AfterInclude(rr.ordinal)) ELSE op' = IdleOp
  /\ UNCHANGED <<cluster, cache, edits, sts, pods, up>>

\* Status().Update at the end of a handler; a conflict ends the reconcile.
WriteStatus ==
  /\ op.pc = "write"
  /\ UpdateNow(op.obj.rr, "idle")

OperatorCrash ==
  /\ "crash" \in Faults
  /\ op.pc # "idle"
  /\ Return

CacheSync ==
  /\ cache # cluster
  /\ cache' = cluster
  /\ UNCHANGED <<cluster, edits, op, sts, pods, up, excl>>

Handler ==
  \/ NothingToRestart \/ ClearCompleted \/ CompletedWait \/ ClearUnstarted
  \/ StartRestart \/ ExcludeSkip \/ ExcludeNoIP \/ Exclude
  \/ DrainWait \/ DrainDone \/ WaitForReplacement \/ Include

OperatorStep == Begin \/ ApplyStatefulSet \/ Handler \/ WriteStatus

-----------------------------------------------------------------------------
(* The StatefulSet controller and the kubelet (external) *)

Wanted == 0 .. sts.replicas - 1

\* A missing pod is created: on the current revision below the partition, on
\* the update revision from there on. With a kept address the proxies'
\* exclusions of it still apply.
StsCreate(o) ==
  /\ o \in Wanted
  /\ ~Present(o)
  /\ OrderedReady => \A l \in 0 .. o - 1 : Healthy(l)
  /\ pods' = [pods EXCEPT ![o] = [phase |-> "starting",
                rev |-> IF o < sts.partition THEN sts.cur ELSE sts.tmpl]]
  /\ \E keep \in BOOLEAN :
       excl' = IF keep THEN excl ELSE [p \in Proxies |-> excl[p] \ {o}]
  /\ UNCHANGED <<cluster, cache, edits, op, sts, up>>

Terminate(o) ==
  /\ pods' = [pods EXCEPT ![o].phase = "terminating"]
  /\ UNCHANGED <<cluster, cache, edits, op, sts, up, excl>>

\* The highest pod from the partition up that is not on the update revision
\* may go once every pod above it is healthy (under OrderedReady, every pod).
Outdated(o) ==
  /\ o \in Wanted
  /\ o >= sts.partition
  /\ pods[o].phase \in {"starting", "unready", "ready"}
  /\ pods[o].rev # sts.tmpl
  /\ \A h \in Wanted : h > o => Healthy(h) /\ pods[h].rev = sts.tmpl
  /\ OrderedReady => /\ \A h \in Wanted : Healthy(h)
                     /\ \A h \in Ordinals \ Wanted : ~Present(h)

StsReplace(o) == Outdated(o) /\ Terminate(o)

\* Pods beyond .spec.replicas are deleted, highest first.
StsScaleDown(o) ==
  /\ o \in Ordinals \ Wanted
  /\ pods[o].phase \in {"starting", "unready", "ready"}
  /\ OrderedReady => /\ \A h \in Wanted : Healthy(h)
                     /\ \A h \in Ordinals : h > o => ~Present(h)
  /\ Terminate(o)

\* The status follows the pods, after a pass over them that had nothing to
\* replace or has just done so; the rollout is over when every wanted pod is
\* ready on the update revision.
StsStatus ==
  LET present == {o \in Ordinals : Present(o)}
      ready   == {o \in Ordinals : Healthy(o)}
      updated == {o \in Ordinals : /\ pods[o].phase \in {"starting", "unready", "ready"}
                                   /\ pods[o].rev = sts.tmpl}
      new == [sts EXCEPT !.upd = sts.tmpl, !.pods = present, !.ready = ready,
                         !.updated = updated,
                         !.cur = IF /\ present = Wanted /\ ready = Wanted
                                    /\ updated = Wanted
                                 THEN sts.tmpl ELSE @]
  IN /\ \A o \in Ordinals : ~Outdated(o)
     /\ new # sts
     /\ sts' = new
     /\ UNCHANGED <<cluster, cache, edits, op, pods, up, excl>>

PodMoves(o, from, to) ==
  /\ pods[o].phase = from
  /\ pods' = [pods EXCEPT ![o].phase = to]
  /\ UNCHANGED <<cluster, cache, edits, op, sts, up, excl>>

PodGetsIP(o) == PodMoves(o, "starting", "unready")

PodBecomesReady(o) == PodMoves(o, "unready", "ready")

PodGone(o) == PodMoves(o, "terminating", "absent")

PodUnready(o) == "podfail" \in Faults /\ PodMoves(o, "ready", "unready")

PodEvicted(o) ==
  /\ "podfail" \in Faults
  /\ \E from \in {"starting", "unready", "ready"} : PodMoves(o, from, "terminating")

StsStep ==
  \/ StsStatus
  \/ \E o \in Ordinals : StsCreate(o) \/ StsReplace(o) \/ StsScaleDown(o)

PodStep ==
  \E o \in Ordinals : PodGetsIP(o) \/ PodBecomesReady(o) \/ PodGone(o)

-----------------------------------------------------------------------------
(* The proxies, time and the user *)

\* Exclusions are in the proxy's memory: a stopped proxy holds none.
ProxyStop(p) ==
  /\ "proxyfail" \in Faults
  /\ up[p]
  /\ up' = [up EXCEPT ![p] = FALSE]
  /\ excl' = [excl EXCEPT ![p] = {}]
  /\ UNCHANGED <<cluster, cache, edits, op, sts, pods>>

ProxyStart(p) ==
  /\ ~up[p]
  /\ up' = [up EXCEPT ![p] = TRUE]
  /\ UNCHANGED <<cluster, cache, edits, op, sts, pods, excl>>

\* The phases that have a time limit.
Active(rr) == rr.phase \in {"Excluding", "Draining", "WaitingReady"}

Age(rr) == IF Active(rr) THEN [rr EXCEPT !.aged = TRUE] ELSE rr

\* The current phase's time limit passes.
Tick ==
  /\ Active(cluster.rr)
  /\ ~cluster.rr.aged
  /\ cluster' = [cluster EXCEPT !.rr = Age(@)]
  /\ cache' = [cache EXCEPT !.rr = Age(@)]
  /\ UNCHANGED <<edits, op, sts, pods, up, excl>>

Edit(obj) ==
  /\ edits < MaxEdits
  /\ edits' = edits + 1
  /\ Store(obj)
  /\ op' = [op EXCEPT !.fresh = FALSE]
  /\ UNCHANGED <<sts, pods, up, excl>>

EditTemplate ==
  /\ Settled \/ "midedit" \in Faults
  /\ \E r \in Revs \ {cluster.tmpl} : Edit([cluster EXCEPT !.tmpl = r])

EditReplicas ==
  /\ Settled \/ "midscale" \in Faults
  /\ \E n \in 1 .. MaxReplicas \ {cluster.replicas} :
       Edit([cluster EXCEPT !.replicas = n])

Next ==
  \/ OperatorStep \/ HoldForEvacuation \/ OperatorCrash \/ CacheSync
  \/ StsStep \/ PodStep
  \/ \E o \in Ordinals : PodUnready(o) \/ PodEvicted(o)
  \/ \E p \in Proxies : ProxyStop(p) \/ ProxyStart(p)
  \/ Tick \/ EditTemplate \/ EditReplicas

Spec == Init /\ [][Next]_vars

\* The work queue keeps reconciling, evacuations end, the informer catches up,
\* the StatefulSet controller and the kubelet act, and time passes.
Fairness ==
  /\ WF_vars(OperatorStep)
  /\ SF_vars(ApplyStatefulSet)
  /\ WF_vars(CacheSync)
  /\ WF_vars(StsStatus)
  /\ \A o \in Ordinals : WF_vars(StsCreate(o)) /\ WF_vars(StsReplace(o))
                         /\ WF_vars(StsScaleDown(o)) /\ WF_vars(PodGetsIP(o))
                         /\ WF_vars(PodBecomesReady(o)) /\ WF_vars(PodGone(o))
  /\ WF_vars(Tick)

FairSpec == Spec /\ Fairness

-----------------------------------------------------------------------------
(* Properties *)

\* A restart never reaches below the ordinal the operator is at: while one is
\* under way the partition it has written (rolloutPartition, releaseOrdinal)
\* is at or above that ordinal, so the StatefulSet controller cannot touch the
\* pods that are still to be excluded, whatever the operator read or lost.
PartitionGuards ==
  Active(cluster.rr) => sts.partition >= cluster.rr.ordinal

\* The StatefulSet controller replaces a pod only during a restart the operator
\* has recorded, and never one below the ordinal that restart has reached.
ReplacedInTurn ==
  [][\A o \in Ordinals : StsReplace(o) =>
        cluster.rr.phase # "None" /\ o >= cluster.rr.ordinal]_vars

\* A pod is taken down for the new revision only at its turn, and then no running
\* proxy routes to it any more, unless the operator recorded that it gave up on
\* the exclude (excludeFromAllProxies, drainWait and releaseOrdinal come in order).
ReplacedOutOfRotation ==
  [][\A o \in Ordinals : StsReplace(o) =>
        /\ cluster.rr.phase \in {"Draining", "WaitingReady"}
        /\ cluster.rr.ordinal = o
        /\ cluster.rr.confirmed => \A p \in Running : o \in excl[p]]_vars

\* Each pod restarts once per rolling update: a pod that is created at or above
\* the restart's ordinal, once that one has been excluded, already runs the new
\* template and will not be replaced again (rollingRestartRelease: "once").
RestartedOnce ==
  [][\A o \in Ordinals :
        /\ StsCreate(o)
        /\ cluster.rr.phase \in {"Draining", "WaitingReady", "Completed"}
        /\ o >= cluster.rr.ordinal
        => pods'[o].rev = cluster.tmpl]_vars

\* The pods above the restart's ordinal have been replaced: they run the new
\* template, so a finished restart leaves none behind (highest ordinal first).
UpdatedAbove ==
  \A o \in 0 .. sts.replicas - 1 :
    /\ cluster.rr.phase # "None"
    /\ o > cluster.rr.ordinal \/ cluster.rr.phase = "Completed"
    /\ Present(o)
    => pods[o].rev = cluster.tmpl

\* A proxy leaves a serving pod out of rotation only while the operator's
\* restart is at that pod: nothing is forgotten when the restart moves on, is
\* cleared, or is interrupted (excludeFromAllProxies, includeFromAllProxies).
ExclusionsAccountedFor ==
  \A p \in Running : \A o \in excl[p] :
    pods[o].phase \in {"unready", "ready"} /\ o < cluster.replicas =>
      cluster.rr.phase # "None" /\ cluster.rr.ordinal = o

RolledOut ==
  /\ cluster.rr = NoRestart
  /\ sts.partition = cluster.replicas
  /\ \A o \in Ordinals :
       IF o < cluster.replicas
       THEN pods[o] = [phase |-> "ready", rev |-> cluster.tmpl]
       ELSE ~Present(o)

\* Once the user stops editing, every pod ends up ready on the last template,
\* the restart is cleared and the partition pinned again, even if the proxies
\* refuse every exclude and include (proxyCallTimeout, podRestartAllowance).
RolloutFinishes == <>[]RolledOut
=============================================================================
