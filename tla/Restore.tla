-------------------------------- MODULE Restore --------------------------------
(***************************************************************************)
(* HyperbytedbRestoreReconciler, with what acts on the same objects: the   *)
(* cluster's own reconciler, which writes spec.replicas to the StatefulSet *)
(* unless the cluster is paused, the StatefulSet controller and the jobs   *)
(* (external), and backups uploaded to the same prefix meanwhile.          *)
(*                                                                         *)
(* A reconcile reads the restore and the cluster (Begin), does the phase's *)
(* work (ScaleToZero, CreateJobs, RestoreDone, ...) and stores the next    *)
(* phase (WriteStatus), whose errors the code ignores.                     *)
(*                                                                         *)
(* Abstractions: the Pending and the empty phase are one. A volume holds   *)
(* the cluster's old data, the backup of a time, or neither as a whole. Of *)
(* ReadyReplicas only whether it is zero is read. A job's pod gets hold of *)
(* a volume whether a database pod uses it or not (one machine may mount   *)
(* it for both).                                                           *)
(***************************************************************************)
EXTENDS SnapshotStore

CONSTANTS
  MaxReplicas,   \* bound on spec.replicas
  BackoffLimit,  \* the jobs' backoffLimit (2 in the code)
  MaxEdits,      \* bound on the user's edits of spec.replicas
  Paused,        \* the cluster's spec.paused
  Faults         \* which of FaultKinds happen

\* "lost": a status write fails, or the operator stops in a reconcile.
\* "error": the cluster, the backup or a created Job is refused by the API.
\* "jobfail": containers fail and pods are evicted.
\* "upload": another backup is uploaded, or its upload abandoned.
FaultKinds == {"lost", "error", "jobfail", "upload"}

ASSUME RestoreAssumption ==
  /\ MaxReplicas \in Nat \ {0}
  /\ BackoffLimit \in Nat /\ MaxEdits \in Nat
  /\ Paused \in BOOLEAN
  /\ Faults \subseteq FaultKinds

VARIABLES
  replicas,  \* the cluster's spec.replicas
  edits,     \* how many edits the user has made
  phase,     \* the restore's status.phase
  op,        \* the reconcile under way: its step, what it read and is to write
  size,      \* the StatefulSet's .spec.replicas
  served,    \* whether its ReadyReplicas is above zero
  pods,      \* the database pods by ordinal
  jobs,      \* the restore's jobs by ordinal
  volume,    \* what is on the pods' volumes
  beneath    \* the databases whose files a job has replaced since they opened them

vars == <<now, store, replicas, edits, phase, op, size, served, pods, jobs, volume, beneath>>

Ordinals == 0 .. MaxReplicas - 1

Phases == {"Pending", "ScalingDown", "Restoring", "Completed", "Failed"}

OldData == 0

\* The download was incomplete, or a database wrote to the files at the same time.
Broken == -1

\* failed: status.failed > 0; from: the backup it downloads.
JobTypes ==
  [run : {"none", "pending", "download", "restore", "succeeded", "dead"}, failed : BOOLEAN,
   tries : 0 .. BackoffLimit, from : {Broken} \cup 0 .. MaxTime]

NoJob == [run |-> "none", failed |-> FALSE, tries |-> 0, from |-> 0]

OpTypes == [pc : {"idle", "act", "write"}, phase : Phases, want : 1 .. MaxReplicas]

TypeOK ==
  /\ StoreTypeOK
  /\ replicas \in 1 .. MaxReplicas
  /\ edits \in 0 .. MaxEdits
  /\ phase \in Phases
  /\ op \in OpTypes
  /\ size \in 0 .. MaxReplicas
  /\ served \in BOOLEAN
  /\ pods \in [Ordinals -> {"absent", "starting", "ready", "terminating"}]
  /\ jobs \in [Ordinals -> JobTypes]
  /\ volume \in [Ordinals -> {Broken} \cup 0 .. MaxTime]
  /\ beneath \in SUBSET Ordinals

IdleOp == [pc |-> "idle", phase |-> "Pending", want |-> 1]

\* There is one backup to restore, and the cluster is up or still starting.
Init ==
  /\ now = 1 /\ store = [t \in Times |-> IF t = 1 THEN "complete" ELSE "none"]
  /\ replicas \in 1 .. MaxReplicas
  /\ edits = 0
  /\ phase = "Pending"
  /\ op = IdleOp
  /\ size = replicas
  /\ \E p \in {"starting", "ready"} :
       /\ pods = [o \in Ordinals |-> IF o < replicas THEN p ELSE "absent"]
       /\ served = (p = "ready")
  /\ jobs = [o \in Ordinals |-> NoJob]
  /\ volume = [o \in Ordinals |-> OldData]
  /\ beneath = {}

-----------------------------------------------------------------------------
(* The restore's reconciler *)

Cluster == <<now, store, replicas, edits, pods, served, volume, beneath>>

Begin ==
  /\ op.pc = "idle"
  /\ phase \notin {"Completed", "Failed"}
  /\ op' = [pc |-> "act", phase |-> phase, want |-> replicas]
  /\ UNCHANGED <<phase, size, jobs>> /\ UNCHANGED Cluster

ThenWrite(p) == op' = [op EXCEPT !.pc = "write", !.phase = p]

\* The cluster cannot be read, or resolveS3Source fails: whatever the error is,
\* and however far it has come, the restore has failed.
LookupFails ==
  /\ "error" \in Faults
  /\ op.pc = "act"
  /\ ThenWrite("Failed")
  /\ UNCHANGED <<phase, size, jobs>> /\ UNCHANGED Cluster

\* handleScaleDown
ScaleToZero ==
  /\ op.pc = "act" /\ op.phase = "Pending"
  /\ size' = 0
  /\ ThenWrite("ScalingDown")
  /\ UNCHANGED <<phase, jobs>> /\ UNCHANGED Cluster

\* checkScaleDown: some pod is still ready.
StillServing ==
  /\ op.pc = "act" /\ op.phase = "ScalingDown"
  /\ served
  /\ op' = IdleOp
  /\ UNCHANGED <<phase, size, jobs>> /\ UNCHANGED Cluster

\* Seeded fault of Targets: the first pod's volume only.
FirstOnly(want) == {0}

\* One job for each of the cluster's volumes.
Targets(want) == 0 .. want - 1

\* buildRestoreJob; a job that is there already is left alone.
Created(targets) ==
  [o \in Ordinals |-> IF o \in targets /\ jobs[o].run = "none"
                      THEN [NoJob EXCEPT !.run = "pending"]
                      ELSE jobs[o]]

\* checkScaleDown: the jobs are created in turn, up to the first error.
CreateJobs ==
  /\ op.pc = "act" /\ op.phase = "ScalingDown"
  /\ ~served
  /\ \E k \in 0 .. op.want :
       /\ k = op.want \/ "error" \in Faults
       /\ jobs' = Created({o \in Targets(op.want) : o < k})
       /\ IF k = op.want THEN ThenWrite("Restoring") ELSE op' = IdleOp
  /\ UNCHANGED <<phase, size>> /\ UNCHANGED Cluster

AnyFailed == \E o \in 0 .. op.want - 1 : jobs[o].failed

\* Seeded faults of AllDone: a job that is not found is passed over; one that
\* has succeeded is enough.
NoneRunning ==
  \A o \in 0 .. op.want - 1 : jobs[o].run \in {"none", "succeeded"} \/ jobs[o].failed

AnyDone == \E o \in 0 .. op.want - 1 : jobs[o].run = "succeeded"

AllDone == \A o \in 0 .. op.want - 1 : jobs[o].run = "succeeded" \/ jobs[o].failed

\* checkRestoreJob
RestoreFails ==
  /\ op.pc = "act" /\ op.phase = "Restoring"
  /\ AnyFailed
  /\ ThenWrite("Failed")
  /\ UNCHANGED <<phase, size, jobs>> /\ UNCHANGED Cluster

StillRestoring ==
  /\ op.pc = "act" /\ op.phase = "Restoring"
  /\ ~AnyFailed /\ ~AllDone
  /\ op' = IdleOp
  /\ UNCHANGED <<phase, size, jobs>> /\ UNCHANGED Cluster

\* checkRestoreJob and handleScaleUp
RestoreDone ==
  /\ op.pc = "act" /\ op.phase = "Restoring"
  /\ ~AnyFailed /\ AllDone
  /\ size' = op.want
  /\ ThenWrite("Completed")
  /\ UNCHANGED <<phase, jobs>> /\ UNCHANGED Cluster

\* setRestorePhase
WriteStatus ==
  /\ op.pc = "write"
  /\ phase' = op.phase
  /\ op' = IdleOp
  /\ UNCHANGED <<size, jobs>> /\ UNCHANGED Cluster

LoseStatus ==
  /\ "lost" \in Faults
  /\ op.pc # "idle"
  /\ op' = IdleOp
  /\ UNCHANGED <<phase, size, jobs>> /\ UNCHANGED Cluster

Work == ScaleToZero \/ StillServing \/ CreateJobs \/ RestoreFails \/ StillRestoring \/ RestoreDone

-----------------------------------------------------------------------------
(* The cluster's reconciler and the StatefulSet controller *)

Restorer == <<now, store, phase, op, jobs, volume>>

\* HyperbytedbClusterReconciler.Reconcile: reconcileStatefulSet, unless paused.
ClusterReconcile ==
  /\ ~Paused
  /\ size # replicas
  /\ size' = replicas
  /\ UNCHANGED <<replicas, edits, pods, served, beneath>> /\ UNCHANGED Restorer

PodMoves(o, to) ==
  /\ pods' = [pods EXCEPT ![o] = to]
  /\ beneath' = IF to = "absent" THEN beneath \ {o} ELSE beneath
  /\ UNCHANGED <<replicas, edits, size, served>> /\ UNCHANGED Restorer

StsCreate(o) == o < size /\ pods[o] = "absent" /\ PodMoves(o, "starting")

PodReady(o) == pods[o] = "starting" /\ PodMoves(o, "ready")

StsDelete(o) == o >= size /\ pods[o] \in {"starting", "ready"} /\ PodMoves(o, "terminating")

PodGone(o) == pods[o] = "terminating" /\ PodMoves(o, "absent")

\* A pod that drains before it stops (preStop) may still be ready, or not.
StsStatus ==
  /\ served' \in {\E o \in Ordinals : pods[o] \in s : s \in {{"ready"}, {"ready", "terminating"}}}
  /\ served' # served
  /\ UNCHANGED <<replicas, edits, size, pods, beneath>> /\ UNCHANGED Restorer

-----------------------------------------------------------------------------
(* The jobs: s3DownloadInitContainer, restoreDataContainer *)

Others == <<now, store, replicas, edits, phase, op, size, served, pods>>

JobStarts(o) ==
  /\ jobs[o].run = "pending"
  /\ \E t \in 0 .. MaxTime :
       /\ Newest(t)
       /\ jobs' = [jobs EXCEPT ![o].run = "download", ![o].from = t]
  /\ UNCHANGED <<volume, beneath>> /\ UNCHANGED Others

\* The job writes to the volume, beneath a database that has not stopped yet.
Replaces(o) == beneath' = IF pods[o] = "absent" THEN beneath ELSE beneath \cup {o}

\* The download has ended and the volume is overwritten. With no folder the
\* prefix itself is downloaded, which holds no manifest, and the restore container
\* fails; an incomplete folder may well have its manifest.
JobRestores(o) ==
  /\ jobs[o].run = "download"
  /\ jobs[o].from # 0
  /\ jobs' = [jobs EXCEPT ![o].run = "restore",
                          ![o].from = IF store[@] = "complete" THEN @ ELSE Broken]
  /\ volume' = [volume EXCEPT ![o] = Broken]
  /\ Replaces(o)
  /\ UNCHANGED Others

JobSucceeds(o) ==
  /\ jobs[o].run = "restore"
  /\ jobs' = [jobs EXCEPT ![o].run = "succeeded"]
  /\ volume' = [volume EXCEPT ![o] = jobs[o].from]
  /\ Replaces(o)
  /\ UNCHANGED Others

\* A database whose files were replaced flushes what it still holds over them, also
\* while the job copies.
DatabaseWrites(o) ==
  /\ o \in beneath
  /\ volume' = [volume EXCEPT ![o] = Broken]
  /\ jobs' = [jobs EXCEPT ![o].from = IF jobs[o].run = "restore" THEN Broken ELSE @]
  /\ UNCHANGED beneath /\ UNCHANGED Others

Active(o) == jobs[o].run \in {"pending", "download", "restore"}

\* Seeded fault of CanRetry: one attempt too many.
RetriesOnceMore(job) == job.tries <= BackoffLimit

CanRetry(job) == job.tries < BackoffLimit

\* A container fails and restarts in place, or the pod is evicted and its
\* replacement looks for the newest folder again.
JobRetries(o) ==
  /\ "jobfail" \in Faults
  /\ Active(o)
  /\ CanRetry(jobs[o])
  /\ \E evicted \in BOOLEAN :
       jobs' = [jobs EXCEPT ![o].run = IF @ = "restore" /\ ~evicted THEN @ ELSE "pending",
                            ![o].failed = @ \/ evicted,
                            ![o].tries = @ + 1]
  /\ UNCHANGED <<volume, beneath>> /\ UNCHANGED Others

JobDies(o) ==
  /\ "jobfail" \in Faults
  /\ Active(o)
  /\ ~CanRetry(jobs[o])
  /\ jobs' = [jobs EXCEPT ![o].run = "dead", ![o].failed = TRUE]
  /\ UNCHANGED <<volume, beneath>> /\ UNCHANGED Others

-----------------------------------------------------------------------------
(* Other backups, and the user *)

Elsewhere == <<replicas, edits, phase, op, size, served, pods, jobs, volume, beneath>>

OtherUpload ==
  /\ "upload" \in Faults
  /\ StartUpload
  /\ UNCHANGED Elsewhere

OtherUploaded ==
  /\ store[now] = "partial"
  /\ FinishUpload(now)
  /\ UNCHANGED Elsewhere

EditReplicas ==
  /\ edits < MaxEdits
  /\ edits' = edits + 1
  /\ replicas' \in 1 .. MaxReplicas \ {replicas}
  /\ UNCHANGED <<now, store, phase, op, size, served, pods, jobs, volume, beneath>>

Next ==
  \/ Begin \/ LookupFails \/ Work \/ WriteStatus \/ LoseStatus
  \/ ClusterReconcile \/ StsStatus
  \/ \E o \in Ordinals :
       \/ StsCreate(o) \/ PodReady(o) \/ StsDelete(o) \/ PodGone(o)
       \/ JobStarts(o) \/ JobRestores(o) \/ JobSucceeds(o) \/ JobRetries(o) \/ JobDies(o)
       \/ DatabaseWrites(o)
  \/ OtherUpload \/ OtherUploaded \/ EditReplicas

Spec == Init /\ [][Next]_vars

\* Every phase but the last ones asks for a requeue; API calls go through now
\* and then; the cluster's reconciler, the StatefulSet controller and the jobs act.
Fairness ==
  /\ WF_vars(Begin) /\ WF_vars(Work)
  /\ SF_vars(ScaleToZero) /\ SF_vars(CreateJobs /\ op'.pc = "write")
  /\ SF_vars(RestoreFails) /\ SF_vars(RestoreDone) /\ SF_vars(WriteStatus)
  /\ WF_vars(ClusterReconcile) /\ WF_vars(StsStatus)
  /\ \A o \in Ordinals :
       /\ WF_vars(StsCreate(o)) /\ WF_vars(PodReady(o))
       /\ WF_vars(StsDelete(o)) /\ WF_vars(PodGone(o))
       /\ WF_vars(JobStarts(o)) /\ WF_vars(JobRestores(o)) /\ WF_vars(JobSucceeds(o))

FairSpec == Spec /\ Fairness

-----------------------------------------------------------------------------
(* Properties *)

\* A restore is recorded as Completed only when every volume of the cluster it
\* looked at has been overwritten, "not just pod-0" (checkScaleDown,
\* checkRestoreJob), whatever was edited, lost or retried in between.
CompletedMeansCopied ==
  [][phase # "Completed" /\ phase' = "Completed" =>
       \A o \in 0 .. op.want - 1 : volume[o] # OldData]_vars

\* Once a restore is recorded as Completed none of its jobs writes to a volume any
\* more, if spec.replicas has stayed as it was: the databases that handleScaleUp
\* brings up have their files to themselves, although the cluster's own reconciler
\* resizes the StatefulSet meanwhile, jobs are created in part and phases are
\* recorded late or twice (checkRestoreJob).
CompletedIsQuiet == phase = "Completed" /\ edits = 0 => \A o \in Ordinals : ~Active(o)

\* No database pod starts again before its volume holds the restored backup: the
\* scale-down, the copy and the scale-up are coordinated (handleScaleDown,
\* checkScaleDown, handleScaleUp).
StartsRestored ==
  [][\A o \in Ordinals : StsCreate(o) => volume[o] \in Times]_vars

\* The restore ends by itself: it fails, or the cluster is up again on the
\* restored data ("coordinating scale-down, data copy, and scale-up automatically").
RestoreEnds ==
  <>[]\/ phase = "Failed"
      \/ phase = "Completed" /\ \A o \in 0 .. replicas - 1 : pods[o] = "ready"
=============================================================================
