---------------------------- MODULE Restore_proofs ----------------------------
(***************************************************************************)
(* CompletedMeansCopied for every number of replicas, edits, retries and   *)
(* every choice of faults, paused or not; CompletedIsQuiet for a cluster   *)
(* whose spec.replicas is not edited during the restore.                   *)
(***************************************************************************)
EXTENDS Restore, TLAPS

\* A job that writes has found a folder, and one that has succeeded has
\* overwritten its volume.
JobsCopy ==
  \A o \in Ordinals :
    /\ jobs[o].run = "restore" => jobs[o].from # OldData
    /\ jobs[o].run = "succeeded" => volume[o] # OldData

\* What the reconcile that is about to record Completed has seen.
AboutToComplete ==
  op.pc = "write" /\ op.phase = "Completed" =>
    \A o \in 0 .. op.want - 1 : volume[o] # OldData

CopyInv == TypeOK /\ JobsCopy /\ AboutToComplete

\* What the operator remembers between reconciles.
LEMMA IdleOpType == IdleOp \in OpTypes
BY RestoreAssumption DEF IdleOp, OpTypes, Phases

\* A reconcile that is to write a phase still knows what it read.
LEMMA ThenWriteType ==
  ASSUME op \in OpTypes, NEW p \in Phases, ThenWrite(p)
  PROVE  op' \in OpTypes /\ op'.phase = p /\ op'.want = op.want
BY DEF ThenWrite, OpTypes

\* A job as it is created.
LEMMA NewJobType ==
  NoJob \in JobTypes /\ [NoJob EXCEPT !.run = "pending"] \in JobTypes
<1>1. 0 \in 0 .. BackoffLimit /\ 0 \in {Broken} \cup 0 .. MaxTime
  BY StoreAssumption, RestoreAssumption
<1>2. NoJob \in JobTypes
  BY <1>1 DEF NoJob, JobTypes
<1> QED
  BY <1>2 DEF JobTypes

\* The initial states satisfy the invariant.
LEMMA CopyInit == Init => CopyInv
<1> SUFFICES ASSUME Init PROVE CopyInv
  OBVIOUS
<1> USE StoreAssumption, RestoreAssumption
<1>1. pods \in [Ordinals -> {"absent", "starting", "ready", "terminating"}] /\ served \in BOOLEAN
  BY DEF Init
<1>2. jobs \in [Ordinals -> JobTypes] /\ \A o \in Ordinals : jobs[o].run = "none"
  BY NewJobType DEF Init, NoJob
<1>3. StoreTypeOK
  BY DEF Init, StoreTypeOK, Times
<1>4. volume \in [Ordinals -> {Broken} \cup 0 .. MaxTime] /\ beneath \in SUBSET Ordinals
  BY DEF Init, OldData
<1>5. op \in OpTypes /\ op.pc = "idle"
  BY IdleOpType DEF Init, IdleOp
<1> QED
  BY <1>1, <1>2, <1>3, <1>4, <1>5 DEF Init, CopyInv, TypeOK, JobsCopy, AboutToComplete, Phases

\* A reconcile that changes neither jobs nor volumes keeps the invariant, unless
\* it is about to record Completed.
LEMMA QuietStep ==
  ASSUME CopyInv, op' \in OpTypes, size' \in 0 .. MaxReplicas, phase' \in Phases,
         UNCHANGED jobs, UNCHANGED Cluster,
         op'.pc = "write" /\ op'.phase = "Completed" =>
           \A o \in 0 .. op'.want - 1 : volume[o] # OldData
  PROVE  CopyInv'
BY DEF CopyInv, TypeOK, StoreTypeOK, JobsCopy, AboutToComplete, Cluster

\* The restore's reconciler: only RestoreDone is about to write Completed, and
\* it has found every job succeeded.
LEMMA ReconcilerStep ==
  ASSUME CopyInv, Begin \/ LookupFails \/ Work \/ WriteStatus \/ LoseStatus
  PROVE  CopyInv'
<1>1. op \in OpTypes /\ size \in 0 .. MaxReplicas /\ phase \in Phases /\ IdleOp.pc = "idle"
  BY DEF CopyInv, TypeOK, IdleOp
<1>2. CASE Begin
  <2>1. op' \in OpTypes /\ op'.pc = "act"
    BY <1>2 DEF Begin, CopyInv, TypeOK, OpTypes
  <2> QED
    BY <1>1, <1>2, <2>1, QuietStep DEF Begin
<1>3. CASE LookupFails
  BY <1>1, <1>3, ThenWriteType, QuietStep DEF LookupFails, Phases
<1>4. CASE ScaleToZero
  <2>1. 0 \in 0 .. MaxReplicas /\ "ScalingDown" \in Phases
    BY RestoreAssumption DEF Phases
  <2> QED
    BY <1>1, <1>4, <2>1, ThenWriteType, QuietStep DEF ScaleToZero
<1>5. CASE StillServing
  BY <1>1, <1>5, IdleOpType, QuietStep DEF StillServing
<1>6. CASE CreateJobs
  <2>1. PICK k \in 0 .. op.want :
          /\ jobs' = Created({o \in Targets(op.want) : o < k})
          /\ IF k = op.want THEN ThenWrite("Restoring") ELSE op' = IdleOp
    BY <1>6 DEF CreateJobs
  <2>2. \A o \in Ordinals : \/ jobs'[o] = jobs[o]
                           \/ jobs'[o] = [NoJob EXCEPT !.run = "pending"]
    BY <2>1 DEF Created
  <2>3. jobs' \in [Ordinals -> JobTypes]
    <3>1. \A o \in Ordinals : jobs'[o] \in JobTypes
      BY <2>2, NewJobType DEF CopyInv, TypeOK
    <3> QED
      BY <2>1, <3>1 DEF Created
  <2>4. \A o \in Ordinals : jobs'[o] = jobs[o] \/ jobs'[o].run = "pending"
    BY <2>2 DEF NoJob
  <2>5. op' \in OpTypes /\ ~(op'.pc = "write" /\ op'.phase = "Completed")
    BY <1>1, <2>1, IdleOpType, ThenWriteType DEF Phases
  <2> QED
    BY <1>6, <2>3, <2>4, <2>5
    DEF CreateJobs, CopyInv, TypeOK, StoreTypeOK, JobsCopy, AboutToComplete, Cluster
<1>7. CASE RestoreFails
  BY <1>1, <1>7, ThenWriteType, QuietStep DEF RestoreFails, Phases
<1>8. CASE StillRestoring
  BY <1>1, <1>8, IdleOpType, QuietStep DEF StillRestoring
<1>9. CASE RestoreDone
  <2>1. \A o \in 0 .. op.want - 1 : o \in Ordinals
    BY <1>1, RestoreAssumption DEF OpTypes, Ordinals
  <2>2. \A o \in 0 .. op.want - 1 : volume[o] # OldData
    BY <1>9, <2>1 DEF RestoreDone, AllDone, AnyFailed, CopyInv, JobsCopy
  <2>3. op.want \in 0 .. MaxReplicas /\ "Completed" \in Phases
    BY <1>1, RestoreAssumption DEF OpTypes, Phases
  <2> QED
    BY <1>1, <1>9, <2>2, <2>3, ThenWriteType, QuietStep DEF RestoreDone
<1>10. CASE WriteStatus
  <2>1. op.phase \in Phases
    BY <1>1 DEF OpTypes
  <2> QED
    BY <1>1, <1>10, <2>1, IdleOpType, QuietStep DEF WriteStatus
<1>11. CASE LoseStatus
  BY <1>1, <1>11, IdleOpType, QuietStep DEF LoseStatus
<1> QED
  BY <1>2, <1>3, <1>4, <1>5, <1>6, <1>7, <1>8, <1>9, <1>10, <1>11 DEF Work

\* The cluster's reconciler, the StatefulSet controller, other backups and the
\* user leave jobs, volumes and the reconcile alone.
LEMMA OutsideStep ==
  ASSUME CopyInv,
         \/ ClusterReconcile \/ StsStatus \/ OtherUpload \/ OtherUploaded \/ EditReplicas
         \/ \E o \in Ordinals : StsCreate(o) \/ PodReady(o) \/ StsDelete(o) \/ PodGone(o)
  PROVE  CopyInv'
<1> USE StoreAssumption, RestoreAssumption
<1> USE DEF CopyInv, TypeOK, JobsCopy, AboutToComplete, Restorer, Elsewhere
<1>1. CASE ClusterReconcile
  BY <1>1 DEF ClusterReconcile, StoreTypeOK
<1>2. CASE StsStatus
  BY <1>2 DEF StsStatus, StoreTypeOK
<1>3. CASE OtherUpload
  BY <1>3 DEF OtherUpload, StartUpload, StoreTypeOK, Times
<1>4. CASE OtherUploaded
  BY <1>4 DEF OtherUploaded, FinishUpload, StoreTypeOK, Times
<1>5. CASE EditReplicas
  BY <1>5 DEF EditReplicas, StoreTypeOK
<1>6. CASE \E o \in Ordinals : StsCreate(o) \/ PodReady(o) \/ StsDelete(o) \/ PodGone(o)
  BY <1>6 DEF StsCreate, PodReady, StsDelete, PodGone, PodMoves, StoreTypeOK
<1> QED
  BY <1>1, <1>2, <1>3, <1>4, <1>5, <1>6

\* A job that changes as a job may leaves the invariant as it was.
LEMMA JobChanges ==
  ASSUME CopyInv, NEW o \in Ordinals, NEW job \in JobTypes,
         jobs' = [jobs EXCEPT ![o] = job],
         job.run = "restore" => job.from # OldData,
         volume' = [volume EXCEPT ![o] = volume'[o]],
         volume'[o] \in {Broken} \cup 0 .. MaxTime,
         volume'[o] = volume[o] \/ volume'[o] # OldData,
         job.run = "succeeded" => volume'[o] # OldData,
         beneath' \in SUBSET Ordinals,
         UNCHANGED Others
  PROVE  CopyInv'
<1>1. jobs' \in [Ordinals -> JobTypes] /\ volume' \in [Ordinals -> {Broken} \cup 0 .. MaxTime]
  BY DEF CopyInv, TypeOK
<1>2. \A q \in Ordinals : volume'[q] = volume[q] \/ volume'[q] # OldData
  BY DEF CopyInv, TypeOK
<1>3. JobsCopy'
  BY <1>2 DEF CopyInv, TypeOK, JobsCopy
<1>4. AboutToComplete'
  <2>1. \A q \in 0 .. op.want - 1 : q \in Ordinals
    BY RestoreAssumption DEF CopyInv, TypeOK, OpTypes, Ordinals
  <2> QED
    BY <1>2, <2>1 DEF CopyInv, AboutToComplete, Others
<1> QED
  BY <1>1, <1>3, <1>4 DEF CopyInv, TypeOK, StoreTypeOK, Others

\* Neither a job nor a database beneath it puts the old data back.
LEMMA JobStep ==
  ASSUME CopyInv, NEW o \in Ordinals,
         \/ JobStarts(o) \/ JobRestores(o) \/ JobSucceeds(o) \/ JobRetries(o) \/ JobDies(o)
         \/ DatabaseWrites(o)
  PROVE  CopyInv'
<1>1. /\ jobs \in [Ordinals -> JobTypes] /\ jobs[o] \in JobTypes
      /\ volume \in [Ordinals -> {Broken} \cup 0 .. MaxTime]
      /\ volume[o] \in {Broken} \cup 0 .. MaxTime
  BY DEF CopyInv, TypeOK
<1>2. ASSUME UNCHANGED volume
      PROVE  volume' = [volume EXCEPT ![o] = volume'[o]] /\ volume'[o] = volume[o]
  BY <1>1, <1>2
<1>8. beneath' \in SUBSET Ordinals
  BY DEF JobStarts, JobRestores, JobSucceeds, JobRetries, JobDies, DatabaseWrites, Replaces,
         CopyInv, TypeOK
<1>3. CASE JobStarts(o)
  <2>1. PICK t \in 0 .. MaxTime :
          jobs' = [jobs EXCEPT ![o].run = "download", ![o].from = t]
    BY <1>3 DEF JobStarts
  <2> DEFINE job == [jobs[o] EXCEPT !.run = "download", !.from = t]
  <2>2. jobs' = [jobs EXCEPT ![o] = job]
    BY <2>1, <1>1
  <2>3. job \in JobTypes /\ job.run = "download"
    BY <1>1 DEF JobTypes
  <2> HIDE DEF job
  <2> QED
    BY <1>1, <1>2, <1>3, <2>2, <2>3, <1>8, JobChanges DEF JobStarts
<1>4. CASE JobRestores(o)
  <2> DEFINE from == IF store[jobs[o].from] = "complete" THEN jobs[o].from ELSE Broken
             job  == [jobs[o] EXCEPT !.run = "restore", !.from = from]
  <2>1. jobs' = [jobs EXCEPT ![o] = job]
    BY <1>1, <1>4 DEF JobRestores
  <2>2. from \in {Broken} \cup 0 .. MaxTime /\ from # OldData
    BY <1>1, <1>4 DEF JobRestores, JobTypes, OldData, Broken
  <2>3. job \in JobTypes /\ job.run = "restore" /\ job.from = from
    BY <1>1, <2>2 DEF JobTypes
  <2>4. /\ volume' = [volume EXCEPT ![o] = volume'[o]]
        /\ volume'[o] = Broken /\ volume'[o] # OldData
    BY <1>1, <1>4 DEF JobRestores, Broken, OldData
  <2> HIDE DEF job, from
  <2> QED
    BY <1>4, <2>1, <2>2, <2>3, <2>4, <1>8, JobChanges DEF JobRestores
<1>5. CASE JobSucceeds(o)
  <2> DEFINE job == [jobs[o] EXCEPT !.run = "succeeded"]
  <2>1. jobs' = [jobs EXCEPT ![o] = job]
    BY <1>1, <1>5 DEF JobSucceeds
  <2>2. job \in JobTypes /\ job.run = "succeeded"
    BY <1>1 DEF JobTypes
  <2>3. jobs[o].from \in {Broken} \cup 0 .. MaxTime /\ jobs[o].from # OldData
    BY <1>1, <1>5 DEF JobSucceeds, JobTypes, CopyInv, JobsCopy
  <2>4. volume' = [volume EXCEPT ![o] = volume'[o]] /\ volume'[o] = jobs[o].from
    BY <1>1, <1>5 DEF JobSucceeds
  <2> HIDE DEF job
  <2> QED
    BY <1>5, <2>1, <2>2, <2>3, <2>4, <1>8, JobChanges DEF JobSucceeds
<1>6. CASE JobRetries(o)
  <2>1. PICK evicted \in BOOLEAN :
          jobs' = [jobs EXCEPT ![o].run = IF @ = "restore" /\ ~evicted THEN @ ELSE "pending",
                               ![o].failed = @ \/ evicted,
                               ![o].tries = @ + 1]
    BY <1>6 DEF JobRetries
  <2> DEFINE run    == IF jobs[o].run = "restore" /\ ~evicted THEN jobs[o].run ELSE "pending"
             failed == jobs[o].failed \/ evicted
             tries  == jobs[o].tries + 1
             job    == [jobs[o] EXCEPT !.run = run, !.failed = failed, !.tries = tries]
  <2>2. jobs' = [jobs EXCEPT ![o] = job]
    BY <1>1, <2>1
  <2>3. tries \in 0 .. BackoffLimit
    <3>1. jobs[o].tries \in 0 .. BackoffLimit /\ jobs[o].tries < BackoffLimit
      BY <1>1, <1>6 DEF JobRetries, CanRetry, JobTypes
    <3> QED
      BY <3>1, RestoreAssumption
  <2>4. failed \in BOOLEAN
    BY <1>1
  <2>5. run \in {"pending", "restore"} /\ (run = "restore" => jobs[o].run = "restore")
    OBVIOUS
  <2> HIDE DEF run, failed, tries
  <2>6. job \in JobTypes /\ job.run = run /\ job.from = jobs[o].from
    BY <1>1, <2>3, <2>4, <2>5 DEF JobTypes
  <2>7. job.run = "restore" => job.from # OldData
    BY <2>5, <2>6 DEF CopyInv, JobsCopy
  <2> HIDE DEF job
  <2> QED
    BY <1>1, <1>2, <1>6, <2>2, <2>5, <2>6, <2>7, <1>8, JobChanges DEF JobRetries
<1>7. CASE JobDies(o)
  <2> DEFINE job == [jobs[o] EXCEPT !.run = "dead", !.failed = TRUE]
  <2>1. jobs' = [jobs EXCEPT ![o] = job]
    BY <1>1, <1>7 DEF JobDies
  <2>2. job \in JobTypes /\ job.run = "dead"
    BY <1>1 DEF JobTypes
  <2> HIDE DEF job
  <2> QED
    BY <1>1, <1>2, <1>7, <2>1, <2>2, <1>8, JobChanges DEF JobDies
<1>9. CASE DatabaseWrites(o)
  <2> DEFINE from == IF jobs[o].run = "restore" THEN Broken ELSE jobs[o].from
             job  == [jobs[o] EXCEPT !.from = from]
  <2>1. jobs' = [jobs EXCEPT ![o] = job]
    BY <1>1, <1>9 DEF DatabaseWrites
  <2>2. /\ from \in {Broken} \cup 0 .. MaxTime
        /\ jobs[o].run = "restore" => from # OldData
    BY <1>1 DEF JobTypes, OldData, Broken
  <2>3. job \in JobTypes /\ job.run = jobs[o].run /\ job.from = from
    BY <1>1, <2>2 DEF JobTypes
  <2>4. /\ volume' = [volume EXCEPT ![o] = volume'[o]]
        /\ volume'[o] = Broken /\ volume'[o] # OldData
    BY <1>1, <1>9 DEF DatabaseWrites, Broken, OldData
  <2> HIDE DEF job, from
  <2> QED
    BY <1>8, <1>9, <2>1, <2>2, <2>3, <2>4, JobChanges DEF DatabaseWrites
<1> QED
  BY <1>3, <1>4, <1>5, <1>6, <1>7, <1>9

\* Every step preserves the invariant.
LEMMA CopyStep == CopyInv /\ [Next]_vars => CopyInv'
<1> SUFFICES ASSUME CopyInv, [Next]_vars PROVE CopyInv'
  OBVIOUS
<1>1. CASE Next
  BY <1>1, ReconcilerStep, OutsideStep, JobStep DEF Next
<1>2. CASE UNCHANGED vars
  BY <1>2 DEF vars, CopyInv, TypeOK, StoreTypeOK, JobsCopy, AboutToComplete
<1> QED
  BY <1>1, <1>2

\* The restore model's variables keep their types, for all constants: no step of
\* the reconciler, the jobs or the uploads leaves them (module Restore).
THEOREM TypeCorrect == Spec => []TypeOK
<1>1. CopyInv => TypeOK
  BY DEF CopyInv
<1> QED
  BY <1>1, CopyInit, CopyStep, PTL DEF Spec

\* A restore is recorded as Completed only when every volume of the cluster it
\* looked at has been overwritten, for any number of replicas, edits and retries,
\* paused or not, whatever fails (checkRestoreJob, handleScaleUp).
THEOREM CopiedWhenCompleted == Spec => CompletedMeansCopied
<1>1. CopyInv /\ [Next]_vars =>
        [phase # "Completed" /\ phase' = "Completed" =>
           \A o \in 0 .. op.want - 1 : volume[o] # OldData]_vars
  <2> SUFFICES ASSUME CopyInv, Next, phase # "Completed", phase' = "Completed"
               PROVE  \A o \in 0 .. op.want - 1 : volume[o] # OldData
    BY DEF vars
  <2>1. WriteStatus
    BY DEF Next, Begin, LookupFails, Work, ScaleToZero, StillServing, CreateJobs,
           RestoreFails, StillRestoring, RestoreDone, LoseStatus, ClusterReconcile,
           StsStatus, StsCreate, PodReady, StsDelete, PodGone, PodMoves, JobStarts,
           JobRestores, JobSucceeds, JobRetries, JobDies, DatabaseWrites, OtherUpload,
           OtherUploaded, EditReplicas, Restorer, Others, Elsewhere
  <2> QED
    BY <2>1 DEF WriteStatus, CopyInv, AboutToComplete
<1> QED
  BY <1>1, CopyInit, CopyStep, PTL DEF Spec, CompletedMeansCopied


-----------------------------------------------------------------------------
(* A restore that has completed leaves the volumes alone *)

\* Every reconcile looks at the volumes the cluster has now.
SameTargets ==
  /\ op.pc # "idle" => op.want = replicas
  /\ \A o \in Ordinals : o >= replicas => jobs[o].run = "none"

\* Whoever says that the restore is complete: the reconcile that has found it so, the
\* status that was written from it.
CompletionClaimed == phase = "Completed" \/ (op.pc = "write" /\ op.phase = "Completed")

AllSucceeded == \A o \in Ordinals : o < replicas => jobs[o].run = "succeeded"

DoneInv == CopyInv /\ SameTargets /\ (CompletionClaimed => AllSucceeded)

\* So it is until spec.replicas is edited.
QuietInv == CopyInv /\ (edits = 0 => DoneInv)

\* Initially there are no jobs and nobody claims anything.
LEMMA DoneInit == Init => QuietInv
<1> SUFFICES ASSUME Init PROVE QuietInv
  OBVIOUS
<1>1. op.pc = "idle" /\ phase = "Pending" /\ \A o \in Ordinals : jobs[o].run = "none"
  BY DEF Init, IdleOp, NoJob
<1> QED
  BY <1>1, CopyInit DEF QuietInv, DoneInv, SameTargets, CompletionClaimed

\* A step that leaves the cluster's replicas alone, lets no succeeded job start again
\* and claims nothing new keeps the invariant.
LEMMA NothingClaimed ==
  ASSUME DoneInv, CopyInv', replicas' = replicas,
         op'.pc # "idle" => op'.want = replicas,
         \A o \in Ordinals : /\ jobs[o].run = "succeeded" => jobs'[o].run = "succeeded"
                             /\ o >= replicas /\ jobs[o].run = "none" => jobs'[o].run = "none",
         CompletionClaimed' => CompletionClaimed \/ AllSucceeded
  PROVE  DoneInv'
<1>1. SameTargets'
  BY DEF DoneInv, SameTargets
<1>2. CompletionClaimed' => AllSucceeded'
  BY DEF DoneInv, AllSucceeded
<1> QED
  BY <1>1, <1>2 DEF DoneInv

\* The reconciler: jobs are created for the cluster's volumes only, and a completion
\* is claimed once all of them have succeeded.
LEMMA DoneReconcile ==
  ASSUME DoneInv, Begin \/ LookupFails \/ Work \/ WriteStatus \/ LoseStatus
  PROVE  DoneInv'
<1>1. CopyInv' /\ op \in OpTypes /\ SameTargets /\ jobs \in [Ordinals -> JobTypes]
  BY ReconcilerStep DEF DoneInv, CopyInv, TypeOK
<1>2. replicas' = replicas
  BY DEF Begin, LookupFails, Work, ScaleToZero, StillServing, CreateJobs, RestoreFails,
         StillRestoring, RestoreDone, WriteStatus, LoseStatus, Cluster
<1>3. CASE Begin
  BY <1>1, <1>2, <1>3, NothingClaimed DEF Begin, CompletionClaimed
<1>4. CASE StillServing \/ StillRestoring \/ LoseStatus
  BY <1>1, <1>2, <1>4, NothingClaimed
     DEF StillServing, StillRestoring, LoseStatus, IdleOp, CompletionClaimed
<1>5. CASE WriteStatus
  BY <1>1, <1>2, <1>5, NothingClaimed DEF WriteStatus, IdleOp, CompletionClaimed
<1>6. CASE LookupFails \/ ScaleToZero \/ RestoreFails
  <2>1. PICK p \in {"Failed", "ScalingDown"} :
          ThenWrite(p) /\ op.pc = "act" /\ UNCHANGED <<phase, jobs>>
    BY <1>6 DEF LookupFails, ScaleToZero, RestoreFails
  <2>2. op'.pc = "write" /\ op'.phase = p /\ op'.want = replicas
    BY <1>1, <2>1 DEF ThenWrite, OpTypes, SameTargets
  <2> QED
    BY <1>1, <1>2, <2>1, <2>2, NothingClaimed DEF CompletionClaimed
<1>7. CASE CreateJobs
  <2>1. PICK k \in 0 .. op.want :
          /\ jobs' = Created({o \in Targets(op.want) : o < k})
          /\ IF k = op.want THEN ThenWrite("Restoring") ELSE op' = IdleOp
    BY <1>7 DEF CreateJobs
  <2>2. op.want = replicas /\ UNCHANGED phase
    BY <1>1, <1>7 DEF CreateJobs, SameTargets
  <2>3. /\ op'.pc # "idle" => op'.want = replicas
        /\ ~(op'.pc = "write" /\ op'.phase = "Completed")
    <3>1. CASE op' = IdleOp
      BY <3>1 DEF IdleOp
    <3>2. CASE ThenWrite("Restoring")
      BY <1>1, <2>2, <3>2, ThenWriteType DEF Phases
    <3> QED
      BY <2>1, <3>1, <3>2
  <2>4. ASSUME NEW o \in Ordinals
        PROVE  /\ jobs[o].run = "succeeded" => jobs'[o].run = "succeeded"
               /\ o >= replicas /\ jobs[o].run = "none" => jobs'[o].run = "none"
    <3>1. jobs'[o] = jobs[o] \/ (o \in Targets(op.want) /\ jobs[o].run = "none")
      BY <2>1 DEF Created
    <3>2. o \in Targets(op.want) => ~(o >= replicas)
      BY <1>1, <2>2 DEF Targets, OpTypes, Ordinals
    <3> QED
      BY <3>1, <3>2
  <2> QED
    BY <1>1, <1>2, <2>2, <2>3, <2>4, NothingClaimed DEF CompletionClaimed
<1>8. CASE RestoreDone
  <2>1. op.want = replicas /\ op'.want = op.want /\ UNCHANGED <<phase, jobs>>
    BY <1>1, <1>8 DEF RestoreDone, SameTargets, ThenWrite, OpTypes
  <2>2. AllSucceeded
    BY <1>1, <1>8, <2>1
       DEF RestoreDone, AllDone, AnyFailed, AllSucceeded, OpTypes, Ordinals
  <2> QED
    BY <1>1, <1>2, <2>1, <2>2, NothingClaimed
<1> QED
  BY <1>3, <1>4, <1>5, <1>6, <1>7, <1>8 DEF Work

\* Nobody else touches the jobs of a restore.
LEMMA DoneOutside ==
  ASSUME DoneInv,
         \/ ClusterReconcile \/ StsStatus \/ OtherUpload \/ OtherUploaded
         \/ \E o \in Ordinals : StsCreate(o) \/ PodReady(o) \/ StsDelete(o) \/ PodGone(o)
  PROVE  DoneInv'
<1>1. CopyInv' /\ SameTargets
  BY OutsideStep DEF DoneInv
<1>2. UNCHANGED <<replicas, phase, op, jobs>>
  BY DEF ClusterReconcile, StsStatus, OtherUpload, OtherUploaded, StsCreate, PodReady,
         StsDelete, PodGone, PodMoves, Restorer, Elsewhere
<1> QED
  BY <1>1, <1>2, NothingClaimed DEF CompletionClaimed, SameTargets

\* A job that has succeeded runs no more, whatever a database does to its volume.
LEMMA DoneJobs ==
  ASSUME DoneInv, NEW n \in Ordinals,
         \/ JobStarts(n) \/ JobRestores(n) \/ JobSucceeds(n) \/ JobRetries(n) \/ JobDies(n)
         \/ DatabaseWrites(n)
  PROVE  DoneInv'
<1>1. CopyInv' /\ SameTargets /\ jobs \in [Ordinals -> JobTypes] /\ jobs[n] \in JobTypes
  BY JobStep DEF DoneInv, CopyInv, TypeOK
<1>2. UNCHANGED <<replicas, phase, op>>
  BY DEF JobStarts, JobRestores, JobSucceeds, JobRetries, JobDies, DatabaseWrites, Others
<1>3. \A o \in Ordinals \ {n} : jobs'[o] = jobs[o]
  BY <1>1 DEF JobStarts, JobRestores, JobSucceeds, JobRetries, JobDies, DatabaseWrites
<1>4. \/ jobs[n].run \notin {"none", "succeeded"}
      \/ jobs'[n].run = jobs[n].run
  <2>1. CASE DatabaseWrites(n)
    BY <1>1, <2>1 DEF DatabaseWrites, JobTypes
  <2> QED
    BY <2>1 DEF JobStarts, JobRestores, JobSucceeds, JobRetries, JobDies, Active
<1> QED
  BY <1>1, <1>2, <1>3, <1>4, NothingClaimed DEF CompletionClaimed, SameTargets

\* Every step preserves the invariant; an edit ends what it says.
LEMMA DoneStep == QuietInv /\ [Next]_vars => QuietInv'
<1> SUFFICES ASSUME QuietInv, [Next]_vars PROVE QuietInv'
  OBVIOUS
<1>1. CopyInv'
  BY CopyStep DEF QuietInv
<1>2. ASSUME edits' = 0 PROVE DoneInv'
  <2>1. ~EditReplicas
    BY <1>2 DEF EditReplicas, QuietInv, CopyInv, TypeOK
  <2>2. CASE Next
    <3>1. edits = 0
      BY <1>2, <2>1, <2>2
         DEF Next, Begin, LookupFails, Work, ScaleToZero, StillServing, CreateJobs,
             RestoreFails, StillRestoring, RestoreDone, WriteStatus, LoseStatus, Cluster,
             ClusterReconcile, StsStatus, StsCreate, PodReady, StsDelete, PodGone, PodMoves,
             JobStarts, JobRestores, JobSucceeds, JobRetries, JobDies, DatabaseWrites,
             OtherUpload, OtherUploaded, Others, Elsewhere
    <3> QED
      BY <2>1, <2>2, <3>1, DoneReconcile, DoneOutside, DoneJobs DEF Next, QuietInv
  <2>3. CASE UNCHANGED vars
    <3>1. DoneInv /\ UNCHANGED <<replicas, phase, op, jobs>>
      BY <1>2, <2>3 DEF vars, QuietInv
    <3> QED
      BY <1>1, <3>1, NothingClaimed DEF CompletionClaimed, DoneInv, SameTargets
  <2> QED
    BY <2>2, <2>3
<1> QED
  BY <1>1, <1>2 DEF QuietInv

\* As long as spec.replicas is not edited, no job of a restore that is recorded as
\* Completed runs, for every number of replicas and retries, paused or not,
\* whatever fails and however often a phase is recorded anew.
THEOREM CompletedAlwaysQuiet == Spec => []CompletedIsQuiet
<1>1. QuietInv => CompletedIsQuiet
  <2> SUFFICES ASSUME QuietInv, phase = "Completed", edits = 0, NEW o \in Ordinals
               PROVE  ~Active(o)
    BY DEF CompletedIsQuiet
  <2>1. DoneInv /\ replicas \in Int /\ o \in Int
    BY DEF QuietInv, DoneInv, CopyInv, TypeOK, Ordinals
  <2>2. jobs[o].run \in {"none", "succeeded"}
    BY <2>1 DEF DoneInv, SameTargets, CompletionClaimed, AllSucceeded
  <2> QED
    BY <2>2 DEF Active
<1> QED
  BY <1>1, DoneInit, DoneStep, PTL DEF Spec

=============================================================================
