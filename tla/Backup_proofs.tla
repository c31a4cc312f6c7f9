---------------------------- MODULE Backup_proofs ----------------------------
(***************************************************************************)
(* CompletedIsStored for every retention time, retry limit and choice of   *)
(* faults, with any number of scheduled jobs at a time in a prefix.        *)
(***************************************************************************)
EXTENDS Backup, TLAPS

\* Some folder of the prefix is a whole backup.
Stored == \E t \in Times : store[t] = "complete"

\* No folder is newer than the clock.
NoneAhead == \A t \in Times : t > now => store[t] = "none"

\* A folder that is being uploaded is too young for the retention of any
\* backup that ends meanwhile.
UploadsAreYoung ==
  \A k \in Kinds :
    jobs[k].run = "upload" => jobs[k].at \in Times /\ jobs[k].at <= now /\ jobs[k].at >= Cutoff

\* Whoever claims a success: a Job's status, the reconcile that has read it, the
\* status that was written from it.
SuccessClaimed ==
  \/ \E k \in Kinds : jobs[k].run = "succeeded"
  \/ op.pc = "write" /\ op.phase = "Completed"
  \/ phase = "Completed"

StoredInv == TypeOK /\ NoneAhead /\ UploadsAreYoung /\ (SuccessClaimed => Stored)

\* What the operator and the jobs start from.
LEMMA FreshTypes ==
  /\ NoJob \in JobTypes /\ NewJob \in JobTypes
  /\ IdleOp \in [pc : {"idle", "write"}, phase : Phases] /\ IdleOp.pc = "idle"
  /\ NoJob.run = "none" /\ NewJob.run = "snapshot"
<1>1. 0 \in 0 .. BackoffLimit /\ 0 \in 0 .. MaxTime
  BY StoreAssumption, BackupAssumption
<1>2. NoJob \in JobTypes /\ NoJob.run = "none"
  BY <1>1 DEF NoJob, JobTypes, Runs
<1>3. NewJob \in JobTypes /\ NewJob.run = "snapshot"
  BY <1>2 DEF NewJob, JobTypes, Runs
<1> QED
  BY <1>2, <1>3 DEF IdleOp, Phases

\* The initial states satisfy the invariant.
LEMMA StoredInit == Init => StoredInv
<1> SUFFICES ASSUME Init PROVE StoredInv
  OBVIOUS
<1>1. StoreTypeOK /\ NoneAhead
  BY StoreAssumption DEF Init, StoreTypeOK, NoneAhead, Times
<1>2. jobs \in [Kinds -> JobTypes] /\ \A k \in Kinds : jobs[k].run = "none"
  BY FreshTypes DEF Init
<1>3. exists \in BOOLEAN /\ scheduled \in BOOLEAN /\ cron \in BOOLEAN
  BY Zenon DEF Init
<1>4. edits \in 0 .. MaxEdits
  BY BackupAssumption DEF Init
<1>5. op \in [pc : {"idle", "write"}, phase : Phases] /\ op.pc = "idle" /\ phase = "Pending"
  BY FreshTypes DEF Init
<1>6. TypeOK
  BY <1>1, <1>2, <1>3, <1>4, <1>5 DEF TypeOK, Phases
<1> QED
  BY <1>1, <1>2, <1>5, <1>6 DEF StoredInv, UploadsAreYoung, SuccessClaimed

\* A step that leaves the clock and the store alone, starts no upload and claims
\* no success that has not been claimed keeps the invariant.
LEMMA NoTransfer ==
  ASSUME StoredInv, TypeOK', UNCHANGED <<now, store>>,
         \A k \in Kinds : jobs'[k].run = "upload" => jobs[k].run = "upload" /\ jobs'[k] = jobs[k],
         SuccessClaimed' => SuccessClaimed
  PROVE  StoredInv'
<1>1. NoneAhead' /\ (Stored <=> Stored') /\ Cutoff' = Cutoff
  BY DEF StoredInv, NoneAhead, Stored, Cutoff
<1>2. UploadsAreYoung'
  BY <1>1 DEF StoredInv, UploadsAreYoung
<1> QED
  BY <1>1, <1>2 DEF StoredInv

\* The reconciler: Completed is what it writes only after a Job's success.
LEMMA ReconcilerStep ==
  ASSUME StoredInv, Reconcile \/ WriteStatus \/ LoseStatus
  PROVE  StoredInv'
<1> USE FreshTypes
<1>1. UNCHANGED <<now, store, exists, scheduled, edits>>
  BY DEF Reconcile, ReconcileNoCluster, CreateJob, RecordOutcome, CreateCronJob, WriteStatus, LoseStatus
<1>2. cron' \in BOOLEAN
  BY Zenon DEF StoredInv, TypeOK, Reconcile, ReconcileNoCluster, CreateJob, RecordOutcome,
               CreateCronJob, WriteStatus, LoseStatus
<1>3. /\ jobs' \in [Kinds -> JobTypes]
      /\ \A k \in Kinds : jobs'[k] = jobs[k] \/ jobs'[k].run = "snapshot"
  <2>1. CASE CreateJob
    BY <2>1 DEF CreateJob, StoredInv, TypeOK, Kinds
  <2>2. CASE UNCHANGED jobs
    BY <2>2 DEF StoredInv, TypeOK
  <2> QED
    BY <2>1, <2>2 DEF Reconcile, ReconcileNoCluster, RecordOutcome, CreateCronJob, WriteStatus, LoseStatus
<1>4. /\ op' \in [pc : {"idle", "write"}, phase : Phases]
      /\ phase' \in Phases
      /\ op'.pc = "write" /\ op'.phase = "Completed" => SuccessClaimed
      /\ phase' = "Completed" => SuccessClaimed
  <2>1. CASE Reconcile
    <3>1. Outcome(jobs["oneshot"]) \in Phases
      BY DEF Outcome, Phases
    <3>2. Outcome(jobs["oneshot"]) = "Completed" => jobs["oneshot"].run = "succeeded"
      BY DEF Outcome
    <3> QED
      BY <2>1, <3>1, <3>2 DEF Reconcile, ReconcileNoCluster, CreateJob, RecordOutcome, CreateCronJob,
         ThenWrite, SuccessClaimed, StoredInv, TypeOK, Phases, Kinds
  <2>2. CASE WriteStatus \/ LoseStatus
    BY <2>2 DEF WriteStatus, LoseStatus, SuccessClaimed, StoredInv, TypeOK
  <2> QED
    BY <2>1, <2>2
<1>5. TypeOK'
  BY <1>1, <1>2, <1>3, <1>4 DEF StoredInv, TypeOK, StoreTypeOK
<1>6. SuccessClaimed' => SuccessClaimed
  BY <1>3, <1>4 DEF SuccessClaimed
<1> QED
  BY <1>1, <1>3, <1>5, <1>6, NoTransfer

\* What a job does outside of the bucket: it is retried, dies, is deleted or is
\* started by the CronJob.
LEMMA JobStep ==
  ASSUME StoredInv,
         \/ \E k \in Kinds : JobRetries(k) \/ JobDies(k)
         \/ JobDeleted \/ \E k \in Crons : CronFires(k)
  PROVE  StoredInv'
<1> USE FreshTypes
<1>1. UNCHANGED <<now, store, exists, scheduled, phase, op, cron>>
  BY DEF JobRetries, JobDies, JobDeleted, CronFires, Outside
<1>2. edits' \in 0 .. MaxEdits
  <2>1. edits' = edits \/ (edits < MaxEdits /\ edits' = edits + 1)
    BY Zenon DEF JobRetries, JobDies, JobDeleted, CronFires, Outside
  <2> QED
    BY <2>1, BackupAssumption DEF StoredInv, TypeOK
<1>3. /\ jobs' \in [Kinds -> JobTypes]
      /\ \A k \in Kinds : jobs'[k] = jobs[k] \/ jobs'[k].run \in {"none", "snapshot", "dead"}
  <2>1. ASSUME NEW k \in Kinds, JobRetries(k) PROVE <1>3
    <3>1. PICK evicted \in BOOLEAN :
            jobs' = [jobs EXCEPT ![k].run = "snapshot", ![k].tries = @ + 1, ![k].failed = @ \/ evicted]
      BY <2>1, Zenon DEF JobRetries
    <3> DEFINE job == [jobs[k] EXCEPT !.run = "snapshot", !.tries = @ + 1, !.failed = @ \/ evicted]
    <3>2. jobs[k].tries + 1 \in 0 .. BackoffLimit
      <4>1. jobs[k].tries < BackoffLimit /\ jobs[k] \in JobTypes
        BY <2>1, Zenon DEF JobRetries, CanRetry, StoredInv, TypeOK
      <4> QED
        BY <4>1, BackupAssumption DEF JobTypes
    <3>3. (jobs[k].failed \/ evicted) \in BOOLEAN
      OBVIOUS
    <3>4. job \in JobTypes /\ job.run = "snapshot"
      BY <3>2, <3>3 DEF StoredInv, TypeOK, JobTypes, Runs
    <3>5. jobs' = [jobs EXCEPT ![k] = job]
      BY <3>1
    <3> HIDE DEF job
    <3> QED
      BY <3>4, <3>5 DEF StoredInv, TypeOK
  <2>2. ASSUME NEW k \in Kinds, JobDies(k) PROVE <1>3
    <3> DEFINE job == [jobs[k] EXCEPT !.run = "dead", !.failed = TRUE]
    <3>1. job \in JobTypes /\ job.run = "dead"
      BY DEF StoredInv, TypeOK, JobTypes, Runs
    <3>2. jobs' = [jobs EXCEPT ![k] = job]
      BY <2>2 DEF JobDies
    <3> HIDE DEF job
    <3> QED
      BY <3>1, <3>2 DEF StoredInv, TypeOK
  <2>3. CASE JobDeleted
    BY <2>3 DEF JobDeleted, StoredInv, TypeOK, Kinds
  <2>4. ASSUME NEW k \in Crons, CronFires(k) PROVE <1>3
    BY <2>4 DEF CronFires, StoredInv, TypeOK, Kinds
  <2> QED
    BY <2>1, <2>2, <2>3, <2>4
<1>4. TypeOK'
  BY <1>1, <1>2, <1>3 DEF StoredInv, TypeOK, StoreTypeOK
<1>5. SuccessClaimed' => SuccessClaimed
  BY <1>1, <1>3 DEF SuccessClaimed
<1> QED
  BY <1>1, <1>3, <1>4, <1>5, NoTransfer

\* An upload begins: every complete folder is older than the new one, and the
\* uploads that go on stay young enough.
LEMMA UploadStep ==
  ASSUME StoredInv, NEW k \in Kinds, JobUploads(k)
  PROVE  StoredInv'
<1>1. /\ now \in 0 .. MaxTime /\ now' = now + 1 /\ now' \in Times
      /\ store' = [store EXCEPT ![now + 1] = "partial"]
      /\ store \in [Times -> {"none", "partial", "complete"}]
  BY StoreAssumption DEF JobUploads, StartUpload, StoredInv, TypeOK, StoreTypeOK, Times
<1>2. UNCHANGED <<exists, scheduled, edits, phase, op, cron>>
  BY DEF JobUploads, Outside
<1> DEFINE job == [jobs[k] EXCEPT !.run = "upload", !.at = now + 1]
<1>3. job \in JobTypes /\ job.run = "upload" /\ job.at = now + 1
  <2>1. now + 1 \in 0 .. MaxTime /\ jobs[k] \in JobTypes
    BY <1>1, StoreAssumption DEF StoredInv, TypeOK, Times
  <2> QED
    BY <2>1 DEF JobTypes, Runs
<1>4. jobs' = [jobs EXCEPT ![k] = job]
  BY DEF JobUploads
<1> HIDE DEF job
<1>5. jobs' \in [Kinds -> JobTypes] /\ jobs'[k] = job /\ \A o \in Kinds \ {k} : jobs'[o] = jobs[o]
  BY <1>3, <1>4 DEF StoredInv, TypeOK
<1>6. TypeOK'
  BY <1>1, <1>2, <1>5, StoreAssumption DEF StoredInv, TypeOK, StoreTypeOK, Times
<1>7. NoneAhead'
  BY <1>1 DEF StoredInv, NoneAhead, Times
<1>8. Stored => Stored'
  BY <1>1 DEF StoredInv, NoneAhead, Stored, Times
<1>9. UploadsAreYoung'
  <2>1. \A o \in Kinds \ {k} : jobs[o].run = "upload" =>
           jobs[o].at \in Times /\ jobs[o].at <= now /\ jobs[o].at > Cutoff
    BY DEF JobUploads, StoredInv, UploadsAreYoung
  <2>2. Cutoff \in Int /\ Cutoff' = Cutoff + 1 /\ now' >= Cutoff'
    BY <1>1, StoreAssumption DEF Cutoff
  <2> QED
    BY <1>1, <1>3, <1>5, <2>1, <2>2 DEF UploadsAreYoung, Times
<1>10. SuccessClaimed' => SuccessClaimed
  BY <1>2, <1>3, <1>5 DEF SuccessClaimed
<1> QED
  BY <1>6, <1>7, <1>8, <1>9, <1>10 DEF StoredInv

\* An upload that ends leaves its own folder complete, whatever the retention
\* run behind it removes or leaves half removed.
LEMMA FinishKeepsOwn ==
  ASSUME StoreTypeOK, NEW t \in Times, t >= Cutoff, FinishUpload(t)
  PROVE  /\ StoreTypeOK' /\ now' = now
         /\ store'[t] = "complete"
         /\ \A u \in Times : u # t /\ store[u] = "none" => store'[u] = "none"
<1>1. PICK removed \in SUBSET Expired : \E half \in SUBSET (Expired \ removed) :
        store' = [u \in Times |-> CASE u \in removed -> "none"
                                    [] u \in half    -> "partial"
                                    [] u = t         -> "complete"
                                    [] OTHER         -> store[u]]
  BY DEF FinishUpload
<1>2. Cutoff \in Int
  BY StoreAssumption DEF Cutoff, StoreTypeOK
<1>3. t \notin Expired /\ \A u \in Times : store[u] = "none" => u \notin Expired
  BY <1>2 DEF Times, Expired
<1>4. store'[t] = "complete"
  BY <1>1, <1>3
<1>5. \A u \in Times : store'[u] \in {"none", "partial", "complete"}
  BY <1>1 DEF StoreTypeOK
<1>6. \A u \in Times : u # t /\ store[u] = "none" => store'[u] = "none"
  BY <1>1, <1>3
<1>7. now' = now
  BY DEF FinishUpload
<1> QED
  BY <1>1, <1>4, <1>5, <1>6, <1>7 DEF StoreTypeOK

\* A job succeeds: its folder is the one that is stored.
LEMMA SuccessStep ==
  ASSUME StoredInv, NEW k \in Kinds, JobSucceeds(k)
  PROVE  StoredInv'
<1> DEFINE t == jobs[k].at
<1>1. t \in Times /\ t <= now /\ t >= Cutoff
  BY DEF JobSucceeds, StoredInv, UploadsAreYoung
<1>2. FinishUpload(t) /\ StoreTypeOK
  BY DEF JobSucceeds, StoredInv, TypeOK
<1> HIDE DEF t
<1>3. /\ StoreTypeOK' /\ now' = now /\ store'[t] = "complete"
      /\ \A u \in Times : u # t /\ store[u] = "none" => store'[u] = "none"
  BY <1>1, <1>2, FinishKeepsOwn
<1>4. UNCHANGED <<exists, scheduled, edits, phase, op, cron>>
  BY DEF JobSucceeds, Outside
<1> DEFINE job == [jobs[k] EXCEPT !.run = "succeeded"]
<1>5. job \in JobTypes /\ job.run = "succeeded"
  BY DEF StoredInv, TypeOK, JobTypes, Runs
<1>6. jobs' = [jobs EXCEPT ![k] = job]
  BY DEF JobSucceeds
<1> HIDE DEF job
<1>7. jobs' \in [Kinds -> JobTypes] /\ jobs'[k].run = "succeeded" /\ \A o \in Kinds \ {k} : jobs'[o] = jobs[o]
  BY <1>5, <1>6 DEF StoredInv, TypeOK
<1>8. TypeOK'
  BY <1>3, <1>4, <1>7 DEF StoredInv, TypeOK
<1>9. NoneAhead'
  BY <1>1, <1>3 DEF StoredInv, NoneAhead, TypeOK, StoreTypeOK, Times
<1>10. UploadsAreYoung'
  BY <1>3, <1>7 DEF StoredInv, UploadsAreYoung, Cutoff
<1>11. Stored'
  BY <1>1, <1>3 DEF Stored
<1> QED
  BY <1>8, <1>9, <1>10, <1>11 DEF StoredInv

\* The user and the cluster change nothing that a backup has stored.
LEMMA UserStep ==
  ASSUME StoredInv, EditSchedule \/ ClusterDeleted
  PROVE  StoredInv'
<1>1. UNCHANGED <<now, store, phase, op, cron, jobs>>
  BY DEF EditSchedule, ClusterDeleted
<1>2. exists' \in BOOLEAN /\ scheduled' \in BOOLEAN
  BY Zenon DEF EditSchedule, ClusterDeleted, StoredInv, TypeOK
<1>3. edits' \in 0 .. MaxEdits
  BY BackupAssumption DEF EditSchedule, ClusterDeleted, StoredInv, TypeOK
<1>4. TypeOK'
  BY <1>1, <1>2, <1>3 DEF StoredInv, TypeOK, StoreTypeOK
<1>5. SuccessClaimed' => SuccessClaimed
  BY <1>1 DEF SuccessClaimed
<1> QED
  BY <1>1, <1>4, <1>5, NoTransfer

\* The invariant holds in every reachable state.
LEMMA StoredInvariant == Spec => []StoredInv
<1>1. StoredInv /\ [Next]_vars => StoredInv'
  <2> SUFFICES ASSUME StoredInv, [Next]_vars PROVE StoredInv'
    OBVIOUS
  <2>1. CASE UNCHANGED vars
    <3>1. TypeOK'
      BY <2>1 DEF vars, StoredInv, TypeOK, StoreTypeOK
    <3>2. SuccessClaimed' => SuccessClaimed
      BY <2>1 DEF vars, SuccessClaimed
    <3> QED
      BY <2>1, <3>1, <3>2, NoTransfer DEF vars
  <2>2. CASE Next
    BY <2>2, ReconcilerStep, JobStep, UploadStep, SuccessStep, UserStep DEF Next
  <2> QED
    BY <2>1, <2>2
<1> QED
  BY <1>1, StoredInit, PTL DEF Spec

\* The backup controller's state, its jobs and the bucket are well formed in
\* every behaviour (HyperbytedbBackupReconciler).
THEOREM TypeCorrect == Spec => []TypeOK
<1>1. StoredInv => TypeOK
  BY DEF StoredInv
<1> QED
  BY <1>1, StoredInvariant, PTL

\* A backup that is reported Completed is in the bucket, whatever fails, is
\* retried or is deleted, for every retention time of at least a day: no
\* retention run takes the last complete folder (reconcileJob, s3UploadContainer).
THEOREM CompletedStored == Spec => []CompletedIsStored
<1>1. StoredInv => CompletedIsStored
  BY DEF StoredInv, SuccessClaimed, Stored, CompletedIsStored
<1> QED
  BY <1>1, StoredInvariant, PTL

=============================================================================
