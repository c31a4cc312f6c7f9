-------------------------------- MODULE Backup --------------------------------
(***************************************************************************)
(* HyperbytedbBackupReconciler with the Job and the CronJob it creates     *)
(* (their controllers are external) and the S3 prefix they write to.       *)
(*                                                                         *)
(* A reconcile reads the backup and its objects and acts on them           *)
(* (Reconcile...), then stores the new phase (WriteStatus); the jobs run   *)
(* in between. An error of Status().Update is ignored by the code.         *)
(*                                                                         *)
(* Abstractions: the Pending and the empty phase are one. Of the CronJob's *)
(* jobs, which may overlap, as many are there at a time as Crons has       *)
(* names. Conditions repeat the phase.                                     *)
(***************************************************************************)
EXTENDS SnapshotStore, FiniteSets

CONSTANTS
  Crons,         \* names for the CronJob's jobs, each for one at a time
  BackoffLimit,  \* the jobs' backoffLimit (3 in the code)
  MaxEdits,      \* bound on the user's edits of spec.schedule and deletions of the Job
  Faults         \* which of FaultKinds happen

\* "lost": a status write fails. "crash": the operator stops in a reconcile.
\* "jobfail": containers fail and pods are evicted.
\* "clustergone": the cluster is deleted. "jobgone": a finished Job is deleted.
FaultKinds == {"lost", "crash", "jobfail", "clustergone", "jobgone"}

ASSUME BackupAssumption ==
  /\ IsFiniteSet(Crons) /\ "oneshot" \notin Crons
  /\ BackoffLimit \in Nat /\ MaxEdits \in Nat
  /\ Faults \subseteq FaultKinds

VARIABLES
  exists,     \* whether the referenced cluster is there
  scheduled,  \* whether spec.schedule is set
  edits,      \* how many of them the user has made
  phase,      \* status.phase
  op,         \* the reconcile under way, with the phase it is to write
  cron,       \* whether the CronJob exists
  jobs        \* the Job named after the backup, and the CronJob's

vars == <<now, store, exists, scheduled, edits, phase, op, cron, jobs>>

Phases == {"Pending", "Running", "Completed", "Failed"}

Kinds == {"oneshot"} \cup Crons

Runs == {"none", "snapshot", "upload", "succeeded", "dead"}

\* failed: status.failed > 0; at: the folder being uploaded.
JobTypes == [run : Runs, failed : BOOLEAN, tries : 0 .. BackoffLimit, at : 0 .. MaxTime]

NoJob == [run |-> "none", failed |-> FALSE, tries |-> 0, at |-> 0]

NewJob == [NoJob EXCEPT !.run = "snapshot"]

TypeOK ==
  /\ StoreTypeOK
  /\ exists \in BOOLEAN /\ scheduled \in BOOLEAN /\ cron \in BOOLEAN
  /\ edits \in 0 .. MaxEdits
  /\ phase \in Phases
  /\ op \in [pc : {"idle", "write"}, phase : Phases]
  /\ jobs \in [Kinds -> JobTypes]

IdleOp == [pc |-> "idle", phase |-> "Pending"]

Init ==
  /\ now = 0 /\ store = [t \in Times |-> "none"]
  /\ exists = TRUE /\ scheduled \in BOOLEAN /\ edits = 0
  /\ phase = "Pending"
  /\ op = IdleOp
  /\ cron = FALSE
  /\ jobs = [k \in Kinds |-> NoJob]

-----------------------------------------------------------------------------
(* The operator *)

ThenWrite(p) == op' = [pc |-> "write", phase |-> p]

ReconcileNoCluster ==
  /\ op.pc = "idle"
  /\ ~exists
  /\ ThenWrite("Failed")
  /\ UNCHANGED <<now, store, exists, scheduled, edits, phase, cron, jobs>>

\* reconcileJob: a backup that has ended creates no Job again.
CreateJob ==
  /\ op.pc = "idle"
  /\ exists /\ ~scheduled
  /\ jobs["oneshot"].run = "none"
  /\ phase \notin {"Completed", "Failed"}
  /\ jobs' = [jobs EXCEPT !["oneshot"] = NewJob]
  /\ ThenWrite("Running")
  /\ UNCHANGED <<now, store, exists, scheduled, edits, phase, cron>>

\* Seeded fault of Outcome: a failed pod hides a later success.
FailureFirst(job) ==
  IF job.failed THEN "Failed" ELSE IF job.run = "succeeded" THEN "Completed" ELSE "Running"

\* What status.succeeded and status.failed of the Job come to.
Outcome(job) ==
  IF job.run = "succeeded" THEN "Completed" ELSE IF job.failed THEN "Failed" ELSE "Running"

\* reconcileJob, the Job exists; one that still runs is left alone.
RecordOutcome ==
  /\ op.pc = "idle"
  /\ exists /\ ~scheduled
  /\ jobs["oneshot"].run # "none"
  /\ Outcome(jobs["oneshot"]) # "Running"
  /\ ThenWrite(Outcome(jobs["oneshot"]))
  /\ UNCHANGED <<now, store, exists, scheduled, edits, phase, cron, jobs>>

\* reconcileCronJob; an existing CronJob is only brought up to date.
CreateCronJob ==
  /\ op.pc = "idle"
  /\ exists /\ scheduled
  /\ ~cron
  /\ cron' = TRUE
  /\ ThenWrite("Running")
  /\ UNCHANGED <<now, store, exists, scheduled, edits, phase, jobs>>

WriteStatus ==
  /\ op.pc = "write"
  /\ phase' = op.phase
  /\ op' = IdleOp
  /\ UNCHANGED <<now, store, exists, scheduled, edits, cron, jobs>>

LoseStatus ==
  /\ Faults \cap {"lost", "crash"} # {}
  /\ op.pc = "write"
  /\ op' = IdleOp
  /\ UNCHANGED <<now, store, exists, scheduled, edits, phase, cron, jobs>>

Reconcile ==
  ReconcileNoCluster \/ CreateJob \/ RecordOutcome \/ CreateCronJob

-----------------------------------------------------------------------------
(* The jobs: buildBackupJob, snapshotBackupInitContainer, s3UploadContainer *)

Outside == <<exists, scheduled, edits, phase, op, cron>>

Active(k) == jobs[k].run \in {"snapshot", "upload"}

\* The snapshot is taken and the upload begins, in a folder of its own. No
\* upload lasts longer than the retention time.
JobUploads(k) ==
  /\ jobs[k].run = "snapshot"
  /\ \A other \in Kinds : jobs[other].run = "upload" => jobs[other].at > Cutoff
  /\ StartUpload
  /\ jobs' = [jobs EXCEPT ![k].run = "upload", ![k].at = now + 1]
  /\ UNCHANGED Outside

JobSucceeds(k) ==
  /\ jobs[k].run = "upload"
  /\ FinishUpload(jobs[k].at)
  /\ jobs' = [jobs EXCEPT ![k].run = "succeeded"]
  /\ UNCHANGED Outside

\* Seeded fault of CanRetry: one attempt too many.
RetriesOnceMore(job) == job.tries <= BackoffLimit

CanRetry(job) == job.tries < BackoffLimit

\* The pod is evicted, and another one starts from the snapshot; or the upload
\* fails and is restarted in place, in a new folder. What was uploaded stays.
JobRetries(k) ==
  /\ "jobfail" \in Faults
  /\ Active(k)
  /\ CanRetry(jobs[k])
  /\ \E evicted \in BOOLEAN :
       jobs' = [jobs EXCEPT ![k].run = "snapshot", ![k].tries = @ + 1,
                            ![k].failed = @ \/ evicted]
  /\ UNCHANGED <<now, store>> /\ UNCHANGED Outside

JobDies(k) ==
  /\ "jobfail" \in Faults
  /\ Active(k)
  /\ ~CanRetry(jobs[k])
  /\ jobs' = [jobs EXCEPT ![k].run = "dead", ![k].failed = TRUE]
  /\ UNCHANGED <<now, store>> /\ UNCHANGED Outside

\* All jobs have the time for all their attempts: this bounds how often a job
\* is started anew.
TimeLeft == now + Cardinality(Kinds) * (BackoffLimit + 1) <= MaxTime

JobDeleted ==
  /\ "jobgone" \in Faults
  /\ jobs["oneshot"].run \in {"succeeded", "dead"}
  /\ TimeLeft
  /\ edits < MaxEdits
  /\ edits' = edits + 1
  /\ jobs' = [jobs EXCEPT !["oneshot"] = NoJob]
  /\ UNCHANGED <<now, store, exists, scheduled, phase, op, cron>>

\* The CronJob starts a job whether or not the one before has ended (its
\* concurrencyPolicy is left at Allow).
CronFires(k) ==
  /\ cron
  /\ ~Active(k)
  /\ TimeLeft
  /\ jobs' = [jobs EXCEPT ![k] = NewJob]
  /\ UNCHANGED <<now, store>> /\ UNCHANGED Outside

-----------------------------------------------------------------------------
(* The user *)

EditSchedule ==
  /\ edits < MaxEdits
  /\ edits' = edits + 1
  /\ scheduled' = ~scheduled
  /\ UNCHANGED <<now, store, exists, phase, op, cron, jobs>>

ClusterDeleted ==
  /\ "clustergone" \in Faults
  /\ exists
  /\ exists' = FALSE
  /\ UNCHANGED <<now, store, scheduled, edits, phase, op, cron, jobs>>

Next ==
  \/ Reconcile \/ WriteStatus \/ LoseStatus
  \/ \E k \in Kinds : JobUploads(k) \/ JobSucceeds(k) \/ JobRetries(k) \/ JobDies(k)
  \/ JobDeleted \/ \E k \in Crons : CronFires(k)
  \/ EditSchedule \/ ClusterDeleted

Spec == Init /\ [][Next]_vars

\* The work queue and the cache's periodic resync keep reconciling, a status
\* write goes through now and then, and the jobs end, one way or the other.
Fairness ==
  /\ WF_vars(Reconcile) /\ SF_vars(WriteStatus)
  /\ \A k \in Kinds : WF_vars(JobUploads(k)) /\ WF_vars(JobSucceeds(k))

FairSpec == Spec /\ Fairness

-----------------------------------------------------------------------------
(* Properties *)

\* A backup that is reported Completed is in the bucket: its upload has ended,
\* and no retention run, of this or of a later backup, takes the last complete
\* folder away (reconcileJob, s3UploadContainer).
CompletedIsStored ==
  phase = "Completed" => \E t \in Times : store[t] = "complete"

\* The phase of a one-shot backup ends up as its Job's outcome, although status
\* writes may fail unnoticed, a Job may report a failure and succeed later or be
\* deleted, and the user may switch between one-shot and scheduled (reconcileJob).
PhaseTellsOutcome ==
  <>[](~scheduled =>
         /\ phase \in {"Completed", "Failed"}
         /\ exists /\ jobs["oneshot"].run = "succeeded" => phase = "Completed"
         /\ ~exists \/ jobs["oneshot"].run = "dead" => phase = "Failed")
=============================================================================
