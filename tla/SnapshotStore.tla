---------------------------- MODULE SnapshotStore ----------------------------
(***************************************************************************)
(* The backups under one S3 prefix, as the scripts of s3_transfer.go leave *)
(* them: one folder per upload, named by the time the upload started.      *)
(* `aws s3 sync` is not atomic, so a folder is partial until it ends.      *)
(* Time is counted in uploads: every upload starts at a time of its own.   *)
(***************************************************************************)
EXTENDS Integers

CONSTANTS
  MaxTime,   \* bound on the clock
  Retention  \* retentionDays, in the clock's unit

ASSUME StoreAssumption == MaxTime \in Nat \ {0} /\ Retention \in Nat \ {0}

VARIABLES
  now,    \* the time of the last upload
  store   \* the folders by time

Times == 1 .. MaxTime

StoreTypeOK ==
  /\ now \in 0 .. MaxTime
  /\ store \in [Times -> {"none", "partial", "complete"}]

\* s3UploadContainer: a new TIMESTAMP, and the sync begins.
StartUpload ==
  /\ now < MaxTime
  /\ now' = now + 1
  /\ store' = [store EXCEPT ![now + 1] = "partial"]

\* Seeded fault of Cutoff: the sign of the date offset is lost.
CutoffAhead == now + Retention

Cutoff == now - Retention

Expired == {u \in Times : u < Cutoff /\ store[u] # "none"}

\* s3UploadContainer: the sync ends, then the folders older than the cutoff are
\* removed. Any removal may fail, at once or half way, and the loop goes on with the
\* next ("done || true").
FinishUpload(t) ==
  \E removed \in SUBSET Expired : \E half \in SUBSET (Expired \ removed) :
    /\ store' = [u \in Times |-> CASE u \in removed -> "none"
                                   [] u \in half    -> "partial"
                                   [] u = t         -> "complete"
                                   [] OTHER         -> store[u]]
    /\ UNCHANGED now

\* s3DownloadInitContainer: t is the newest folder, or 0 and there is none.
Newest(t) ==
  /\ t # 0 => store[t] # "none"
  /\ \A u \in Times : u > t => store[u] = "none"

=============================================================================
