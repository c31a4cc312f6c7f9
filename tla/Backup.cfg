\* Status writes fail, jobs are retried, die or are deleted, the
\* schedule changes and the cluster goes.
SPECIFICATION FairSpec
CONSTANTS
  MaxTime = 6
  Retention = 2
  Crons = {c1}
  BackoffLimit = 1
  MaxEdits = 2
  Faults = {"lost", "crash", "jobfail", "clustergone", "jobgone"}
\* A backup that has ended is left alone.
CHECK_DEADLOCK FALSE
INVARIANTS TypeOK CompletedIsStored
PROPERTY PhaseTellsOutcome
