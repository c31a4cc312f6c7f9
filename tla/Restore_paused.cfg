\* The cluster's own reconciler is paused.
SPECIFICATION FairSpec
CONSTANTS
  MaxTime = 1
  Retention = 1
  MaxReplicas = 2
  BackoffLimit = 1
  MaxEdits = 0
  Paused = TRUE
  Faults = {"lost", "error", "jobfail"}
CHECK_DEADLOCK FALSE
INVARIANT TypeOK
PROPERTY RestoreEnds
