\* Everything at once.
SPECIFICATION Spec
CONSTANTS
  MaxTime = 2
  Retention = 1
  MaxReplicas = 2
  BackoffLimit = 0
  MaxEdits = 1
  Paused = FALSE
  Faults = {"lost", "error", "jobfail", "upload"}
CHECK_DEADLOCK FALSE
INVARIANT CompletedIsQuiet
PROPERTY CompletedMeansCopied
