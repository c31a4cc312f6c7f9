SPECIFICATION Spec
CONSTANTS
  Replicas = 2
  Timeout = 1
  MaxFailovers = 2
  Enabled = TRUE
  MaxEdits = 1
  MaxFails = 0
  FileCounts = {0}
  IntMax = 31
  Faults = {"error", "busy", "lost", "slow", "stale"}
INVARIANT TypeOK
INVARIANT FailoversCounted
\* A cluster that is gone is not reconciled any more.
CHECK_DEADLOCK FALSE
