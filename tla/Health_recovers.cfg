SPECIFICATION FairSpec
CONSTANTS
  Replicas = 2
  Timeout = 1
  MaxFailovers = 1
  Enabled = TRUE
  MaxEdits = 2
  MaxFails = 1
  FileCounts = {0, 1, 3}
  IntMax = 31
  Faults = {"error", "busy", "lost"}
PROPERTY StatusRecovers
PROPERTY ReplicationReported
PROPERTY DeletionEnds
\* A cluster that is gone is not reconciled any more.
CHECK_DEADLOCK FALSE
