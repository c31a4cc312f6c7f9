SPECIFICATION FairSpec
CONSTANTS
  Replicas = 1
  Timeout = 1
  MaxFailovers = 1
  Enabled = TRUE
  MaxEdits = 0
  MaxFails = 1
  FileCounts = {0}
  IntMax = 31
  Faults = {"slow"}
PROPERTY FailoverHappens
