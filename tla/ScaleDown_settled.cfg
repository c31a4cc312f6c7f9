\* One edit after another, by the user or by the autoscaler, and nothing fails.
SPECIFICATION FairSpec
CONSTANTS
  MaxReplicas = 3
  Regions = {r1}
  MaxEdits = 3
  MaxCut = 0
  Sharding = TRUE
  Together = FALSE
  Faults = {"policy", "hpa"}
INVARIANTS TypeOK DeletedVolumesEmpty
PROPERTIES OneAtATime ScaleSettles
