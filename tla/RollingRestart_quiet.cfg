\* No faults but proxies that refuse calls for as long as they like.
SPECIFICATION FairSpec
CONSTANTS
  MaxReplicas = 3
  Proxies = {p1, p2}
  Revs = {A, B}
  MaxEdits = 2
  OrderedReady = TRUE
  Faults = {"refuse"}
INVARIANT TypeOK
PROPERTIES ReplacedOutOfRotation RestartedOnce RolloutFinishes
