\* One edit after another, while pods are replaced, nodes become unreachable and everything may fail.
SPECIFICATION Spec
CONSTANTS
  MaxReplicas = 3
  Regions = {r1}
  MaxEdits = 2
  MaxCut = 1
  Sharding = FALSE
  Together = TRUE
  Faults = {"crash", "restarting", "cut", "replaced"}
INVARIANTS VotersBelong OutsideIsEmpty
PROPERTIES LogNeverReverts NoDataDestroyed FormedMeansMembers ImplementsMembership
