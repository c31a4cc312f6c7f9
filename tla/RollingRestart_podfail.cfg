\* Pods fail, the operator crashes and reads one write behind.
SPECIFICATION Spec
CONSTANTS
  MaxReplicas = 2
  Proxies = {}
  Revs = {A, B}
  MaxEdits = 2
  OrderedReady = FALSE
  Faults = {"stale", "crash", "podfail", "overlap"}
SYMMETRY RevSymmetry
INVARIANT UpdatedAbove
PROPERTY ReplacedInTurn
