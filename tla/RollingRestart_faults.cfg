\* Crashes, stale reads and proxies that come and go.
SPECIFICATION Spec
CONSTANTS
  MaxReplicas = 3
  Proxies = {p1, p2}
  Revs = {A, B}
  MaxEdits = 2
  OrderedReady = FALSE
  Faults = {"stale", "crash", "proxyfail", "overlap"}
SYMMETRY ProxySymmetry
INVARIANTS PartitionGuards ExclusionsAccountedFor
