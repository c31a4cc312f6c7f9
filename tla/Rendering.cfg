\* Edits, errors, stale reads and restarts of containers.
SPECIFICATION FairSpec
CONSTANTS
  Submissions <- MCSubmissions
  First <- MCFirst
  MaxReplicas = 2
  LocalVersion = 4
  MaxEdits = 2
  MaxFaults = 1
  Faults = {"error", "stale", "restart"}
INVARIANTS TypeOK StaleWillRestart TokensAgree
PROPERTIES PodsConverge ProxiesConverge
