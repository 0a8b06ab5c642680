\* one topic per node: parked and departed searchers are woken
CONSTANTS
  Nodes <- ThreeNodes
  MaxPeers = 2
  DialRatio = 2
  Searchers <- SearcherOfOne
  NodeOf <- NodeOfPair
  Registrants <- ThreeNodes
  Modes = {"conn", "continuous", "scheduled"}
  TargetCount = 2
  Intervals = 2
  Churners = {1, 2}
  ModelChurn = TRUE
  LookupOnly = TRUE
  MaxDrops = 2
  MaxDeparts = 1
  Expires = TRUE
SPECIFICATION FairSpec
INVARIANTS
  EveryIntervalLookedUp
  GoneIsIsolated
PROPERTIES
  ParkedSearcherWakes
  WaiterResumes
CHECK_DEADLOCK FALSE
