\* a rejoin wakes one of the node's searchers
CONSTANTS
  Nodes <- ThreeNodes
  MaxPeers = 2
  DialRatio = 2
  Searchers <- TwoTopics
  NodeOf <- NodeOfPair
  Registrants <- ThreeNodes
  Modes = {"continuous"}
  TargetCount = 0
  Intervals = 0
  Churners = {1}
  ModelChurn = TRUE
  LookupOnly = TRUE
  MaxDrops = 0
  MaxDeparts = 1
  Expires = FALSE
SPECIFICATION FairSpec
PROPERTIES
  WaiterResumes
CHECK_DEADLOCK FALSE
