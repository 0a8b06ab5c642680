\* two topics of node 1 share its slots and its wake channel; nodes 1 and 2 dial each other
CONSTANTS
  Nodes <- ThreeNodes
  MaxPeers = 2
  DialRatio = 2
  Searchers <- TwoNodesDial
  NodeOf <- NodeOfPair
  Registrants <- ThreeNodes
  Modes = {"conn", "continuous"}
  TargetCount = 0
  Intervals = 0
  Churners = {1}
  ModelChurn = TRUE
  LookupOnly = FALSE
  MaxDrops = 1
  MaxDeparts = 1
  Expires = FALSE
SPECIFICATION Spec
INVARIANTS
  SlotAccounting
  OneConnectionPerPair
  WithinCapacity
  NoLostWakeup
CHECK_DEADLOCK FALSE
