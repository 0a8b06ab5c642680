\* two nodes pinged by two pools; one node probed in quick succession; one with the sampler on
CONSTANTS
  Network <- TwoNodes
  Bootnodes = {1}
  LiveWorkers = {"l1"}
  DeadWorkers = {"d1"}
  LiveCap = 1
  DeadCap = 1
  NewTries = 1
  Setups <- ProbesAndSamples
SPECIFICATION FairSpec
INVARIANTS
  QueuedOnce
  LogFollowsRegistry
  FinalSweepAddsUp
PROPERTIES
  FastNodesProbed
  EndsAfterStop
CHECK_DEADLOCK FALSE
