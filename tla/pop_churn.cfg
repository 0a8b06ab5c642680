\* both churn modes: a bootnode, a legacy node, the joiners of two rounds
CONSTANTS
  Initial = 3
  Legacy <- LastLegacy
  NumTopics = 1
  PerRound = 2
  Deadline = 3
  HardLimit = 4
  MaxNodes = 5
  Setups <- SmallRuns
SPECIFICATION FairSpec
INVARIANTS
  FoundWithinAssigned
  ResultsComplete
  ReportAddsUp
PROPERTIES
  PopulationSpec
  WorkloadEnds
CHECK_DEADLOCK FALSE
