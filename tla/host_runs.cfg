\* two runs on one agent, one churn event, one lost or late call
CONSTANTS
  Nodes <- OneNode
  Arrivals = {1}
  Tasks <- AllTasks
  MaxRuns = 2
  MaxProcs = 2
  MaxSamples = 0
  Monitored = FALSE
  Boot = 0
  Plan <- OneArrival
  Attempts = 1
  LateSlots = 1
  MaxFaults = 1
SPECIFICATION Spec
INVARIANTS
  OneProcessPerNode
  OwnExitNotKilled
  TracesOfThisRun
CHECK_DEADLOCK FALSE
