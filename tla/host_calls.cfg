\* one run of a monitored host: a departure, a rejoin, one lost or late call
CONSTANTS
  Nodes <- OneNode
  Arrivals = {}
  Tasks <- AllTasks
  MaxRuns = 1
  MaxProcs = 1
  MaxSamples = 1
  Monitored = TRUE
  Boot = 1
  Plan <- OneDeparture
  Attempts = 1
  LateSlots = 1
  MaxFaults = 1
SPECIFICATION FairSpec
INVARIANTS
  FetchAddsUp
  DeparturesAccountedFor
PROPERTIES
  EveryCallAnswered
CHECK_DEADLOCK FALSE
