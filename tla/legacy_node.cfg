\* one node, all three models
CONSTANTS
  Models = {"conn", "scheduled", "continuous"}
  Arrivals = {TRUE, FALSE}
  ForkBuild = TRUE
  Lookups = 1
  EventCap = 1
  Ages = {1, 2}
  MaxRequests = 2
  Budget = 2
SPECIFICATION Spec
INVARIANTS
  LegacyLedger
  CutLookupsUnrecorded
  OperationNeverStuck
CHECK_DEADLOCK FALSE
