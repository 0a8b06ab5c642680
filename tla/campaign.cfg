SPECIFICATION Spec
CONSTANTS
  Window = 6
  Unit = 2
  GapCrawls = {1, 2}
  NumNodes = 4
  Crawled <- ThreeTopics
  AllCrawled = {1, 2}
  RunTopics = 2
  Common = {TRUE, FALSE}
  Octets = 2
  Tries = 2
  Inventories <- SmallInventories
  PinSets <- Pins
  Home = "eu"
  DropHosts = {h1, h2}
  Units = {1, 2}
  StopAt = 2
  LastTick = 3
  MaxDrops = 2
  MaxTaken = 4
  Jobs = 5
  HostOfJob <- Queues
  PerHost = 2
  Sem = 3
  Dumpers <- Teardowns
  MaxInstances = 2
  MaxTraffic = 3
  MaxTicks = 2
INVARIANTS
  DrivenAsPlanned
  PlacementSound
  DropVerdictSound
  EveryJobOnce
  StatsNeverOvercount
  DumpIsComplete
SYMMETRY HostSymmetry
CHECK_DEADLOCK FALSE
