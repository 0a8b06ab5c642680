\* counters over two sessions; the three search models for an arrival
CONSTANTS
  Jobs <- LedgerAndSearch
  Peers = {p1}
  MaxDialed = 1
  EventCap = 1
SPECIFICATION Spec
INVARIANTS
  LedgerExact
  SamplesCumulative
  TraceCoversRun
  NoSearchOnStoppedServer
  RecordedWithinSchedule
