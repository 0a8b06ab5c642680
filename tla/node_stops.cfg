\* every operation returns and the process ends
CONSTANTS
  Jobs <- StopJobs
  Peers = {}
  MaxDialed = 0
  EventCap = 1
SPECIFICATION FairSpec
PROPERTIES OperationEnds ExitsAfterStop
CHECK_DEADLOCK FALSE
