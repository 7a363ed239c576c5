SPECIFICATION FairSpec
CONSTANTS
  m1 = m1
  r1 = r1
  r2 = r2
  Messages <- OneMessage
  Requests <- TwoRequests
  MaxEdits = 1
  MaxJobs = 3
INVARIANTS
  EveryChangeAccounted
  SearchIsRight
PROPERTIES
  ImplementsLaggingCopy
  IndexCatchesUp
