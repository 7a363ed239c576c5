SPECIFICATION HistorySpec
CONSTANTS
  MaxMessages = 2
  Older <- OldestIsOlder
  MaxChanges = 2
  MaxFaults = 3
INVARIANTS
  HistoryComplete
  ShowsLatest
PROPERTIES
  PageFetchKept
CHECK_DEADLOCK FALSE
