SPECIFICATION PanelSpec
CONSTANTS
  Sends <- OwnSends
  Others <- OthersPost
  Replies <- InThread
  MaxReactions = 1
  MaxToggles = 1
  MaxFetches = 2
  MaxFaults = 1
INVARIANTS
  OnceEach
  RowsSettle
  RootSettles
CHECK_DEADLOCK FALSE
