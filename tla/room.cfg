SPECIFICATION RoomSpec
CONSTANTS
  ada = ada
  bob = bob
  p1 = p1
  p2 = p2
  h1 = h1
  h2 = h2
  Users <- TwoUsers
  Author = ada
  MayDie = TRUE
  Replies <- TwoReplies
  Handlers <- TwoHandlers
SYMMETRY Symmetric
INVARIANTS
  TombstoneCleared
  UndisturbedCounts
  LastWriterCountsAll
