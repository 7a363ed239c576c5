SPECIFICATION Spec
CONSTANTS
  Channels = {c1, c2}
  c1 = c1
  c2 = c2
  m1 = m1
  m2 = m2
  Messages = {m1, m2}
  None = None
  MaxFiles = 2
  MaxChosen = 2
  MaxFaults = 2
SYMMETRY Symmetric
CHECK_DEADLOCK FALSE
INVARIANTS OnePlace SavedFilesOpen AllOrNone NoStandoff
