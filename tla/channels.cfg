CONSTANTS
  People = {ada, bob}
  Slots = {c1, c2}
  Names = {n1, n2}
  Requests = {r1, r2}
  Ops <- Every
SPECIFICATION Spec
CHECK_DEADLOCK FALSE
SYMMETRY Symmetric
INVARIANTS KeeperStays DmAnnounced
PROPERTIES SawWhatItRenames
