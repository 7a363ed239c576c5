CONSTANTS
  Tabs = {t1, t2}
  Slots = {s1, s2}
  Home = home
  Others = {team}
  MaxRows = 3
  MaxEvents = 1
SPECIFICATION SessionsSpec
CHECK_DEADLOCK FALSE
SYMMETRY Symmetric
INVARIANTS  SessionKept LateAnswersLose
