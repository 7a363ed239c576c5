CONSTANTS
  Tabs = {t1}
  MaxMessages = 3
  MaxDrops = 1
SPECIFICATION FairSpec
CHECK_DEADLOCK FALSE
INVARIANTS HoldKeeps
PROPERTIES ReadsArrive BadgeSettles
