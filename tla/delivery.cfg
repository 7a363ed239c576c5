CONSTANTS
  MaxRounds = 2
  MaxSendbacks = 1
  Machines = {m1, m2}
  Publishing = TRUE
  MaxRuns = 3
  MaxFaults = 1
  Disputed = 1
  Others <- MCOthers
SPECIFICATION DeliverySpec
CHECK_DEADLOCK FALSE
SYMMETRY Symmetric
INVARIANTS  ReviewsReachWriters ReadyIsAccepted
PROPERTIES RunsGetOn
