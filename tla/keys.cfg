CONSTANTS
  Kids = {k1, k2}
  Forged = forged
  Requests = {r1, r2}
  MaxChanges = 3
SPECIFICATION Spec
CHECK_DEADLOCK FALSE
SYMMETRY Symmetric
INVARIANTS HeldKeyServes OutageIsNotRefusal FloorsHold DeadTokensAreOut
