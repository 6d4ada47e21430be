SPECIFICATION Spec
CONSTANTS
  Jobs = {1, 2}
  First = {a}
  Second = {b}
  NoWorker = NoWorker
  None = None
  Slow = {b}
  Keepa = FALSE
  SeenFirst = {"gone", "dearer"}
  SeenSecond = {"gone", "error"}
  MaxAttempts = 2
  MaxTries = 2
  MaxClaims = 3
  MaxLate = 1
  MaxLosses = 1
CHECK_DEADLOCK FALSE
INVARIANTS TypeOK MutationIsConfirmed ChargedOncePerClaim
