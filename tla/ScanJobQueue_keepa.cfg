SPECIFICATION FairSpec
CONSTANTS
  Jobs = {1, 2, 3}
  First = {a}
  Second = {b}
  NoWorker = NoWorker
  None = None
  Slow = {}
  Keepa = TRUE
  SeenFirst = {"gone"}
  SeenSecond = {"gone"}
  MaxAttempts = 1
  MaxTries = 1
  MaxClaims = 4
  MaxLate = 0
  MaxLosses = 1
CHECK_DEADLOCK FALSE
PROPERTIES CandidateSettles SavedIsDelivered
