SPECIFICATION Spec
CONSTANTS
  Jobs = {j1}
  Listings = {l1, l2}
  Handlers = {h1}
  Processors = {p1}
  NoJob = NoJob
  NoOp = NoOp
  BatchLimit = 5
  MaxTries = 2
  Overrun = FALSE
  MaxRestarts = 1
SYMMETRY Symmetry
CHECK_DEADLOCK FALSE
INVARIANTS TypeOK BlindCallIsFirst
PROPERTIES AppliedStays OneOwner
