SPECIFICATION FairSpec
CONSTANTS
  Jobs = {j1}
  Listings = {l1}
  Handlers = {h1}
  Processors = {p1}
  NoJob = NoJob
  NoOp = NoOp
  BatchLimit = 5
  MaxTries = 2
  Overrun = TRUE
  MaxRestarts = 1
CHECK_DEADLOCK FALSE
INVARIANTS CallIsOnRecord AppliedIsOnEbay
PROPERTIES RowIsSettled
