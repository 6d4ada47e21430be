SPECIFICATION FairSpec
CONSTANTS
  Jobs = {j1}
  Tokens = {t1, t2, t3, t4, t5}
  NoJob = NoJob
  NoToken = NoToken
  Cap = 1
  PaidMode = FALSE
  MaxAttempts = 2
  BrowserRecovery = TRUE
  LedgerFaults = TRUE
  MaxDelayed = 0
INVARIANTS PaidOnlyIfReserved CompletedHasPaidResult
PROPERTIES SavedIsSubmitted
