SPECIFICATION Spec
CONSTANTS
  Jobs = {j1}
  Tokens = {t1, t2, t3, t4, t5}
  NoJob = NoJob
  NoToken = NoToken
  Cap = 1
  PaidMode = FALSE
  MaxAttempts = 2
  BrowserRecovery = TRUE
  LedgerFaults = FALSE
  MaxDelayed = 1
INVARIANTS TypeOK AtMostOneCall CompletedHasPaidResult
PROPERTIES ExpiredClaimNeverPays PaysAsGranted
