SPECIFICATION Spec
CONSTANTS
  Jobs = {j1, j2}
  Tokens = {t1, t2, t3}
  NoJob = NoJob
  NoToken = NoToken
  Cap = 1
  PaidMode = TRUE
  MaxAttempts = 2
  BrowserRecovery = FALSE
  LedgerFaults = FALSE
  MaxDelayed = 1
SYMMETRY Symmetry
INVARIANTS CapRespected PaidOnlyIfReserved
PROPERTIES TerminalIsFinal
