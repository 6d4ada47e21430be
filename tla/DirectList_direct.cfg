SPECIFICATION FairSpec
CONSTANTS
  w1 = w1
  w2 = w2
  x1 = x1
  Asins = {a1}
  Ready = {x1}
  Workers = {w1, w2}
  Runners = {r1}
  None = None
  MaxAttempts = 2
  MaxJobs = 3
  MaxCommands = 2
  Shifts <- ThreeShifts
INVARIANTS TypeOK PublishedIsListed ListedOnce
PROPERTIES  OutcomeArrives JobsRun
