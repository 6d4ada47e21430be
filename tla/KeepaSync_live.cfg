SPECIFICATION FairSpec
CONSTANTS
  l1 = l1
  l2 = l2
  Asins = {1}
  Listings = {l1}
  AsinOf <- OneAsin
  Stocks = {"ended", "stocked"}
  Sales = {}
  Emitters = {e1}
  Modes = {"daemon"}
  PageSize = 2
  MaxRounds = 1
  SlowCommit = FALSE
  NoHash = NoHash
  MaxEvents = 4
  MaxChanges = 3
  MaxFaults = 1
INVARIANTS TypeOK DeliveredIsRecorded 
PROPERTIES Settles ScansAgreed
