SPECIFICATION Spec
CONSTANTS
  l1 = l1
  l2 = l2
  Asins = {1, 2}
  Listings = {l1, l2}
  AsinOf <- TwoAsins
  Stocks = {"zeroed","stocked"}
  Sales = {l1}
  Emitters = {e1}
  Modes = {"daemon","bootstrap-only"}
  PageSize = 1
  MaxRounds = 1
  SlowCommit = TRUE
  NoHash = NoHash
  MaxEvents = 5
  MaxChanges = 2
  MaxFaults = 0
INVARIANTS NeverAhead 
 
