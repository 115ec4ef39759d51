\* Liveness: one subscription paid by UPI, two handlers in flight, a restart.
CONSTANTS
  MaxSubs = 1
  Plans = {p1}
  Slots = {s1, s2}
  Horizon = 2
  MaxMoney = 0
  MaxWindows = 0
  MaxRestarts = 1
SPECIFICATION FairSpec
PROPERTIES
  
  PaidOpensAccess
CHECK_DEADLOCK FALSE
