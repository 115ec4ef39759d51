\* One subscription over three periods, two handlers in flight.
CONSTANTS
  MaxSubs = 1
  Plans = {p1, p2}
  Slots = {s1, s2}
  Horizon = 2
  MaxMoney = 1
  MaxWindows = 1
  MaxRestarts = 0
SPECIFICATION Spec
INVARIANTS
  TypeOK
  
  AccessIsPaid
  PeriodPaidOnce
SYMMETRY Sym
CHECK_DEADLOCK FALSE
