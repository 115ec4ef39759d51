\* One process, two handlers in flight: every interleaving.
CONSTANTS
  Funds = 1
  Slots = {s1, s2}
  Processes = {{s1, s2}}
  MaxCrashes = 1
  Withdrawals = {w1, w2}
  Payout = 1
  Calls = {c1, c2}
  Hold = 1
  Redis = TRUE
  Orders = {o1}
  TopUp = 1
SPECIFICATION Spec
SYMMETRY Sym
CONSTRAINT FewEntries
INVARIANTS
  TypeOK
  HeldIsHolds
  OneOpenWithdrawal
  
 
CHECK_DEADLOCK FALSE
