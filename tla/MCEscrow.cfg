\* Two attendees, two handlers in flight: every interleaving.
CONSTANTS
  Payers = {p1, p2}
  Organizer = org
  Amount = 1
  Funds = 1
  StartTime = 1
  ReleaseTime = 2
  Slots = {s1, s2}
  MaxCrashes = 1
SPECIFICATION EmptyPurseSpec
SYMMETRY Sym
INVARIANTS
  TypeOK
  
  ShareTellsOutcome
PROPERTY KeepsFeePromise
CHECK_DEADLOCK FALSE
