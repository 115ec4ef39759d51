\* Two handlers in flight over one booking and two partners: wallet and gateway.
CONSTANTS
  Bookings = {b1}
  Partners = {p1, p2}
  Claims = {}
  Methods = {"ONLINE", "CASH"}
  Channels = {"GATEWAY"}
  Slots = {s1, s2}
  NoPartner = NoPartner
  Phases = 1
  CancelUntil = 0
  StartFrom = 1
  MaxRows = 1
  MaxCrashes = 0
SPECIFICATION Spec
SYMMETRY Sym
INVARIANTS
  TypeOK
  PartnerImpliesFunded
  PayoutFollowsBothCodes
  StartVerifyIsOnlyEntry
  CashNeverReachesPartner
  SearchIsTimed
  CancelledIsRefunded
PROPERTIES
  PartnerNeverReplaced
  KeepsMilestones
CHECK_DEADLOCK FALSE
