\* Two bookings and two partners, one request or job at a time.
CONSTANTS
  Bookings = {b1, b2}
  Partners = {p1, p2}
  Claims = {}
  Methods = {"ONLINE", "CASH"}
  Channels = {"GATEWAY"}
  Slots = {s1}
  NoPartner = NoPartner
  Phases = 1
  CancelUntil = 0
  StartFrom = 1
  MaxRows = 3
  MaxCrashes = 1
SPECIFICATION Spec
INVARIANT UntakenRefundsBounded
PROPERTY KeepsPromise
SYMMETRY Sym
CHECK_DEADLOCK FALSE
