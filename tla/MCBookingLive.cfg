\* Liveness: two bookings share one slot, the process stays up.
CONSTANTS
  Bookings = {b1, b2}
  Partners = {p1}
  Claims = {}
  Methods = {"ONLINE"}
  Channels = {}
  Slots = {s1}
  NoPartner = NoPartner
  Phases = 1
  CancelUntil = 0
  StartFrom = 1
  MaxRows = 2
  MaxCrashes = 0
SPECIFICATION FairSpec
PROPERTIES
  SearchEnds
  CancelledSearchRefunded
CHECK_DEADLOCK FALSE
