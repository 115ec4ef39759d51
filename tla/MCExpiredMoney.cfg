\* A search swept when a partner lists jobs.
CONSTANTS
  Bookings = {b1}
  Partners = {p1}
  Claims = {}
  Methods = {"ONLINE"}
  Channels = {}
  Slots = {s1}
  NoPartner = NoPartner
  Phases = 1
  CancelUntil = 0
  StartFrom = 1
  MaxRows = 2
  MaxCrashes = 0
SPECIFICATION FairSpec
PROPERTY ExpiredGivesMoneyBack
CHECK_DEADLOCK FALSE
