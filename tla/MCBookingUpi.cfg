\* Two handlers in flight over one booking paid by manual UPI.
CONSTANTS
  Bookings = {b1}
  Partners = {p1}
  Claims = {u1}
  Methods = {"UPI_MANUAL"}
  Channels = {"UPI"}
  Slots = {s1, s2}
  NoPartner = NoPartner
  Phases = 1
  CancelUntil = 0
  StartFrom = 1
  MaxRows = 1
  MaxCrashes = 0
SPECIFICATION Spec
SYMMETRY Sym
INVARIANTS
  PartnerImpliesFunded
  RefundImpliesFunded
PROPERTY KeepsMilestones
CHECK_DEADLOCK FALSE
