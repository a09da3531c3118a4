\* Two bookings, two events, one row that is never relayed.
SPECIFICATION Spec
CONSTANTS
  Bookings = {b1, b2}
  Events = {e1, e2}
  NoEvent = NoEvent
  MaxQuantity = 2
  MaxCapacity = 2
  Nonces = {0, 1}
  MaxAbandoned = 1
SYMMETRY IdSymmetry
INVARIANTS TypeOK OneMessagePerStep NotificationsTruthful QuietMeansAgreed
PROPERTY ImplementsSeatLedger
CHECK_DEADLOCK FALSE
