\* Three bookings compete for the seats of one event whose capacity changes.
SPECIFICATION Spec
CONSTANTS
  Bookings = {b1, b2, b3}
  Events = {e1}
  NoEvent = NoEvent
  MaxQuantity = 2
  MaxCapacity = 3
  Nonces = {0, 1}
  MaxAbandoned = 0
SYMMETRY BookingSymmetry
INVARIANTS IndInv SeatsConserved StatusMatchesSeats OutcomeApplied NothingForgotten
CHECK_DEADLOCK FALSE
