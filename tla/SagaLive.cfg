\* Everything that was started ends.
SPECIFICATION FairSpec
CONSTANTS
  Bookings = {b1, b2}
  Events = {e1}
  NoEvent = NoEvent
  MaxQuantity = 1
  MaxCapacity = 1
  Nonces = {0}
  MaxAbandoned = 1
PROPERTIES BookingsSettle CancelledSeatsReturn OutcomesNotified
CHECK_DEADLOCK FALSE
