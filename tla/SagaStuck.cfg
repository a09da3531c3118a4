\* A relay gives up and nobody compensates.
SPECIFICATION FairSpec
CONSTANTS
  Bookings = {b1, b2}
  Events = {e1}
  NoEvent = NoEvent
  MaxQuantity = 1
  MaxCapacity = 1
  Nonces = {0}
  MaxAbandoned = 1
PROPERTY EveryBookingSettles
CHECK_DEADLOCK FALSE
