\* A request with an empty key is repeated.
SPECIFICATION Spec
CONSTANTS
  Clients = {c1, c2}
  Keys = {k1}
  NoKey = NoKey
  EmptyKey = EmptyKey
  Payloads = {p1, p2}
  MaxTries = 2
  NoBooking = NoBooking
  Refused = Refused
  NoClient = NoClient
INVARIANT RepeatsAreAnswered
CHECK_DEADLOCK FALSE
