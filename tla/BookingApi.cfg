\* Clients repeat and race under one key, an empty one or none.
SPECIFICATION Spec
CONSTANTS
  Clients = {c1, c2, c3}
  Keys = {k1}
  NoKey = NoKey
  EmptyKey = EmptyKey
  Payloads = {p1, p2}
  MaxTries = 2
  NoBooking = NoBooking
  Refused = Refused
  NoClient = NoClient
SYMMETRY ApiSymmetry
INVARIANTS IndInv OneBookingPerKey AnswersTrue
PROPERTY ImplementsKeyedBooking
CHECK_DEADLOCK FALSE
