\* Two clients, a memory for one, and calls to Redis that fail late.
SPECIFICATION FairSpec
CONSTANTS
  Clients = {c1, c2}
  NoClient = NoClient
  Slots = {q1}
  MaxRequests = 2
  Window = 2
  Lag = 1
  MaxEntries = 1
INVARIANTS IndInv TypeOK BurstBounded
PROPERTY RefusalsEnd
CHECK_DEADLOCK FALSE
