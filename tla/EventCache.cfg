\* Reads and writes of one event overlap, and calls to Redis fail.
SPECIFICATION FairSpec
CONSTANTS
  Readers = {r1, r2}
  Versions = {1, 2, 3}
  FirstVersion = 1
  TTL = 3
  Delay = 2
  None = None
INVARIANTS IndInv StalenessBounded StalenessExplained
PROPERTY FreshAtLast
CHECK_DEADLOCK FALSE
