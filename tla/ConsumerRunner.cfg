\* Two runners share a partition of records of every content.
SPECIFICATION FairSpec
CONSTANTS
  Runners = {r1, r2}
  NoRunner = NoRunner
  LastOffset = 3
  MaxAttempts = 2
INVARIANTS IndInv NoRecordSkipped CommittedRecordsDone
PROPERTIES EveryRecordEnds ImplementsDelivery
CHECK_DEADLOCK FALSE
