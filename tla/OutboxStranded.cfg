\* The last attempt of a row ends without bookkeeping.
SPECIFICATION Spec
CONSTANTS
  Rows = {r1, r2}
  InlineRows = {r1}
  Workers = {w1, w2}
  NoWorker = NoWorker
  NoRow = NoRow
  MaxAttempts = 2
  BatchLimit = 2
SYMMETRY OutboxSymmetry
INVARIANT UnfinishedRowStaysAvailable
CHECK_DEADLOCK FALSE
