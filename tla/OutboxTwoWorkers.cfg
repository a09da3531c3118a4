\* A claim expires while its worker is still publishing.
SPECIFICATION Spec
CONSTANTS
  Rows = {r1, r2}
  InlineRows = {r1}
  Workers = {w1, w2}
  NoWorker = NoWorker
  NoRow = NoRow
  MaxAttempts = 2
  BatchLimit = 2
INVARIANT RowProcessedByOneWorker
CHECK_DEADLOCK FALSE
