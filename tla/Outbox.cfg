\* Two workers that may be slower than the claim timeout, and an inline handler.
SPECIFICATION FairSpec
CONSTANTS
  Rows = {r1, r2}
  InlineRows = {r1}
  Workers = {w1, w2}
  NoWorker = NoWorker
  NoRow = NoRow
  MaxAttempts = 2
  BatchLimit = 2
INVARIANTS TypeOK PublishedIsOnTopic SendsBounded OneWorkerPerRow GivenUpLast
PROPERTIES PublishedIsFinal RowsSettle ImplementsRelay
CHECK_DEADLOCK FALSE
