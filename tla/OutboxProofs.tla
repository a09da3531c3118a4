---------------------------- MODULE OutboxProofs ----------------------------
(***************************************************************************)
(* What the outbox promises for any number of rows, workers and attempts:  *)
(* types, no mark without a message, no work after the mark, calls of the  *)
(* producer paid for with attempts, and claims that keep workers apart.    *)
(***************************************************************************)
EXTENDS Outbox, FiniteSetTheorems, TLAPS

\* A worker's memory is consistent: it has a row in hand exactly when it is about to
\* mark it or to record its failure, and marks only what is on the topic.
WorkersConsistent ==
  \A w \in Workers :
    /\ step[w] = "publish" <=> current[w] = NoRow
    /\ current[w] # NoRow => current[w] \in batch[w]
    /\ step[w] = "mark" => current[w] \in onTopic

\* The inline handler publishes before it marks.
InlineConsistent ==
  \A r \in Rows : /\ inline[r] # "none" => r \in InlineRows
                  /\ inline[r] = "mark" => r \in onTopic

\* Nobody deals with a row that does not exist yet.
AbsentUntouched ==
  \A r \in Rows : status[r] = "ABSENT" =>
    /\ inline[r] = "none"
    /\ sends[r] = 0
    /\ \A w \in Workers : r \notin batch[w]

\* A claim that has not expired is still its worker's, or the row is PUBLISHED.
ClaimsHold ==
  \A w \in Workers : \A r \in InTime(w) :
    \/ status[r] = "PUBLISHED"
    \/ status[r] = "PROCESSING" /\ claimedBy[r] = w /\ ~expired[r]

\* No row is within the time of two claims.
ClaimsApart ==
  \A w \in Workers : \A v \in Workers \ {w} : InTime(w) \intersect InTime(v) = {}

\* The inductive part that does not count.
Consistent ==
  /\ TypeOK
  /\ WorkersConsistent
  /\ InlineConsistent
  /\ AbsentUntouched
  /\ PublishedIsOnTopic
  /\ ClaimsHold
  /\ ClaimsApart

-----------------------------------------------------------------------------
(* Facts about single operators.                                           *)

\* What can be claimed is within the time of nobody's claim.
LEMMA ClaimableIsFree ==
  ASSUME Consistent, NEW r \in Rows, Claimable(r), NEW w \in Workers
  PROVE  r \notin InTime(w)
BY DEF Consistent, ClaimsHold, Claimable

LEMMA InitConsistent == Init => Consistent
<1> SUFFICES ASSUME Init PROVE Consistent
  OBVIOUS
<1>1. TypeOK
  BY OutboxAssumption DEF Init, TypeOK, RowStatus
<1>2. \A w \in Workers : InTime(w) = {}
  BY DEF Init, InTime
<1>3. WorkersConsistent /\ InlineConsistent /\ AbsentUntouched /\ PublishedIsOnTopic
  BY DEF Init, WorkersConsistent, InlineConsistent, AbsentUntouched, PublishedIsOnTopic
<1>4. ClaimsHold /\ ClaimsApart
  BY <1>2 DEF ClaimsHold, ClaimsApart
<1> QED
  BY <1>1, <1>3, <1>4 DEF Consistent

-----------------------------------------------------------------------------
(* Steps.                                                                  *)

\* A new row is in nobody's hands.
LEMMA InsertStep ==
  ASSUME Consistent, NEW r \in Rows, Insert(r)
  PROVE  Consistent'
<1> USE DEF Consistent, vars, workerVars, rowVars, topicVars
<1>1. TypeOK'
  BY OutboxAssumption DEF TypeOK, RowStatus, Insert
<1>2. WorkersConsistent'
  BY OutboxAssumption DEF TypeOK, RowStatus, WorkersConsistent, Insert
<1>3. InlineConsistent'
  BY DEF TypeOK, RowStatus, InlineConsistent, Insert
<1>4. AbsentUntouched'
  BY DEF TypeOK, RowStatus, AbsentUntouched, Insert
<1>5. PublishedIsOnTopic'
  BY DEF TypeOK, RowStatus, PublishedIsOnTopic, Insert
<1>6. ClaimsHold'
  BY DEF TypeOK, ClaimsHold, InTime, Insert
<1>7. ClaimsApart'
  BY DEF TypeOK, ClaimsApart, InTime, Insert
<1> QED
  BY <1>1, <1>2, <1>3, <1>4, <1>5, <1>6, <1>7

\* An expired claim is out of time from then on.
LEMMA ExpiryStep ==
  ASSUME Consistent, NEW r \in Rows, ClaimExpires(r)
  PROVE  Consistent'
<1> USE DEF Consistent, vars, workerVars, rowVars, topicVars
<1>1. TypeOK'
  BY OutboxAssumption DEF TypeOK, RowStatus, ClaimExpires
<1>2. WorkersConsistent'
  BY OutboxAssumption DEF TypeOK, RowStatus, WorkersConsistent, ClaimExpires
<1>3. InlineConsistent'
  BY DEF TypeOK, RowStatus, InlineConsistent, ClaimExpires
<1>4. AbsentUntouched'
  BY DEF TypeOK, RowStatus, AbsentUntouched, ClaimExpires
<1>5. PublishedIsOnTopic'
  BY DEF TypeOK, RowStatus, PublishedIsOnTopic, ClaimExpires
<1>6. ClaimsHold'
  BY DEF TypeOK, ClaimsHold, InTime, ClaimExpires
<1>7. ClaimsApart'
  BY DEF TypeOK, ClaimsApart, InTime, ClaimExpires
<1> QED
  BY <1>1, <1>2, <1>3, <1>4, <1>5, <1>6, <1>7

\* The inline handler writes to the topic.
LEMMA InlinePublishStep ==
  ASSUME Consistent, NEW r \in Rows, InlinePublish(r)
  PROVE  Consistent'
<1> USE DEF Consistent, vars, workerVars, rowVars, topicVars
<1>1. TypeOK'
  BY OutboxAssumption DEF TypeOK, RowStatus, InlinePublish, Send, WriteToTopic
<1>2. WorkersConsistent'
  BY OutboxAssumption DEF TypeOK, RowStatus, WorkersConsistent, InlinePublish, Send, WriteToTopic
<1>3. InlineConsistent'
  BY DEF TypeOK, RowStatus, InlineConsistent, InlinePublish, Send, WriteToTopic
<1>4. AbsentUntouched'
  BY DEF TypeOK, RowStatus, AbsentUntouched, InlinePublish, Send, WriteToTopic
<1>5. PublishedIsOnTopic'
  BY DEF TypeOK, RowStatus, PublishedIsOnTopic, InlinePublish, Send, WriteToTopic
<1>6. ClaimsHold'
  BY DEF TypeOK, ClaimsHold, InTime, InlinePublish, Send, WriteToTopic
<1>7. ClaimsApart'
  BY DEF TypeOK, ClaimsApart, InTime, InlinePublish, Send, WriteToTopic
<1> QED
  BY <1>1, <1>2, <1>3, <1>4, <1>5, <1>6, <1>7

\* It marks a row that is on the topic.
LEMMA InlineMarkStep ==
  ASSUME Consistent, NEW r \in Rows, InlineMark(r)
  PROVE  Consistent'
<1> USE DEF Consistent, vars, workerVars, rowVars, topicVars
<1>1. TypeOK'
  BY OutboxAssumption DEF TypeOK, RowStatus, InlineMark, MarkOutboxPublished
<1>2. WorkersConsistent'
  BY OutboxAssumption DEF TypeOK, RowStatus, WorkersConsistent, InlineMark, MarkOutboxPublished
<1>3. InlineConsistent'
  BY DEF TypeOK, RowStatus, InlineConsistent, InlineMark, MarkOutboxPublished
<1>4. AbsentUntouched'
  BY DEF TypeOK, RowStatus, AbsentUntouched, InlineMark, MarkOutboxPublished
<1>5. PublishedIsOnTopic'
  BY DEF TypeOK, InlineConsistent, PublishedIsOnTopic, InlineMark, MarkOutboxPublished
<1>6. ClaimsHold'
  BY DEF TypeOK, ClaimsHold, InTime, InlineMark, MarkOutboxPublished
<1>7. ClaimsApart'
  BY DEF TypeOK, ClaimsApart, InTime, InlineMark, MarkOutboxPublished
<1> QED
  BY <1>1, <1>2, <1>3, <1>4, <1>5, <1>6, <1>7

\* It gives up.
LEMMA InlineStopsStep ==
  ASSUME Consistent, NEW r \in Rows, InlineStops(r)
  PROVE  Consistent'
<1> USE DEF Consistent, vars, workerVars, rowVars, topicVars
<1>1. TypeOK'
  BY OutboxAssumption DEF TypeOK, RowStatus, InlineStops
<1>2. WorkersConsistent'
  BY OutboxAssumption DEF TypeOK, RowStatus, WorkersConsistent, InlineStops
<1>3. InlineConsistent'
  BY DEF TypeOK, RowStatus, InlineConsistent, InlineStops
<1>4. AbsentUntouched'
  BY DEF TypeOK, RowStatus, AbsentUntouched, InlineStops
<1>5. PublishedIsOnTopic'
  BY DEF TypeOK, RowStatus, PublishedIsOnTopic, InlineStops
<1>6. ClaimsHold'
  BY DEF TypeOK, ClaimsHold, InTime, InlineStops
<1>7. ClaimsApart'
  BY DEF TypeOK, ClaimsApart, InTime, InlineStops
<1> QED
  BY <1>1, <1>2, <1>3, <1>4, <1>5, <1>6, <1>7

\* A worker publishes a row, or fails to.
LEMMA PublishStep ==
  ASSUME Consistent, NEW w \in Workers, NEW r \in Rows, PublishRecord(w, r)
  PROVE  Consistent'
<1> USE DEF Consistent, vars, workerVars, rowVars, topicVars
<1>1. TypeOK'
  BY OutboxAssumption DEF TypeOK, RowStatus, PublishRecord, Send, WriteToTopic, Continue
<1>2. WorkersConsistent'
  BY OutboxAssumption DEF TypeOK, RowStatus, WorkersConsistent, PublishRecord, Send, WriteToTopic, Continue
<1>3. InlineConsistent'
  BY DEF TypeOK, RowStatus, InlineConsistent, PublishRecord, Send, WriteToTopic, Continue
<1>4. AbsentUntouched'
  BY DEF TypeOK, RowStatus, AbsentUntouched, PublishRecord, Send, WriteToTopic, Continue
<1>5. PublishedIsOnTopic'
  BY DEF TypeOK, RowStatus, PublishedIsOnTopic, PublishRecord, Send, WriteToTopic, Continue
<1>6. ClaimsHold'
  BY DEF TypeOK, ClaimsHold, InTime, PublishRecord, Send, WriteToTopic, Continue
<1>7. ClaimsApart'
  BY DEF TypeOK, ClaimsApart, InTime, PublishRecord, Send, WriteToTopic, Continue
<1> QED
  BY <1>1, <1>2, <1>3, <1>4, <1>5, <1>6, <1>7

\* A crash empties the worker's memory.
LEMMA CrashStep ==
  ASSUME Consistent, NEW w \in Workers, Crash(w)
  PROVE  Consistent'
<1> USE DEF Consistent, vars, workerVars, rowVars, topicVars
<1>1. TypeOK'
  BY OutboxAssumption DEF TypeOK, RowStatus, Crash
<1>2. WorkersConsistent'
  BY OutboxAssumption DEF TypeOK, RowStatus, WorkersConsistent, Crash
<1>3. InlineConsistent'
  BY DEF TypeOK, RowStatus, InlineConsistent, Crash
<1>4. AbsentUntouched'
  BY DEF TypeOK, RowStatus, AbsentUntouched, Crash
<1>5. PublishedIsOnTopic'
  BY DEF TypeOK, RowStatus, PublishedIsOnTopic, Crash
<1>6. ClaimsHold'
  BY DEF TypeOK, ClaimsHold, InTime, Crash
<1>7. ClaimsApart'
  BY DEF TypeOK, ClaimsApart, InTime, Crash
<1> QED
  BY <1>1, <1>2, <1>3, <1>4, <1>5, <1>6, <1>7

\* A claim takes rows that are within the time of nobody's claim.
LEMMA ClaimStep ==
  ASSUME Consistent, NEW w \in Workers, Claim(w)
  PROVE  Consistent'
<1> USE DEF Consistent, vars, workerVars, rowVars, topicVars
<1>0. PICK claimed \in SUBSET { r \in Rows : Claimable(r) } :
         /\ claimed # {}
         /\ status' = [r \in Rows |-> IF r \in claimed THEN "PROCESSING" ELSE status[r]]
         /\ attempts' = [r \in Rows |-> IF r \in claimed THEN attempts[r] + 1 ELSE attempts[r]]
         /\ claimedBy' = [r \in Rows |-> IF r \in claimed THEN w ELSE claimedBy[r]]
         /\ expired' = [r \in Rows |-> IF r \in claimed THEN FALSE ELSE expired[r]]
         /\ batch' = [batch EXCEPT ![w] = claimed]
  BY DEF Claim
<1>1. TypeOK'
  <2>1. \A r \in claimed : attempts[r] \in 0..MaxAttempts /\ attempts[r] < MaxAttempts
    BY DEF TypeOK, Claimable
  <2>2. attempts' \in [Rows -> 0..MaxAttempts]
    BY <1>0, <2>1, OutboxAssumption DEF TypeOK
  <2>3. batch' \in [Workers -> SUBSET Rows]
    BY <1>0 DEF TypeOK
  <2> QED
    BY <1>0, <2>2, <2>3 DEF TypeOK, RowStatus, Claim
<1>2. WorkersConsistent'
  BY OutboxAssumption DEF TypeOK, RowStatus, WorkersConsistent, Claim, Claimable
<1>3. InlineConsistent'
  BY DEF TypeOK, RowStatus, InlineConsistent, Claim, Claimable
<1>4. AbsentUntouched'
  BY DEF TypeOK, RowStatus, AbsentUntouched, Claim, Claimable
<1>5. PublishedIsOnTopic'
  BY DEF TypeOK, RowStatus, PublishedIsOnTopic, Claim, Claimable
<1>6. ClaimsHold'
  BY DEF TypeOK, ClaimsHold, InTime, Claim, Claimable
<1>7. ClaimsApart'
  <2>1. \A r \in claimed : \A v \in Workers : r \notin InTime(v)
    BY ClaimableIsFree
  <2>2. InTime(w)' \subseteq claimed
    BY <1>0 DEF TypeOK, InTime
  <2>3. \A v \in Workers \ {w} : InTime(v)' = InTime(v)
    BY <1>0 DEF TypeOK, InTime, Claim
  <2> QED
    BY <2>1, <2>2, <2>3 DEF ClaimsApart
<1> QED
  BY <1>1, <1>2, <1>3, <1>4, <1>5, <1>6, <1>7

\* A worker marks the row it has published, or finds its claim lost, or fails.
LEMMA MarkStep ==
  ASSUME Consistent, NEW w \in Workers, MarkRecord(w)
  PROVE  Consistent'
<1> USE DEF Consistent, vars, workerVars, rowVars, topicVars
<1>1. TypeOK'
  <2>1. current[w] \in Rows
    BY OutboxAssumption DEF TypeOK, WorkersConsistent, MarkRecord
  <2>2. MarkOutboxPublished(current[w]) \/ UNCHANGED rowVars
    BY DEF MarkRecord
  <2>3. /\ status' \in [Rows -> RowStatus]
        /\ attempts' \in [Rows -> 0..MaxAttempts]
        /\ claimedBy' \in [Rows -> Workers \union {NoWorker}]
        /\ expired' \in [Rows -> BOOLEAN]
    BY <2>1, <2>2 DEF TypeOK, RowStatus, MarkOutboxPublished
  <2>4. FinishRow(w) \/ Continue(w, current[w], "record")
    BY DEF MarkRecord
  <2>5. /\ batch' \in [Workers -> SUBSET Rows]
        /\ current' \in [Workers -> Rows \union {NoRow}]
        /\ step' \in [Workers -> {"publish", "mark", "record"}]
        /\ overdue' \in [Workers -> SUBSET Rows]
    BY <2>1, <2>4 DEF TypeOK, FinishRow, Continue
  <2> QED
    BY <2>3, <2>5 DEF TypeOK, MarkRecord
<1>2. WorkersConsistent'
  BY OutboxAssumption DEF TypeOK, RowStatus, WorkersConsistent, MarkRecord, MarkOutboxPublished, FinishRow, Continue
<1>3. InlineConsistent'
  BY DEF TypeOK, RowStatus, InlineConsistent, MarkRecord, MarkOutboxPublished, FinishRow, Continue
<1>4. AbsentUntouched'
  BY DEF TypeOK, RowStatus, AbsentUntouched, MarkRecord, MarkOutboxPublished, FinishRow, Continue
<1>5. PublishedIsOnTopic'
  <2>1. current[w] \in onTopic
    BY DEF WorkersConsistent, MarkRecord
  <2> QED
    BY <2>1 DEF TypeOK, PublishedIsOnTopic, MarkRecord, MarkOutboxPublished
<1>6. ClaimsHold'
  BY DEF TypeOK, ClaimsHold, InTime, MarkRecord, MarkOutboxPublished, FinishRow, Continue
<1>7. ClaimsApart'
  BY DEF TypeOK, ClaimsApart, InTime, MarkRecord, MarkOutboxPublished, FinishRow, Continue
<1> QED
  BY <1>1, <1>2, <1>3, <1>4, <1>5, <1>6, <1>7

\* A worker gives a row back or up, if the claim is still its own.
LEMMA FailureStep ==
  ASSUME Consistent, NEW w \in Workers, RecordFailure(w)
  PROVE  Consistent'
<1> USE DEF Consistent, vars, workerVars, rowVars, topicVars
<1>1. TypeOK'
  BY OutboxAssumption DEF TypeOK, RowStatus, RecordFailure, RecordOutboxFailure, FinishRow
<1>2. WorkersConsistent'
  BY OutboxAssumption DEF TypeOK, RowStatus, WorkersConsistent, RecordFailure, RecordOutboxFailure, FinishRow
<1>3. InlineConsistent'
  BY DEF TypeOK, RowStatus, InlineConsistent, RecordFailure, RecordOutboxFailure, FinishRow
<1>4. AbsentUntouched'
  BY DEF TypeOK, RowStatus, AbsentUntouched, RecordFailure, RecordOutboxFailure, FinishRow
<1>5. PublishedIsOnTopic'
  BY DEF TypeOK, RowStatus, PublishedIsOnTopic, RecordFailure, RecordOutboxFailure, FinishRow
<1>6. ClaimsHold'
  BY DEF TypeOK, ClaimsHold, InTime, RecordFailure, RecordOutboxFailure, FinishRow
<1>7. ClaimsApart'
  BY DEF TypeOK, ClaimsApart, InTime, RecordFailure, RecordOutboxFailure, FinishRow
<1> QED
  BY <1>1, <1>2, <1>3, <1>4, <1>5, <1>6, <1>7


LEMMA NextConsistent ==
  ASSUME Consistent, [Next]_vars
  PROVE  Consistent'
<1>1. ASSUME NEW r \in Rows, Insert(r) PROVE Consistent'
  BY <1>1, InsertStep
<1>2. ASSUME NEW r \in Rows, ClaimExpires(r) PROVE Consistent'
  BY <1>2, ExpiryStep
<1>3. ASSUME NEW r \in Rows, InlinePublish(r) PROVE Consistent'
  BY <1>3, InlinePublishStep
<1>4. ASSUME NEW r \in Rows, InlineMark(r) PROVE Consistent'
  BY <1>4, InlineMarkStep
<1>5. ASSUME NEW r \in Rows, InlineStops(r) PROVE Consistent'
  BY <1>5, InlineStopsStep
<1>6. ASSUME NEW w \in Workers, Claim(w) PROVE Consistent'
  BY <1>6, ClaimStep
<1>7. ASSUME NEW w \in Workers, NEW r \in Rows, PublishRecord(w, r) PROVE Consistent'
  BY <1>7, PublishStep
<1>8. ASSUME NEW w \in Workers, MarkRecord(w) PROVE Consistent'
  BY <1>8, MarkStep
<1>9. ASSUME NEW w \in Workers, RecordFailure(w) PROVE Consistent'
  BY <1>9, FailureStep
<1>10. ASSUME NEW w \in Workers, Crash(w) PROVE Consistent'
  BY <1>10, CrashStep
<1>11. CASE UNCHANGED vars
  BY <1>11 DEF Consistent, TypeOK, WorkersConsistent, InlineConsistent, AbsentUntouched,
     PublishedIsOnTopic, ClaimsHold, ClaimsApart, InTime, vars, rowVars, workerVars, topicVars
<1> QED
  BY <1>1, <1>2, <1>3, <1>4, <1>5, <1>6, <1>7, <1>8, <1>9, <1>10, <1>11 DEF Next, Work

LEMMA AlwaysConsistent == Spec => []Consistent
BY InitConsistent, NextConsistent, PTL DEF Spec

\* Every variable of the outbox and its dispatchers keeps its type; attempts stay
\* within the limit that claimOutboxMessages is called with.
THEOREM TypeCorrect == Spec => []TypeOK
BY AlwaysConsistent, PTL DEF Consistent

\* markOutboxPublished is reached only behind a publish that went through, in a
\* dispatcher and in the reservation handler alike: no PUBLISHED row was never sent.
THEOREM MarkedOnlyWhenSent == Spec => []PublishedIsOnTopic
BY AlwaysConsistent, PTL DEF Consistent

\* The claim of claimOutboxMessages keeps the workers apart for as long as it lasts,
\* however many workers there are and wherever they stop.
THEOREM ClaimsExclusive == Spec => []OneWorkerPerRow
<1>1. Consistent => OneWorkerPerRow
  BY DEF Consistent, ClaimsHold, ClaimsApart, OneWorkerPerRow
<1> QED
  BY <1>1, AlwaysConsistent, PTL

\* No statement of a worker or handler takes a row out of PUBLISHED.
THEOREM PublishedForGood == Spec => PublishedIsFinal
<1>1. ASSUME Consistent, [Next]_vars, NEW r \in Rows, status[r] = "PUBLISHED"
      PROVE  status'[r] = "PUBLISHED"
  <2>1. ASSUME NEW x \in Rows, Insert(x) PROVE status'[r] = "PUBLISHED"
    BY <1>1, <2>1 DEF Insert, Consistent, TypeOK
  <2>2. ASSUME NEW x \in Rows, InlineMark(x) PROVE status'[r] = "PUBLISHED"
    BY <1>1, <2>2 DEF InlineMark, MarkOutboxPublished, Consistent, TypeOK
  <2>3. ASSUME NEW w \in Workers, Claim(w) PROVE status'[r] = "PUBLISHED"
    BY <1>1, <2>3 DEF Claim, Claimable
  <2>4. ASSUME NEW w \in Workers, MarkRecord(w) PROVE status'[r] = "PUBLISHED"
    BY <1>1, <2>4 DEF MarkRecord, MarkOutboxPublished, rowVars, Consistent, TypeOK
  <2>5. ASSUME NEW w \in Workers, RecordFailure(w) PROVE status'[r] = "PUBLISHED"
    BY <1>1, <2>5 DEF RecordFailure, RecordOutboxFailure, rowVars, Consistent, TypeOK
  <2> QED
    BY <1>1, <2>1, <2>2, <2>3, <2>4, <2>5 DEF Next, Work, ClaimExpires, InlinePublish,
       InlineStops, PublishRecord, Crash, vars, rowVars
<1>2. Consistent /\ [Next]_vars
      => [\A r \in Rows : status[r] = "PUBLISHED" => status'[r] = "PUBLISHED"]_vars
  BY <1>1
<1> QED
  BY <1>2, AlwaysConsistent, PTL DEF Spec, PublishedIsFinal

-----------------------------------------------------------------------------
(* Giving up.                                                              *)

\* What GivenUpLast says of attempts, and that the first attempt needs a row.
AttemptsRight ==
  \A r \in Rows :
    /\ status[r] = "ABSENT" => attempts[r] = 0
    /\ status[r] = "PENDING" => attempts[r] < MaxAttempts
    /\ status[r] = "FAILED" => attempts[r] = MaxAttempts

LEMMA AttemptsStep ==
  ASSUME Consistent, AttemptsRight, [Next]_vars
  PROVE  AttemptsRight'
<1> USE DEF AttemptsRight, Consistent, TypeOK
<1>1. MaxAttempts \in Nat /\ MaxAttempts > 0 /\ \A r \in Rows : attempts[r] \in 0..MaxAttempts
  BY OutboxAssumption
<1>2. ASSUME NEW r \in Rows, Insert(r) PROVE AttemptsRight'
  BY <1>1, <1>2 DEF Insert
<1>3. ASSUME NEW r \in Rows, InlineMark(r) PROVE AttemptsRight'
  BY <1>3 DEF InlineMark, MarkOutboxPublished
<1>4. ASSUME NEW w \in Workers, Claim(w) PROVE AttemptsRight'
  BY <1>4 DEF Claim
<1>5. ASSUME NEW w \in Workers, MarkRecord(w) PROVE AttemptsRight'
  BY <1>5 DEF MarkRecord, MarkOutboxPublished, rowVars
<1>6. ASSUME NEW w \in Workers, RecordFailure(w) PROVE AttemptsRight'
  <2>1. RecordOutboxFailure(current[w], w) \/ UNCHANGED rowVars
    BY <1>6 DEF RecordFailure
  <2> QED
    BY <1>1, <2>1 DEF RecordOutboxFailure, rowVars
<1> QED
  BY <1>2, <1>3, <1>4, <1>5, <1>6 DEF Next, Work, ClaimExpires, InlinePublish, InlineStops,
     PublishRecord, Crash, vars, rowVars

\* recordOutboxFailure gives a row up exactly when claimOutboxMessages would not find
\* it again, however claims are lost and repeated in between.
THEOREM GivenUpAtTheLimit == Spec => []GivenUpLast
<1>1. Init => AttemptsRight
  BY DEF Init, AttemptsRight
<1>2. Consistent /\ AttemptsRight => GivenUpLast
  BY DEF Consistent, ClaimsHold, AttemptsRight, GivenUpLast, Claimable
<1> QED
  BY <1>1, <1>2, AttemptsStep, AlwaysConsistent, PTL DEF Spec

-----------------------------------------------------------------------------
(* The outbox is a relay.                                                  *)

Stored == { r \in Rows : status[r] # "ABSENT" }
Exhausted == { r \in Rows : attempts[r] = MaxAttempts }

\* A mark or the bookkeeping of a failure changes neither which rows exist nor their
\* attempts.
LEMMA BookkeepingKeeps ==
  ASSUME Consistent, NEW x \in Rows, NEW w, status[x] # "ABSENT",
         MarkOutboxPublished(x) \/ RecordOutboxFailure(x, w) \/ UNCHANGED rowVars
  PROVE  Stored' = Stored /\ Exhausted' = Exhausted
BY DEF Consistent, TypeOK, MarkOutboxPublished, RecordOutboxFailure, rowVars, Stored, Exhausted

\* A claim may be the last of several rows, all of which exist.
LEMMA ClaimAbandons ==
  ASSUME Consistent, NEW w \in Workers, Claim(w)
  PROVE  \E exhausted \in SUBSET Rows :
           /\ exhausted \subseteq Stored
           /\ Exhausted' = Exhausted \union exhausted
           /\ Stored' = Stored
           /\ onTopic' = onTopic
<1> USE DEF Consistent, TypeOK, Stored, Exhausted
<1>1. PICK claimed \in SUBSET { r \in Rows : Claimable(r) } :
        /\ status' = [r \in Rows |-> IF r \in claimed THEN "PROCESSING" ELSE status[r]]
        /\ attempts' = [r \in Rows |-> IF r \in claimed THEN attempts[r] + 1 ELSE attempts[r]]
  BY DEF Claim
<1>2. \A r \in claimed : r \in Rows /\ status[r] # "ABSENT" /\ attempts[r] < MaxAttempts
  BY <1>1 DEF Claimable
<1>3. onTopic' = onTopic
  BY DEF Claim, topicVars
<1>4. WITNESS { r \in claimed : attempts[r] + 1 = MaxAttempts } \in SUBSET Rows
<1>5. Stored' = Stored
  BY <1>1, <1>2
<1>6. Exhausted' = Exhausted \union { r \in claimed : attempts[r] + 1 = MaxAttempts }
  BY <1>1, <1>2, OutboxAssumption
<1> QED
  BY <1>2, <1>3, <1>5, <1>6

\* The outbox does to its messages only what the saga takes a relay to do: it publishes
\* what was stored, and gives up what was stored.
THEOREM RelaySafe == Spec => MessageRelay!SafeSpec
<1> USE DEF MessageRelay!relayVars, MessageRelay!Next, MessageRelay!Store, MessageRelay!Publish,
        MessageRelay!Abandon
<1>1. Init => MessageRelay!Init
  BY OutboxAssumption DEF Init, MessageRelay!Init
<1>2. ASSUME Consistent, [Next]_vars
      PROVE  [MessageRelay!Next]_(MessageRelay!relayVars)
  <2>1. ASSUME NEW r \in Rows, Insert(r) PROVE MessageRelay!Next
    <3>1. Stored' = Stored \union {r} /\ r \notin Stored
      BY <1>2, <2>1 DEF Insert, Consistent, TypeOK, Stored
    <3>2. onTopic' = onTopic /\ Exhausted' = Exhausted
      BY <2>1 DEF Insert, Exhausted, topicVars
    <3> QED
      BY <3>1, <3>2 DEF Stored, Exhausted
  <2>2. ASSUME NEW r \in Rows, status[r] # "ABSENT", WriteToTopic(r), UNCHANGED rowVars
        PROVE  MessageRelay!Next
    <3>1. Stored' = Stored /\ Exhausted' = Exhausted /\ r \in Stored
      BY <2>2 DEF rowVars, Stored, Exhausted
    <3> QED
      BY <2>2, <3>1 DEF Stored, Exhausted, WriteToTopic
  <2>3. ASSUME NEW w \in Workers, Claim(w) PROVE MessageRelay!Next
    BY <1>2, <2>3, ClaimAbandons DEF Stored, Exhausted
  <2>4. ASSUME NEW x \in Rows, NEW w, status[x] # "ABSENT", onTopic' = onTopic,
               MarkOutboxPublished(x) \/ RecordOutboxFailure(x, w) \/ UNCHANGED rowVars
        PROVE  UNCHANGED MessageRelay!relayVars
    <3>1. Stored' = Stored /\ Exhausted' = Exhausted
      BY <1>2, <2>4, BookkeepingKeeps
    <3> QED
      BY <3>1, <2>4 DEF Stored, Exhausted
  <2>5. ASSUME status' = status, attempts' = attempts, onTopic' = onTopic
        PROVE  UNCHANGED MessageRelay!relayVars
    BY <2>5
  <2>6. ASSUME NEW w \in Workers, NEW r \in Rows, PublishRecord(w, r)
        PROVE  [MessageRelay!Next]_(MessageRelay!relayVars)
    <3>1. status[r] # "ABSENT" /\ UNCHANGED rowVars
      BY <1>2, <2>6 DEF PublishRecord, Consistent, AbsentUntouched
    <3>2. WriteToTopic(r) \/ onTopic' = onTopic
      BY <2>6 DEF PublishRecord
    <3> QED
      BY <2>2, <2>5, <3>1, <3>2 DEF rowVars
  <2>7. ASSUME NEW r \in Rows, InlinePublish(r)
        PROVE  [MessageRelay!Next]_(MessageRelay!relayVars)
    <3>1. /\ status[r] # "ABSENT" /\ UNCHANGED rowVars
          /\ WriteToTopic(r) \/ onTopic' = onTopic
      BY <1>2, <2>7 DEF InlinePublish, Consistent, AbsentUntouched
    <3> QED
      BY <2>2, <2>5, <3>1 DEF rowVars
  <2>8. ASSUME NEW r \in Rows, InlineMark(r) PROVE UNCHANGED MessageRelay!relayVars
    <3>1. status[r] # "ABSENT" /\ onTopic' = onTopic /\ MarkOutboxPublished(r)
      BY <1>2, <2>8 DEF InlineMark, topicVars, Consistent, AbsentUntouched
    <3> QED
      BY <2>4, <3>1
  <2>9. ASSUME NEW w \in Workers, MarkRecord(w) \/ RecordFailure(w)
        PROVE  UNCHANGED MessageRelay!relayVars
    <3>1. current[w] \in batch[w] /\ current[w] \in Rows
      BY <1>2, <2>9 DEF MarkRecord, RecordFailure, Consistent, WorkersConsistent, TypeOK
    <3>2. status[current[w]] # "ABSENT"
      BY <1>2, <3>1 DEF Consistent, AbsentUntouched
    <3>3. /\ onTopic' = onTopic
          /\ \/ MarkOutboxPublished(current[w])
             \/ RecordOutboxFailure(current[w], w)
             \/ UNCHANGED rowVars
      BY <2>9 DEF MarkRecord, RecordFailure, topicVars
    <3> QED
      BY <2>4, <3>1, <3>2, <3>3
  <2> QED
    BY <1>2, <2>1, <2>3, <2>5, <2>6, <2>7, <2>8, <2>9
    DEF Next, Work, ClaimExpires, InlineStops, Crash, vars, rowVars, topicVars
<1> QED
  BY <1>1, <1>2, AlwaysConsistent, PTL DEF Spec, MessageRelay!SafeSpec

-----------------------------------------------------------------------------
(* Calls of the producer.                                                  *)

\* The workers that may still publish the row on a claim they have.
Publishers(r) == { w \in Workers : r \in batch[w] /\ current[w] # r }

\* The call that the inline handler may still make, and the one it is allowed.
InlineDue(r) == IF inline[r] = "publish" THEN 1 ELSE 0
InlineShare(r) == IF r \in InlineRows THEN 1 ELSE 0

\* Every call that was made and every one that may still come is paid for.
SendsPaid ==
  \A r \in Rows :
    sends[r] + Cardinality(Publishers(r)) + InlineDue(r) <= attempts[r] + InlineShare(r)

LEMMA PublishersFinite ==
  ASSUME NEW r
  PROVE  IsFiniteSet(Publishers(r)) /\ Cardinality(Publishers(r)) \in Nat
<1>1. Publishers(r) \in SUBSET Workers
  BY DEF Publishers
<1>2. IsFiniteSet(Workers)
  BY OutboxAssumption
<1>3. IsFiniteSet(Publishers(r))
  BY <1>1, <1>2, FS_Subset, Zenon
<1> QED
  BY <1>3, FS_CardinalityType, Zenon

\* A step after which no new worker may publish the row, and that sends nothing, does
\* not lose its account.
LEMMA NoMorePublishers ==
  ASSUME Consistent, SendsPaid, NEW r \in Rows,
         sends'[r] = sends[r], attempts'[r] = attempts[r],
         inline'[r] = inline[r] \/ inline'[r] # "publish",
         Publishers(r)' \subseteq Publishers(r)
  PROVE  sends'[r] + Cardinality(Publishers(r)') + InlineDue(r)' <= attempts'[r] + InlineShare(r)
<1>1. Cardinality(Publishers(r)') <= Cardinality(Publishers(r))
  BY PublishersFinite, FS_Subset, Zenon
<1>2. Cardinality(Publishers(r)') \in Nat
  <2>1. IsFiniteSet(Publishers(r)')
    BY PublishersFinite, FS_Subset, Zenon
  <2> QED
    BY <2>1, FS_CardinalityType, Zenon
<1>3. Cardinality(Publishers(r)) \in Nat
  BY PublishersFinite
<1>4. InlineDue(r)' <= InlineDue(r) /\ InlineDue(r) \in 0..1 /\ InlineDue(r)' \in 0..1
  BY DEF InlineDue
<1>5. attempts[r] \in Nat /\ sends[r] \in Nat /\ InlineShare(r) \in 0..1
  BY OutboxAssumption DEF Consistent, TypeOK, InlineShare
<1> QED
  BY <1>1, <1>2, <1>3, <1>4, <1>5 DEF SendsPaid

\* A worker's call is paid for by the attempt of its claim.
LEMMA PublishPaid ==
  ASSUME Consistent, SendsPaid, NEW w \in Workers, NEW x \in Rows, PublishRecord(w, x)
  PROVE  SendsPaid'
<1> SUFFICES ASSUME NEW r \in Rows
             PROVE  sends'[r] + Cardinality(Publishers(r)') + InlineDue(r)'
                    <= attempts'[r] + InlineShare(r)
  BY DEF SendsPaid, InlineShare
<1>1. /\ current[w] = NoRow
      /\ current' = [current EXCEPT ![w] = x]
      /\ batch' = batch /\ inline' = inline /\ attempts' = attempts
  BY DEF PublishRecord, Continue, Consistent, WorkersConsistent, rowVars
<1>2. CASE r = x
  <2>1. w \in Publishers(r) /\ Publishers(r)' = Publishers(r) \ {w}
    BY <1>1, <1>2, OutboxAssumption DEF Publishers, PublishRecord, Consistent, TypeOK
  <2>2. Cardinality(Publishers(r)') = Cardinality(Publishers(r)) - 1
    BY <2>1, PublishersFinite, FS_RemoveElement, Zenon
  <2>3. sends'[r] <= sends[r] + 1 /\ sends'[r] \in Nat /\ sends[r] \in Nat
    BY <1>2 DEF PublishRecord, Send, Consistent, TypeOK
  <2>4. InlineDue(r)' = InlineDue(r) /\ InlineDue(r) \in 0..1 /\ InlineShare(r) \in 0..1
    BY <1>1 DEF InlineDue, InlineShare
  <2>5. attempts'[r] = attempts[r] /\ attempts[r] \in Nat
    BY <1>1, OutboxAssumption DEF Consistent, TypeOK
  <2>6. Cardinality(Publishers(r)) \in Nat
    BY PublishersFinite
  <2> QED
    BY <2>2, <2>3, <2>4, <2>5, <2>6 DEF SendsPaid
<1>3. CASE r # x
  <2>1. Publishers(r)' \subseteq Publishers(r)
    BY <1>1, <1>3, OutboxAssumption DEF Publishers, Consistent, TypeOK
  <2>2. sends'[r] = sends[r]
    BY <1>3 DEF PublishRecord, Send, Consistent, TypeOK
  <2> QED
    BY <1>1, <2>1, <2>2, NoMorePublishers
<1> QED
  BY <1>2, <1>3

\* A claim pays one attempt for the call its worker may make.
LEMMA ClaimPaid ==
  ASSUME Consistent, SendsPaid, NEW w \in Workers, Claim(w)
  PROVE  SendsPaid'
<1> SUFFICES ASSUME NEW r \in Rows
             PROVE  sends'[r] + Cardinality(Publishers(r)') + InlineDue(r)'
                    <= attempts'[r] + InlineShare(r)
  BY DEF SendsPaid, InlineShare
<1>1. PICK claimed \in SUBSET Rows :
        /\ attempts' = [x \in Rows |-> IF x \in claimed THEN attempts[x] + 1 ELSE attempts[x]]
        /\ batch' = [batch EXCEPT ![w] = claimed]
        /\ batch[w] = {} /\ sends' = sends /\ inline' = inline /\ current' = current
  BY DEF Claim, topicVars
<1>2. CASE r \in claimed
  <2>1. current[w] = NoRow
    BY <1>1 DEF Consistent, WorkersConsistent
  <2>2. Publishers(r)' = Publishers(r) \union {w} /\ w \notin Publishers(r)
    BY <1>1, <1>2, <2>1, OutboxAssumption DEF Publishers, Consistent, TypeOK
  <2>3. Cardinality(Publishers(r)') = Cardinality(Publishers(r)) + 1
    BY <2>2, PublishersFinite, FS_AddElement, Zenon
  <2>4. Cardinality(Publishers(r)) \in Nat
    BY PublishersFinite
  <2>5. attempts'[r] = attempts[r] + 1 /\ attempts[r] \in Nat /\ sends[r] \in Nat
    BY <1>1, <1>2, OutboxAssumption DEF Consistent, TypeOK
  <2>6. InlineDue(r)' = InlineDue(r) /\ InlineDue(r) \in 0..1 /\ InlineShare(r) \in 0..1
    BY <1>1 DEF InlineDue, InlineShare
  <2> QED
    BY <1>1, <2>3, <2>4, <2>5, <2>6 DEF SendsPaid
<1>3. CASE r \notin claimed
  <2>1. Publishers(r)' \subseteq Publishers(r)
    BY <1>1, <1>3 DEF Publishers, Consistent, TypeOK
  <2>2. attempts'[r] = attempts[r]
    BY <1>1, <1>3
  <2> QED
    BY <1>1, <2>1, <2>2, NoMorePublishers
<1> QED
  BY <1>2, <1>3

\* The inline handler's call is the row's allowance, and the row starts with it.
LEMMA InlinePaid ==
  ASSUME Consistent, SendsPaid, NEW x \in Rows, Insert(x) \/ InlinePublish(x)
  PROVE  SendsPaid'
<1> SUFFICES ASSUME NEW r \in Rows
             PROVE  sends'[r] + Cardinality(Publishers(r)') + InlineDue(r)'
                    <= attempts'[r] + InlineShare(r)
  BY DEF SendsPaid, InlineShare
<1>1. attempts' = attempts /\ batch' = batch /\ current' = current
  BY DEF Insert, InlinePublish, rowVars, workerVars
<1>2. Publishers(r)' = Publishers(r)
  BY <1>1 DEF Publishers
<1>3. CASE r # x
  <2>1. sends'[r] = sends[r] /\ inline'[r] = inline[r]
    BY <1>3 DEF Insert, InlinePublish, Send, topicVars, Consistent, TypeOK
  <2> QED
    BY <1>1, <1>2, <2>1, NoMorePublishers
<1>4. CASE r = x /\ Insert(x)
  <2>1. Publishers(r) = {} /\ sends'[r] = 0
    BY <1>4 DEF Insert, topicVars, Consistent, AbsentUntouched, Publishers
  <2>2. Cardinality(Publishers(r)') = 0
    BY <1>2, <2>1, FS_EmptySet, Zenon
  <2>3. InlineDue(r)' <= InlineShare(r) /\ InlineDue(r)' \in 0..1 /\ InlineShare(r) \in 0..1
    BY <1>4 DEF Insert, InlineDue, InlineShare, Consistent, TypeOK, AbsentUntouched
  <2>4. attempts'[r] \in Nat
    BY <1>1, OutboxAssumption DEF Consistent, TypeOK
  <2> QED
    BY <2>1, <2>2, <2>3, <2>4
<1>5. CASE r = x /\ InlinePublish(x)
  <2>1. InlineDue(r) = 1 /\ InlineDue(r)' = 0 /\ InlineShare(r) \in 0..1
    BY <1>5 DEF InlinePublish, InlineDue, InlineShare, Consistent, TypeOK
  <2>2. sends'[r] = sends[r] + 1 /\ sends[r] \in Nat
    BY <1>5 DEF InlinePublish, Send, Consistent, TypeOK
  <2>3. attempts'[r] = attempts[r] /\ attempts[r] \in Nat
    BY <1>1, OutboxAssumption DEF Consistent, TypeOK
  <2>4. Cardinality(Publishers(r)) \in Nat
    BY PublishersFinite
  <2> QED
    BY <1>2, <2>1, <2>2, <2>3, <2>4 DEF SendsPaid
<1> QED
  BY <1>3, <1>4, <1>5

\* The other steps send nothing and let nobody publish who could not before.
LEMMA OthersPaid ==
  ASSUME Consistent, SendsPaid,
         \/ \E x \in Rows : InlineMark(x) \/ InlineStops(x) \/ ClaimExpires(x)
         \/ \E w \in Workers : MarkRecord(w) \/ RecordFailure(w) \/ Crash(w)
         \/ UNCHANGED vars
  PROVE  SendsPaid'
<1> SUFFICES ASSUME NEW r \in Rows
             PROVE  sends'[r] + Cardinality(Publishers(r)') + InlineDue(r)'
                    <= attempts'[r] + InlineShare(r)
  BY DEF SendsPaid, InlineShare
<1>1. sends' = sends /\ attempts' = attempts
  BY DEF InlineMark, InlineStops, ClaimExpires, MarkRecord, RecordFailure, Crash, vars, rowVars,
     topicVars, MarkOutboxPublished, RecordOutboxFailure
<1>2. inline'[r] = inline[r] \/ inline'[r] # "publish"
  BY DEF InlineMark, InlineStops, ClaimExpires, MarkRecord, RecordFailure, Crash, vars, Consistent, TypeOK
<1>3. Publishers(r)' \subseteq Publishers(r)
  <2>1. ASSUME NEW w \in Workers, MarkRecord(w) PROVE Publishers(r)' \subseteq Publishers(r)
    BY <2>1 DEF Publishers, MarkRecord, FinishRow, Continue, Consistent, TypeOK
  <2>2. ASSUME NEW w \in Workers, RecordFailure(w) PROVE Publishers(r)' \subseteq Publishers(r)
    BY <2>2 DEF Publishers, RecordFailure, FinishRow, Consistent, TypeOK
  <2>3. ASSUME NEW w \in Workers, Crash(w) PROVE Publishers(r)' \subseteq Publishers(r)
    BY <2>3 DEF Publishers, Crash, Consistent, TypeOK
  <2> QED
    BY <2>1, <2>2, <2>3 DEF Publishers, InlineMark, InlineStops, ClaimExpires, vars, workerVars
<1> QED
  BY <1>1, <1>2, <1>3, NoMorePublishers

LEMMA InitPaid == Init => SendsPaid
<1> SUFFICES ASSUME Init, NEW r \in Rows
             PROVE  sends[r] + Cardinality(Publishers(r)) + InlineDue(r) <= attempts[r] + InlineShare(r)
  BY DEF SendsPaid
<1>1. Publishers(r) = {} /\ sends[r] = 0 /\ attempts[r] = 0 /\ InlineDue(r) = 0
  BY DEF Init, Publishers, InlineDue
<1>2. Cardinality(Publishers(r)) = 0
  BY <1>1, FS_EmptySet, Zenon
<1>3. InlineShare(r) \in 0..1
  BY DEF InlineShare
<1> QED
  BY <1>1, <1>2, <1>3

\* publish is called for a row at most once per attempt, and once more by the inline
\* handler, however claims expire, answers get lost and processes stop.
THEOREM SendsPerAttempt == Spec => []SendsBounded
<1>1. Consistent /\ SendsPaid => SendsBounded
  <2> SUFFICES ASSUME Consistent, SendsPaid, NEW r \in Rows
               PROVE  sends[r] <= attempts[r] + InlineShare(r)
    BY DEF SendsBounded, InlineShare
  <2>1. Cardinality(Publishers(r)) \in Nat
    BY PublishersFinite
  <2>2. /\ sends[r] \in Nat /\ attempts[r] \in Nat
        /\ InlineDue(r) \in 0..1 /\ InlineShare(r) \in 0..1
    BY OutboxAssumption DEF Consistent, TypeOK, InlineDue, InlineShare
  <2> QED
    BY <2>1, <2>2 DEF SendsPaid
<1>2. Consistent /\ SendsPaid /\ [Next]_vars => SendsPaid'
  <2> SUFFICES ASSUME Consistent, SendsPaid, [Next]_vars PROVE SendsPaid'
    OBVIOUS
  <2> QED
    BY PublishPaid, ClaimPaid, InlinePaid, OthersPaid DEF Next, Work
<1> QED
  BY <1>1, <1>2, InitPaid, AlwaysConsistent, PTL DEF Spec

=============================================================================
