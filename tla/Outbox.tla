------------------------------- MODULE Outbox -------------------------------
(***************************************************************************)
(* The transactional outbox and its dispatchers.  booking-service and      *)
(* event-service have the same table and, line for line, the same          *)
(* dispatcher; each of the service's replicas runs one (a worker).  The    *)
(* event service's reservation handler also publishes the row it has just  *)
(* inserted by itself: such rows are InlineRows.                           *)
(*                                                                         *)
(* A worker claims a batch, then publishes and marks its rows one by one.  *)
(* Every publish may fail, or reach the broker and lose its answer, and as *)
(* the producer is not idempotent and retries by itself, one publish may   *)
(* leave several copies; every statement against the database may fail; a  *)
(* worker may stop anywhere and restart with nothing in memory.            *)
(***************************************************************************)
EXTENDS Naturals, FiniteSets

CONSTANTS
  Rows,         \* outbox rows
  InlineRows,   \* those whose handler publishes them too
  Workers,      \* dispatchers running at the same time
  NoWorker,     \* claimed_by is NULL
  NoRow,        \* a worker is between two rows
  MaxAttempts,  \* 8 in both dispatchers
  BatchLimit    \* 25 in both dispatchers

ASSUME OutboxAssumption ==
  /\ InlineRows \subseteq Rows
  /\ NoWorker \notin Workers
  /\ NoRow \notin Rows
  /\ MaxAttempts \in Nat \ {0}
  /\ BatchLimit \in Nat \ {0}
  /\ IsFiniteSet(Rows)
  /\ IsFiniteSet(Workers)

VARIABLES
  status,     \* the row's status, ABSENT before it is inserted
  attempts,   \* how often it was claimed
  claimedBy,  \* the worker of its last claim
  expired,    \* claimed_at is more than 60 seconds ago
  batch,      \* the rows a worker has still to finish; it drains while there are any
  current,    \* the row a worker has published or failed to publish
  step,       \* what the worker does next: publish, mark, or record a failure
  inline,     \* what the handler that inserted the row does next
  sends,      \* how often the row's message was handed to the producer
  onTopic,    \* the rows whose message was written to its topic, once or several times
  overdue     \* the rows of a worker's batch whose claim expired in its hands: read
              \* by the properties only

rowVars == <<status, attempts, claimedBy, expired>>
workerVars == <<batch, current, step, overdue>>
topicVars == <<sends, onTopic>>
vars == <<rowVars, workerVars, inline, topicVars>>

RowStatus == {"ABSENT", "PENDING", "PROCESSING", "PUBLISHED", "FAILED"}

TypeOK ==
  /\ status \in [Rows -> RowStatus]
  /\ attempts \in [Rows -> 0..MaxAttempts]
  /\ claimedBy \in [Rows -> Workers \union {NoWorker}]
  /\ expired \in [Rows -> BOOLEAN]
  /\ batch \in [Workers -> SUBSET Rows]
  /\ current \in [Workers -> Rows \union {NoRow}]
  /\ step \in [Workers -> {"publish", "mark", "record"}]
  /\ inline \in [Rows -> {"none", "publish", "mark"}]
  /\ sends \in [Rows -> Nat]
  /\ onTopic \subseteq Rows
  /\ overdue \in [Workers -> SUBSET Rows]

Init ==
  /\ status = [r \in Rows |-> "ABSENT"]
  /\ attempts = [r \in Rows |-> 0]
  /\ claimedBy = [r \in Rows |-> NoWorker]
  /\ expired = [r \in Rows |-> FALSE]
  /\ batch = [w \in Workers |-> {}]
  /\ current = [w \in Workers |-> NoRow]
  /\ step = [w \in Workers |-> "publish"]
  /\ inline = [r \in Rows |-> "none"]
  /\ sends = [r \in Rows |-> 0]
  /\ onTopic = {}
  /\ overdue = [w \in Workers |-> {}]

-----------------------------------------------------------------------------
(* The statements on the table.                                            *)

\* A business transaction commits its outbox row.
Insert(r) ==
  /\ status[r] = "ABSENT"
  /\ status' = [status EXCEPT ![r] = "PENDING"]
  /\ inline' = IF r \in InlineRows THEN [inline EXCEPT ![r] = "publish"] ELSE inline
  /\ UNCHANGED <<attempts, claimedBy, expired, workerVars, topicVars>>

\* Three ways to get the WHERE clause of claimOutboxMessages wrong.
ClaimableForever(r) ==
  status[r] = "PENDING" \/ (status[r] = "PROCESSING" /\ expired[r])

ClaimableWhileProcessing(r) ==
  attempts[r] < MaxAttempts /\ status[r] \in {"PENDING", "PROCESSING"}

ClaimableOnce(r) == attempts[r] < MaxAttempts /\ status[r] = "PENDING"

\* The WHERE clause of claimOutboxMessages.  The backoff (next_attempt_at) only
\* delays a claim, and a claim may come late anyway.
Claimable(r) ==
  /\ attempts[r] < MaxAttempts
  /\ \/ status[r] = "PENDING"
     \/ status[r] = "PROCESSING" /\ expired[r]

\* markOutboxPublished(id): the row is published, whoever has claimed it.
MarkOutboxPublished(r) ==
  /\ status' = [status EXCEPT ![r] = "PUBLISHED"]
  /\ claimedBy' = [claimedBy EXCEPT ![r] = NoWorker]
  /\ expired' = [expired EXCEPT ![r] = FALSE]
  /\ UNCHANGED attempts

\* recordOutboxFailure without its last two conditions.
RecordFailureOfAnyone(r, w) ==
  /\ status' = [status EXCEPT ![r] = IF attempts[r] >= MaxAttempts THEN "FAILED" ELSE "PENDING"]
  /\ claimedBy' = [claimedBy EXCEPT ![r] = NoWorker]
  /\ expired' = [expired EXCEPT ![r] = FALSE]
  /\ UNCHANGED attempts

\* A service that gives a row back after its last attempt, too.
GiveBackOnceMore(r, w) ==
  IF status[r] = "PROCESSING" /\ claimedBy[r] = w
  THEN /\ status' = [status EXCEPT ![r] = IF attempts[r] > MaxAttempts
                                          THEN "FAILED" ELSE "PENDING"]
       /\ claimedBy' = [claimedBy EXCEPT ![r] = NoWorker]
       /\ expired' = [expired EXCEPT ![r] = FALSE]
       /\ UNCHANGED attempts
  ELSE UNCHANGED rowVars

\* A service that gives a row up at its first failure.
FailAtOnce(r, w) ==
  IF status[r] = "PROCESSING" /\ claimedBy[r] = w
  THEN /\ status' = [status EXCEPT ![r] = "FAILED"]
       /\ claimedBy' = [claimedBy EXCEPT ![r] = NoWorker]
       /\ expired' = [expired EXCEPT ![r] = FALSE]
       /\ UNCHANGED attempts
  ELSE UNCHANGED rowVars

\* recordOutboxFailure: only the worker that holds the claim gives the row back,
\* or gives it up when it has no attempt left.
RecordOutboxFailure(r, w) ==
  IF status[r] = "PROCESSING" /\ claimedBy[r] = w
  THEN /\ status' = [status EXCEPT ![r] = IF attempts[r] >= MaxAttempts
                                          THEN "FAILED" ELSE "PENDING"]
       /\ claimedBy' = [claimedBy EXCEPT ![r] = NoWorker]
       /\ expired' = [expired EXCEPT ![r] = FALSE]
       /\ UNCHANGED attempts
  ELSE UNCHANGED rowVars

-----------------------------------------------------------------------------
(* The dispatcher.                                                         *)

\* dispatchPending while not draining: the worker claims a batch.  Rows locked by
\* another transaction at that moment are skipped, so it may be any batch.
Claim(w) ==
  /\ batch[w] = {}
  /\ \E claimed \in SUBSET { r \in Rows : Claimable(r) } :
       /\ claimed # {}
       /\ Cardinality(claimed) <= BatchLimit
       /\ status' = [r \in Rows |-> IF r \in claimed THEN "PROCESSING" ELSE status[r]]
       /\ attempts' = [r \in Rows |-> IF r \in claimed THEN attempts[r] + 1 ELSE attempts[r]]
       /\ claimedBy' = [r \in Rows |-> IF r \in claimed THEN w ELSE claimedBy[r]]
       /\ expired' = [r \in Rows |-> IF r \in claimed THEN FALSE ELSE expired[r]]
       /\ batch' = [batch EXCEPT ![w] = claimed]
  /\ UNCHANGED <<current, step, overdue, inline, topicVars>>

\* The worker goes on to the next statement about row r, or to the next row.
Continue(w, r, next) ==
  /\ current' = [current EXCEPT ![w] = r]
  /\ step' = [step EXCEPT ![w] = next]
  /\ UNCHANGED <<batch, overdue>>

\* A dispatcher that goes on with the same row without claiming it again.
RetryRow(w) ==
  /\ current' = [current EXCEPT ![w] = NoRow]
  /\ step' = [step EXCEPT ![w] = "publish"]
  /\ UNCHANGED <<batch, overdue>>

FinishRow(w) ==
  /\ batch' = [batch EXCEPT ![w] = @ \ {current[w]}]
  /\ overdue' = [overdue EXCEPT ![w] = @ \ {current[w]}]
  /\ current' = [current EXCEPT ![w] = NoRow]
  /\ step' = [step EXCEPT ![w] = "publish"]

\* publish hands the message to the producer.
Send(r) == sends' = [sends EXCEPT ![r] = @ + 1]

\* One or more of the producer's tries reached the broker.
WriteToTopic(r) == onTopic' = onTopic \union {r}

\* A worker that marks first and publishes afterwards.
MarkBeforePublish(w, r) ==
  /\ r \in batch[w]
  /\ step[w] = "publish"
  /\ MarkOutboxPublished(r)
  /\ Continue(w, r, "mark")
  /\ UNCHANGED <<inline, topicVars>>

\* The first statement of publishRecord: the publish succeeds, or it throws,
\* which does not mean that the message is not on the topic.
PublishRecord(w, r) ==
  /\ r \in batch[w]
  /\ step[w] = "publish"
  /\ Send(r)
  /\ \/ WriteToTopic(r) /\ Continue(w, r, "mark")
     \/ WriteToTopic(r) /\ Continue(w, r, "record")
     \/ UNCHANGED onTopic /\ Continue(w, r, "record")
  /\ UNCHANGED <<rowVars, inline>>

\* Its second statement, with this worker's id: nothing is updated when the claim
\* was lost.  An error, which may follow an update that went through, leads to the
\* same catch block as a failed publish.
MarkRecord(w) ==
  /\ step[w] = "mark"
  /\ \/ /\ IF claimedBy[current[w]] = w THEN MarkOutboxPublished(current[w])
                                        ELSE UNCHANGED rowVars
        /\ FinishRow(w) \/ Continue(w, current[w], "record")
     \/ UNCHANGED rowVars /\ Continue(w, current[w], "record")
  /\ UNCHANGED <<inline, topicVars>>

\* The catch block: an error of its own is swallowed and the row stays as it is.
RecordFailure(w) ==
  /\ step[w] = "record"
  /\ RecordOutboxFailure(current[w], w) \/ UNCHANGED rowVars
  /\ FinishRow(w)
  /\ UNCHANGED <<inline, topicVars>>

Work(w) == (\E r \in Rows : PublishRecord(w, r)) \/ MarkRecord(w) \/ RecordFailure(w)

\* The process stops; when it is back it has a new worker id and no batch.
Crash(w) ==
  /\ batch[w] # {}
  /\ batch' = [batch EXCEPT ![w] = {}]
  /\ overdue' = [overdue EXCEPT ![w] = {}]
  /\ current' = [current EXCEPT ![w] = NoRow]
  /\ step' = [step EXCEPT ![w] = "publish"]
  /\ UNCHANGED <<rowVars, inline, topicVars>>

\* Sixty seconds have passed since the row was claimed, whatever its worker does.
ClaimExpires(r) ==
  /\ status[r] = "PROCESSING"
  /\ ~expired[r]
  /\ expired' = [expired EXCEPT ![r] = TRUE]
  /\ overdue' = [w \in Workers |-> IF r \in batch[w] THEN overdue[w] \union {r}
                                                     ELSE overdue[w]]
  /\ UNCHANGED <<status, attempts, claimedBy, batch, current, step, inline, topicVars>>

-----------------------------------------------------------------------------
(* The reservation handler of the event service, after its transaction.    *)

\* The publish succeeds, or it throws, which ends the handler, whether or not the
\* message is on the topic.
InlinePublish(r) ==
  /\ inline[r] = "publish"
  /\ Send(r)
  /\ \/ WriteToTopic(r) /\ inline' = [inline EXCEPT ![r] = "mark"]
     \/ WriteToTopic(r) /\ inline' = [inline EXCEPT ![r] = "none"]
     \/ UNCHANGED onTopic /\ inline' = [inline EXCEPT ![r] = "none"]
  /\ UNCHANGED <<rowVars, workerVars>>

\* Called without a worker id, so no claim is looked at.
InlineMark(r) ==
  /\ inline[r] = "mark"
  /\ MarkOutboxPublished(r)
  /\ inline' = [inline EXCEPT ![r] = "none"]
  /\ UNCHANGED <<workerVars, topicVars>>

\* The mark throws, or the process stops before the publish or the mark.  The
\* redelivered message is then a duplicate, and the handler does not come back to the
\* row.
InlineStops(r) ==
  /\ inline[r] # "none"
  /\ inline' = [inline EXCEPT ![r] = "none"]
  /\ UNCHANGED <<rowVars, workerVars, topicVars>>

Next ==
  \/ \E r \in Rows : \/ Insert(r) \/ ClaimExpires(r)
                     \/ InlinePublish(r) \/ InlineMark(r) \/ InlineStops(r)
  \/ \E w \in Workers : Claim(w) \/ Work(w) \/ Crash(w)

Spec == Init /\ [][Next]_vars

\* The timers call dispatchPending every five seconds, a call that has started is
\* driven to its end unless the process stops, and time passes.
Fairness ==
  /\ \A w \in Workers : WF_vars(Claim(w)) /\ WF_vars(Work(w))
  /\ \A r \in Rows : WF_vars(ClaimExpires(r))

FairSpec == Spec /\ Fairness

-----------------------------------------------------------------------------
(* Properties.                                                             *)

\* A row is marked PUBLISHED only once its message is on the topic: no
\* interleaving of workers, expired claims and the inline handler marks a row
\* whose message nobody has sent.
PublishedIsOnTopic == \A r \in Rows : status[r] = "PUBLISHED" => r \in onTopic

\* A row that is PUBLISHED stays so: a worker that lost its claim, or that fails
\* after the inline handler has marked the row, never puts it back to work.
PublishedIsFinal ==
  [][\A r \in Rows : status[r] = "PUBLISHED" => status'[r] = "PUBLISHED"]_vars

\* Each time a message is handed to the producer was paid for with an attempt, except
\* the one of the inline handler: however claims are lost and repeated, a row costs at
\* most nine calls of producer.send.  How many copies a call leaves on the topic is up
\* to the retries of the producer.
SendsBounded ==
  \A r \in Rows :
    sends[r] <= attempts[r] + IF r \in InlineRows THEN 1 ELSE 0

\* The rows a worker has in hand within the 60 seconds of their claim.
InTime(w) == batch[w] \ overdue[w]

\* SKIP LOCKED and the claim keep workers apart for as long as the claim lasts:
\* within its 60 seconds a row is in no other worker's time, and it is its worker's
\* own or already PUBLISHED.
OneWorkerPerRow ==
  \A w \in Workers : \A r \in InTime(w) :
    /\ claimedBy[r] = w \/ status[r] = "PUBLISHED"
    /\ \A v \in Workers \ {w} : r \notin InTime(v)

\* Giving up is the last resort, and giving back is never giving up: a FAILED row
\* has had all its attempts and no worker is still in the time of a claim on it,
\* and a row that a failure put back to PENDING has an attempt left, so that the
\* next claim finds it.
GivenUpLast ==
  \A r \in Rows :
    /\ status[r] = "FAILED" =>
         attempts[r] = MaxAttempts /\ \A w \in Workers : r \notin InTime(w)
    /\ status[r] = "PENDING" => Claimable(r)

\* A row that ran out of attempts without being marked one way or the other: the
\* worker of the last attempt stopped, or the database refused its last statement.
Stranded(r) ==
  /\ status[r] = "PROCESSING"
  /\ attempts[r] = MaxAttempts
  /\ \A w \in Workers : r \notin batch[w]

\* Whatever fails, a row does not stay in the works: it ends PUBLISHED or FAILED,
\* unless the last attempt left it stranded.
RowsSettle ==
  \A r \in Rows :
    status[r] # "ABSENT" ~> status[r] \in {"PUBLISHED", "FAILED"} \/ Stranded(r)

\* The outbox as the saga sees it.
MessageRelay == INSTANCE Relay WITH
  Messages <- Rows,
  stored <- { r \in Rows : status[r] # "ABSENT" },
  broker <- onTopic,
  abandoned <- { r \in Rows : attempts[r] = MaxAttempts }

\* The outbox is the relay that the saga assumes: whatever workers, claims and the
\* inline handler do to each other, every message that was committed is published while
\* its row has attempts left, and no other message ever is.
ImplementsRelay == MessageRelay!Spec

\* What the comment in the catch block promises: a row nobody has in hand and that
\* is neither PUBLISHED nor FAILED can be claimed, now or when its claim expires.
UnfinishedRowStaysAvailable ==
  \A r \in Rows :
    status[r] = "PROCESSING" /\ (\A w \in Workers : r \notin batch[w]) =>
      attempts[r] < MaxAttempts

\* What docs/architecture.md says of concurrent workers: each row is processed,
\* that is published, by one of them.
RowProcessedByOneWorker ==
  \A v, w \in Workers : v # w => batch[v] \intersect batch[w] = {}

=============================================================================
