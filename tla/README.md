# Verification of the event booking system

TLA+ models of the booking platform in this repository, the TLC runs that check
them on small instances, and TLAPS proofs of the main results for every value of
the constants. Paths below are relative to `src/` unless they name a file here.

## 1. The system

Four services with a database each, Kafka between three of them, Redis in front
of one.

| part | state it keeps | operations |
|---|---|---|
| booking service (`services/booking-service`) | `bookings`, `booking_outbox_events`, `processed_booking_messages` (inbox), `booking_idempotency_keys` | `POST /bookings`, `POST /bookings/:id/cancel`, handlers of `event.seats-reserved` and `event.seat-reservation-failed` |
| event service (`services/event-service`) | `events` (total and available seats), `event_outbox_events`, `processed_event_messages` (inbox), cache in Redis, rate limiter counts | create, update, delete an event; handlers of `booking.reserve-seats` and `booking.cancelled` |
| notification service (`services/notification-service`) | `notifications`, `processed_notification_messages` (inbox) | handlers of `booking.confirmed`, `booking.failed`, `booking.cancelled` |
| user service (`services/user-service`) | `users` | register, read; no messages |
| outbox dispatchers (one per replica of the first two) | a batch in memory, claims in the outbox table | claim, publish, mark, record a failure |
| consumer runner (`packages/messaging`) | Kafka offsets, `running` | parse, handle, dead-letter, reconnect |
| contracts (`packages/contracts`) | none | topics, schemas |

A booking is a saga. `createBooking` inserts a PENDING booking and a
`RESERVE_SEATS` outbox row in one transaction. A dispatcher publishes the row.
The event service takes the seats with one guarded `UPDATE` and enqueues
`SEATS_RESERVED`, or enqueues `SEAT_RESERVATION_FAILED`, and records the message
id in its inbox, all in one transaction. The booking service turns PENDING into
CONFIRMED or FAILED and enqueues the announcement for the notification service.
A CONFIRMED booking may be cancelled, and `BOOKING_CANCELLED` makes the event
service give the seats back.

### What is hard

* **Two databases, no distributed transaction.** The status of a booking and its
  seats are written at different moments by different services; they must agree
  whenever a client or an administrator looks.
* **At-least-once everywhere.** A row may be published by two workers and by the
  reservation handler itself; a consumer may be handed a record again; topics
  are not ordered against each other.
* **Crashes between any two statements**: commit and publish, publish and mark,
  claim and publish.
* **Claims that expire** after 60 seconds while their worker is still busy with
  a batch of 25 rows.
* **Branches that drop a message.** The booking handlers and the release handler
  write the inbox row even when their `UPDATE` matches nothing; the message is
  then gone for good. That is correct only if it never happens.
* **Administration during sagas**: an event is resized or deleted while seats
  of it are held, or while a request for it is on the broker.
* **A limit of eight attempts** after which a row is FAILED and nothing follows.
* **Idempotency keys.** The key is looked up before the transaction that stores
  it, so requests race; a client repeats a request that was committed but not
  answered; the loser of a race learns what it lost to only from a unique index.
* **A cache that nobody orders.** A reader fills Redis with what it read before a
  change whose invalidation has already run; an invalidation may fail or never be
  made, and a redelivered message does not make up for it.
* **A partition that moves** to another replica while its record is in a handler,
  handlers and dead letter publications that fail, records no handler can process.
* **A rate limiter with two stores and a clock reading that gets old** while a call
  to Redis is failing.

`PROJECT.json` lists these hazards at their lines, with the properties that
would catch them going wrong.

## 2. The modules

| module | models | extends |
|---|---|---|
| `Messages` | topics and envelopes of `packages/contracts/src/index.ts` | |
| `BookingService` | the transactions of `booking.repository.ts` | `Messages` |
| `EventService` | the transactions of `inventory.repository.ts` and `event.repository.ts` | `Messages` |
| `NotificationService` | the three handlers and `appendIfUnprocessed` | `Messages` |
| `EventBooking` | the saga: the three services, their outboxes, the broker | the three |
| `SeatLedger` | the abstract specification: one atomic ledger of seats | |
| `Outbox` | one outbox table, its dispatchers, claims and the inline publication of `InventoryService.reserveSeats` | |
| `Relay` | the abstract specification of an outbox: what `EventBooking` assumes of one | |
| `BookingApi` | `POST /bookings`: look-up of the key, transaction, collision, dispatch, answer | |
| `KeyedBooking` | its abstract specification: a map from keys to one booking each | |
| `EventCache` | reads, fills and invalidations of one event in Redis | |
| `ConsumerRunner` | `KafkaConsumerRunner` and `processKafkaRecord` on one partition | |
| `Delivery` | the abstract specification of consumption: what `EventBooking` assumes of it | |
| `RateLimiter` | the fixed window in Redis and the fallback in memory | |
| `EventBookingMC`, `OutboxMC`, `BookingApiMC` | symmetry sets for TLC | |
| `EventBookingProofs` | type correctness, the inductive invariant, that no saga is cut, eventual agreement | `EventBooking` |
| `SeatLedgerProofs` | `EventBooking` implements `SeatLedger` | `EventBookingProofs` |
| `OutboxProofs` | the safety of `Outbox`, and that it refines `Relay` | `Outbox` |
| `BookingApiProofs` | the safety of `BookingApi`, and that it implements `KeyedBooking` | `BookingApi` |
| `ConsumerRunnerProofs` | the safety of `ConsumerRunner`, and that it refines `Delivery` | `ConsumerRunner` |
| `EventCacheProofs`, `RateLimiterProofs` | their inductive invariants and what follows | `EventCache`, `RateLimiter` |

*How they fit together.* `EventBooking` is the whole saga with two parts at a
coarse grain, the relay from outbox to broker and the delivery from broker to
handler. `Outbox` shows that the code of the dispatchers is such a relay: its
property `ImplementsRelay` is the specification `Relay`, whose actions and fairness
are those of `EventBooking` (`Publish`, `Abandon`, weak fairness of `Dispatch`).
`ConsumerRunner` shows the same of delivery: its property `ImplementsDelivery` is
the specification `Delivery`, in which the records of a partition take effect in
order, each at least once, poisoned ones are put aside in their turn, and none stays
owed while a process consumes. `EventBooking` assumes less, as it hands out messages
in any order, and its weak fairness of each consumer is `Delivery!Fairness`.
`BookingApi` is the front of the saga: its `Insert` is `CreateBookingWithOutbox`,
seen by clients who do not know whether it happened. `EventCache` and `RateLimiter`
stand between readers and the event service; the saga never reads the cache.

### State and actions

*Atomicity.* Every action of the three service modules is one database
transaction. That is sound under PostgreSQL's READ COMMITTED because every
transaction changes shared rows only with a single guarded statement
(`UPDATE ... WHERE`), which re-evaluates its guard on the row it locked, and two
handlers of one message are kept apart by the primary key of the inbox. A
transaction that finds its message in the inbox rolls back or commits nothing,
so it is no step of the model. What a handler does after its transaction,
`dispatchPending` or an inline publication, is a step of its own, since the
process may stop in between and other replicas may act.

*Outbox and broker.* In `EventBooking` an outbox is the set of messages that
were ever inserted, and `broker` the set of those that were ever published.
Delivery does not remove a message from `broker`, so redelivery, duplication and
reordering need no actions of their own: any published message may be consumed
at any time, any number of times. `Publish` is also possible for a message whose
row is given up, as a slow worker or the inline handler would do it; `Abandon`
is a row that ran out of attempts. How a single row gets to its topic is the
subject of `Outbox`, at the grain of single statements.

*Freshness.* `randomUUID()` yields an id that is not in use. A message id is a
triple of topic, booking and nonce, with the least free nonce; topic and booking
only make ids independent of the order in which they were drawn, which keeps the
state space small. With one nonce an action that enqueues a second message for
the same step is disabled; the runs that check uniqueness have two.

*Left out of messages.* User, timestamp, correlation id (the booking id) and
failure reason, on which no handler decides. The two failure topics have no
quantity in the code; the model carries the requested one and reads it nowhere
but in the type and in `MessagesMatchBookings`.

*Unreachable code left out.* The `INVALID_QUANTITY` branches (the schemas demand
a positive integer before a handler runs), the status `EXPIRED` (nothing assigns
it), `markConfirmed`, `markFailed` and the other repository methods nothing
calls.

*Outbox.* A row is ABSENT, PENDING, PROCESSING, PUBLISHED or FAILED as in the
table; `attempts`, `claimedBy` and `expired` (claimed more than 60 seconds ago)
are its columns. A worker has a `batch`, the row in hand (`current`) and the
statement it executes next (`step`). `PublishRecord` may succeed, fail, or reach
the broker and lose its answer. `sends` counts the calls of `producer.send`, `onTopic`
is the set of rows whose message is on the topic: the producer has the defaults of
kafkajs, retries by itself and is not idempotent, so that one call may leave several
copies, and how many is not up to this code; `MarkRecord` and `RecordFailure` may fail, before
or after they took effect; `Crash` empties a worker's memory. A worker that comes
back has a new id in the code (`randomUUID()` per process); the model reuses the
id, which only allows more, as the old claim is then still its own. `next_attempt_at` is left out: it delays a claim,
and a claim may be late anyway. `SKIP LOCKED` and `LIMIT` make the claimed batch
any non-empty set of at most `BatchLimit` claimable rows.

`overdue` is a history variable, the rows whose claim ran out in a worker's hands;
properties read it, no action does.

*Booking API.* A request is a client and the number of its try. `pc` is the
statement its handler executes next: the look-up of the key (`Lookup`), the
transaction (`Insert`), the catch block after a unique constraint error
(`AnswerCollision`), `dispatchPending` and the response (`Dispatch`). A client sends
again when it likes, also while an earlier request is in progress, and takes only
the answer to its latest one. `Fails` is a statement that throws or a process that
stops, and `Insert` may commit and fail. A fingerprint is a value of `Payloads`, and
two keys of the key's table exist besides those of `Keys`: none, and the empty
string, which the code takes for none where it tests a key and for a key where the
unique index sees it. The fallback `findByIdempotencyKey` is unreachable, because
booking and key are committed together; the proofs show the invariant that makes it
so. Stored answers keep the status PENDING for ever, so the model's answer is the
booking's identity, not its status.

*Event cache.* A version is a committed state of the event's row; `Change` stands
for an update, a reservation or a release, `Delete` for the administrator's. Each
of these paths calls the invalidation in the code, and in the model each leaves one
`pending`, which may delete the key, fail or never be made.
A reader has read the cache (`Get`), then the database (`Query`), then fills
(`Fill`), at most `Delay` ticks later: the code has no such bound, so the theorems
hold for any. `age` and `excused` are history variables.

*Consumer runner.* One partition, the runners of all replicas, and Kafka as an
external party that assigns the partition, delivers from the last committed offset
and lets a runner that lost the partition finish its handler and even resolve the
record, without a commit. `content` says what each record is: one a handler can
process, no JSON (`malformed`), JSON that is not its topic's message (`mismatched`), or
a message the handler refuses with a `PermanentMessageError`, which the package's tests
do and no handler of the services. It decides what may be thrown (`Raised`): a
`SyntaxError`, a `ZodError`, the refusal, or what the database and the broker throw
into a handler, before or after it took effect. What the code makes of an error is
`Permanent`, its `instanceof` tests, which see the error and not the record; `Catch`
goes on to the dead letter topic or rethrows. An attempt counter that is out of scope and
the position of a consumer that is gone are 1. `GoDeaf` is a consumer that gave up after `start` returned, while `isRunning` still says that
it runs.

*Rate limiter.* Redis holds a count and a remaining life per client; the fallback
`memory` is a function from clients to entries, and the insertion order of a
JavaScript `Map` is kept in them: `older` holds the clients whose entries come before.
Requests that Redis answers and requests that find Redis disconnected are atomic; a
request whose call fails is in a slot between reading the clock and using it. `age`
and `memoryAge` are history variables, the ticks since each of the latest
`2 * MaxRequests` requests that a store let pass; properties read them, no action does.

Each module also defines a few operators named as variants of the one that
follows them (`UpdateEventForgetful`, `ClaimableForever`, ...). No behaviour uses
them: they are plausible mistakes, and `PROJECT.json` pairs each property with
one that violates it, so that no property holds whatever the code does.

## 3. The runs

| run | instance | checks | result |
|---|---|---|---|
| `saga_contention` | 3 bookings of 1..2 seats, 1 event of 1..3 seats, 2 nonces | `IndInv`, `SeatsConserved`, `StatusMatchesSeats`, `OutcomeApplied`, `NothingForgotten` | pass, 53 thousand states |
| `saga_two_events` | 2 bookings, 2 events of 1..2 seats, 2 nonces, 1 row given up | `TypeOK`, `OneMessagePerStep`, `NotificationsTruthful`, `QuietMeansAgreed`, `ImplementsSeatLedger` | pass, 133 thousand states |
| `saga_live` | 2 bookings, 1 event of 1 seat, 1 row given up, fair | `BookingsSettle`, `CancelledSeatsReturn`, `OutcomesNotified` | pass, 6 thousand states |
| `saga_stuck` | as `saga_live` | `EveryBookingSettles` | violated |
| `outbox` | 2 rows (1 inline), 2 workers, 2 attempts, batches of 2, fair | `TypeOK`, `PublishedIsOnTopic`, `SendsBounded`, `OneWorkerPerRow`, `GivenUpLast`, `PublishedIsFinal`, `RowsSettle`, `ImplementsRelay` | pass, 113 thousand states |
| `outbox_stranded` | 2 rows, 2 workers, 2 attempts | `UnfinishedRowStaysAvailable` | violated |
| `outbox_two_workers` | 2 rows, 2 workers, 2 attempts | `RowProcessedByOneWorker` | violated |
| `booking_api` | 3 clients with 2 tries each, 1 key, the empty key and none, 2 payloads | `IndInv`, `OneBookingPerKey`, `AnswersTrue`, `ImplementsKeyedBooking` | pass, 569 thousand states |
| `booking_empty_key` | 2 clients, otherwise as `booking_api` | `RepeatsAreAnswered` | violated |
| `event_cache` | 2 readers, 3 versions, life 3, delay 2, fair | `IndInv`, `StalenessBounded`, `StalenessExplained`, `FreshAtLast` | pass, 92 thousand states |
| `consumer_runner` | 2 runners, 3 records of any content, 2 attempts to start, fair | `IndInv`, `NoRecordSkipped`, `CommittedRecordsDone`, `EveryRecordEnds`, `ImplementsDelivery` | pass, 131 thousand states |
| `rate_limiter` | 2 clients, limit 2, window 2, room for 1 entry, 1 failing call at a time, 1 tick late | `IndInv`, `TypeOK`, `BurstBounded`, `RefusalsEnd` | pass, 100 thousand states |

What they show:

* **Seats** (`SeatsConserved`): at every moment the seats missing from an event
  are those of the bookings that hold some. It follows that a release always
  fits, that no event is deleted under a booking and that nothing is sold twice.
* **Agreement** (`StatusMatchesSeats`): a CONFIRMED booking has its seats in the
  other database, a FAILED one has none, and seats go back only for a CANCELLED
  one.
* **No dropped outcome** (`OutcomeApplied`): the branches "Unable to confirm
  booking" and "Unable to fail booking" are never taken.
* **No saga is cut** (`NothingForgotten`): whatever a booking still waits for is
  stored in an outbox and in no inbox, so that publishing and delivering again is
  always enough to go on.
* **Eventual consistency** (`QuietMeansAgreed`): whenever no message is on its way,
  every request is answered, exactly the CONFIRMED bookings hold seats, and users were
  told of each outcome once.
* **Liveness** (`BookingsSettle`, `CancelledSeatsReturn`): every booking is answered, and
  every cancellation reaches the event service's inbox, except through a row that was
  given up; that the seats it returns then fit is `SeatsConserved`.
* **Uniqueness** (`OneMessagePerStep`): duplicates downstream always carry the
  same message id, which is what the inboxes rely on.
* **Notifications** (`NotificationsTruthful`, `OutcomesNotified`): at most one per
  outcome, only true ones, and each in the end.
* **Refinement** (`ImplementsSeatLedger`): all of it together behaves like
  `SeatLedger`, in which granting seats is atomic.
* **Outbox**: PUBLISHED means that the message is on the topic and is final;
  a message is handed to the producer at most once per attempt and once more by the
  inline handler (`SendsBounded`); a claim keeps a row to one worker for as long as it lasts
  (`OneWorkerPerRow`); a row is FAILED only after its last attempt, with no worker in
  the time of a claim on it, and a row put back to PENDING is found by the next claim
  (`GivenUpLast`); every row ends PUBLISHED, FAILED or stranded; and the outbox
  is the relay that the saga assumes (`ImplementsRelay`).
* **Idempotency** (`OneBookingPerKey`, `AnswersTrue`): however requests race, fail and
  are repeated, there is one booking per key, nobody is told of a booking that is not
  theirs, and `createBooking` behaves like `KeyedBooking` (`ImplementsKeyedBooking`),
  in which the first request settles a key for good.
* **Cache** (`StalenessBounded`, `StalenessExplained`, `FreshAtLast`): a superseded
  state is served for at most the life of a key and the delay of one fill, counted
  from its change, whatever fails; without a lost invalidation or an overtaken fill
  it is not served at all once invalidations are through.
* **Consumption** (`NoRecordSkipped`, `CommittedRecordsDone`, `EveryRecordEnds`,
  `ImplementsDelivery`): records take effect in the order of their partition; no crash,
  failure or reassignment passes over a record; an error that would pass never costs a
  message, one that would not is never taken for a success or retried for ever, so that a
  poisoned record does not block its partition. A record may stay
  only if every process has gone deaf, which no readiness check would show.
* **Rate limit** (`BurstBounded`, `RefusalsEnd`): in the length of one window a client
  passes fewer than twice its limit through Redis; through the fallback, in the
  length of a window less the time a call to Redis takes to fail. The difference is
  real: with the full length the bound fails, as the fallback's window starts at a
  clock reading that is that old.

The four violated runs are disagreements between the code and what the
repository says of it, quoted in `PROJECT.json`: a booking whose relay is out of
attempts is PENDING for ever (README.md:61, 64, 101); a row whose last
bookkeeping failed is PROCESSING for ever (the comment in `publishRecord`); a row
may be published by two workers (docs/architecture.md:98); a second request with an
empty `Idempotency-Key` is answered with an internal error (README.md:92).

### Bounds

`MaxQuantity`, `MaxCapacity`, `Nonces` and `MaxAbandoned` bound the saga,
`MaxAttempts` (8 in the code) and `BatchLimit` (25) the outbox. Three bookings of
up to two seats against three seats give every interesting case of contention:
all fit, some fit, the order decides, a seat is left that is too small for the
next request, and a cancellation makes room. Two events are enough for a message
to hit the wrong one. Two nonces let a second message for one step exist, so
that it can be seen. Two workers are enough for a lost claim, two attempts for one that can be repeated
and a last one; three attempts give 400 thousand states and the same results.
Three clients under one key are a winner, a loser with its payload and a loser with
another; `MaxTries` of two is a request and its repetition. Three versions let a
reader be overtaken twice; `TTL` and `Delay` differ and exceed one tick. Three
records have a record behind and before an invalid one. `MaxEntries` of one with two
clients makes every new entry drop another; counters that only tell whether a client
is over its limit stop one above it. The theorems hold for all values.

Deadlock is not checked: a system in which everything was requested, consumed
and relayed has nothing left to do.

### Fairness

`EventBooking!Fairness` is weak fairness of each message's relay, while its row
has attempts left, and of each consumer. It stands for the five-second timers of
the dispatchers (`start`) and for Kafka's redelivery of a record whose handler
failed. Nobody is obliged to send a request, and giving a row up is never fair.
The liveness properties name the rows whose loss excuses them.
`Outbox!Fairness` is weak fairness of claims, of a worker's next statement and of
the passing of 60 seconds. A worker may still crash after every claim: each one
costs an attempt, so rows end after at most `MaxAttempts` of them.

`EventCache!Fairness` makes time pass and a fill end; nobody has to read, write or
invalidate. `ConsumerRunner!Fairness` has strong fairness of the steps that Kafka
and the process manager keep offering: starting, being assigned a free partition,
getting a record, committing. A handler or a dead letter publication may fail any
number of times, but not always, while the partition stays with one runner: that is
what a transient failure is. A runner that goes deaf is not restarted by anybody,
which is why `EveryRecordEnds` excepts the case that all have. `RateLimiter!Fairness`
makes time pass and a failing call fail.

## 4. The proofs

Each theorem says that the specification of its module has the property for every
value of the constants.

| module | theorem | property |
|---|---|---|
| `EventBookingProofs` | `TypeCorrect` | `TypeOK` |
| | `Inductive` | `IndInv` |
| | `Conservation` | `SeatsConserved` |
| | `Agreement` | `StatusMatchesSeats` |
| | `Uniqueness` | `OneMessagePerStep` |
| | `NoOutcomeLost` | `OutcomeApplied` |
| | `SagasResumable` | `NothingForgotten` |
| | `EventualAgreement` | `QuietMeansAgreed` |
| | `Truthfulness` | `NotificationsTruthful` |
| `SeatLedgerProofs` | `Refinement` | `ImplementsSeatLedger` |
| `OutboxProofs` | `TypeCorrect` | `TypeOK` |
| | `MarkedOnlyWhenSent` | `PublishedIsOnTopic` |
| | `ClaimsExclusive` | `OneWorkerPerRow` |
| | `PublishedForGood` | `PublishedIsFinal` |
| | `GivenUpAtTheLimit` | `GivenUpLast` |
| | `SendsPerAttempt` | `SendsBounded` |
| | `RelaySafe` | the safety part of `ImplementsRelay` |
| `BookingApiProofs` | `KeysAndBookingsAgree` | `IndInv` |
| | `OneBooking` | `OneBookingPerKey` |
| | `Truthful` | `AnswersTrue` |
| | `RefinesKeyedBooking` | `ImplementsKeyedBooking` |
| `EventCacheProofs` | `CacheConsistent` | `IndInv` |
| | `StaleForABoundedTime` | `StalenessBounded` |
| | `StaleForAReason` | `StalenessExplained` |
| `ConsumerRunnerProofs` | `RunnersConsistent` | `IndInv` |
| | `NothingSkipped` | `NoRecordSkipped` |
| | `CommittedDone` | `CommittedRecordsDone` |
| | `DeliverySafe` | the safety part of `ImplementsDelivery` |
| `RateLimiterProofs` | `WindowsRight` | `IndInv` |
| | `TypeCorrect` | `TypeOK` |
| | `BurstsBounded` | `BurstBounded` |

### The saga

The theorems about `EventBooking` hold for any finite set of bookings and any events,
quantities, capacities, nonces and number of abandoned rows. They rest on `MessagesAssumption` (finitely many bookings, `NoEvent` is no event,
quantities are positive) and `EventAssumption` (capacities are naturals), which
TLC evaluates on every run of the saga.

*Argument.* `SeatsConserved` alone is not inductive: a cancellation delivered
twice, or one of a booking that holds nothing, would break it. `IndInv` adds why
that cannot be. `MessagesStored` and `MessagesMatchBookings` tie the messages to
rows, `DecidedOnce` says that the event service decides once on each booking, on
the one request that is in its inbox; `StatusCaused` backs every status by the
outcome that led to it and `AnnouncementsTrue` every announcement by the status.
So an unprocessed outcome meets a PENDING booking (`OutcomeFindsPending`), an
unprocessed request an undecided one (`RequestUndecided`) and an unprocessed
cancellation a booking that still holds its seats (`CancellationHolds`), and each
step moves exactly that booking's seats. The seats of a booking are counted as
pairs of booking and seat number, so that sums over bookings become
cardinalities and the proofs need no induction over sets. There is one lemma per
action; `InductiveStep` puts them together.

*No saga is cut.* `NothingForgotten` is inductive relative to `IndInv`. A new message
has a fresh id, which is in no inbox because inboxes hold only ids of the other side's
outbox (`MessagesStored`), so a stored next step starts unprocessed
(`RequestForgetsNothing`). The transaction that takes a request into the inbox stores
its outcome (`DecisionForgetsNothing`), and the one that takes an outcome changes the
status and stores the announcement, since `OutcomeFindsPending` excludes the branch that
would do neither (`OutcomeForgetsNothing`). `EventualAgreement` is a corollary: when
every stored message is in its inboxes, a PENDING booking would have nothing left to
wait for, seats follow the decisions and the cancellations processed, and notifications
the announcements.

*Refinement.* The mapping reads a booking's seats off the tables: returned once
its cancellation is in the event service's inbox, else held or refused after the
decision. Each action is one step of the ledger (`AskStep`, `DecideStep`,
`AnnounceStep`, `CancelStep`, `GiveBackStep`, `ResizeStep`); relays and
notifications are stuttering.

### The outbox

For any finite sets of rows and workers (`OutboxAssumption`). `Consistent` has the
type invariant, a worker's memory (`WorkersConsistent`: it marks only what it has
published), the inline handler's, and the claims: an unexpired claim is still its
worker's, or the row is PUBLISHED (`ClaimsHold`), and no two workers are within the
time of a claim on one row (`ClaimsApart`). The bound on the calls of the producer
needs counting: `SendsPaid` says that the calls that were made, and those that workers and
the inline handler may still make, are within the attempts. A claim raises both sides by
one for each row of its batch; a publish moves a call from the future to the past; a
crash only gives one away.

`GivenUpLast` needs a bound of its own, `AttemptsRight`: a PENDING row has an attempt
left. Only a claim raises the attempts and it leaves the row PROCESSING; what puts the
row back to PENDING is the same statement that gives it up at the limit, and a statement
repeated by an overtaken worker finds `claimed_by` changed. That nobody is in the time of
a claim on a FAILED row is `ClaimsHold`.

`RelaySafe` maps the rows to sets of messages: stored, on the topic, out of attempts.
A claim of several rows on their last attempt is one `Abandon`.

### The booking API

For any clients, keys, payloads and number of tries (`BookingApiAssumption`).
`RecordsMatchBookings` ties the key table to the bookings, `HandlersInform` says what
a handler may rely on before each statement, above all that a collision has left a
record to answer with: the transaction that took the key has stored both. From the two
follows that an answer is true whenever it is sent, and it stays true since bookings
and records never go away. The refinement maps a key's record to its owner and a
client's answer to what it was told; every statement but `Insert` and the answers is
stuttering, for clients without a key all are.

### The cache and the consumer

`EventCache`: for any readers, versions, life and delay. What a reader holds was
current when it asked, so its age is at most the time it has waited (`HeldBounded`);
a fill thus starts a life at an age of at most `Delay`, and from then on each tick adds
to the age what it takes from the life.

`ConsumerRunner`: for any runners, records and attempts. A runner's position is past
only records that are handled or dead (`PositionsCovered`), also that of a runner
that has lost the partition, so any commit is covered, and so is the position of
whoever gets the partition next. `PermanentErrorsFit` compares the classification with
what may be thrown: no error of a record that can be processed is permanent and every error
of one that cannot be parsed is, so a runner is on the way to the dead letter topic only
with what nobody can process (`OutcomesFit`, `FailOutcome`). With `NoRecordSkipped` that gives
`CommittedRecordsDone`. For `DeliverySafe` the same fact says that the record
at hand is due whenever a handler takes effect or a dead letter is published
(`RecordIsDue`); repeating a record adds nothing, and every other step is stuttering.

### The rate limiter

For any clients, slots, limit, window, room and time a call may take to fail
(`RateLimiterAssumption` only makes limit, window and room positive; the code sets no
timeout for Redis, so none is assumed). `RedisWindows` and `MemoryWindows` relate the
counts to the ages of the requests that passed. The first request of a window is no
younger than what has elapsed of the window, and the requests before those of the last
window are older than a window. When a window begins, the limit's requests of the one
before it shift back by one each, and those of the window before that are too old, so
the `2 * MaxRequests`-th latest is always a window's length away. In memory the elapsed
time is known only up to `Lag`, since the end was computed from an old reading of the
clock, which is why the bound is stated for `Window - Lag`; if calls may take a whole
window to fail, nothing is promised of the memory. A window there may also end
while a request that read the clock earlier still finds it alive; the ages do not care,
as its count goes on.

The bound on the store needs that making room makes room: a store that is full has an
entry with none older (`older` is a strict order on a finite set), and dropping it leaves
at most `MaxEntries - 1`. `Ordered` is preserved by dropping any set of entries
and by adding one behind all others.

### What is only model-checked

The liveness properties (`BookingsSettle`, `CancelledSeatsReturn`, `OutcomesNotified`,
`RowsSettle`, the fairness in `ImplementsRelay` and in `ImplementsDelivery`,
`FreshAtLast`, `EveryRecordEnds`, `RefusalsEnd`), since fairness and ENABLED are out of
the prover's reach. Every invariant and every other safety property of the passing runs
is proved.

## 5. Not modelled

* **The user service.** It keeps one table, sends no messages and shares no state with
  the other services. Its one hazard, a look-up that races with a unique index and
  whose loser is answered with 409, is what `BookingApi` has in a harder form.
* **HTTP plumbing, validation, logging, metrics, health checks, deployment.** They keep
  no state that a property is about. `isRunning`, which readiness reads, appears in
  `ConsumerRunner` as a deaf runner that looks alive.
* **Reads** (`getBookingById`, listings) change nothing. The in-memory event cache is
  the default of `createApp` and not used by the running service. `IdempotencyService`
  and its repository and middleware are not called by it either.
* **Backoff and sleeping times** only delay what may be late anyway.

What could still be added: the registration of users as a race on a unique index; the
refusals of the rate limiter, which counts a request in Redis whose answer is lost and
then again in memory; and the composition of `BookingApi` with `EventBooking` in one
specification, where `Insert` is the action `CreateBookingWithOutbox`.
