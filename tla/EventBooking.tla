---------------------------- MODULE EventBooking ----------------------------
(***************************************************************************)
(* The booking saga: the three services, their outboxes and the broker     *)
(* between them.                                                           *)
(*                                                                         *)
(* A message is on the broker from the moment an outbox relay publishes    *)
(* it.  Messages on the broker are never removed: a consumer may be handed *)
(* any of them at any time, once, again after a crash before its offset    *)
(* was committed, or twice because a relay published a row twice.  A       *)
(* service may stop after any transaction and start again, since all that  *)
(* this module keeps is in a database or on the broker.                    *)
(*                                                                         *)
(* How a row gets from its table to the broker, by several workers that    *)
(* claim, publish, mark and crash, is the subject of module Outbox; here   *)
(* a row is published (Publish) or given up (Abandon).                     *)
(***************************************************************************)
EXTENDS BookingService, EventService, NotificationService

CONSTANT MaxAbandoned  \* bound: the number of rows whose relay gives up

VARIABLES
  broker,    \* messages published to Kafka
  abandoned  \* outbox rows out of attempts, which no dispatcher claims again

relayVars == <<broker, abandoned>>
vars == <<bookingVars, eventVars, notificationVars, relayVars>>

Outbox == bookingOutbox \union eventOutbox

Init ==
  /\ BookingInit
  /\ EventInit
  /\ NotificationInit
  /\ broker = {}
  /\ abandoned = {}

-----------------------------------------------------------------------------
\* The row's message is written to its topic: by dispatchPending, by a worker so
\* slow that its claim is lost, or by InventoryService.reserveSeats, which
\* publishes the outcome it has just stored by itself.  The last two do so
\* whatever has become of the row in the meantime.
Publish(m) ==
  /\ m \in Outbox
  /\ broker' = broker \union {m}
  /\ UNCHANGED <<bookingVars, eventVars, notificationVars, abandoned>>

\* The part of it that the dispatchers owe: the row still has attempts.
Dispatch(m) == m \notin abandoned /\ Publish(m)

\* The last attempt failed, or its worker died.  Giving up a row that is on the
\* broker already makes no difference to anyone and is left out.
Abandon(m) ==
  /\ m \in Outbox \ (broker \union abandoned)
  /\ Cardinality(abandoned) < MaxAbandoned
  /\ abandoned' = abandoned \union {m}
  /\ UNCHANGED <<bookingVars, eventVars, notificationVars, broker>>

Requests ==
  /\ \E b \in Bookings : \/ \E e \in Events, q \in Quantities : CreateBookingWithOutbox(b, e, q)
                         \/ CancelBookingWithOutbox(b)
  /\ UNCHANGED <<eventVars, notificationVars, relayVars>>

Administration ==
  /\ \E e \in Events : \/ \E n \in 1..MaxCapacity : CreateEvent(e, n) \/ UpdateEvent(e, n)
                       \/ DeleteEvent(e)
  /\ UNCHANGED <<bookingVars, notificationVars, relayVars>>

\* What each service subscribes to; one consumer group per service.
BookingConsumes(m) ==
  /\ m \in broker
  /\ ProcessSeatsReservedMessage(m) \/ ProcessSeatReservationFailedMessage(m)
  /\ UNCHANGED <<eventVars, notificationVars, relayVars>>

EventConsumes(m) ==
  /\ m \in broker
  /\ ReserveSeats(m) \/ RejectReservation(m) \/ ReleaseSeats(m)
  /\ UNCHANGED <<bookingVars, notificationVars, relayVars>>

NotificationConsumes(m) ==
  /\ m \in broker
  /\ HandleBookingConfirmed(m) \/ HandleBookingFailed(m) \/ HandleBookingCancelled(m)
  /\ UNCHANGED <<bookingVars, eventVars, relayVars>>

Next ==
  \/ Requests
  \/ Administration
  \/ \E m \in Outbox : Publish(m) \/ Abandon(m)
  \/ \E m \in broker : BookingConsumes(m) \/ EventConsumes(m) \/ NotificationConsumes(m)

Spec == Init /\ [][Next]_vars

\* The dispatchers' timers keep firing and the consumers keep polling.  Nobody
\* is obliged to send a request, and no relay is obliged to give up.
Fairness ==
  \A m \in Message :
    /\ WF_vars(Dispatch(m))
    /\ WF_vars(BookingConsumes(m))
    /\ WF_vars(EventConsumes(m))
    /\ WF_vars(NotificationConsumes(m))

FairSpec == Spec /\ Fairness

-----------------------------------------------------------------------------
(* Where a booking's seats are, read off the tables of the two services.   *)

Status(b) == booking[b].status

\* The event service decided on booking b: it holds seats, or was refused.
Decided(b, topic) == \E o \in eventOutbox : o.topic = topic /\ o.bookingId = b

\* The cancellation of b has been through the event service.
Released(b) ==
  \E c \in bookingOutbox :
    c.topic = "BOOKING_CANCELLED" /\ c.bookingId = b /\ c.messageId \in eventInbox

Holds(b) == Decided(b, "SEATS_RESERVED") /\ ~Released(b)

Holders(e) == { b \in Bookings : booking[b].eventId = e /\ Holds(b) }

\* The seats of event e in the hands of bookings, one pair per seat.
TakenSeats(e) == UNION { {b} \X (1..booking[b].quantity) : b \in Holders(e) }

-----------------------------------------------------------------------------
(* Safety.                                                                 *)

\* Every variable has its type; in particular no seat count leaves 0..total,
\* which the database would otherwise refuse with its CHECK constraints.
TypeOK ==
  /\ BookingTypeOK
  /\ EventTypeOK
  /\ NotificationTypeOK
  /\ broker \subseteq Message
  /\ abandoned \subseteq Message
  /\ \A e \in Events : available[e] <= total[e]

\* The ledger balances: at every moment the seats an event has lost are exactly
\* the seats of the bookings that hold some, each counted once, whatever was
\* delivered twice, late or out of order; an event that does not exist has no
\* holder, so no delete or resize ever leaves a booking without its seats.
SeatsConserved ==
  \A e \in Events : total[e] - available[e] = Cardinality(TakenSeats(e))

\* What a client reads agrees with what the event service holds for it, in the
\* other database: a CONFIRMED booking has its seats, a FAILED one has none, and
\* seats are given back only for a booking that was cancelled.
StatusMatchesSeats ==
  \A b \in Bookings :
    /\ Status(b) = "CONFIRMED" => Holds(b)
    /\ Status(b) = "FAILED" => Decided(b, "SEAT_RESERVATION_FAILED") /\ ~Holds(b)
    /\ Released(b) => Status(b) = "CANCELLED"

\* No step of a booking's saga is announced twice under different message ids,
\* which the inboxes downstream could not recognise as duplicates, and no
\* booking is both granted and refused, or both confirmed and failed.
OneMessagePerStep ==
  /\ \A m1, m2 \in Outbox :
       m1.bookingId = m2.bookingId /\ m1.topic = m2.topic => m1 = m2
  /\ \A m1, m2 \in Outbox :
       m1.bookingId = m2.bookingId => {m1.topic, m2.topic} \notin
         {EventTopics, {"BOOKING_CONFIRMED", "BOOKING_FAILED"},
          {"BOOKING_CANCELLED", "BOOKING_FAILED"}}

\* An outcome the booking service has marked as processed is never one it threw
\* away: the WHERE clause of the handlers always finds the booking PENDING, so
\* the branch that only logs "Unable to confirm booking" is never taken.
OutcomeApplied ==
  \A m \in eventOutbox :
    m.messageId \in bookingInbox =>
      Status(m.bookingId) \in IF m.topic = "SEATS_RESERVED"
                              THEN {"CONFIRMED", "CANCELLED"} ELSE {"FAILED"}

\* A user is told of each outcome at most once, is never told both that the
\* booking succeeded and that it failed, and is never told of an outcome that
\* the booking does not have.
NotificationsTruthful ==
  \A b \in Bookings :
    /\ \A t \in NotifiedTopics : notifications[b][t] <= 1
    /\ notifications[b]["BOOKING_CONFIRMED"] > 0 => Status(b) \in {"CONFIRMED", "CANCELLED"}
    /\ notifications[b]["BOOKING_FAILED"] > 0 => Status(b) = "FAILED"
    /\ notifications[b]["BOOKING_CANCELLED"] > 0 => Status(b) = "CANCELLED"

Announced(b, topic) == \E m \in bookingOutbox : m.topic = topic /\ m.bookingId = b

NextStepStored(b) ==
  /\ Status(b) = "PENDING" =>
       \/ \E m \in bookingOutbox : /\ m.topic = "RESERVE_SEATS"
                                    /\ m.bookingId = b
                                    /\ m.messageId \notin eventInbox
       \/ \E o \in eventOutbox : o.bookingId = b /\ o.messageId \notin bookingInbox
  /\ Status(b) \in {"CONFIRMED", "CANCELLED"} => Announced(b, "BOOKING_CONFIRMED")
  /\ Status(b) = "FAILED" => Announced(b, "BOOKING_FAILED")
  /\ Status(b) = "CANCELLED" => Announced(b, "BOOKING_CANCELLED")

\* What still has to happen to a booking is stored in some outbox, and no inbox
\* will take it for done: a PENDING booking has a request that the event service
\* has not processed or an outcome that its own service has not, whichever
\* transactions and deliveries came in between, and every outcome and every
\* cancellation is announced.  Once a saga is cut no retry would resume it.
NothingForgotten == \A b \in Bookings : NextStepStored(b)

\* Every stored message has been through the transaction of each of its consumers.
Quiet ==
  /\ \A m \in bookingOutbox :
       /\ m.topic \in {"RESERVE_SEATS", "BOOKING_CANCELLED"} => m.messageId \in eventInbox
       /\ m.topic \in NotifiedTopics => m.messageId \in notificationInbox
  /\ Ids(eventOutbox) \subseteq bookingInbox

\* The outcomes a booking has had when a client reads this status.
OutcomesOf(status) ==
  { t \in NotifiedTopics :
      \/ t = "BOOKING_CONFIRMED" /\ status \in {"CONFIRMED", "CANCELLED"}
      \/ t = "BOOKING_FAILED" /\ status = "FAILED"
      \/ t = "BOOKING_CANCELLED" /\ status = "CANCELLED" }

\* Eventual consistency: whenever nothing is on its way, in whatever order things
\* came, every request is answered, exactly the CONFIRMED bookings hold seats, and
\* the users were told of each outcome once and of nothing else.
QuietMeansAgreed ==
  Quiet =>
    \A b \in Bookings :
      /\ Status(b) # "PENDING"
      /\ Holds(b) <=> Status(b) = "CONFIRMED"
      /\ \A t \in NotifiedTopics :
           notifications[b][t] = IF t \in OutcomesOf(Status(b)) THEN 1 ELSE 0

-----------------------------------------------------------------------------
(* The inductive invariant: the safety properties above, and what links the *)
(* rows, inboxes and statuses of the services to each other.               *)

\* Only stored messages are published or given up, and only messages of the
\* other side's outbox are in an inbox.
MessagesStored ==
  /\ broker \subseteq Outbox
  /\ abandoned \subseteq Outbox
  /\ eventInbox \subseteq Ids(bookingOutbox)
  /\ bookingInbox \subseteq Ids(eventOutbox)
  /\ notificationInbox \subseteq Ids(bookingOutbox)

\* A message is about a booking that exists and repeats what was requested.
MessagesMatchBookings ==
  \A m \in Outbox :
    /\ Status(m.bookingId) # "NONE"
    /\ m.eventId = booking[m.bookingId].eventId
    /\ m.quantity = booking[m.bookingId].quantity
    /\ m.messageId[1] = m.topic
    /\ m.messageId[2] = m.bookingId

\* The event service decides once on a booking, on its one request.
DecidedOnce ==
  /\ \A o1, o2 \in eventOutbox : o1.bookingId = o2.bookingId => o1 = o2
  /\ \A m1, m2 \in bookingOutbox :
       m1.bookingId = m2.bookingId /\ m1.topic = m2.topic => m1 = m2
  /\ \A o \in eventOutbox : \E m \in bookingOutbox :
       m.topic = "RESERVE_SEATS" /\ m.bookingId = o.bookingId /\ m.messageId \in eventInbox

\* A status is backed by the processed outcome that led to it.
StatusCaused ==
  \A b \in Bookings :
    /\ Status(b) \in {"CONFIRMED", "CANCELLED"} =>
         \E o \in eventOutbox : /\ o.topic = "SEATS_RESERVED"
                                 /\ o.bookingId = b
                                 /\ o.messageId \in bookingInbox
    /\ Status(b) = "FAILED" =>
         \E o \in eventOutbox : /\ o.topic = "SEAT_RESERVATION_FAILED"
                                 /\ o.bookingId = b
                                 /\ o.messageId \in bookingInbox

\* What is announced about a booking is what its status says.
AnnouncementsTrue ==
  \A m \in bookingOutbox :
    /\ m.topic = "BOOKING_CONFIRMED" => Status(m.bookingId) \in {"CONFIRMED", "CANCELLED"}
    /\ m.topic = "BOOKING_FAILED" => Status(m.bookingId) = "FAILED"
    /\ m.topic = "BOOKING_CANCELLED" => Status(m.bookingId) = "CANCELLED"

\* A notification counts one processed message.
NotificationsCounted ==
  \A b \in Bookings, t \in NotifiedTopics :
    notifications[b][t] =
      IF \E m \in bookingOutbox :
           m.topic = t /\ m.bookingId = b /\ m.messageId \in notificationInbox
      THEN 1 ELSE 0

\* An event that does not exist has no seats.
NoSeatsOffCatalog == \A e \in Events \ catalog : total[e] = 0 /\ available[e] = 0

IndInv ==
  /\ TypeOK
  /\ MessagesStored
  /\ MessagesMatchBookings
  /\ DecidedOnce
  /\ StatusCaused
  /\ AnnouncementsTrue
  /\ OutcomeApplied
  /\ NotificationsCounted
  /\ NoSeatsOffCatalog
  /\ SeatsConserved

-----------------------------------------------------------------------------
(* The saga implements the ledger.                                         *)

SeatsOf(b) ==
  IF Released(b) THEN "returned"
  ELSE IF Holds(b) THEN "held"
  ELSE IF Decided(b, "SEAT_RESERVATION_FAILED") THEN "refused" ELSE "none"

RequestOf(b) == [eventId |-> booking[b].eventId, quantity |-> booking[b].quantity]

Ledger == INSTANCE SeatLedger WITH
  NoRequest <- [eventId |-> NoEvent, quantity |-> 0],
  status    <- [b \in Bookings |-> Status(b)],
  request   <- [b \in Bookings |-> RequestOf(b)],
  seats     <- [b \in Bookings |-> SeatsOf(b)],
  capacity  <- total

\* The asynchronous saga is a correct implementation of the ledger: seats are
\* granted exactly when they are free, answers follow the decision, and the
\* seats of a cancelled booking come back once.
ImplementsSeatLedger == Ledger!Spec

-----------------------------------------------------------------------------
(* Liveness.                                                               *)

GivenUp(b, topics) == \E m \in abandoned : m.bookingId = b /\ m.topic \in topics

\* Every booking gets an answer unless a relay gave up its request or its outcome.
BookingsSettle ==
  \A b \in Bookings :
    Status(b) = "PENDING" ~>
      Status(b) # "PENDING" \/ GivenUp(b, {"RESERVE_SEATS"} \union EventTopics)

\* What README.md promises without that exception: every booking is eventually
\* CONFIRMED or FAILED.
EveryBookingSettles == \A b \in Bookings : Status(b) = "PENDING" ~> Status(b) # "PENDING"

\* The seats of a cancelled booking become available again unless a relay gave
\* up the cancellation.
CancelledSeatsReturn ==
  \A b \in Bookings :
    Status(b) = "CANCELLED" ~> Released(b) \/ GivenUp(b, {"BOOKING_CANCELLED"})

\* Every outcome a booking reaches is notified, even when it is overtaken: a
\* booking cancelled before its confirmation was relayed still gets both.
OutcomesNotified ==
  \A b \in Bookings, t \in NotifiedTopics :
    (\E m \in bookingOutbox : m.bookingId = b /\ m.topic = t) ~>
      notifications[b][t] > 0 \/ GivenUp(b, {t})

=============================================================================
