---------------------------- MODULE EventService ----------------------------
(***************************************************************************)
(* services/event-service: the events table with its seat counts, the      *)
(* outbox and the inbox (processed_event_messages) of the inventory.       *)
(* Every action is one transaction or one guarded statement of             *)
(* inventory.repository.ts or event.repository.ts.                         *)
(***************************************************************************)
EXTENDS Messages

CONSTANT MaxCapacity  \* bound: the largest number of seats an event has

ASSUME EventAssumption == MaxCapacity \in Nat

VARIABLES
  catalog,      \* ids of the events that exist
  deleted,      \* ids that were deleted; a UUID is not drawn twice
  total,        \* events.total_seats
  available,    \* events.available_seats
  eventOutbox,  \* the messages of event_outbox_events
  eventInbox    \* message ids in processed_event_messages

eventVars == <<catalog, deleted, total, available, eventOutbox, eventInbox>>

EventTypeOK ==
  /\ catalog \subseteq Events
  /\ deleted \subseteq Events
  /\ catalog \intersect deleted = {}
  /\ total \in [Events -> 0..MaxCapacity]
  /\ available \in [Events -> 0..MaxCapacity]
  /\ eventOutbox \subseteq { m \in Message : m.topic \in EventTopics }
  /\ eventInbox \subseteq MessageIds

EventInit ==
  /\ catalog = {}
  /\ deleted = {}
  /\ total = [e \in Events |-> 0]
  /\ available = [e \in Events |-> 0]
  /\ eventOutbox = {}
  /\ eventInbox = {}

-----------------------------------------------------------------------------
(* The administration of events, modules/events.                           *)

CreateEvent(e, n) ==
  /\ e \notin catalog \union deleted
  /\ catalog' = catalog \union {e}
  /\ total' = [total EXCEPT ![e] = n]
  /\ available' = [available EXCEPT ![e] = n]
  /\ UNCHANGED <<deleted, eventOutbox, eventInbox>>

\* As UpdateEvent below, forgetting the seats in use.
UpdateEventForgetful(e, n) ==
  /\ e \in catalog
  /\ total' = [total EXCEPT ![e] = n]
  /\ available' = [available EXCEPT ![e] = n]
  /\ UNCHANGED <<catalog, deleted, eventOutbox, eventInbox>>

\* PUT /events/:id: a capacity below the seats in use is refused.
UpdateEvent(e, n) ==
  /\ e \in catalog
  /\ n >= total[e] - available[e]
  /\ total' = [total EXCEPT ![e] = n]
  /\ available' = [available EXCEPT ![e] = n - (total[e] - available[e])]
  /\ UNCHANGED <<catalog, deleted, eventOutbox, eventInbox>>

\* As DeleteEvent below, without the check for seats in use.
DeleteEventUnguarded(e) ==
  /\ e \in catalog
  /\ catalog' = catalog \ {e}
  /\ deleted' = deleted \union {e}
  /\ total' = [total EXCEPT ![e] = 0]
  /\ available' = [available EXCEPT ![e] = 0]
  /\ UNCHANGED <<eventOutbox, eventInbox>>

\* DELETE /events/:id: refused while seats are in use.
DeleteEvent(e) ==
  /\ e \in catalog
  /\ available[e] = total[e]
  /\ catalog' = catalog \ {e}
  /\ deleted' = deleted \union {e}
  /\ total' = [total EXCEPT ![e] = 0]
  /\ available' = [available EXCEPT ![e] = 0]
  /\ UNCHANGED <<eventOutbox, eventInbox>>

-----------------------------------------------------------------------------
(* The inventory, modules/inventory.                                       *)

\* An inbox that is not looked at.
NeverProcessedByEvent(m) == FALSE

\* The insert into the inbox hits its primary key: the message is a duplicate.
ProcessedByEvent(m) == m.messageId \in eventInbox

RecordInEventInbox(m) ==
  /\ ~ProcessedByEvent(m)
  /\ eventInbox' = eventInbox \union {m.messageId}

EnqueueEvent(topic, m) ==
  \E o \in Envelopes(topic, m.bookingId, m.eventId, m.quantity, Ids(eventOutbox)) :
    eventOutbox' = eventOutbox \union {o}

\* As SeatsSuffice below, testing that there are seats but not how many.
ExistenceSuffices(m) == m.eventId \in catalog /\ available[m.eventId] > 0

\* UPDATE events ... WHERE id = eventId AND available_seats >= quantity.
SeatsSuffice(m) == m.eventId \in catalog /\ available[m.eventId] >= m.quantity

\* The first branch of processReserveSeatsMessage: seats taken, success enqueued.
ReserveSeats(m) ==
  /\ m.topic = "RESERVE_SEATS"
  /\ RecordInEventInbox(m)
  /\ SeatsSuffice(m)
  /\ available' = [available EXCEPT ![m.eventId] = @ - m.quantity]
  /\ EnqueueEvent("SEATS_RESERVED", m)
  /\ UNCHANGED <<catalog, deleted, total>>

\* As RejectReservation below, with the refusal stored nowhere.
RejectReservationSilently(m) ==
  /\ m.topic = "RESERVE_SEATS"
  /\ RecordInEventInbox(m)
  /\ ~SeatsSuffice(m)
  /\ UNCHANGED <<catalog, deleted, total, available, eventOutbox>>

\* Its second branch: the event has too few seats or does not exist.
RejectReservation(m) ==
  /\ m.topic = "RESERVE_SEATS"
  /\ RecordInEventInbox(m)
  /\ ~SeatsSuffice(m)
  /\ EnqueueEvent("SEAT_RESERVATION_FAILED", m)
  /\ UNCHANGED <<catalog, deleted, total, available>>

\* UPDATE events ... WHERE available_seats + quantity <= total_seats.
SeatsFit(m) ==
  /\ m.eventId \in catalog
  /\ available[m.eventId] + m.quantity <= total[m.eventId]

\* processReleaseSeatsMessage: a release that does not fit is logged and dropped,
\* but its message id stays in the inbox and it is never tried again.
ReleaseSeats(m) ==
  /\ m.topic = "BOOKING_CANCELLED"
  /\ RecordInEventInbox(m)
  /\ available' = IF SeatsFit(m)
                  THEN [available EXCEPT ![m.eventId] = @ + m.quantity]
                  ELSE available
  /\ UNCHANGED <<catalog, deleted, total, eventOutbox>>

=============================================================================
