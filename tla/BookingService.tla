--------------------------- MODULE BookingService ---------------------------
(***************************************************************************)
(* services/booking-service: the bookings table, its outbox and its inbox  *)
(* (processed_booking_messages).  Every action is one database transaction *)
(* of booking.repository.ts; what the service publishes afterwards is the  *)
(* business of the module that composes the services.  A transaction that  *)
(* finds the message id in the inbox changes nothing, so it is no step.    *)
(***************************************************************************)
EXTENDS Messages

VARIABLES
  booking,        \* booking row by id, NoBooking before it is inserted
  bookingOutbox,  \* the messages of booking_outbox_events
  bookingInbox    \* message ids in processed_booking_messages

bookingVars == <<booking, bookingOutbox, bookingInbox>>

\* The statuses the code assigns; EXPIRED is declared and never used.
BookingStatus == {"PENDING", "CONFIRMED", "FAILED", "CANCELLED"}

\* What a lookup of an id nobody has requested finds.
NoBooking == [status |-> "NONE", eventId |-> NoEvent, quantity |-> 0]

BookingRows == [status : BookingStatus, eventId : Events, quantity : Quantities]

BookingTypeOK ==
  /\ booking \in [Bookings -> BookingRows \union {NoBooking}]
  /\ bookingOutbox \subseteq { m \in Message : m.topic \in BookingTopics }
  /\ bookingInbox \subseteq MessageIds

BookingInit ==
  /\ booking = [b \in Bookings |-> NoBooking]
  /\ bookingOutbox = {}
  /\ bookingInbox = {}

-----------------------------------------------------------------------------
\* The insert into the inbox hits its primary key: the message is a duplicate.
ProcessedByBooking(m) == m.messageId \in bookingInbox

\* Enqueue a message about booking b in the transaction that changes the booking.
EnqueueBooking(topic, b, e, q) ==
  \E m \in Envelopes(topic, b, e, q, Ids(bookingOutbox)) :
    bookingOutbox' = bookingOutbox \union {m}

\* POST /bookings: the booking and its RESERVE_SEATS row are inserted together.
\* Nothing asks the event service whether the event exists.  A request that repeats
\* an idempotency key violates a unique constraint, and its transaction rolls back.
CreateBookingWithOutbox(b, e, q) ==
  /\ booking[b].status = "NONE"
  /\ booking' = [booking EXCEPT ![b] = [status |-> "PENDING", eventId |-> e, quantity |-> q]]
  /\ EnqueueBooking("RESERVE_SEATS", b, e, q)
  /\ UNCHANGED bookingInbox

\* As CancelBookingWithOutbox below, without the check of the status.
CancelBookingOfAnyStatus(b) ==
  /\ booking[b].status # "NONE"
  /\ booking' = [booking EXCEPT ![b].status = "CANCELLED"]
  /\ EnqueueBooking("BOOKING_CANCELLED", b, booking[b].eventId, booking[b].quantity)
  /\ UNCHANGED bookingInbox

\* The same without the update of the row.
CancelBookingKeepingStatus(b) ==
  /\ booking[b].status = "CONFIRMED"
  /\ UNCHANGED <<booking, bookingInbox>>
  /\ EnqueueBooking("BOOKING_CANCELLED", b, booking[b].eventId, booking[b].quantity)

\* The same without the outbox row: nobody is told.
CancelBookingSilently(b) ==
  /\ booking[b].status = "CONFIRMED"
  /\ booking' = [booking EXCEPT ![b].status = "CANCELLED"]
  /\ UNCHANGED <<bookingOutbox, bookingInbox>>

\* POST /bookings/:id/cancel: only a CONFIRMED booking is cancelled; any other status is
\* refused with an error and leaves no trace.
CancelBookingWithOutbox(b) ==
  /\ booking[b].status = "CONFIRMED"
  /\ booking' = [booking EXCEPT ![b].status = "CANCELLED"]
  /\ EnqueueBooking("BOOKING_CANCELLED", b, booking[b].eventId, booking[b].quantity)
  /\ UNCHANGED bookingInbox

\* The WHERE clauses of the two handlers: the row they are allowed to change.
AwaitsConfirmation(m) ==
  /\ booking[m.bookingId].status = "PENDING"
  /\ booking[m.bookingId].eventId = m.eventId
  /\ booking[m.bookingId].quantity = m.quantity

AwaitsFailure(m) ==
  /\ booking[m.bookingId].status = "PENDING"
  /\ booking[m.bookingId].eventId = m.eventId

\* What both handlers do: the inbox row is always written; the booking changes
\* and a message is enqueued only when the WHERE clause matched.
ApplyOutcome(m, matches, status, topic) ==
  /\ ~ProcessedByBooking(m)
  /\ bookingInbox' = bookingInbox \union {m.messageId}
  /\ IF matches
     THEN /\ booking' = [booking EXCEPT ![m.bookingId].status = status]
          /\ EnqueueBooking(topic, m.bookingId, m.eventId, m.quantity)
     ELSE UNCHANGED <<booking, bookingOutbox>>

\* As ProcessSeatsReservedMessage below, recording the outcome but losing its effect.
ProcessSeatsReservedInboxOnly(m) ==
  /\ m.topic = "SEATS_RESERVED"
  /\ ApplyOutcome(m, FALSE, "CONFIRMED", "BOOKING_CONFIRMED")

ProcessSeatsReservedMessage(m) ==
  /\ m.topic = "SEATS_RESERVED"
  /\ ApplyOutcome(m, AwaitsConfirmation(m), "CONFIRMED", "BOOKING_CONFIRMED")

ProcessSeatReservationFailedMessage(m) ==
  /\ m.topic = "SEAT_RESERVATION_FAILED"
  /\ ApplyOutcome(m, AwaitsFailure(m), "FAILED", "BOOKING_FAILED")

=============================================================================
