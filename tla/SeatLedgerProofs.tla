-------------------------- MODULE SeatLedgerProofs --------------------------
(***************************************************************************)
(* The saga implements the ledger: every step of EventBooking is, read     *)
(* through the refinement mapping, a step of SeatLedger or none.           *)
(***************************************************************************)
EXTENDS EventBookingProofs

\* The ledger's variables, as functions of the saga's state.
StatusMap == [b \in Bookings |-> Status(b)]
RequestMap == [b \in Bookings |-> RequestOf(b)]
SeatsMap == [b \in Bookings |-> SeatsOf(b)]

\* The ledger's instance of the standard module counts like the saga's.
LEMMA SameCardinality == \A S : Ledger!Cardinality(S) = Cardinality(S)
BY Zenon DEF Ledger!Cardinality, Cardinality

\* The ledger counts the seats the saga counts.
LEMMA SameSeats ==
  ASSUME NEW e \in Events
  PROVE  Ledger!TakenSeats(e) = TakenSeats(e)
<1>1. \A b \in Bookings : SeatsMap[b] = "held" <=> Holds(b)
  BY DEF SeatsMap, SeatsOf, Holds
<1>2. \A b \in Bookings : /\ RequestMap[b].eventId = booking[b].eventId
                          /\ RequestMap[b].quantity = booking[b].quantity
  BY DEF RequestMap, RequestOf
<1>3. { x \in Bookings : RequestMap[x].eventId = e /\ SeatsMap[x] = "held" } = Holders(e)
  BY <1>1, <1>2 DEF Holders
<1>4. \A b \in Holders(e) : RequestMap[b].quantity = booking[b].quantity
  BY <1>2 DEF Holders
<1> QED
  BY <1>3, <1>4 DEF Ledger!TakenSeats, TakenSeats, RequestMap, SeatsMap

LEMMA LedgerInit == Init => Ledger!Init
<1> SUFFICES ASSUME Init PROVE Ledger!Init
  OBVIOUS
<1>1. \A b \in Bookings : ~Released(b) /\ ~Holds(b) /\ ~Decided(b, "SEAT_RESERVATION_FAILED")
  BY DEF Init, BookingInit, EventInit, Released, Holds, Decided
<1>2. \A b \in Bookings : SeatsOf(b) = "none"
  BY <1>1 DEF SeatsOf
<1>3. \A b \in Bookings : Status(b) = "NONE" /\ RequestOf(b) = [eventId |-> NoEvent, quantity |-> 0]
  BY DEF Init, BookingInit, NoBooking, Status, RequestOf
<1> QED
  BY <1>2, <1>3 DEF Ledger!Init, Init, EventInit

-----------------------------------------------------------------------------
(* Steps.                                                                  *)

\* A transaction that leaves the bookings' rows and seats and the capacities as
\* they are is no step of the ledger.
LEMMA LedgerStutter ==
  ASSUME UNCHANGED <<booking, total>>, \A b \in Bookings : SeatsOf(b)' = SeatsOf(b)
  PROVE  UNCHANGED Ledger!ledgerVars
BY DEF Ledger!ledgerVars, Status, RequestOf

\* The tables that SeatsOf reads.
LEMMA SeatsUntouched ==
  ASSUME UNCHANGED <<bookingOutbox, eventOutbox, eventInbox>>, NEW b \in Bookings
  PROVE  SeatsOf(b)' = SeatsOf(b)
BY DEF SeatsOf, Released, Holds, Decided

LEMMA AskStep ==
  ASSUME IndInv, NEW b \in Bookings, NEW e \in Events, NEW q \in Quantities,
         CreateBookingWithOutbox(b, e, q), UNCHANGED <<eventVars, notificationVars, relayVars>>
  PROVE  Ledger!Next
<1>1. PICK m \in Envelopes("RESERVE_SEATS", b, e, q, Ids(bookingOutbox)) :
        bookingOutbox' = bookingOutbox \union {m}
  BY DEF CreateBookingWithOutbox, EnqueueBooking
<1>2. m.topic = "RESERVE_SEATS"
  <2>1. "RESERVE_SEATS" \in Topics
    BY DEF Topics, BookingTopics
  <2> QED
    BY <2>1, EnvelopeFacts
<1>3. \A x \in Bookings : SeatsOf(x)' = SeatsOf(x)
  BY <1>1, <1>2 DEF SeatsOf, Released, Holds, Decided, eventVars
<1>4. /\ booking \in [Bookings -> BookingRows \union {NoBooking}]
      /\ booking' = [booking EXCEPT ![b] = [status |-> "PENDING", eventId |-> e, quantity |-> q]]
      /\ Status(b) = "NONE"
  BY DEF CreateBookingWithOutbox, IndInv, TypeOK, BookingTypeOK, Status
<1>5. PICK r \in Ledger!Requests : r = [eventId |-> e, quantity |-> q]
  BY DEF Ledger!Requests, Quantities
<1>6. StatusMap' = [StatusMap EXCEPT ![b] = "PENDING"]
  BY <1>4 DEF StatusMap, Status
<1>7. RequestMap' = [RequestMap EXCEPT ![b] = r]
  BY <1>4, <1>5 DEF RequestMap, RequestOf
<1>8. SeatsMap' = SeatsMap /\ total' = total
  BY <1>3 DEF SeatsMap, eventVars
<1>9. StatusMap[b] = "NONE"
  BY <1>4 DEF StatusMap
<1>10. Ledger!Ask(b, r)
  BY <1>6, <1>7, <1>8, <1>9 DEF Ledger!Ask, StatusMap, RequestMap, SeatsMap
<1> QED
  BY <1>10 DEF Ledger!Next

LEMMA CancelStep ==
  ASSUME IndInv, NEW b \in Bookings, CancelBookingWithOutbox(b),
         UNCHANGED <<eventVars, notificationVars, relayVars>>
  PROVE  Ledger!Next
<1> DEFINE e == booking[b].eventId
           q == booking[b].quantity
<1>1. PICK m \in Envelopes("BOOKING_CANCELLED", b, e, q, Ids(bookingOutbox)) :
        bookingOutbox' = bookingOutbox \union {m}
  BY DEF CancelBookingWithOutbox, EnqueueBooking
<1>2. /\ Status(b) = "CONFIRMED" /\ booking \in [Bookings -> BookingRows \union {NoBooking}]
      /\ booking' = [booking EXCEPT ![b].status = "CANCELLED"]
  BY DEF CancelBookingWithOutbox, Status, IndInv, TypeOK, BookingTypeOK
<1>3. e \in Events /\ q \in Quantities
  BY <1>2, RequestedBooking DEF IndInv, TypeOK
<1>4. m.topic = "BOOKING_CANCELLED" /\ m.bookingId = b /\ m.messageId[1] = "BOOKING_CANCELLED"
      /\ m.messageId[2] = b /\ m.messageId \notin Ids(bookingOutbox)
  <2>1. "BOOKING_CANCELLED" \in Topics
    BY DEF Topics, BookingTopics
  <2> HIDE DEF e, q
  <2> QED
    BY <1>3, <2>1, EnvelopeFacts
<1>5. m.messageId \notin eventInbox
  BY <1>4 DEF IndInv, MessagesStored
<1>6. \A x \in Bookings : SeatsOf(x)' = SeatsOf(x)
  BY <1>1, <1>5 DEF SeatsOf, Released, Holds, Decided, eventVars
<1>7. StatusMap' = [StatusMap EXCEPT ![b] = "CANCELLED"] /\ StatusMap[b] = "CONFIRMED"
  <2>1. \A x \in Bookings : Status(x)' = IF x = b THEN "CANCELLED" ELSE Status(x)
    BY <1>2 DEF Status, BookingRows, NoBooking
  <2> QED
    BY <1>2, <2>1 DEF StatusMap
<1>8. RequestMap' = RequestMap
  BY <1>2 DEF RequestMap, RequestOf, BookingRows, NoBooking
<1>9. SeatsMap' = SeatsMap /\ total' = total
  BY <1>6 DEF SeatsMap, eventVars
<1>10. Ledger!Cancel(b)
  BY <1>7, <1>8, <1>9 DEF Ledger!Cancel, StatusMap, RequestMap, SeatsMap
<1> QED
  BY <1>10 DEF Ledger!Next

\* An outcome is applied to the booking it was decided for.
LEMMA AnnounceStep ==
  ASSUME IndInv, NEW m \in eventOutbox, NEW status, NEW topic \in Topics,
         ApplyOutcome(m, TRUE, status, topic), topic # "BOOKING_CANCELLED",
         \/ m.topic = "SEATS_RESERVED" /\ status = "CONFIRMED"
         \/ m.topic = "SEAT_RESERVATION_FAILED" /\ status = "FAILED",
         UNCHANGED <<eventVars, notificationVars, relayVars>>
  PROVE  Ledger!Next
<1> DEFINE b == m.bookingId
<1>1. m.messageId \notin bookingInbox /\ m \in Message
  BY DEF ApplyOutcome, ProcessedByBooking, IndInv, TypeOK, EventTypeOK
<1>2. b \in Bookings /\ m.eventId \in Events /\ m.quantity \in Quantities
  BY <1>1 DEF Message
<1>3. /\ Status(b) = "PENDING" /\ booking \in [Bookings -> BookingRows \union {NoBooking}]
      /\ booking' = [booking EXCEPT ![b].status = status]
  BY <1>1, OutcomeFindsPending DEF ApplyOutcome, IndInv, TypeOK, BookingTypeOK
<1>4. PICK n \in Envelopes(topic, b, m.eventId, m.quantity, Ids(bookingOutbox)) :
        bookingOutbox' = bookingOutbox \union {n}
  BY DEF ApplyOutcome, EnqueueBooking
<1>5. n.topic = topic
  <2> HIDE DEF b
  <2> QED
    BY <1>2, EnvelopeFacts
<1>6. \A x \in Bookings : SeatsOf(x)' = SeatsOf(x)
  BY <1>4, <1>5 DEF SeatsOf, Released, Holds, Decided, eventVars
<1>7. ~Released(b)
  BY <1>2, <1>3 DEF Released, IndInv, AnnouncementsTrue
<1>8. SeatsOf(b) = IF m.topic = "SEATS_RESERVED" THEN "held" ELSE "refused"
  <2>1. \A o \in eventOutbox : o.bookingId = b => o = m
    BY DEF IndInv, DecidedOnce
  <2> QED
    BY <1>7, <2>1 DEF SeatsOf, Holds, Decided
<1>9. StatusMap' = [StatusMap EXCEPT ![b] = status] /\ StatusMap[b] = "PENDING"
  BY <1>2, <1>3 DEF StatusMap, Status
<1>10. RequestMap' = RequestMap
  BY <1>3 DEF RequestMap, RequestOf, BookingRows, NoBooking
<1>11. SeatsMap' = SeatsMap /\ total' = total
  BY <1>6 DEF SeatsMap, eventVars
<1>12. SeatsMap[b] # "none" /\ status = IF SeatsMap[b] = "held" THEN "CONFIRMED" ELSE "FAILED"
  BY <1>2, <1>8 DEF SeatsMap
<1>13. Ledger!Announce(b)
  BY <1>9, <1>10, <1>11, <1>12 DEF Ledger!Announce, StatusMap, RequestMap, SeatsMap
<1> QED
  BY <1>2, <1>13 DEF Ledger!Next

\* The decision of the event service on an undecided request.
LEMMA DecideStep ==
  ASSUME IndInv, NEW m \in bookingOutbox, ReserveSeats(m) \/ RejectReservation(m),
         UNCHANGED <<bookingVars, notificationVars, relayVars>>
  PROVE  Ledger!Next
<1> DEFINE b == m.bookingId
           e == m.eventId
           q == m.quantity
<1>1. /\ m.topic = "RESERVE_SEATS" /\ RecordInEventInbox(m) /\ m.messageId \notin eventInbox
      /\ UNCHANGED <<booking, bookingOutbox, total>>
  BY DEF ReserveSeats, RejectReservation, RecordInEventInbox, ProcessedByEvent, bookingVars
<1>2. b \in Bookings /\ e \in Events /\ q \in Quantities /\ q \in Nat /\ q > 0 /\ m \in Outbox
  BY MessagesAssumption DEF IndInv, TypeOK, BookingTypeOK, Message, Quantities, Outbox
<1>3. booking[b].eventId = e /\ booking[b].quantity = q
  BY <1>2 DEF IndInv, MessagesMatchBookings
<1>4. PICK topic \in EventTopics :
        /\ EnqueueEvent(topic, m)
        /\ topic = IF SeatsSuffice(m) THEN "SEATS_RESERVED" ELSE "SEAT_RESERVATION_FAILED"
  BY DEF ReserveSeats, RejectReservation, EventTopics
<1>5. PICK o \in Envelopes(topic, b, e, q, Ids(eventOutbox)) :
        eventOutbox' = eventOutbox \union {o}
  BY <1>4 DEF EnqueueEvent
<1>6. o.topic = topic /\ o.bookingId = b
  <2>1. topic \in Topics
    BY DEF Topics
  <2> HIDE DEF b, e, q
  <2> QED
    BY <1>2, <2>1, EnvelopeFacts
<1>7. Status(b) = "PENDING"
  <2>1. \A x \in eventOutbox : x.bookingId # b
    BY <1>1 DEF IndInv, DecidedOnce
  <2>2. Status(b) \notin {"NONE", "CONFIRMED", "CANCELLED", "FAILED"}
    BY <1>2, <2>1 DEF IndInv, StatusCaused, MessagesMatchBookings
  <2> QED
    BY <1>2, <2>2 DEF IndInv, TypeOK, BookingTypeOK, BookingRows, BookingStatus, NoBooking, Status
<1>8. SeatsOf(b) = "none" /\ ~Released(b)
  BY <1>1, RequestUndecided DEF SeatsOf, Holds, Topics, EventTopics
<1>9. \A x \in Bookings : Released(x)' = Released(x)
  BY <1>1, RequestReleasesNothing
<1>10. \A x \in Bookings \ {b} : SeatsOf(x)' = SeatsOf(x)
  BY <1>5, <1>6, <1>9 DEF SeatsOf, Holds, Decided
<1>11. SeatsOf(b)' = IF SeatsSuffice(m) THEN "held" ELSE "refused"
  <2>1. \A x \in eventOutbox : x.bookingId # b
    BY <1>1 DEF IndInv, DecidedOnce
  <2> QED
    BY <1>2, <1>4, <1>5, <1>6, <1>8, <1>9, <2>1 DEF SeatsOf, Holds, Decided
<1>12. Ledger!SeatsFree(b) <=> SeatsSuffice(m)
  <2>1. Cardinality(Ledger!TakenSeats(e)) = total[e] - available[e]
    BY <1>2, SameSeats DEF IndInv, SeatsConserved
  <2>2. total[e] \in Nat /\ available[e] \in Nat
    BY <1>2, EventAssumption DEF IndInv, TypeOK, EventTypeOK
  <2>3. RequestMap[b].eventId = e /\ RequestMap[b].quantity = q
    BY <1>2, <1>3 DEF RequestMap, RequestOf
  <2>4. Ledger!SeatsFree(b) <=> total[e] - available[e] + q <= total[e]
    BY <1>2, <2>1, <2>3, SameCardinality DEF Ledger!SeatsFree, RequestMap
  <2>5. e \notin catalog => available[e] = 0
    BY <1>2 DEF IndInv, NoSeatsOffCatalog
  <2> QED
    BY <1>2, <2>2, <2>4, <2>5 DEF SeatsSuffice
<1>13. SeatsMap' = [SeatsMap EXCEPT ![b] = IF Ledger!SeatsFree(b) THEN "held" ELSE "refused"]
  BY <1>2, <1>10, <1>11, <1>12 DEF SeatsMap
<1>14. StatusMap' = StatusMap /\ RequestMap' = RequestMap /\ total' = total
  BY <1>1 DEF StatusMap, RequestMap, Status, RequestOf
<1>15. StatusMap[b] = "PENDING" /\ SeatsMap[b] = "none"
  BY <1>2, <1>7, <1>8 DEF StatusMap, SeatsMap
<1>16. Ledger!Decide(b)
  BY <1>13, <1>14, <1>15 DEF Ledger!Decide, StatusMap, RequestMap, SeatsMap
<1> QED
  BY <1>2, <1>16 DEF Ledger!Next

\* A cancellation is released when the event service sees it for the first time.
LEMMA GiveBackStep ==
  ASSUME IndInv, NEW m \in bookingOutbox, ReleaseSeats(m),
         UNCHANGED <<bookingVars, notificationVars, relayVars>>
  PROVE  Ledger!Next
<1> DEFINE b == m.bookingId
<1>1. /\ m.topic = "BOOKING_CANCELLED" /\ m.messageId \notin eventInbox
      /\ eventInbox' = eventInbox \union {m.messageId}
      /\ UNCHANGED <<booking, bookingOutbox, eventOutbox, total>>
  BY DEF ReleaseSeats, RecordInEventInbox, ProcessedByEvent, bookingVars
<1>2. b \in Bookings /\ m \in Outbox
  BY DEF IndInv, TypeOK, BookingTypeOK, Message, Outbox
<1>3. Status(b) = "CANCELLED" /\ Holds(b)
  BY <1>1, CancellationHolds DEF Holders, IndInv, AnnouncementsTrue
<1>4. \A c \in bookingOutbox : c.messageId = m.messageId => c.bookingId = b
  BY <1>2 DEF IndInv, MessagesMatchBookings, Outbox
<1>5. \A x \in Bookings \ {b} : Released(x)' = Released(x)
  BY <1>1, <1>4 DEF Released
<1>6. Released(b)'
  BY <1>1 DEF Released
<1>7. \A x \in Bookings : \A t : Decided(x, t)' = Decided(x, t)
  BY <1>1 DEF Decided
<1>8. SeatsOf(b) = "held" /\ SeatsOf(b)' = "returned"
  BY <1>3, <1>6 DEF SeatsOf, Holds
<1>9. \A x \in Bookings \ {b} : SeatsOf(x)' = SeatsOf(x)
  BY <1>5, <1>7 DEF SeatsOf, Holds
<1>10. SeatsMap' = [SeatsMap EXCEPT ![b] = "returned"] /\ SeatsMap[b] = "held"
  BY <1>2, <1>8, <1>9 DEF SeatsMap
<1>11. StatusMap' = StatusMap /\ RequestMap' = RequestMap /\ total' = total
  BY <1>1 DEF StatusMap, RequestMap, Status, RequestOf
<1>12. StatusMap[b] = "CANCELLED"
  BY <1>2, <1>3 DEF StatusMap
<1>13. Ledger!GiveBack(b)
  BY <1>10, <1>11, <1>12 DEF Ledger!GiveBack, StatusMap, RequestMap, SeatsMap
<1> QED
  BY <1>2, <1>13 DEF Ledger!Next

\* No administration of an event takes the seats of a booking away.
LEMMA ResizeStep ==
  ASSUME IndInv, Administration
  PROVE  Ledger!Next
<1>1. /\ UNCHANGED <<booking, bookingOutbox, eventOutbox, eventInbox>>
  BY DEF Administration, CreateEvent, UpdateEvent, DeleteEvent, bookingVars
<1>2. \A x \in Bookings : SeatsOf(x)' = SeatsOf(x)
  BY <1>1, SeatsUntouched
<1>3. StatusMap' = StatusMap /\ RequestMap' = RequestMap /\ SeatsMap' = SeatsMap
  BY <1>1, <1>2 DEF StatusMap, RequestMap, SeatsMap, Status, RequestOf
<1>4. PICK e \in Events, n \in 0..MaxCapacity :
        total' = [total EXCEPT ![e] = n] /\ total[e] - available[e] <= n
  <2>1. total \in [Events -> Nat] /\ available \in [Events -> Nat]
    BY EventAssumption DEF IndInv, TypeOK, EventTypeOK
  <2> DEFINE Resized(e, n) == total' = [total EXCEPT ![e] = n] /\ total[e] - available[e] <= n
  <2>2. ASSUME NEW e \in Events, NEW n \in 1..MaxCapacity, CreateEvent(e, n) \/ UpdateEvent(e, n)
        PROVE  n \in 0..MaxCapacity /\ Resized(e, n)
    <3>1. e \notin catalog => total[e] = 0 /\ available[e] = 0
      BY DEF IndInv, NoSeatsOffCatalog
    <3> QED
      BY <2>1, <2>2, <3>1, EventAssumption DEF CreateEvent, UpdateEvent
  <2>3. ASSUME NEW e \in Events, DeleteEvent(e)
        PROVE  0 \in 0..MaxCapacity /\ Resized(e, 0)
    BY <2>1, <2>3, EventAssumption DEF DeleteEvent
  <2> HIDE DEF Resized
  <2>4. \E e \in Events, n \in 0..MaxCapacity : Resized(e, n)
    BY <2>2, <2>3 DEF Administration
  <2> QED
    BY <2>4 DEF Resized
<1>5. Cardinality(Ledger!TakenSeats(e)) <= n
  BY <1>4, SameSeats DEF IndInv, SeatsConserved
<1>6. Ledger!Resize(e, n)
  BY <1>3, <1>4, <1>5, SameCardinality DEF Ledger!Resize, StatusMap, RequestMap, SeatsMap
<1> QED
  BY <1>6 DEF Ledger!Next

LEMMA LedgerStep == IndInv /\ [Next]_vars => [Ledger!Next]_Ledger!ledgerVars
<1> SUFFICES ASSUME IndInv, [Next]_vars
             PROVE  Ledger!Next \/ UNCHANGED Ledger!ledgerVars
  OBVIOUS
<1>1. /\ broker \subseteq Outbox
      /\ \A m \in Outbox : /\ m.topic \in BookingTopics => m \in bookingOutbox
                           /\ m.topic \in EventTopics => m \in eventOutbox
  BY DEF IndInv, MessagesStored, Outbox, TypeOK, BookingTypeOK, EventTypeOK,
    BookingTopics, EventTopics
<1>2. CASE Requests
  BY <1>2, AskStep, CancelStep DEF Requests
<1>3. CASE Administration
  BY <1>3, ResizeStep
<1>4. ASSUME NEW m \in broker, BookingConsumes(m)
      PROVE  Ledger!Next
  <2>1. UNCHANGED <<eventVars, notificationVars, relayVars>>
    BY <1>4 DEF BookingConsumes
  <2>2. m \in eventOutbox /\ (m.messageId \notin bookingInbox)
    BY <1>1, <1>4 DEF BookingConsumes, ProcessSeatsReservedMessage,
      ProcessSeatReservationFailedMessage, EventTopics, ApplyOutcome, ProcessedByBooking
  <2>3. AwaitsConfirmation(m) = TRUE /\ AwaitsFailure(m) = TRUE
    BY <2>2, OutcomeFindsPending DEF AwaitsConfirmation, AwaitsFailure
  <2>4. CASE ProcessSeatsReservedMessage(m)
    <3>1. m.topic = "SEATS_RESERVED"
          /\ ApplyOutcome(m, TRUE, "CONFIRMED", "BOOKING_CONFIRMED")
      BY <2>3, <2>4 DEF ProcessSeatsReservedMessage
    <3> QED
      BY <2>1, <2>2, <3>1, AnnounceStep DEF Topics, BookingTopics
  <2>5. CASE ProcessSeatReservationFailedMessage(m)
    <3>1. m.topic = "SEAT_RESERVATION_FAILED"
          /\ ApplyOutcome(m, TRUE, "FAILED", "BOOKING_FAILED")
      BY <2>3, <2>5 DEF ProcessSeatReservationFailedMessage
    <3> QED
      BY <2>1, <2>2, <3>1, AnnounceStep DEF Topics, BookingTopics
  <2> QED
    BY <1>4, <2>4, <2>5 DEF BookingConsumes
<1>5. ASSUME NEW m \in broker, EventConsumes(m)
      PROVE  Ledger!Next
  <2>1. UNCHANGED <<bookingVars, notificationVars, relayVars>>
    BY <1>5 DEF EventConsumes
  <2>2. m \in bookingOutbox
    BY <1>1, <1>5 DEF EventConsumes, ReserveSeats, RejectReservation, ReleaseSeats, BookingTopics
  <2> QED
    BY <1>5, <2>1, <2>2, DecideStep, GiveBackStep DEF EventConsumes
<1>6. CASE (\E m \in Outbox : Publish(m) \/ Abandon(m)) \/ UNCHANGED vars
           \/ \E m \in broker : NotificationConsumes(m)
  <2>1. UNCHANGED <<bookingVars, eventVars>>
    BY <1>6 DEF Publish, Abandon, NotificationConsumes, vars
  <2>2. UNCHANGED <<booking, bookingOutbox, eventOutbox, eventInbox, total>>
    BY <2>1 DEF bookingVars, eventVars
  <2> QED
    BY <2>2, SeatsUntouched, LedgerStutter
<1> QED
  BY <1>2, <1>3, <1>4, <1>5, <1>6 DEF Next

\* The asynchronous saga, with its outboxes, duplicates and delays, does what one
\* atomic ledger of seats would do.
THEOREM Refinement == Spec => ImplementsSeatLedger
<1>1. Init => Ledger!Init
  BY LedgerInit
<1>2. IndInv /\ [Next]_vars => [Ledger!Next]_Ledger!ledgerVars
  BY LedgerStep
<1> QED
  BY <1>1, <1>2, Inductive, PTL DEF Spec, ImplementsSeatLedger, Ledger!Spec

=============================================================================
