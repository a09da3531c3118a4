------------------------- MODULE EventBookingProofs -------------------------
(***************************************************************************)
(* Proofs about EventBooking for any bookings, events, quantities and      *)
(* capacities, and any number of rows given up.                            *)
(***************************************************************************)
EXTENDS EventBooking, FiniteSetTheorems, TLAPS

-----------------------------------------------------------------------------
(* Counting seats.                                                         *)

\* One booking's pairs are as many as its quantity.
LEMMA SeatsOfOne ==
  ASSUME NEW b, NEW q \in Nat
  PROVE  /\ IsFiniteSet({b} \X (1..q))
         /\ Cardinality({b} \X (1..q)) = q
<1>1. IsFiniteSet({b}) /\ Cardinality({b}) = 1
  BY FS_Singleton
<1>2. IsFiniteSet(1..q) /\ Cardinality(1..q) = q
  BY FS_Interval
<1>3. /\ IsFiniteSet({b} \X (1..q))
      /\ Cardinality({b} \X (1..q)) = Cardinality({b}) * Cardinality(1..q)
  BY <1>1, <1>2, FS_Product, Zenon
<1> QED
  BY <1>1, <1>2, <1>3

\* Seats that are not taken yet add up.
LEMMA SeatsAddUp ==
  ASSUME NEW S, IsFiniteSet(S), NEW b, NEW q \in Nat, S \intersect ({b} \X (1..q)) = {}
  PROVE  /\ IsFiniteSet(S \union ({b} \X (1..q)))
         /\ Cardinality(S \union ({b} \X (1..q))) = Cardinality(S) + q
<1>1. IsFiniteSet({b} \X (1..q)) /\ Cardinality({b} \X (1..q)) = q
  BY SeatsOfOne
<1>2. Cardinality(S) \in Nat
  BY FS_CardinalityType
<1>3. Cardinality(S \intersect ({b} \X (1..q))) = 0
  BY FS_EmptySet
<1> QED
  BY <1>1, <1>2, <1>3, FS_Union

\* The pairs of an event are some of finitely many.
LEMMA TakenSeatsFinite ==
  ASSUME TypeOK, NEW e \in Events
  PROVE  IsFiniteSet(TakenSeats(e)) /\ Cardinality(TakenSeats(e)) \in Nat
<1>1. IsFiniteSet(Bookings \X (1..MaxQuantity))
  <2>1. IsFiniteSet(Bookings) /\ MaxQuantity \in Nat
    BY MessagesAssumption
  <2>2. IsFiniteSet(1..MaxQuantity)
    BY <2>1, FS_Interval
  <2> QED
    BY <2>1, <2>2, FS_Product, Zenon
<1>2. TakenSeats(e) \subseteq Bookings \X (1..MaxQuantity)
  <2> SUFFICES ASSUME NEW b \in Holders(e)
               PROVE  {b} \X (1..booking[b].quantity) \subseteq Bookings \X (1..MaxQuantity)
    BY DEF TakenSeats
  <2>1. b \in Bookings
    BY DEF Holders
  <2>2. booking[b].quantity \in 0..MaxQuantity
    BY <2>1, MessagesAssumption
    DEF TypeOK, BookingTypeOK, BookingRows, NoBooking, Quantities
  <2> QED
    BY <2>1, <2>2, MessagesAssumption
<1> QED
  BY <1>1, <1>2, FS_Subset, FS_CardinalityType

-----------------------------------------------------------------------------
(* Envelopes.                                                              *)

\* What a handler may enqueue is a message about its booking with a fresh id.
LEMMA EnvelopeFacts ==
  ASSUME NEW topic \in Topics, NEW b \in Bookings, NEW e \in Events, NEW q \in Quantities,
         NEW used, NEW m \in Envelopes(topic, b, e, q, used)
  PROVE  /\ m \in Message
         /\ m.topic = topic /\ m.bookingId = b /\ m.eventId = e /\ m.quantity = q
         /\ m.messageId \notin used
         /\ m.messageId[1] = topic /\ m.messageId[2] = b
<1>1. PICK n \in Nonces :
        /\ <<topic, b, n>> \notin used
        /\ m = [topic |-> topic, messageId |-> <<topic, b, n>>, bookingId |-> b,
                eventId |-> e, quantity |-> q]
  BY DEF Envelopes
<1>2. <<topic, b, n>> \in MessageIds
  BY DEF MessageIds
<1> QED
  BY <1>1, <1>2 DEF Message

-----------------------------------------------------------------------------
(* Type correctness.                                                       *)

\* A booking that was requested has an event and a quantity.
LEMMA RequestedBooking ==
  ASSUME BookingTypeOK, NEW b \in Bookings, Status(b) # "NONE"
  PROVE  booking[b] \in BookingRows /\ booking[b].eventId \in Events
         /\ booking[b].quantity \in Quantities
BY DEF BookingTypeOK, BookingRows, NoBooking, Status

\* Enqueueing keeps the booking outbox well typed.
LEMMA EnqueueBookingType ==
  ASSUME BookingTypeOK, NEW topic \in BookingTopics, NEW b \in Bookings, NEW e \in Events,
         NEW q \in Quantities, EnqueueBooking(topic, b, e, q)
  PROVE  bookingOutbox' \subseteq { m \in Message : m.topic \in BookingTopics }
<1>1. PICK m \in Envelopes(topic, b, e, q, Ids(bookingOutbox)) :
        bookingOutbox' = bookingOutbox \union {m}
  BY DEF EnqueueBooking
<1>2. m \in Message /\ m.topic = topic
  BY EnvelopeFacts DEF Topics
<1> QED
  BY <1>1, <1>2 DEF BookingTypeOK

\* ... and so for the event outbox.
LEMMA EnqueueEventType ==
  ASSUME EventTypeOK, NEW topic \in EventTopics, NEW m \in Message, EnqueueEvent(topic, m)
  PROVE  eventOutbox' \subseteq { x \in Message : x.topic \in EventTopics }
<1>1. m.bookingId \in Bookings /\ m.eventId \in Events /\ m.quantity \in Quantities
  BY DEF Message
<1>2. PICK o \in Envelopes(topic, m.bookingId, m.eventId, m.quantity, Ids(eventOutbox)) :
        eventOutbox' = eventOutbox \union {o}
  BY DEF EnqueueEvent
<1>3. o \in Message /\ o.topic = topic
  BY <1>1, EnvelopeFacts DEF Topics
<1> QED
  BY <1>2, <1>3 DEF EventTypeOK

LEMMA RequestsType ==
  ASSUME TypeOK, Requests
  PROVE  TypeOK'
<1>1. ASSUME NEW b \in Bookings, NEW e \in Events, NEW q \in Quantities,
             CreateBookingWithOutbox(b, e, q)
      PROVE  BookingTypeOK'
  <2>1. booking' \in [Bookings -> BookingRows \union {NoBooking}]
    BY <1>1 DEF CreateBookingWithOutbox, TypeOK, BookingTypeOK, BookingRows, BookingStatus
  <2>2. bookingOutbox' \subseteq { m \in Message : m.topic \in BookingTopics }
    BY <1>1, EnqueueBookingType DEF CreateBookingWithOutbox, TypeOK, BookingTopics
  <2> QED
    BY <1>1, <2>1, <2>2 DEF CreateBookingWithOutbox, TypeOK, BookingTypeOK
<1>2. ASSUME NEW b \in Bookings, CancelBookingWithOutbox(b)
      PROVE  BookingTypeOK'
  <2>1. booking[b] \in BookingRows /\ booking[b].eventId \in Events
        /\ booking[b].quantity \in Quantities
    BY <1>2, RequestedBooking DEF CancelBookingWithOutbox, TypeOK, Status
  <2>2. booking' \in [Bookings -> BookingRows \union {NoBooking}]
    BY <1>2, <2>1 DEF CancelBookingWithOutbox, TypeOK, BookingTypeOK, BookingRows, BookingStatus
  <2>3. bookingOutbox' \subseteq { m \in Message : m.topic \in BookingTopics }
    BY <1>2, <2>1, EnqueueBookingType DEF CancelBookingWithOutbox, TypeOK, BookingTopics
  <2> QED
    BY <1>2, <2>2, <2>3 DEF CancelBookingWithOutbox, TypeOK, BookingTypeOK
<1>3. BookingTypeOK'
  BY <1>1, <1>2 DEF Requests
<1> QED
  BY <1>3 DEF Requests, TypeOK, EventTypeOK, NotificationTypeOK, eventVars, notificationVars,
    relayVars

LEMMA AdministrationType ==
  ASSUME TypeOK, Administration
  PROVE  TypeOK'
<1>1. EventTypeOK' /\ \A e \in Events : available'[e] <= total'[e]
  <2>1. ASSUME NEW e \in Events, NEW n \in 1..MaxCapacity, CreateEvent(e, n)
        PROVE  EventTypeOK' /\ \A x \in Events : available'[x] <= total'[x]
    BY <2>1, EventAssumption DEF CreateEvent, TypeOK, EventTypeOK
  <2>2. ASSUME NEW e \in Events, NEW n \in 1..MaxCapacity, UpdateEvent(e, n)
        PROVE  EventTypeOK' /\ \A x \in Events : available'[x] <= total'[x]
    BY <2>2, EventAssumption DEF UpdateEvent, TypeOK, EventTypeOK
  <2>3. ASSUME NEW e \in Events, DeleteEvent(e)
        PROVE  EventTypeOK' /\ \A x \in Events : available'[x] <= total'[x]
    BY <2>3, EventAssumption DEF DeleteEvent, TypeOK, EventTypeOK
  <2> QED
    BY <2>1, <2>2, <2>3 DEF Administration
<1> QED
  BY <1>1 DEF Administration, TypeOK, BookingTypeOK, NotificationTypeOK, bookingVars,
    notificationVars, relayVars

LEMMA BookingConsumesType ==
  ASSUME TypeOK, NEW m \in Message, BookingConsumes(m)
  PROVE  TypeOK'
<1> DEFINE Applied(status, topic) ==
      \E matches \in BOOLEAN : /\ matches => Status(m.bookingId) = "PENDING"
                               /\ ApplyOutcome(m, matches, status, topic)
<1>1. m.bookingId \in Bookings /\ m.eventId \in Events /\ m.quantity \in Quantities
      /\ m.messageId \in MessageIds
  BY DEF Message
<1>2. ASSUME NEW status \in BookingStatus, NEW topic \in BookingTopics, Applied(status, topic)
      PROVE  BookingTypeOK'
  <2>1. PICK matches \in BOOLEAN : /\ matches => Status(m.bookingId) = "PENDING"
                                   /\ ApplyOutcome(m, matches, status, topic)
    BY <1>2
  <2>2. CASE matches
    <3>1. booking[m.bookingId] \in BookingRows
      BY <1>1, <2>1, <2>2, RequestedBooking DEF TypeOK
    <3>2. booking' \in [Bookings -> BookingRows \union {NoBooking}]
      BY <1>1, <2>1, <2>2, <3>1 DEF ApplyOutcome, TypeOK, BookingTypeOK, BookingRows
    <3>3. bookingOutbox' \subseteq { x \in Message : x.topic \in BookingTopics }
      BY <1>1, <2>1, <2>2, EnqueueBookingType DEF ApplyOutcome, TypeOK
    <3> QED
      BY <1>1, <2>1, <3>2, <3>3 DEF ApplyOutcome, TypeOK, BookingTypeOK
  <2>3. CASE ~matches
    BY <1>1, <2>1, <2>3 DEF ApplyOutcome, TypeOK, BookingTypeOK
  <2> QED
    BY <2>2, <2>3
<1>3. Applied("CONFIRMED", "BOOKING_CONFIRMED") \/ Applied("FAILED", "BOOKING_FAILED")
  <2>1. CASE ProcessSeatsReservedMessage(m)
    BY <2>1 DEF ProcessSeatsReservedMessage, AwaitsConfirmation, Status
  <2>2. CASE ProcessSeatReservationFailedMessage(m)
    BY <2>2 DEF ProcessSeatReservationFailedMessage, AwaitsFailure, Status
  <2> QED
    BY <2>1, <2>2 DEF BookingConsumes
<1>4. BookingTypeOK'
  <2> HIDE DEF Applied
  <2> QED
    BY <1>2, <1>3 DEF BookingStatus, BookingTopics
<1> QED
  BY <1>4 DEF BookingConsumes, TypeOK, EventTypeOK, NotificationTypeOK, eventVars,
    notificationVars, relayVars

LEMMA EventConsumesType ==
  ASSUME TypeOK, NEW m \in Message, EventConsumes(m)
  PROVE  TypeOK'
<1>1. m.bookingId \in Bookings /\ m.eventId \in Events /\ m.messageId \in MessageIds
      /\ m.quantity \in Nat
  BY MessagesAssumption DEF Message, Quantities
<1>2. EventTypeOK' /\ \A x \in Events : available'[x] <= total'[x]
  <2>1. CASE ReserveSeats(m)
    <3>1. eventOutbox' \subseteq { x \in Message : x.topic \in EventTopics }
      BY <2>1, EnqueueEventType DEF ReserveSeats, TypeOK, EventTopics
    <3>2. available' = [available EXCEPT ![m.eventId] = @ - m.quantity]
          /\ available[m.eventId] >= m.quantity
          /\ UNCHANGED <<catalog, deleted, total>>
          /\ eventInbox' = eventInbox \union {m.messageId}
      BY <2>1 DEF ReserveSeats, RecordInEventInbox, SeatsSuffice
    <3> QED
      BY <1>1, <3>1, <3>2, EventAssumption DEF TypeOK, EventTypeOK
  <2>2. CASE RejectReservation(m)
    <3>1. eventOutbox' \subseteq { x \in Message : x.topic \in EventTopics }
      BY <2>2, EnqueueEventType DEF RejectReservation, TypeOK, EventTopics
    <3> QED
      BY <1>1, <2>2, <3>1 DEF RejectReservation, RecordInEventInbox, TypeOK, EventTypeOK
  <2>3. CASE ReleaseSeats(m)
    BY <1>1, <2>3, EventAssumption
    DEF ReleaseSeats, RecordInEventInbox, SeatsFit, TypeOK, EventTypeOK
  <2> QED
    BY <2>1, <2>2, <2>3 DEF EventConsumes
<1> QED
  BY <1>2 DEF EventConsumes, TypeOK, BookingTypeOK, NotificationTypeOK, bookingVars,
    notificationVars, relayVars

LEMMA NotificationConsumesType ==
  ASSUME TypeOK, NEW m \in Message, NotificationConsumes(m)
  PROVE  TypeOK'
<1>1. m.bookingId \in Bookings /\ m.messageId \in MessageIds
  BY DEF Message
<1>2. AppendIfUnprocessed(m) /\ m.topic \in NotifiedTopics
  BY DEF NotificationConsumes, HandleBookingConfirmed, HandleBookingFailed,
    HandleBookingCancelled, NotifiedTopics
<1>3. NotificationTypeOK'
  BY <1>1, <1>2 DEF AppendIfUnprocessed, TypeOK, NotificationTypeOK
<1> QED
  BY <1>3 DEF NotificationConsumes, TypeOK, BookingTypeOK, EventTypeOK, bookingVars, eventVars,
    relayVars

LEMMA TypeStep == TypeOK /\ [Next]_vars => TypeOK'
<1> SUFFICES ASSUME TypeOK, [Next]_vars PROVE TypeOK'
  OBVIOUS
<1>1. Outbox \subseteq Message /\ broker \subseteq Message
  BY DEF TypeOK, BookingTypeOK, EventTypeOK, Outbox
<1>2. ASSUME NEW m \in Outbox, Publish(m) \/ Abandon(m)
      PROVE  TypeOK'
  BY <1>1, <1>2 DEF Publish, Abandon, TypeOK, BookingTypeOK, EventTypeOK, NotificationTypeOK,
    bookingVars, eventVars, notificationVars
<1>3. CASE UNCHANGED vars
  BY <1>3 DEF vars, bookingVars, eventVars, notificationVars, relayVars, TypeOK, BookingTypeOK,
    EventTypeOK, NotificationTypeOK
<1> QED
  BY <1>1, <1>2, <1>3, RequestsType, AdministrationType, BookingConsumesType,
    EventConsumesType, NotificationConsumesType DEF Next

\* Every reachable state is well typed: seat counts stay within 0..total and
\* total within the capacity, and every stored or published message is one of
\* the contract's.
THEOREM TypeCorrect == Spec => []TypeOK
<1>1. Init => TypeOK
  BY EventAssumption DEF Init, BookingInit, EventInit, NotificationInit, TypeOK, BookingTypeOK,
    EventTypeOK, NotificationTypeOK
<1> QED
  BY <1>1, TypeStep, PTL DEF Spec

-----------------------------------------------------------------------------
(* The ledger moves only when a transaction of the event service moves it. *)

\* The balance of every event is kept when no booking starts or stops holding
\* seats, no holder's request changes, and no event loses or gains seats.
LEMMA LedgerKept ==
  ASSUME SeatsConserved,
         \A b \in Bookings : Holds(b)' = Holds(b),
         \A b \in Bookings : Holds(b) => /\ booking'[b].eventId = booking[b].eventId
                                        /\ booking'[b].quantity = booking[b].quantity,
         \A e \in Events : total'[e] - available'[e] = total[e] - available[e]
  PROVE  SeatsConserved'
<1> SUFFICES ASSUME NEW e \in Events
             PROVE  TakenSeats(e)' = TakenSeats(e)
  BY DEF SeatsConserved
<1>1. Holders(e)' = Holders(e)
  BY DEF Holders
<1>2. \A b \in Holders(e) : booking'[b].quantity = booking[b].quantity
  BY DEF Holders
<1> QED
  BY <1>1, <1>2 DEF TakenSeats

\* Rows of a booking exist only once it has been requested.
LEMMA NoRowsBeforeRequest ==
  ASSUME MessagesMatchBookings, NEW b \in Bookings, Status(b) = "NONE"
  PROVE  \A m \in Outbox : m.bookingId # b
BY DEF MessagesMatchBookings

LEMMA CreateKeeps ==
  ASSUME IndInv, TypeOK', NEW b \in Bookings, NEW e \in Events, NEW q \in Quantities,
         CreateBookingWithOutbox(b, e, q), UNCHANGED <<eventVars, notificationVars, relayVars>>
  PROVE  IndInv'
<1> USE DEF eventVars, notificationVars, relayVars
<1>1. PICK m \in Envelopes("RESERVE_SEATS", b, e, q, Ids(bookingOutbox)) :
        bookingOutbox' = bookingOutbox \union {m}
  BY DEF CreateBookingWithOutbox, EnqueueBooking
<1>2. /\ m \in Message
      /\ m.topic = "RESERVE_SEATS" /\ m.bookingId = b /\ m.eventId = e /\ m.quantity = q
      /\ m.messageId \notin Ids(bookingOutbox)
      /\ m.messageId[1] = m.topic /\ m.messageId[2] = b
  BY EnvelopeFacts DEF Topics, BookingTopics
<1>3. /\ booking' = [booking EXCEPT ![b] = [status |-> "PENDING", eventId |-> e, quantity |-> q]]
      /\ booking \in [Bookings -> BookingRows \union {NoBooking}]
      /\ UNCHANGED <<bookingInbox, eventOutbox, eventInbox, broker, abandoned, notifications,
                     notificationInbox, total, available, catalog>>
  BY DEF CreateBookingWithOutbox, IndInv, TypeOK, BookingTypeOK
<1>4. /\ \A x \in Bookings \ {b} : booking'[x] = booking[x]
      /\ booking'[b] = [status |-> "PENDING", eventId |-> e, quantity |-> q]
  BY <1>3
<1>5. /\ \A x \in Outbox : x.bookingId # b /\ x.bookingId \in Bookings
      /\ Outbox' = Outbox \union {m}
  BY <1>1, <1>3, NoRowsBeforeRequest
  DEF IndInv, Outbox, CreateBookingWithOutbox, Status, TypeOK, BookingTypeOK, EventTypeOK, Message
<1>6. MessagesStored'
  BY <1>1, <1>3, <1>5 DEF IndInv, MessagesStored, Ids
<1>7. MessagesMatchBookings'
  BY <1>2, <1>4, <1>5 DEF IndInv, MessagesMatchBookings, Status
<1>8. DecidedOnce'
  BY <1>1, <1>2, <1>3, <1>5 DEF IndInv, DecidedOnce, Outbox
<1>9. StatusCaused'
  BY <1>3, <1>4 DEF IndInv, StatusCaused, Status
<1>10. AnnouncementsTrue'
  BY <1>1, <1>2, <1>4, <1>5 DEF IndInv, AnnouncementsTrue, Status, Outbox
<1>11. OutcomeApplied'
  BY <1>3, <1>4, <1>5 DEF IndInv, OutcomeApplied, Status, Outbox
<1>12. NotificationsCounted'
  BY <1>1, <1>2, <1>3 DEF IndInv, NotificationsCounted, NotifiedTopics
<1>13. NoSeatsOffCatalog'
  BY <1>3 DEF IndInv, NoSeatsOffCatalog
<1>14. SeatsConserved'
  <2>1. \A x \in Bookings : Holds(x)' = Holds(x)
    BY <1>1, <1>2, <1>3 DEF Holds, Decided, Released
  <2>2. \A x \in Bookings : Holds(x) => x # b
    BY <1>5 DEF Holds, Decided, Outbox
  <2> QED
    BY <1>3, <1>4, <2>1, <2>2, LedgerKept DEF IndInv
<1> QED
  BY <1>6, <1>7, <1>8, <1>9, <1>10, <1>11, <1>12, <1>13, <1>14 DEF IndInv

LEMMA CancelKeeps ==
  ASSUME IndInv, TypeOK', NEW b \in Bookings, CancelBookingWithOutbox(b),
         UNCHANGED <<eventVars, notificationVars, relayVars>>
  PROVE  IndInv'
<1> USE DEF eventVars, notificationVars, relayVars
<1> DEFINE e == booking[b].eventId
           q == booking[b].quantity
<1>1. Status(b) = "CONFIRMED" /\ e \in Events /\ q \in Quantities
  BY RequestedBooking DEF CancelBookingWithOutbox, IndInv, TypeOK, Status
<1>2. PICK m \in Envelopes("BOOKING_CANCELLED", b, e, q, Ids(bookingOutbox)) :
        bookingOutbox' = bookingOutbox \union {m}
  BY DEF CancelBookingWithOutbox, EnqueueBooking
<1>3. /\ m \in Message
      /\ m.topic = "BOOKING_CANCELLED" /\ m.bookingId = b /\ m.eventId = e /\ m.quantity = q
      /\ m.messageId \notin Ids(bookingOutbox)
      /\ m.messageId[1] = m.topic /\ m.messageId[2] = b
  BY <1>1, EnvelopeFacts DEF Topics, BookingTopics
<1>4. /\ \A x \in Bookings \ {b} : booking'[x] = booking[x]
      /\ Status(b)' = "CANCELLED"
      /\ \A x \in Bookings : /\ booking'[x].eventId = booking[x].eventId
                             /\ booking'[x].quantity = booking[x].quantity
      /\ UNCHANGED <<bookingInbox, eventOutbox, eventInbox, broker, abandoned, notifications,
                     notificationInbox, total, available, catalog>>
  <2>1. booking \in [Bookings -> BookingRows \union {NoBooking}] /\ booking[b] \in BookingRows
    BY <1>1, RequestedBooking DEF IndInv, TypeOK, BookingTypeOK
  <2>2. booking' = [booking EXCEPT ![b].status = "CANCELLED"]
    BY DEF CancelBookingWithOutbox
  <2> QED
    BY <2>1, <2>2 DEF CancelBookingWithOutbox, Status, BookingRows
<1>5. /\ \A x \in Outbox : x.bookingId \in Bookings
      /\ Outbox' = Outbox \union {m}
      /\ \A x \in bookingOutbox : x.bookingId = b => x.topic # "BOOKING_CANCELLED"
  BY <1>1, <1>2, <1>4
  DEF IndInv, Outbox, TypeOK, BookingTypeOK, EventTypeOK, Message, AnnouncementsTrue
<1>6. MessagesStored'
  BY <1>2, <1>4, <1>5 DEF IndInv, MessagesStored, Ids
<1>7. MessagesMatchBookings'
  BY <1>3, <1>4, <1>5 DEF IndInv, MessagesMatchBookings, Status
<1>8. DecidedOnce'
  BY <1>2, <1>3, <1>4, <1>5 DEF IndInv, DecidedOnce, Outbox
<1>9. StatusCaused'
  BY <1>1, <1>4 DEF IndInv, StatusCaused, Status
<1>10. AnnouncementsTrue'
  BY <1>1, <1>2, <1>3, <1>4, <1>5 DEF IndInv, AnnouncementsTrue, Status, Outbox
<1>11. OutcomeApplied'
  BY <1>1, <1>4, <1>5 DEF IndInv, OutcomeApplied, Status, Outbox
<1>12. NotificationsCounted'
  <2>1. m.messageId \notin notificationInbox
    BY <1>3 DEF IndInv, MessagesStored
  <2> QED
    BY <1>2, <1>4, <2>1 DEF IndInv, NotificationsCounted
<1>13. NoSeatsOffCatalog'
  BY <1>4 DEF IndInv, NoSeatsOffCatalog
<1>14. SeatsConserved'
  <2>1. m.messageId \notin eventInbox
    BY <1>3 DEF IndInv, MessagesStored
  <2>2. \A x \in Bookings : Holds(x)' = Holds(x)
    BY <1>2, <1>4, <2>1 DEF Holds, Decided, Released
  <2> QED
    BY <1>4, <2>2, LedgerKept DEF IndInv
<1> QED
  BY <1>6, <1>7, <1>8, <1>9, <1>10, <1>11, <1>12, <1>13, <1>14 DEF IndInv

\* An outcome on the broker that is not in the inbox finds its booking PENDING.
LEMMA OutcomeFindsPending ==
  ASSUME IndInv, NEW m \in eventOutbox, m.messageId \notin bookingInbox
  PROVE  /\ Status(m.bookingId) = "PENDING"
         /\ AwaitsConfirmation(m) /\ AwaitsFailure(m)
<1>1. m \in Outbox /\ m.bookingId \in Bookings
  BY DEF Outbox, IndInv, TypeOK, EventTypeOK, Message
<1>2. \A o \in eventOutbox : o.bookingId = m.bookingId => o.messageId \notin bookingInbox
  BY DEF IndInv, DecidedOnce
<1>3. Status(m.bookingId) \notin {"CONFIRMED", "CANCELLED", "FAILED"}
  BY <1>1, <1>2 DEF IndInv, StatusCaused
<1>4. booking[m.bookingId] \in BookingRows
  BY <1>1, RequestedBooking DEF IndInv, MessagesMatchBookings, TypeOK
<1>5. Status(m.bookingId) = "PENDING"
  BY <1>3, <1>4 DEF Status, BookingRows, BookingStatus
<1> QED
  BY <1>1, <1>5 DEF AwaitsConfirmation, AwaitsFailure, Status, IndInv, MessagesMatchBookings

\* Both handlers of the booking service, told apart by what they write.
LEMMA OutcomeKeeps ==
  ASSUME IndInv, TypeOK', NEW m \in eventOutbox, NEW status, NEW topic,
         ApplyOutcome(m, TRUE, status, topic),
         \/ m.topic = "SEATS_RESERVED" /\ status = "CONFIRMED" /\ topic = "BOOKING_CONFIRMED"
         \/ m.topic = "SEAT_RESERVATION_FAILED" /\ status = "FAILED" /\ topic = "BOOKING_FAILED",
         UNCHANGED <<eventVars, notificationVars, relayVars>>
  PROVE  IndInv'
<1> USE DEF eventVars, notificationVars, relayVars
<1> DEFINE b == m.bookingId
<1>1. /\ m.messageId \notin bookingInbox
      /\ bookingInbox' = bookingInbox \union {m.messageId}
      /\ booking' = [booking EXCEPT ![b].status = status]
      /\ EnqueueBooking(topic, b, m.eventId, m.quantity)
      /\ UNCHANGED <<eventOutbox, eventInbox, broker, abandoned, notifications,
                     notificationInbox, total, available, catalog>>
  BY DEF ApplyOutcome, ProcessedByBooking
<1>2. /\ m \in Outbox /\ m \in Message
      /\ b \in Bookings /\ m.eventId \in Events /\ m.quantity \in Quantities
  BY DEF Outbox, IndInv, TypeOK, EventTypeOK, Message
<1>3. Status(b) = "PENDING"
  BY <1>1, OutcomeFindsPending
<1>4. PICK n \in Envelopes(topic, b, m.eventId, m.quantity, Ids(bookingOutbox)) :
        bookingOutbox' = bookingOutbox \union {n}
  BY <1>1 DEF EnqueueBooking
<1>5. /\ n \in Message
      /\ n.topic = topic /\ n.bookingId = b
      /\ n.eventId = m.eventId /\ n.quantity = m.quantity
      /\ n.messageId \notin Ids(bookingOutbox)
      /\ n.messageId[1] = n.topic /\ n.messageId[2] = b
  BY <1>2, EnvelopeFacts DEF Topics, BookingTopics
<1>6. /\ \A x \in Bookings \ {b} : booking'[x] = booking[x]
      /\ Status(b)' = status
      /\ \A x \in Bookings : /\ booking'[x].eventId = booking[x].eventId
                             /\ booking'[x].quantity = booking[x].quantity
  <2>1. booking \in [Bookings -> BookingRows \union {NoBooking}] /\ booking[b] \in BookingRows
    BY <1>2, <1>3, RequestedBooking DEF IndInv, TypeOK, BookingTypeOK
  <2> QED
    BY <1>1, <1>2, <2>1 DEF Status, BookingRows
<1>7. /\ \A x \in Outbox : x.bookingId \in Bookings
      /\ Outbox' = Outbox \union {n}
      /\ \A x \in bookingOutbox : x.bookingId = b => x.topic \notin NotifiedTopics
  BY <1>1, <1>3, <1>4
  DEF IndInv, Outbox, TypeOK, BookingTypeOK, EventTypeOK, Message, AnnouncementsTrue,
    NotifiedTopics
<1>8. MessagesStored'
  BY <1>1, <1>4, <1>7 DEF IndInv, MessagesStored, Ids
<1>9. MessagesMatchBookings'
  BY <1>2, <1>5, <1>6, <1>7 DEF IndInv, MessagesMatchBookings, Status
<1>10. DecidedOnce'
  BY <1>1, <1>4, <1>5, <1>7 DEF IndInv, DecidedOnce, Outbox, NotifiedTopics
<1>11. StatusCaused'
  BY <1>1, <1>2, <1>6 DEF IndInv, StatusCaused, Status
<1>12. AnnouncementsTrue'
  BY <1>4, <1>5, <1>6, <1>7 DEF IndInv, AnnouncementsTrue, Status, Outbox, NotifiedTopics
<1>13. OutcomeApplied'
  <2>1. \A o \in eventOutbox : o.messageId = m.messageId => o = m
    BY <1>2 DEF IndInv, DecidedOnce, MessagesMatchBookings, Outbox
  <2>2. \A o \in eventOutbox : o.bookingId = b => o = m
    BY DEF IndInv, DecidedOnce
  <2> QED
    BY <1>1, <1>6, <1>7, <2>1, <2>2 DEF IndInv, OutcomeApplied, Status, Outbox
<1>14. NotificationsCounted'
  <2>1. n.messageId \notin notificationInbox
    BY <1>5 DEF IndInv, MessagesStored
  <2> QED
    BY <1>1, <1>4, <2>1 DEF IndInv, NotificationsCounted
<1>15. NoSeatsOffCatalog'
  BY <1>1 DEF IndInv, NoSeatsOffCatalog
<1>16. SeatsConserved'
  <2>1. \A x \in Bookings : Holds(x)' = Holds(x)
    BY <1>1, <1>4, <1>5 DEF Holds, Decided, Released
  <2> QED
    BY <1>1, <1>6, <2>1, LedgerKept DEF IndInv
<1> QED
  BY <1>8, <1>9, <1>10, <1>11, <1>12, <1>13, <1>14, <1>15, <1>16 DEF IndInv

\* An outcome that the event service enqueues keeps everything but the balance.
LEMMA DecisionKeeps ==
  ASSUME IndInv, TypeOK', NEW m \in bookingOutbox, m.topic = "RESERVE_SEATS",
         RecordInEventInbox(m), NEW topic \in EventTopics, EnqueueEvent(topic, m),
         UNCHANGED <<bookingVars, notificationVars, relayVars, catalog, total>>,
         NoSeatsOffCatalog', SeatsConserved'
  PROVE  IndInv'
<1> USE DEF bookingVars, notificationVars, relayVars
<1>1. /\ m.messageId \notin eventInbox
      /\ eventInbox' = eventInbox \union {m.messageId}
      /\ UNCHANGED <<booking, bookingInbox, bookingOutbox, broker, abandoned, notifications,
                     notificationInbox>>
  BY DEF RecordInEventInbox, ProcessedByEvent
<1>2. /\ m \in Outbox
      /\ m.bookingId \in Bookings /\ m.eventId \in Events /\ m.quantity \in Quantities
  BY DEF Outbox, IndInv, TypeOK, BookingTypeOK, Message
<1>3. PICK o \in Envelopes(topic, m.bookingId, m.eventId, m.quantity, Ids(eventOutbox)) :
        eventOutbox' = eventOutbox \union {o}
  BY DEF EnqueueEvent
<1>4. /\ o.topic = topic /\ o.bookingId = m.bookingId
      /\ o.eventId = m.eventId /\ o.quantity = m.quantity
      /\ o.messageId \notin Ids(eventOutbox)
      /\ o.messageId[1] = o.topic /\ o.messageId[2] = o.bookingId
  BY <1>2, EnvelopeFacts DEF Topics
<1>5. \A x \in eventOutbox : x.bookingId # m.bookingId
  BY <1>1 DEF IndInv, DecidedOnce
<1>6. Outbox' = Outbox \union {o}
  BY <1>1, <1>3 DEF Outbox
<1>7. MessagesStored'
  BY <1>1, <1>3, <1>6 DEF IndInv, MessagesStored, Ids
<1>8. MessagesMatchBookings'
  BY <1>1, <1>2, <1>4, <1>6 DEF IndInv, MessagesMatchBookings, Status
<1>9. DecidedOnce'
  BY <1>1, <1>3, <1>4, <1>5 DEF IndInv, DecidedOnce
<1>10. StatusCaused'
  BY <1>1, <1>3 DEF IndInv, StatusCaused, Status
<1>11. AnnouncementsTrue'
  BY <1>1 DEF IndInv, AnnouncementsTrue, Status
<1>12. OutcomeApplied'
  <2>1. o.messageId \notin bookingInbox
    BY <1>4 DEF IndInv, MessagesStored
  <2> QED
    BY <1>1, <1>3, <2>1 DEF IndInv, OutcomeApplied, Status
<1>13. NotificationsCounted'
  BY <1>1 DEF IndInv, NotificationsCounted
<1> QED
  BY <1>7, <1>8, <1>9, <1>10, <1>11, <1>12, <1>13 DEF IndInv

\* A request is decided while its booking neither holds seats nor held any.
LEMMA RequestUndecided ==
  ASSUME IndInv, NEW m \in bookingOutbox, m.topic = "RESERVE_SEATS", m.messageId \notin eventInbox
  PROVE  /\ \A t \in Topics : ~Decided(m.bookingId, t)
         /\ ~Released(m.bookingId)
<1>1. m.bookingId \in Bookings
  BY DEF IndInv, TypeOK, BookingTypeOK, Message
<1>2. \A x \in eventOutbox : x.bookingId # m.bookingId
  BY DEF IndInv, DecidedOnce
<1>3. Status(m.bookingId) # "CANCELLED"
  BY <1>1, <1>2 DEF IndInv, StatusCaused
<1> QED
  BY <1>2, <1>3 DEF Decided, Released, IndInv, AnnouncementsTrue

\* Recording a request in the inbox releases nothing.
LEMMA RequestReleasesNothing ==
  ASSUME IndInv, NEW m \in bookingOutbox, m.topic = "RESERVE_SEATS", RecordInEventInbox(m),
         UNCHANGED bookingOutbox
  PROVE  \A b \in Bookings : Released(b)' = Released(b)
<1>1. \A c \in bookingOutbox : c.messageId = m.messageId => c.topic = "RESERVE_SEATS"
  BY DEF IndInv, MessagesMatchBookings, Outbox
<1> QED
  BY <1>1 DEF Released, RecordInEventInbox

LEMMA ReserveKeeps ==
  ASSUME IndInv, TypeOK', NEW m \in bookingOutbox, ReserveSeats(m),
         UNCHANGED <<bookingVars, notificationVars, relayVars>>
  PROVE  IndInv'
<1> DEFINE b == m.bookingId
           q == m.quantity
<1>1. /\ m.topic = "RESERVE_SEATS" /\ RecordInEventInbox(m) /\ m.messageId \notin eventInbox
      /\ EnqueueEvent("SEATS_RESERVED", m)
      /\ m.eventId \in catalog /\ available[m.eventId] >= q
      /\ available' = [available EXCEPT ![m.eventId] = @ - q]
      /\ UNCHANGED <<catalog, total, booking, bookingOutbox>>
  BY DEF ReserveSeats, RecordInEventInbox, ProcessedByEvent, SeatsSuffice, bookingVars
<1>2. b \in Bookings /\ m.eventId \in Events /\ q \in Quantities /\ q \in Nat /\ m \in Outbox
  BY MessagesAssumption DEF IndInv, TypeOK, BookingTypeOK, Message, Quantities, Outbox
<1>3. booking[b].eventId = m.eventId /\ booking[b].quantity = q
  BY <1>2 DEF IndInv, MessagesMatchBookings
<1>4. PICK o \in Envelopes("SEATS_RESERVED", b, m.eventId, q, Ids(eventOutbox)) :
        eventOutbox' = eventOutbox \union {o}
  BY <1>1 DEF EnqueueEvent
<1>5. o.topic = "SEATS_RESERVED" /\ o.bookingId = b
  <2>1. "SEATS_RESERVED" \in Topics
    BY DEF Topics, EventTopics
  <2> QED
    BY <1>2, <2>1, EnvelopeFacts
<1>6. ~Holds(b) /\ Holds(b)' /\ \A x \in Bookings \ {b} : Holds(x)' = Holds(x)
  BY <1>1, <1>2, <1>4, <1>5, RequestUndecided, RequestReleasesNothing
  DEF Holds, Decided, Topics, EventTopics
<1>7. NoSeatsOffCatalog'
  BY <1>1, <1>2 DEF IndInv, NoSeatsOffCatalog, TypeOK, EventTypeOK
<1>8. SeatsConserved'
  <2> SUFFICES ASSUME NEW e \in Events
               PROVE  total'[e] - available'[e] = Cardinality(TakenSeats(e)')
    BY DEF SeatsConserved
  <2>1. total[e] - available[e] = Cardinality(TakenSeats(e))
    BY DEF IndInv, SeatsConserved
  <2>2. available \in [Events -> Nat] /\ total \in [Events -> Nat]
    BY EventAssumption DEF IndInv, TypeOK, EventTypeOK
  <2>3. CASE e # m.eventId
    <3>1. Holders(e)' = Holders(e)
      BY <1>1, <1>3, <1>6, <2>3 DEF Holders
    <3>2. TakenSeats(e)' = TakenSeats(e)
      BY <1>1, <3>1 DEF TakenSeats
    <3> QED
      BY <1>1, <1>2, <2>1, <2>2, <2>3, <3>2
  <2>4. CASE e = m.eventId
    <3>1. Holders(e)' = Holders(e) \union {b} /\ b \notin Holders(e)
      BY <1>1, <1>2, <1>3, <1>6, <2>4 DEF Holders
    <3>2. TakenSeats(e)' = TakenSeats(e) \union ({b} \X (1..q))
      BY <1>1, <1>3, <3>1 DEF TakenSeats
    <3>3. TakenSeats(e) \intersect ({b} \X (1..q)) = {}
      BY <3>1 DEF TakenSeats
    <3>4. Cardinality(TakenSeats(e)') = Cardinality(TakenSeats(e)) + q
      <4>1. IsFiniteSet(TakenSeats(e))
        BY TakenSeatsFinite DEF IndInv
      <4>2. Cardinality(TakenSeats(e) \union ({b} \X (1..q))) = Cardinality(TakenSeats(e)) + q
        BY <1>2, <3>3, <4>1, SeatsAddUp, Zenon
      <4> QED
        BY <3>2, <4>2
    <3> QED
      BY <1>1, <1>2, <2>1, <2>2, <2>4, <3>4
  <2> QED
    BY <2>3, <2>4
<1> QED
  BY <1>1, <1>7, <1>8, DecisionKeeps DEF EventTopics

LEMMA RejectKeeps ==
  ASSUME IndInv, TypeOK', NEW m \in bookingOutbox, RejectReservation(m),
         UNCHANGED <<bookingVars, notificationVars, relayVars>>
  PROVE  IndInv'
<1> DEFINE b == m.bookingId
<1>1. /\ m.topic = "RESERVE_SEATS" /\ RecordInEventInbox(m) /\ m.messageId \notin eventInbox
      /\ EnqueueEvent("SEAT_RESERVATION_FAILED", m)
      /\ UNCHANGED <<catalog, total, available, booking, bookingOutbox>>
  BY DEF RejectReservation, RecordInEventInbox, ProcessedByEvent, bookingVars
<1>2. b \in Bookings /\ m.eventId \in Events /\ m.quantity \in Quantities
  BY DEF IndInv, TypeOK, BookingTypeOK, Message
<1>3. PICK o \in Envelopes("SEAT_RESERVATION_FAILED", b, m.eventId, m.quantity,
                           Ids(eventOutbox)) :
        eventOutbox' = eventOutbox \union {o}
  BY <1>1 DEF EnqueueEvent
<1>4. o.topic = "SEAT_RESERVATION_FAILED"
  <2>1. "SEAT_RESERVATION_FAILED" \in Topics
    BY DEF Topics, EventTopics
  <2> QED
    BY <1>2, <2>1, EnvelopeFacts
<1>5. \A x \in Bookings : Holds(x)' = Holds(x)
  BY <1>1, <1>3, <1>4, RequestReleasesNothing DEF Holds, Decided
<1>6. NoSeatsOffCatalog'
  BY <1>1 DEF IndInv, NoSeatsOffCatalog
<1>7. SeatsConserved'
  BY <1>1, <1>5, LedgerKept DEF IndInv
<1> QED
  BY <1>1, <1>6, <1>7, DecisionKeeps DEF EventTopics

\* A cancellation that the event service has not seen frees seats that the
\* booking holds, and they fit.
LEMMA CancellationHolds ==
  ASSUME IndInv, NEW m \in bookingOutbox, m.topic = "BOOKING_CANCELLED",
         m.messageId \notin eventInbox
  PROVE  /\ m.bookingId \in Holders(m.eventId)
         /\ SeatsFit(m)
         /\ m.quantity <= Cardinality(TakenSeats(m.eventId))
<1> DEFINE b == m.bookingId
           e == m.eventId
           q == m.quantity
<1>1. b \in Bookings /\ e \in Events /\ q \in Quantities /\ q \in Nat /\ q > 0 /\ m \in Outbox
  BY MessagesAssumption DEF IndInv, TypeOK, BookingTypeOK, Message, Quantities, Outbox
<1>2. booking[b].eventId = e /\ booking[b].quantity = q /\ Status(b) = "CANCELLED"
  BY <1>1 DEF IndInv, MessagesMatchBookings, AnnouncementsTrue
<1>3. Decided(b, "SEATS_RESERVED")
  BY <1>1, <1>2 DEF IndInv, StatusCaused, Decided
<1>4. ~Released(b)
  BY DEF Released, IndInv, DecidedOnce
<1>5. b \in Holders(e)
  BY <1>1, <1>2, <1>3, <1>4 DEF Holders, Holds
<1>6. q <= Cardinality(TakenSeats(e)) /\ Cardinality(TakenSeats(e)) \in Nat
  <2>1. IsFiniteSet(TakenSeats(e)) /\ Cardinality(TakenSeats(e)) \in Nat
    BY <1>1, TakenSeatsFinite DEF IndInv
  <2>2. ({b} \X (1..q)) \in SUBSET TakenSeats(e)
    BY <1>2, <1>5 DEF TakenSeats
  <2>3. Cardinality({b} \X (1..q)) <= Cardinality(TakenSeats(e))
    BY <2>1, <2>2, FS_Subset, Zenon
  <2>4. Cardinality({b} \X (1..q)) = q
    BY <1>1, SeatsOfOne
  <2> QED
    BY <2>1, <2>3, <2>4
<1>7. SeatsFit(m)
  <2>1. total[e] - available[e] = Cardinality(TakenSeats(e))
    BY <1>1 DEF IndInv, SeatsConserved
  <2>2. total[e] \in Nat /\ available[e] \in Nat
    BY <1>1, EventAssumption DEF IndInv, TypeOK, EventTypeOK
  <2>3. e \in catalog
    BY <1>1, <1>6, <2>1, <2>2 DEF IndInv, NoSeatsOffCatalog
  <2> QED
    BY <1>1, <1>6, <2>1, <2>2, <2>3 DEF SeatsFit
<1> QED
  BY <1>5, <1>6, <1>7

LEMMA ReleaseKeeps ==
  ASSUME IndInv, TypeOK', NEW m \in bookingOutbox, ReleaseSeats(m),
         UNCHANGED <<bookingVars, notificationVars, relayVars>>
  PROVE  IndInv'
<1> USE DEF bookingVars, notificationVars, relayVars
<1> DEFINE b == m.bookingId
           q == m.quantity
<1>1. /\ m.topic = "BOOKING_CANCELLED" /\ m.messageId \notin eventInbox
      /\ eventInbox' = eventInbox \union {m.messageId}
      /\ UNCHANGED <<catalog, total, eventOutbox, booking, bookingInbox, bookingOutbox, broker,
                     abandoned, notifications, notificationInbox>>
  BY DEF ReleaseSeats, RecordInEventInbox, ProcessedByEvent
<1>2. b \in Bookings /\ m.eventId \in Events /\ q \in Nat /\ m \in Outbox
  BY MessagesAssumption DEF IndInv, TypeOK, BookingTypeOK, Message, Quantities, Outbox
<1>3. b \in Holders(m.eventId) /\ SeatsFit(m)
  BY <1>1, CancellationHolds
<1>4. available' = [available EXCEPT ![m.eventId] = @ + q] /\ m.eventId \in catalog
  BY <1>3 DEF ReleaseSeats, SeatsFit
<1>5. booking[b].quantity = q /\ booking[b].eventId = m.eventId
  BY <1>2 DEF IndInv, MessagesMatchBookings
<1>6. Holds(b) /\ ~Holds(b)' /\ \A x \in Bookings \ {b} : Holds(x)' = Holds(x)
  <2>1. Released(b)'
    BY <1>1 DEF Released
  <2>2. \A c \in bookingOutbox : c.messageId = m.messageId => c.bookingId = b
    BY <1>2 DEF IndInv, MessagesMatchBookings, Outbox
  <2>3. \A x \in Bookings \ {b} : Released(x)' = Released(x)
    BY <1>1, <2>2 DEF Released
  <2> QED
    BY <1>1, <1>3, <2>1, <2>3 DEF Holds, Holders, Decided
<1>7. SeatsConserved'
  <2> SUFFICES ASSUME NEW e \in Events
               PROVE  total'[e] - available'[e] = Cardinality(TakenSeats(e)')
    BY DEF SeatsConserved
  <2>1. total[e] - available[e] = Cardinality(TakenSeats(e))
    BY DEF IndInv, SeatsConserved
  <2>2. available \in [Events -> Nat] /\ total \in [Events -> Nat]
    BY EventAssumption DEF IndInv, TypeOK, EventTypeOK
  <2>3. CASE e # m.eventId
    <3>1. Holders(e)' = Holders(e)
      BY <1>1, <1>5, <1>6, <2>3 DEF Holders
    <3>2. TakenSeats(e)' = TakenSeats(e)
      BY <1>1, <3>1 DEF TakenSeats
    <3> QED
      BY <1>1, <1>2, <1>4, <2>1, <2>2, <2>3, <3>2
  <2>4. CASE e = m.eventId
    <3>1. Holders(e) = Holders(e)' \union {b} /\ b \notin Holders(e)'
      BY <1>1, <1>2, <1>5, <1>6, <2>4 DEF Holders
    <3>2. TakenSeats(e) = TakenSeats(e)' \union ({b} \X (1..q))
      BY <1>1, <1>5, <3>1 DEF TakenSeats
    <3>3. TakenSeats(e)' \intersect ({b} \X (1..q)) = {}
      BY <3>1 DEF TakenSeats
    <3>4. IsFiniteSet(TakenSeats(e)') /\ Cardinality(TakenSeats(e)') \in Nat
      <4>1. IsFiniteSet(TakenSeats(e))
        BY TakenSeatsFinite DEF IndInv
      <4>2. TakenSeats(e)' \in SUBSET TakenSeats(e)
        BY <3>2
      <4> QED
        BY <4>1, <4>2, FS_Subset, FS_CardinalityType, Zenon
    <3>5. Cardinality(TakenSeats(e)' \union ({b} \X (1..q))) = Cardinality(TakenSeats(e)') + q
      BY <1>2, <3>3, <3>4, SeatsAddUp, Zenon
    <3>6. Cardinality(TakenSeats(e)) = Cardinality(TakenSeats(e)') + q
      BY <3>2, <3>5
    <3> QED
      BY <1>1, <1>2, <1>4, <2>1, <2>2, <2>4, <3>4, <3>6
  <2> QED
    BY <2>3, <2>4
<1>8. NoSeatsOffCatalog'
  BY <1>1, <1>2, <1>4 DEF IndInv, NoSeatsOffCatalog, TypeOK, EventTypeOK
<1>9. MessagesStored'
  BY <1>1 DEF IndInv, MessagesStored, Outbox, Ids
<1>10. MessagesMatchBookings'
  BY <1>1 DEF IndInv, MessagesMatchBookings, Status, Outbox
<1>11. DecidedOnce'
  BY <1>1 DEF IndInv, DecidedOnce
<1>12. StatusCaused' /\ AnnouncementsTrue' /\ OutcomeApplied' /\ NotificationsCounted'
  BY <1>1 DEF IndInv, StatusCaused, AnnouncementsTrue, OutcomeApplied, NotificationsCounted,
    Status
<1> QED
  BY <1>7, <1>8, <1>9, <1>10, <1>11, <1>12 DEF IndInv

LEMMA AdministrationKeeps ==
  ASSUME IndInv, TypeOK', Administration
  PROVE  IndInv'
<1> USE DEF bookingVars, notificationVars, relayVars
<1>1. /\ UNCHANGED <<booking, bookingInbox, bookingOutbox, broker, abandoned, notifications,
                     notificationInbox, eventOutbox, eventInbox>>
  BY DEF Administration, CreateEvent, UpdateEvent, DeleteEvent
<1>2. /\ \A e \in Events : total'[e] - available'[e] = total[e] - available[e]
      /\ NoSeatsOffCatalog'
  <2>1. /\ total \in [Events -> Nat] /\ available \in [Events -> Nat] /\ catalog \subseteq Events
        /\ 1..MaxCapacity \subseteq Nat
    BY EventAssumption DEF IndInv, TypeOK, EventTypeOK
  <2>2. ASSUME NEW e \in Events, NEW n \in 1..MaxCapacity, CreateEvent(e, n)
        PROVE  /\ \A x \in Events : total'[x] - available'[x] = total[x] - available[x]
               /\ NoSeatsOffCatalog'
    BY <2>1, <2>2 DEF CreateEvent, IndInv, NoSeatsOffCatalog
  <2>3. ASSUME NEW e \in Events, NEW n \in 1..MaxCapacity, UpdateEvent(e, n)
        PROVE  /\ \A x \in Events : total'[x] - available'[x] = total[x] - available[x]
               /\ NoSeatsOffCatalog'
    BY <2>1, <2>3 DEF UpdateEvent, IndInv, NoSeatsOffCatalog
  <2>4. ASSUME NEW e \in Events, DeleteEvent(e)
        PROVE  /\ \A x \in Events : total'[x] - available'[x] = total[x] - available[x]
               /\ NoSeatsOffCatalog'
    BY <2>1, <2>4 DEF DeleteEvent, IndInv, NoSeatsOffCatalog
  <2> QED
    BY <2>2, <2>3, <2>4 DEF Administration
<1>3. SeatsConserved'
  <2>1. \A x \in Bookings : Holds(x)' = Holds(x)
    BY <1>1 DEF Holds, Decided, Released
  <2> QED
    BY <1>1, <1>2, <2>1, LedgerKept DEF IndInv
<1>4. MessagesStored' /\ MessagesMatchBookings' /\ DecidedOnce'
  BY <1>1 DEF IndInv, MessagesStored, MessagesMatchBookings, DecidedOnce, Outbox, Ids, Status
<1>5. StatusCaused' /\ AnnouncementsTrue' /\ OutcomeApplied' /\ NotificationsCounted'
  BY <1>1 DEF IndInv, StatusCaused, AnnouncementsTrue, OutcomeApplied, NotificationsCounted,
    Status
<1> QED
  BY <1>2, <1>3, <1>4, <1>5 DEF IndInv

LEMMA NotificationKeeps ==
  ASSUME IndInv, TypeOK', NEW m \in bookingOutbox, m.topic \in NotifiedTopics,
         AppendIfUnprocessed(m), UNCHANGED <<bookingVars, eventVars, relayVars>>
  PROVE  IndInv'
<1> USE DEF bookingVars, eventVars, relayVars
<1>1. /\ m.messageId \notin notificationInbox
      /\ notificationInbox' = notificationInbox \union {m.messageId}
      /\ notifications' = [notifications EXCEPT ![m.bookingId][m.topic] = @ + 1]
      /\ UNCHANGED <<booking, bookingInbox, bookingOutbox, eventOutbox, eventInbox, broker,
                     abandoned, catalog, total, available>>
  BY DEF AppendIfUnprocessed
<1>2. m.bookingId \in Bookings /\ m \in Outbox
  BY DEF IndInv, TypeOK, BookingTypeOK, Message, Outbox
<1>3. NotificationsCounted'
  <2> SUFFICES ASSUME NEW b \in Bookings, NEW t \in NotifiedTopics
               PROVE  notifications'[b][t] =
                        IF \E x \in bookingOutbox : /\ x.topic = t /\ x.bookingId = b
                                                    /\ x.messageId \in notificationInbox'
                        THEN 1 ELSE 0
    BY <1>1 DEF NotificationsCounted
  <2>1. notifications \in [Bookings -> [NotifiedTopics -> Nat]]
    BY DEF IndInv, TypeOK, NotificationTypeOK
  <2>2. notifications[b][t] =
          IF \E x \in bookingOutbox : /\ x.topic = t /\ x.bookingId = b
                                      /\ x.messageId \in notificationInbox
          THEN 1 ELSE 0
    BY DEF IndInv, NotificationsCounted
  <2>3. CASE b = m.bookingId /\ t = m.topic
    <3>1. \A x \in bookingOutbox :
            x.topic = t /\ x.bookingId = b => x.messageId \notin notificationInbox
      BY <1>1, <2>3 DEF IndInv, DecidedOnce
    <3>2. notifications[b][t] = 0
      BY <2>2, <3>1
    <3>3. notifications'[b][t] = 1
      BY <1>1, <1>2, <2>1, <2>3, <3>2
    <3> QED
      BY <1>1, <2>3, <3>3
  <2>4. CASE ~(b = m.bookingId /\ t = m.topic)
    <3>1. notifications'[b][t] = notifications[b][t]
      BY <1>1, <1>2, <2>1, <2>4
    <3>2. \A x \in bookingOutbox :
            x.topic = t /\ x.bookingId = b => x.messageId # m.messageId
      BY <1>2, <2>4 DEF IndInv, MessagesMatchBookings, Outbox
    <3> QED
      BY <1>1, <2>2, <3>1, <3>2
  <2> QED
    BY <2>3, <2>4
<1>4. SeatsConserved'
  <2>1. \A x \in Bookings : Holds(x)' = Holds(x)
    BY <1>1 DEF Holds, Decided, Released
  <2> QED
    BY <1>1, <2>1, LedgerKept DEF IndInv
<1>5. MessagesStored'
  BY <1>1 DEF IndInv, MessagesStored, Outbox, Ids
<1>6. MessagesMatchBookings' /\ DecidedOnce' /\ NoSeatsOffCatalog'
  BY <1>1 DEF IndInv, MessagesMatchBookings, DecidedOnce, NoSeatsOffCatalog, Outbox, Status
<1>7. StatusCaused' /\ AnnouncementsTrue' /\ OutcomeApplied'
  BY <1>1 DEF IndInv, StatusCaused, AnnouncementsTrue, OutcomeApplied, Status
<1> QED
  BY <1>3, <1>4, <1>5, <1>6, <1>7 DEF IndInv

\* What the relays do, and stuttering, touches nothing but the broker's messages.
LEMMA RelayKeeps ==
  ASSUME IndInv, TypeOK', UNCHANGED <<bookingVars, eventVars, notificationVars>>,
         broker' \subseteq Outbox, abandoned' \subseteq Outbox
  PROVE  IndInv'
<1> USE DEF bookingVars, eventVars, notificationVars
<1>1. SeatsConserved'
  <2>1. \A x \in Bookings : Holds(x)' = Holds(x)
    BY DEF Holds, Decided, Released
  <2> QED
    BY <2>1, LedgerKept DEF IndInv
<1>2. MessagesStored'
  BY DEF IndInv, MessagesStored, Outbox, Ids
<1>3. MessagesMatchBookings' /\ DecidedOnce' /\ NoSeatsOffCatalog'
  BY DEF IndInv, MessagesMatchBookings, DecidedOnce, NoSeatsOffCatalog, Outbox, Status
<1>4. StatusCaused' /\ AnnouncementsTrue' /\ OutcomeApplied' /\ NotificationsCounted'
  BY DEF IndInv, StatusCaused, AnnouncementsTrue, OutcomeApplied, NotificationsCounted, Status
<1> QED
  BY <1>1, <1>2, <1>3, <1>4 DEF IndInv

LEMMA InductiveStep == IndInv /\ [Next]_vars => IndInv'
<1> SUFFICES ASSUME IndInv, [Next]_vars PROVE IndInv'
  OBVIOUS
<1>1. TypeOK'
  BY TypeStep DEF IndInv
<1>2. /\ broker \subseteq Outbox /\ abandoned \subseteq Outbox
      /\ \A m \in Outbox : /\ m.topic \in BookingTopics => m \in bookingOutbox
                           /\ m.topic \in EventTopics => m \in eventOutbox
  BY DEF IndInv, MessagesStored, TypeOK, BookingTypeOK, EventTypeOK, Outbox, BookingTopics,
    EventTopics
<1>3. CASE Requests
  <2>1. UNCHANGED <<eventVars, notificationVars, relayVars>>
    BY <1>3 DEF Requests
  <2> QED
    BY <1>1, <1>3, <2>1, CreateKeeps, CancelKeeps DEF Requests
<1>4. CASE Administration
  BY <1>1, <1>4, AdministrationKeeps
<1>5. ASSUME NEW m \in Outbox, Publish(m) \/ Abandon(m)
      PROVE  IndInv'
  <2>1. broker' \subseteq Outbox /\ abandoned' \subseteq Outbox
        /\ UNCHANGED <<bookingVars, eventVars, notificationVars>>
    BY <1>2, <1>5 DEF Publish, Abandon
  <2> QED
    BY <1>1, <2>1, RelayKeeps
<1>6. ASSUME NEW m \in broker, BookingConsumes(m)
      PROVE  IndInv'
  <2>1. m \in eventOutbox /\ m.messageId \notin bookingInbox
        /\ UNCHANGED <<eventVars, notificationVars, relayVars>>
    BY <1>2, <1>6 DEF BookingConsumes, ProcessSeatsReservedMessage,
      ProcessSeatReservationFailedMessage, ApplyOutcome, ProcessedByBooking, EventTopics
  <2>2. AwaitsConfirmation(m) /\ AwaitsFailure(m)
    BY <2>1, OutcomeFindsPending
  <2>3. \/ /\ m.topic = "SEATS_RESERVED"
           /\ ApplyOutcome(m, TRUE, "CONFIRMED", "BOOKING_CONFIRMED")
        \/ /\ m.topic = "SEAT_RESERVATION_FAILED"
           /\ ApplyOutcome(m, TRUE, "FAILED", "BOOKING_FAILED")
    BY <1>6, <2>2 DEF BookingConsumes, ProcessSeatsReservedMessage,
      ProcessSeatReservationFailedMessage, ApplyOutcome
  <2> QED
    BY <1>1, <2>1, <2>3, OutcomeKeeps
<1>7. ASSUME NEW m \in broker, EventConsumes(m)
      PROVE  IndInv'
  <2>1. m \in bookingOutbox /\ UNCHANGED <<bookingVars, notificationVars, relayVars>>
    BY <1>2, <1>7 DEF EventConsumes, ReserveSeats, RejectReservation, ReleaseSeats, BookingTopics
  <2> QED
    BY <1>1, <1>7, <2>1, ReserveKeeps, RejectKeeps, ReleaseKeeps DEF EventConsumes
<1>8. ASSUME NEW m \in broker, NotificationConsumes(m)
      PROVE  IndInv'
  <2>1. /\ m \in bookingOutbox /\ m.topic \in NotifiedTopics /\ AppendIfUnprocessed(m)
        /\ UNCHANGED <<bookingVars, eventVars, relayVars>>
    BY <1>2, <1>8 DEF NotificationConsumes, HandleBookingConfirmed, HandleBookingFailed,
      HandleBookingCancelled, BookingTopics, NotifiedTopics
  <2> QED
    BY <1>1, <2>1, NotificationKeeps
<1>9. CASE UNCHANGED vars
  BY <1>1, <1>2, <1>9, RelayKeeps DEF vars, relayVars
<1> QED
  BY <1>3, <1>4, <1>5, <1>6, <1>7, <1>8, <1>9 DEF Next

LEMMA InductiveInit == Init => IndInv
<1> SUFFICES ASSUME Init PROVE IndInv
  OBVIOUS
<1> USE DEF Init, BookingInit, EventInit, NotificationInit
<1>1. TypeOK
  BY EventAssumption DEF TypeOK, BookingTypeOK, EventTypeOK, NotificationTypeOK
<1>2. MessagesStored /\ MessagesMatchBookings /\ DecidedOnce /\ AnnouncementsTrue
      /\ OutcomeApplied /\ NotificationsCounted /\ NoSeatsOffCatalog
  BY DEF MessagesStored, MessagesMatchBookings, DecidedOnce, AnnouncementsTrue, OutcomeApplied,
    NotificationsCounted, NoSeatsOffCatalog, Outbox, Ids
<1>3. StatusCaused
  BY DEF StatusCaused, Status, NoBooking
<1>4. SeatsConserved
  <2> SUFFICES ASSUME NEW e \in Events PROVE Cardinality(TakenSeats(e)) = 0
    BY DEF SeatsConserved
  <2>1. TakenSeats(e) = {}
    BY DEF TakenSeats, Holders, Holds, Decided
  <2> QED
    BY <2>1, FS_EmptySet
<1> QED
  BY <1>1, <1>2, <1>3, <1>4 DEF IndInv

-----------------------------------------------------------------------------
(* No step cuts a saga.                                                    *)

\* A booking whose status stays keeps its next step unless the message that
\* carries it is recorded in an inbox.
LEMMA NextStepKept ==
  ASSUME NEW b \in Bookings, NextStepStored(b), Status(b)' = Status(b),
         bookingOutbox \subseteq bookingOutbox', eventOutbox \subseteq eventOutbox',
         \A m \in bookingOutbox : /\ m.topic = "RESERVE_SEATS" /\ m.bookingId = b
                                   /\ m.messageId \in eventInbox' => m.messageId \in eventInbox,
         \A o \in eventOutbox : /\ o.bookingId = b
                                 /\ o.messageId \in bookingInbox' => o.messageId \in bookingInbox
  PROVE  NextStepStored(b)'
BY DEF NextStepStored, Announced

LEMMA RequestForgetsNothing ==
  ASSUME IndInv, NothingForgotten, Requests
  PROVE  NothingForgotten'
<1> SUFFICES ASSUME NEW x \in Bookings PROVE NextStepStored(x)'
  BY DEF NothingForgotten
<1>1. NextStepStored(x) /\ UNCHANGED <<eventOutbox, eventInbox>>
  BY DEF NothingForgotten, Requests, eventVars
<1>2. booking \in [Bookings -> BookingRows \union {NoBooking}]
  BY DEF IndInv, TypeOK, BookingTypeOK
<1>3. ASSUME NEW b \in Bookings, NEW e \in Events, NEW q \in Quantities,
             CreateBookingWithOutbox(b, e, q)
      PROVE  NextStepStored(x)'
  <2>1. PICK m \in Envelopes("RESERVE_SEATS", b, e, q, Ids(bookingOutbox)) :
          bookingOutbox' = bookingOutbox \union {m}
    BY <1>3 DEF CreateBookingWithOutbox, EnqueueBooking
  <2>2. m.topic = "RESERVE_SEATS" /\ m.bookingId = b /\ m.messageId \notin Ids(bookingOutbox)
    BY EnvelopeFacts DEF Topics, BookingTopics
  <2>3. m.messageId \notin eventInbox
    BY <2>2 DEF IndInv, MessagesStored
  <2>4. CASE x = b
    <3>1. Status(x)' = "PENDING"
      BY <1>2, <1>3, <2>4 DEF CreateBookingWithOutbox, Status
    <3> QED
      BY <1>1, <2>1, <2>2, <2>3, <2>4, <3>1 DEF NextStepStored
  <2>5. CASE x # b
    <3>1. Status(x)' = Status(x) /\ UNCHANGED bookingInbox
      BY <1>2, <1>3, <2>5 DEF CreateBookingWithOutbox, Status
    <3> QED
      BY <1>1, <2>1, <3>1, NextStepKept
  <2> QED
    BY <2>4, <2>5
<1>4. ASSUME NEW b \in Bookings, CancelBookingWithOutbox(b)
      PROVE  NextStepStored(x)'
  <2>1. Status(b) = "CONFIRMED" /\ booking[b].eventId \in Events /\ booking[b].quantity \in Quantities
    BY <1>4, RequestedBooking DEF CancelBookingWithOutbox, IndInv, TypeOK, Status
  <2>2. PICK m \in Envelopes("BOOKING_CANCELLED", b, booking[b].eventId, booking[b].quantity,
                             Ids(bookingOutbox)) :
          bookingOutbox' = bookingOutbox \union {m}
    BY <1>4 DEF CancelBookingWithOutbox, EnqueueBooking
  <2>3. m.topic = "BOOKING_CANCELLED" /\ m.bookingId = b
    BY <2>1, EnvelopeFacts DEF Topics, BookingTopics
  <2>4. CASE x = b
    <3>1. Status(x)' = "CANCELLED"
      BY <1>2, <1>4, <2>1, <2>4, RequestedBooking
      DEF CancelBookingWithOutbox, Status, BookingRows, IndInv, TypeOK
    <3>2. Announced(x, "BOOKING_CONFIRMED")
      BY <1>1, <2>1, <2>4 DEF NextStepStored
    <3> QED
      BY <2>2, <2>3, <2>4, <3>1, <3>2 DEF NextStepStored, Announced
  <2>5. CASE x # b
    <3>1. Status(x)' = Status(x) /\ UNCHANGED bookingInbox
      BY <1>2, <1>4, <2>5 DEF CancelBookingWithOutbox, Status
    <3> QED
      BY <1>1, <2>2, <3>1, NextStepKept
  <2> QED
    BY <2>4, <2>5
<1> QED
  BY <1>3, <1>4 DEF Requests

\* An outcome's booking gets its announcement; no other booking's outcome is
\* recorded with it.
LEMMA OutcomeForgetsNothing ==
  ASSUME IndInv, NothingForgotten, NEW m \in eventOutbox, NEW status, NEW topic,
         ApplyOutcome(m, TRUE, status, topic),
         \/ status = "CONFIRMED" /\ topic = "BOOKING_CONFIRMED"
         \/ status = "FAILED" /\ topic = "BOOKING_FAILED",
         UNCHANGED eventVars
  PROVE  NothingForgotten'
<1> DEFINE b == m.bookingId
<1>1. /\ b \in Bookings /\ m.eventId \in Events /\ m.quantity \in Quantities /\ m \in Outbox
      /\ booking \in [Bookings -> BookingRows \union {NoBooking}]
  BY DEF IndInv, TypeOK, BookingTypeOK, EventTypeOK, Message, Outbox
<1>2. /\ m.messageId \notin bookingInbox
      /\ bookingInbox' = bookingInbox \union {m.messageId}
      /\ booking' = [booking EXCEPT ![b].status = status]
      /\ UNCHANGED <<eventOutbox, eventInbox>>
  BY DEF ApplyOutcome, ProcessedByBooking, eventVars
<1>3. PICK n \in Envelopes(topic, b, m.eventId, m.quantity, Ids(bookingOutbox)) :
        bookingOutbox' = bookingOutbox \union {n}
  BY DEF ApplyOutcome, EnqueueBooking
<1>4. n.topic = topic /\ n.bookingId = b
  BY <1>1, EnvelopeFacts DEF Topics, BookingTopics
<1> SUFFICES ASSUME NEW x \in Bookings PROVE NextStepStored(x)'
  BY DEF NothingForgotten
<1>5. CASE x = b
  <2>1. booking[b] \in BookingRows
    BY <1>1, <1>2, OutcomeFindsPending, RequestedBooking DEF IndInv, TypeOK
  <2>2. Status(x)' = status
    BY <1>1, <1>2, <1>5, <2>1 DEF Status, BookingRows
  <2> QED
    BY <1>3, <1>4, <1>5, <2>2 DEF NextStepStored, Announced
<1>6. CASE x # b
  <2>1. Status(x)' = Status(x) /\ NextStepStored(x)
    BY <1>1, <1>2, <1>6 DEF Status, NothingForgotten
  <2>2. \A o \in eventOutbox : o.messageId = m.messageId => o.bookingId = b
    BY <1>1 DEF IndInv, MessagesMatchBookings, Outbox
  <2> QED
    BY <1>2, <1>3, <1>6, <2>1, <2>2, NextStepKept
<1> QED
  BY <1>5, <1>6

\* A request is replaced by its outcome, which the booking service cannot have
\* processed before it is stored.
LEMMA DecisionForgetsNothing ==
  ASSUME IndInv, NothingForgotten, NEW m \in bookingOutbox, NEW topic \in EventTopics,
         RecordInEventInbox(m), EnqueueEvent(topic, m), UNCHANGED bookingVars
  PROVE  NothingForgotten'
<1> DEFINE b == m.bookingId
<1>1. b \in Bookings /\ m.eventId \in Events /\ m.quantity \in Quantities /\ m \in Outbox
  BY DEF IndInv, TypeOK, BookingTypeOK, Message, Outbox
<1>2. /\ eventInbox' = eventInbox \union {m.messageId}
      /\ UNCHANGED <<booking, bookingOutbox, bookingInbox>>
  BY DEF RecordInEventInbox, bookingVars
<1>3. PICK o \in Envelopes(topic, b, m.eventId, m.quantity, Ids(eventOutbox)) :
        eventOutbox' = eventOutbox \union {o}
  BY DEF EnqueueEvent
<1>4. o.bookingId = b /\ o.messageId \notin bookingInbox
  BY <1>1, EnvelopeFacts DEF Topics, IndInv, MessagesStored
<1> SUFFICES ASSUME NEW x \in Bookings PROVE NextStepStored(x)'
  BY DEF NothingForgotten
<1>5. Status(x)' = Status(x) /\ NextStepStored(x)
  BY <1>2 DEF Status, NothingForgotten
<1>6. CASE x = b
  BY <1>2, <1>3, <1>4, <1>5, <1>6 DEF NextStepStored, Announced
<1>7. CASE x # b
  <2>1. \A c \in bookingOutbox : c.messageId = m.messageId => c.bookingId = b
    BY <1>1 DEF IndInv, MessagesMatchBookings, Outbox
  <2> QED
    BY <1>2, <1>3, <1>5, <1>7, <2>1, NextStepKept
<1> QED
  BY <1>6, <1>7

LEMMA ReleaseForgetsNothing ==
  ASSUME IndInv, NothingForgotten, NEW m \in bookingOutbox, ReleaseSeats(m),
         UNCHANGED bookingVars
  PROVE  NothingForgotten'
<1>1. /\ eventInbox' = eventInbox \union {m.messageId} /\ m.topic = "BOOKING_CANCELLED"
      /\ UNCHANGED <<booking, bookingOutbox, bookingInbox, eventOutbox>>
  BY DEF ReleaseSeats, RecordInEventInbox, bookingVars
<1>2. \A c \in bookingOutbox : c.messageId = m.messageId => c.topic = "BOOKING_CANCELLED"
  BY <1>1 DEF IndInv, MessagesMatchBookings, Outbox
<1> QED
  BY <1>1, <1>2, NextStepKept DEF NothingForgotten, Status

\* Administration, relays, notifications and stuttering.
LEMMA OthersForgetNothing ==
  ASSUME NothingForgotten, UNCHANGED <<bookingVars, eventOutbox, eventInbox>>
  PROVE  NothingForgotten'
BY DEF NothingForgotten, NextStepStored, Announced, Status, bookingVars

LEMMA ForgetsNothing == IndInv /\ NothingForgotten /\ [Next]_vars => NothingForgotten'
<1> SUFFICES ASSUME IndInv, NothingForgotten, [Next]_vars PROVE NothingForgotten'
  OBVIOUS
<1>1. /\ broker \subseteq Outbox
      /\ \A m \in Outbox : /\ m.topic \in BookingTopics => m \in bookingOutbox
                           /\ m.topic \in EventTopics => m \in eventOutbox
  BY DEF IndInv, MessagesStored, TypeOK, BookingTypeOK, EventTypeOK, Outbox, BookingTopics,
    EventTopics
<1>2. CASE Requests
  BY <1>2, RequestForgetsNothing
<1>3. CASE Administration
  <2>1. UNCHANGED <<bookingVars, eventOutbox, eventInbox>>
    BY <1>3 DEF Administration, CreateEvent, UpdateEvent, DeleteEvent
  <2> QED
    BY <2>1, OthersForgetNothing
<1>4. ASSUME NEW m \in Outbox, Publish(m) \/ Abandon(m)
      PROVE  NothingForgotten'
  <2>1. UNCHANGED <<bookingVars, eventOutbox, eventInbox>>
    BY <1>4 DEF Publish, Abandon, eventVars
  <2> QED
    BY <2>1, OthersForgetNothing
<1>5. ASSUME NEW m \in broker, BookingConsumes(m)
      PROVE  NothingForgotten'
  <2>1. m \in eventOutbox /\ m.messageId \notin bookingInbox /\ UNCHANGED eventVars
    BY <1>1, <1>5 DEF BookingConsumes, ProcessSeatsReservedMessage,
      ProcessSeatReservationFailedMessage, ApplyOutcome, ProcessedByBooking, EventTopics
  <2>2. AwaitsConfirmation(m) /\ AwaitsFailure(m)
    BY <2>1, OutcomeFindsPending
  <2>3. \/ ApplyOutcome(m, TRUE, "CONFIRMED", "BOOKING_CONFIRMED")
        \/ ApplyOutcome(m, TRUE, "FAILED", "BOOKING_FAILED")
    BY <1>5, <2>2 DEF BookingConsumes, ProcessSeatsReservedMessage,
      ProcessSeatReservationFailedMessage, ApplyOutcome
  <2> QED
    BY <2>1, <2>3, OutcomeForgetsNothing
<1>6. ASSUME NEW m \in broker, EventConsumes(m)
      PROVE  NothingForgotten'
  <2>1. m \in bookingOutbox /\ UNCHANGED bookingVars
    BY <1>1, <1>6 DEF EventConsumes, ReserveSeats, RejectReservation, ReleaseSeats, BookingTopics
  <2>2. CASE ReserveSeats(m) \/ RejectReservation(m)
    BY <2>1, <2>2, DecisionForgetsNothing DEF ReserveSeats, RejectReservation, EventTopics
  <2>3. CASE ReleaseSeats(m)
    BY <2>1, <2>3, ReleaseForgetsNothing
  <2> QED
    BY <1>6, <2>2, <2>3 DEF EventConsumes
<1>7. ASSUME NEW m \in broker, NotificationConsumes(m)
      PROVE  NothingForgotten'
  <2>1. UNCHANGED <<bookingVars, eventOutbox, eventInbox>>
    BY <1>7 DEF NotificationConsumes, eventVars
  <2> QED
    BY <2>1, OthersForgetNothing
<1>8. CASE UNCHANGED vars
  <2>1. UNCHANGED <<bookingVars, eventOutbox, eventInbox>>
    BY <1>8 DEF vars, eventVars
  <2> QED
    BY <2>1, OthersForgetNothing
<1> QED
  BY <1>2, <1>3, <1>4, <1>5, <1>6, <1>7, <1>8 DEF Next

-----------------------------------------------------------------------------
(* The theorems.                                                           *)

\* The inductive invariant of the saga.
THEOREM Inductive == Spec => []IndInv
BY InductiveInit, InductiveStep, PTL DEF Spec

\* The seats an event has lost are exactly those of the bookings that hold some,
\* however messages are duplicated, delayed or reordered.
THEOREM Conservation == Spec => []SeatsConserved
<1>1. IndInv => SeatsConserved
  BY DEF IndInv
<1> QED
  BY <1>1, Inductive, PTL

\* The status a client reads agrees with the seats held for it in the other
\* service's database.
THEOREM Agreement == Spec => []StatusMatchesSeats
<1>1. IndInv => StatusMatchesSeats
  <2> SUFFICES ASSUME IndInv, NEW b \in Bookings
               PROVE  /\ Status(b) = "CONFIRMED" => Holds(b)
                      /\ Status(b) = "FAILED" =>
                           Decided(b, "SEAT_RESERVATION_FAILED") /\ ~Holds(b)
                      /\ Released(b) => Status(b) = "CANCELLED"
    BY DEF StatusMatchesSeats
  <2>1. Released(b) => Status(b) = "CANCELLED"
    BY DEF IndInv, AnnouncementsTrue, Released
  <2>2. Status(b) = "CONFIRMED" => Decided(b, "SEATS_RESERVED")
    BY DEF IndInv, StatusCaused, Decided
  <2>3. Status(b) = "FAILED" => Decided(b, "SEAT_RESERVATION_FAILED")
    BY DEF IndInv, StatusCaused, Decided
  <2>4. ~(Decided(b, "SEATS_RESERVED") /\ Decided(b, "SEAT_RESERVATION_FAILED"))
    BY DEF IndInv, DecidedOnce, Decided
  <2> QED
    BY <2>1, <2>2, <2>3, <2>4 DEF Holds
<1> QED
  BY <1>1, Inductive, PTL

\* No step of a saga is announced under two message ids, and no contradictory
\* steps are announced at all.
THEOREM Uniqueness == Spec => []OneMessagePerStep
<1>1. IndInv => OneMessagePerStep
  <2> SUFFICES ASSUME IndInv, NEW m1 \in Outbox, NEW m2 \in Outbox, m1.bookingId = m2.bookingId
               PROVE  /\ m1.topic = m2.topic => m1 = m2
                      /\ {m1.topic, m2.topic} \notin
                           {EventTopics, {"BOOKING_CONFIRMED", "BOOKING_FAILED"},
                            {"BOOKING_CANCELLED", "BOOKING_FAILED"}}
    BY DEF OneMessagePerStep
  <2>1. /\ m1 \in bookingOutbox => m1.topic \in BookingTopics
        /\ m2 \in bookingOutbox => m2.topic \in BookingTopics
        /\ m1 \in eventOutbox => m1.topic \in EventTopics
        /\ m2 \in eventOutbox => m2.topic \in EventTopics
        /\ m1 \in bookingOutbox \/ m1 \in eventOutbox
        /\ m2 \in bookingOutbox \/ m2 \in eventOutbox
    BY DEF IndInv, TypeOK, BookingTypeOK, EventTypeOK, Outbox
  <2>2. m1 \in eventOutbox /\ m2 \in eventOutbox => m1 = m2
    BY DEF IndInv, DecidedOnce
  <2>3. m1 \in bookingOutbox /\ m2 \in bookingOutbox /\ m1.topic = m2.topic => m1 = m2
    BY DEF IndInv, DecidedOnce
  <2>4. m1.topic = m2.topic => m1 = m2
    BY <2>1, <2>2, <2>3 DEF BookingTopics, EventTopics
  <2>5. ~(m1.topic \in EventTopics /\ m2.topic \in EventTopics /\ m1.topic # m2.topic)
    BY <2>1, <2>2 DEF BookingTopics, EventTopics
  <2>6. /\ ~(m1.topic \in {"BOOKING_CONFIRMED", "BOOKING_CANCELLED"} /\ m2.topic = "BOOKING_FAILED")
        /\ ~(m2.topic \in {"BOOKING_CONFIRMED", "BOOKING_CANCELLED"} /\ m1.topic = "BOOKING_FAILED")
    BY <2>1 DEF IndInv, AnnouncementsTrue, EventTopics
  <2> QED
    BY <2>4, <2>5, <2>6 DEF EventTopics
<1> QED
  BY <1>1, Inductive, PTL

\* No outcome that reaches the booking service is thrown away.
THEOREM NoOutcomeLost == Spec => []OutcomeApplied
<1>1. IndInv => OutcomeApplied
  BY DEF IndInv
<1> QED
  BY <1>1, Inductive, PTL

\* No saga is cut: what a booking still waits for is stored and unprocessed, and
\* what happened to it is announced.
THEOREM SagasResumable == Spec => []NothingForgotten
<1>1. Init => NothingForgotten
  BY DEF Init, BookingInit, NothingForgotten, NextStepStored, Status, NoBooking
<1> QED
  BY <1>1, Inductive, ForgetsNothing, PTL DEF Spec

\* When every message has been through its consumers the services agree.
THEOREM EventualAgreement == Spec => []QuietMeansAgreed
<1>1. IndInv /\ NothingForgotten => QuietMeansAgreed
  <2> SUFFICES ASSUME IndInv, NothingForgotten, Quiet, NEW b \in Bookings
               PROVE  /\ Status(b) # "PENDING"
                      /\ Holds(b) <=> Status(b) = "CONFIRMED"
                      /\ \A t \in NotifiedTopics :
                           notifications[b][t] = IF t \in OutcomesOf(Status(b)) THEN 1 ELSE 0
    BY DEF QuietMeansAgreed
  <2>1. NextStepStored(b)
    BY DEF NothingForgotten
  <2>2. Status(b) # "PENDING"
    BY <2>1 DEF NextStepStored, Quiet, Ids
  <2>3. Status(b) = "CONFIRMED" => Holds(b)
    <3>1. Status(b) = "CONFIRMED" => Decided(b, "SEATS_RESERVED")
      BY DEF IndInv, StatusCaused, Decided
    <3>2. Released(b) => Status(b) = "CANCELLED"
      BY DEF IndInv, AnnouncementsTrue, Released
    <3> QED
      BY <3>1, <3>2 DEF Holds
  <2>4. Holds(b) => Status(b) = "CONFIRMED"
    <3>1. Decided(b, "SEATS_RESERVED") => Status(b) \in {"CONFIRMED", "CANCELLED"}
      BY DEF Decided, Quiet, Ids, IndInv, OutcomeApplied
    <3>2. Status(b) = "CANCELLED" => Released(b)
      BY <2>1 DEF NextStepStored, Announced, Quiet, Released
    <3> QED
      BY <3>1, <3>2 DEF Holds
  <2>5. ASSUME NEW t \in NotifiedTopics
        PROVE  notifications[b][t] = IF t \in OutcomesOf(Status(b)) THEN 1 ELSE 0
    <3>1. t \in OutcomesOf(Status(b)) => Announced(b, t)
      BY <2>1 DEF OutcomesOf, NextStepStored
    <3>2. Announced(b, t) => t \in OutcomesOf(Status(b))
      BY DEF Announced, OutcomesOf, IndInv, AnnouncementsTrue, NotifiedTopics
    <3>3. Announced(b, t) <=>
            \E m \in bookingOutbox :
              m.topic = t /\ m.bookingId = b /\ m.messageId \in notificationInbox
      BY DEF Announced, Quiet
    <3> QED
      BY <3>1, <3>2, <3>3 DEF IndInv, NotificationsCounted
  <2> QED
    BY <2>2, <2>3, <2>4, <2>5
<1> QED
  BY <1>1, Inductive, SagasResumable, PTL

\* Users are told of each outcome at most once, and only of true ones.
THEOREM Truthfulness == Spec => []NotificationsTruthful
<1>1. IndInv => NotificationsTruthful
  <2> SUFFICES ASSUME IndInv, NEW b \in Bookings
               PROVE  /\ \A t \in NotifiedTopics : notifications[b][t] <= 1
                      /\ notifications[b]["BOOKING_CONFIRMED"] > 0 =>
                           Status(b) \in {"CONFIRMED", "CANCELLED"}
                      /\ notifications[b]["BOOKING_FAILED"] > 0 => Status(b) = "FAILED"
                      /\ notifications[b]["BOOKING_CANCELLED"] > 0 => Status(b) = "CANCELLED"
    BY DEF NotificationsTruthful
  <2>1. \A t \in NotifiedTopics : notifications[b][t] \in {0, 1}
    BY DEF IndInv, NotificationsCounted
  <2>2. \A t \in NotifiedTopics : notifications[b][t] > 0 =>
          \E m \in bookingOutbox : m.topic = t /\ m.bookingId = b
    BY DEF IndInv, NotificationsCounted
  <2> QED
    BY <2>1, <2>2 DEF NotifiedTopics, IndInv, AnnouncementsTrue
<1> QED
  BY <1>1, Inductive, PTL

=============================================================================
