------------------------------ MODULE Messages ------------------------------
(***************************************************************************)
(* The messages the three services exchange over Kafka, as declared in     *)
(* packages/contracts/src/index.ts: six topics, one envelope.  A payload   *)
(* keeps the fields the handlers decide on (booking, event, quantity); the *)
(* correlation id is the booking id, and the user, the timestamp and the   *)
(* failure reason, which no handler decides on, are left out.  The failure *)
(* messages have no quantity either: here they carry the one requested,    *)
(* and nothing reads it.                                                   *)
(***************************************************************************)
EXTENDS Naturals, FiniteSets

CONSTANTS
  Bookings,     \* ids a booking may get (bookings.id is a random UUID)
  Events,       \* ids an event may get
  NoEvent,      \* no event's id
  MaxQuantity,  \* bound: the largest number of seats one request asks for
  Nonces        \* bound: the random part of a message id, some naturals

\* Quantities are positive: booking.schema.ts and the payload schemas of the
\* contracts reject any other request or message before a handler sees it.
ASSUME MessagesAssumption ==
  /\ IsFiniteSet(Bookings)
  /\ NoEvent \notin Events
  /\ MaxQuantity \in Nat \ {0}
  /\ Nonces \subseteq Nat

Quantities == 1..MaxQuantity

BookingTopics == {"RESERVE_SEATS", "BOOKING_CONFIRMED", "BOOKING_FAILED", "BOOKING_CANCELLED"}
EventTopics == {"SEATS_RESERVED", "SEAT_RESERVATION_FAILED"}
Topics == BookingTopics \union EventTopics

\* randomUUID(): what makes an id fresh is its nonce.  Carrying the topic and
\* the booking only keeps the ids of different messages apart in a way that
\* does not depend on the order they were drawn in.
MessageIds == Topics \X Bookings \X Nonces

Message == [topic : Topics, messageId : MessageIds, bookingId : Bookings,
            eventId : Events, quantity : Quantities]

\* The envelopes a sender may build for booking b, given the ids already in
\* use: one, with the least nonce that is still free.
Envelopes(topic, b, e, q, used) ==
  { [topic |-> topic, messageId |-> <<topic, b, n>>, bookingId |-> b,
     eventId |-> e, quantity |-> q] :
      n \in { k \in Nonces : /\ <<topic, b, k>> \notin used
                             /\ \A j \in Nonces : j < k => <<topic, b, j>> \in used } }

Ids(messages) == { m.messageId : m \in messages }

=============================================================================
