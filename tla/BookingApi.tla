----------------------------- MODULE BookingApi -----------------------------
(***************************************************************************)
(* POST /bookings of the booking service: the look-up of the idempotency   *)
(* key, the transaction that stores booking and key, the answer to a       *)
(* request that lost the race for its key, and the dispatch before the     *)
(* response.                                                               *)
(*                                                                         *)
(* A client repeats its request until it has an answer.  It may give up    *)
(* waiting while the service still works, so several of its requests can   *)
(* be in progress at once, on any replica.  Every statement may fail or    *)
(* succeed without its answer, the process may stop between two            *)
(* statements, and a response may get lost.                                *)
(***************************************************************************)
EXTENDS Naturals

CONSTANTS
  Clients,
  Keys,       \* values of the header Idempotency-Key
  NoKey,      \* the header is missing
  EmptyKey,   \* the header has no value
  Payloads,   \* fingerprints of user, event and quantity
  MaxTries,   \* requests a client sends before it gives up: bounds the runs
  NoBooking,  \* a key that no booking has; a client without an answer
  Refused,    \* 409 IDEMPOTENCY_KEY_REUSED
  NoClient

ASSUME BookingApiAssumption ==
  /\ NoKey \notin Keys
  /\ EmptyKey \notin Keys
  /\ NoKey # EmptyKey
  /\ MaxTries \in Nat \ {0}
  /\ NoBooking # Refused
  /\ {NoBooking, Refused} \intersect (Clients \X (1..MaxTries)) = {}
  /\ NoClient \notin Clients

VARIABLES
  key,       \* what each client sends as key
  payload,   \* and as fingerprint
  tries,     \* how many requests a client has sent
  answer,    \* the answer a client got: a booking, or that its key is in use
  pc,        \* where the handler of a request is
  bookings,  \* the committed bookings, each named after the request that made it
  record     \* booking_idempotency_keys: the booking of a key

vars == <<key, payload, tries, answer, pc, bookings, record>>

\* The n-th request of a client.
Requests == Clients \X (1..MaxTries)

Client(q) == q[1]
Key(q) == key[Client(q)]
Fingerprint(q) == payload[Client(q)]

TypeOK ==
  /\ key \in [Clients -> Keys \union {NoKey, EmptyKey}]
  /\ payload \in [Clients -> Payloads]
  /\ tries \in [Clients -> 0..MaxTries]
  /\ answer \in [Clients -> Requests \union {NoBooking, Refused}]
  /\ pc \in [Requests -> {"unsent", "lookup", "insert", "collided", "dispatch", "done", "rethrown"}]
  /\ bookings \subseteq Requests
  /\ record \in [Keys -> Requests \union {NoBooking}]

Init ==
  /\ key \in [Clients -> Keys \union {NoKey, EmptyKey}]
  /\ payload \in [Clients -> Payloads]
  /\ tries = [c \in Clients |-> 0]
  /\ answer = [c \in Clients |-> NoBooking]
  /\ pc = [q \in Requests |-> "unsent"]
  /\ bookings = {}
  /\ record = [k \in Keys |-> NoBooking]

-----------------------------------------------------------------------------
(* The client.                                                             *)

\* A client without an answer sends its request, again if it has sent it before.
Send(c) ==
  /\ answer[c] = NoBooking
  /\ tries[c] < MaxTries
  /\ tries' = [tries EXCEPT ![c] = @ + 1]
  /\ pc' = [pc EXCEPT ![<<c, tries[c] + 1>>] = IF key[c] \in Keys THEN "lookup" ELSE "insert"]
  /\ UNCHANGED <<key, payload, answer, bookings, record>>

\* The response to a request: it reaches a client that is still waiting for it, or
\* it does not.
Respond(q, a) ==
  /\ pc' = [pc EXCEPT ![q] = "done"]
  /\ \/ q[2] = tries[Client(q)] /\ answer' = [answer EXCEPT ![Client(q)] = a]
     \/ UNCHANGED answer

-----------------------------------------------------------------------------
(* The service.                                                            *)

Goto(q, statement) == pc' = [pc EXCEPT ![q] = statement] /\ UNCHANGED answer

\* A statement throws, and the client is told of an internal error, or the process
\* stops before the request has a response.
Fails(q) == Goto(q, "done")

\* A schema without the unique indexes of the key.
KeyNeverTaken(q) == FALSE

\* The unique index of bookings.idempotency_key: null values do not collide.
KeyTaken(q) == Key(q) # NoKey /\ \E b \in bookings : Key(b) = Key(q)

\* A service that does not compare fingerprints.
AnyPayload(q, b) == TRUE

\* What a request with a used key is answered with.
SamePayload(q, b) == Fingerprint(b) = Fingerprint(q)

\* createBooking, findIdempotencyRecord: the key is known, with this payload or with
\* another one, or it is not.
Lookup(q) ==
  /\ pc[q] = "lookup"
  /\ LET found == record[Key(q)] IN
       \/ found = NoBooking /\ Goto(q, "insert")
       \/ found # NoBooking /\ Respond(q, IF SamePayload(q, found) THEN found ELSE Refused)
       \/ Fails(q)
  /\ UNCHANGED <<key, payload, tries, bookings, record>>

\* The catch block of a handler that knows the key under which it failed.
Catch(q) == IF Key(q) \in Keys THEN "collided" ELSE "rethrown"

\* A transaction that stores the key in a statement of its own.
InsertWithoutKey(q) ==
  /\ pc[q] = "insert"
  /\ ~KeyTaken(q)
  /\ bookings' = bookings \union {q}
  /\ Goto(q, "dispatch")
  /\ UNCHANGED <<key, payload, tries, record>>

\* createBookingWithOutbox: booking, key and outbox row are committed together, or
\* none of them.  The commit may go through although its answer is lost.
Insert(q) ==
  /\ pc[q] = "insert"
  /\ \/ /\ ~KeyTaken(q)
        /\ bookings' = bookings \union {q}
        /\ record' = [k \in Keys |-> IF k = Key(q) THEN q ELSE record[k]]
        /\ Goto(q, "dispatch") \/ Fails(q)
     \/ KeyTaken(q) /\ Goto(q, Catch(q)) /\ UNCHANGED <<bookings, record>>
     \/ Fails(q) /\ UNCHANGED <<bookings, record>>
  /\ UNCHANGED <<key, payload, tries>>

\* Its catch block, for a request that lost the race for its key.  The winner's key
\* is committed with its booking, so findByIdempotencyKey is never needed.
AnswerCollision(q) ==
  /\ pc[q] = "collided"
  /\ LET found == record[Key(q)] IN
       \/ SamePayload(q, found) /\ Goto(q, "dispatch")
       \/ ~SamePayload(q, found) /\ Respond(q, Refused)
       \/ Fails(q)
  /\ UNCHANGED <<key, payload, tries, bookings, record>>

\* A service that answers with the booking it wanted to create.
OwnResult(q) == q

\* The booking that createBookingWithOutbox has returned.
Result(q) == IF Key(q) \in Keys THEN record[Key(q)] ELSE q

\* dispatchPending, then the response.  A claim that fails makes an error of a
\* request whose booking exists.
Dispatch(q) ==
  /\ pc[q] = "dispatch"
  /\ Respond(q, Result(q)) \/ Fails(q)
  /\ UNCHANGED <<key, payload, tries, bookings, record>>

Next ==
  \/ \E c \in Clients : Send(c)
  \/ \E q \in Requests : Lookup(q) \/ Insert(q) \/ AnswerCollision(q) \/ Dispatch(q)

Spec == Init /\ [][Next]_vars

-----------------------------------------------------------------------------
(* Properties.                                                             *)

\* However often a request is repeated, and whoever else uses its key at the same
\* moment, at most one booking is made under a key, an empty one included.
OneBookingPerKey ==
  \A a, b \in bookings : Key(a) = Key(b) /\ Key(a) # NoKey => a = b

\* A client that was told of a booking finds it: it exists, was made under the
\* client's key (by the client itself if it sent none that is kept), for the client's
\* payload.  A client that was refused had its key used for another payload.
AnswersTrue ==
  \A c \in Clients :
    /\ answer[c] \in Requests =>
         /\ answer[c] \in bookings
         /\ Key(answer[c]) = key[c]
         /\ Fingerprint(answer[c]) = payload[c]
         /\ key[c] \notin Keys => Client(answer[c]) = c
    /\ answer[c] = Refused =>
         \E b \in bookings : Key(b) = key[c] /\ Fingerprint(b) # payload[c]

\* The key table and the bookings tell the same story.
RecordsMatchBookings ==
  /\ \A k \in Keys : record[k] # NoBooking => record[k] \in bookings /\ Key(record[k]) = k
  /\ \A b \in bookings : Key(b) \in Keys => record[Key(b)] = b
  /\ \A a, b \in bookings : Key(a) = EmptyKey /\ Key(b) = EmptyKey => a = b

\* What a handler may rely on before each of its statements.
HandlersInform ==
  \A q \in Requests :
    /\ q[2] > tries[Client(q)] <=> pc[q] = "unsent"
    /\ pc[q] \in {"unsent", "lookup", "insert", "collided"} => q \notin bookings
    /\ pc[q] \in {"lookup", "collided"} => Key(q) \in Keys
    /\ pc[q] = "collided" => record[Key(q)] # NoBooking
    /\ pc[q] = "dispatch" => Result(q) \in bookings /\ Key(Result(q)) = Key(q)
                              /\ SamePayload(q, Result(q))

\* The inductive invariant: it holds initially, every step of every interleaving keeps
\* it, and the two properties above follow from it.  It says that booking and key are
\* never apart, wherever a handler stops.
IndInv ==
  /\ TypeOK
  /\ RecordsMatchBookings
  /\ HandlersInform
  /\ AnswersTrue

\* The owner of a key is the client whose request made its booking.
OwnerMap == [k \in Keys |-> IF record[k] = NoBooking THEN NoClient ELSE Client(record[k])]

ReplyMap ==
  [c \in Clients |-> IF key[c] \notin Keys \/ answer[c] = NoBooking THEN "none"
                     ELSE IF answer[c] = Refused THEN "conflict" ELSE "booking"]

Promise == INSTANCE KeyedBooking WITH owner <- OwnerMap, reply <- ReplyMap

\* The clients with a key see what KeyedBooking says: one client settles the booking
\* of a key for good, and every answer follows from that booking's payload.
ImplementsKeyedBooking == Promise!Spec

\* What README.md says of a key that is used again: it is answered with the original
\* booking or with a conflict, never with an internal error about the key itself.
RepeatsAreAnswered == \A q \in Requests : pc[q] # "rethrown"

=============================================================================
