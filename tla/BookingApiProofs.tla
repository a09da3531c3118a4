-------------------------- MODULE BookingApiProofs --------------------------
(***************************************************************************)
(* The idempotency keys keep their promise for any number of clients,      *)
(* keys, payloads and repetitions: the inductive invariant of BookingApi,  *)
(* what follows from it, and the refinement of KeyedBooking.               *)
(***************************************************************************)
EXTENDS BookingApi, TLAPS

\* Requests are pairs, and neither answer without a booking is one.
LEMMA RequestFacts ==
  /\ NoBooking \notin Requests /\ Refused \notin Requests
  /\ NoKey \notin Keys /\ EmptyKey \notin Keys /\ NoKey # EmptyKey
  /\ NoBooking # Refused /\ NoClient \notin Clients
  /\ \A q \in Requests : Client(q) \in Clients /\ q[2] \in 1..MaxTries
  /\ \A c \in Clients, n \in 1..MaxTries :
       <<c, n>> \in Requests /\ Client(<<c, n>>) = c /\ <<c, n>>[2] = n
  /\ \A a, b \in Requests : Client(a) = Client(b) /\ a[2] = b[2] => a = b
BY BookingApiAssumption DEF Requests, Client

LEMMA InitIndInv == Init => IndInv
<1> SUFFICES ASSUME Init PROVE IndInv
  OBVIOUS
<1>1. TypeOK
  BY BookingApiAssumption DEF Init, TypeOK
<1>2. RecordsMatchBookings /\ AnswersTrue
  BY RequestFacts DEF Init, RecordsMatchBookings, AnswersTrue
<1>3. HandlersInform
  BY RequestFacts DEF Init, HandlersInform
<1> QED
  BY <1>1, <1>2, <1>3 DEF IndInv

-----------------------------------------------------------------------------
(* Steps.                                                                  *)

\* A new request starts where its key sends it.
LEMMA SendStep ==
  ASSUME IndInv, NEW c \in Clients, Send(c)
  PROVE  IndInv'
<1>1. tries[c] + 1 \in 1..MaxTries
  BY BookingApiAssumption DEF IndInv, TypeOK, Send
<1>2. PICK q \in Requests : q = <<c, tries[c] + 1>>
  BY <1>1, RequestFacts
<1>3. /\ pc' = [pc EXCEPT ![q] = IF key[c] \in Keys THEN "lookup" ELSE "insert"]
      /\ Client(q) = c /\ q[2] = tries[c] + 1
  BY <1>1, <1>2, RequestFacts DEF Send
<1>4. TypeOK'
  BY <1>1, <1>2, <1>3, BookingApiAssumption DEF IndInv, TypeOK, Send
<1>5. RecordsMatchBookings'
  BY DEF IndInv, RecordsMatchBookings, Send, Key
<1>6. pc[q] = "unsent" /\ q \notin bookings
  BY <1>3, <1>2, RequestFacts, BookingApiAssumption DEF IndInv, HandlersInform, TypeOK
<1>7. HandlersInform'
  <2> SUFFICES ASSUME NEW r \in Requests
               PROVE  /\ r[2] > tries'[Client(r)] <=> pc'[r] = "unsent"
                      /\ pc'[r] \in {"unsent", "lookup", "insert", "collided"} => r \notin bookings'
                      /\ pc'[r] \in {"lookup", "collided"} => Key(r)' \in Keys
                      /\ pc'[r] = "collided" => record'[Key(r)'] # NoBooking
                      /\ pc'[r] = "dispatch" => Result(r)' \in bookings' /\ Key(Result(r))' = Key(r)'
                                                /\ SamePayload(r, Result(r))'
    BY DEF HandlersInform, Key, Result, SamePayload, Fingerprint, Client
  <2>1. CASE r = q
    BY <1>3, <1>6, <2>1, RequestFacts DEF IndInv, TypeOK, Send, Key
  <2>2. CASE r # q
    <3>1. pc'[r] = pc[r]
      BY <1>3, <2>2 DEF IndInv, TypeOK
    <3>2. r[2] > tries'[Client(r)] <=> r[2] > tries[Client(r)]
      <4>1. CASE Client(r) = c
        <5>1. r[2] # tries[c] + 1
          BY <1>3, <2>2, <4>1, RequestFacts
        <5>2. tries'[c] = tries[c] + 1 /\ tries[c] \in Nat /\ r[2] \in Nat
          BY RequestFacts, BookingApiAssumption DEF Send, IndInv, TypeOK
        <5> QED
          BY <4>1, <5>1, <5>2
      <4>2. CASE Client(r) # c
        BY <4>2, RequestFacts DEF Send, IndInv, TypeOK
      <4> QED
        BY <4>1, <4>2
    <3> QED
      BY <3>1, <3>2 DEF IndInv, HandlersInform, Send, Key, Result, SamePayload, Fingerprint
  <2> QED
    BY <2>1, <2>2
<1>8. AnswersTrue'
  BY DEF IndInv, AnswersTrue, Send, Key, Fingerprint
<1> QED
  BY <1>4, <1>5, <1>7, <1>8 DEF IndInv

\* A response only closes its request, and tells a client of a booking that serves it
\* or refuses it for good reason.
Serves(q, b) ==
  /\ b \in bookings
  /\ Key(b) = Key(q)
  /\ SamePayload(q, b)
  /\ Key(q) \notin Keys => Client(b) = Client(q)

LEMMA RespondTrue ==
  ASSUME IndInv, NEW q \in Requests, pc[q] # "unsent",
         NEW a \in Requests \union {Refused}, Respond(q, a),
         a \in Requests => Serves(q, a),
         a = Refused => \E b \in bookings : Key(b) = Key(q) /\ Fingerprint(b) # Fingerprint(q),
         UNCHANGED <<key, payload, tries, bookings, record>>
  PROVE  IndInv'
<1>1. TypeOK'
  BY RequestFacts DEF IndInv, TypeOK, Respond
<1>2. RecordsMatchBookings'
  BY DEF IndInv, RecordsMatchBookings, Key
<1>3. HandlersInform'
  BY RequestFacts DEF IndInv, TypeOK, HandlersInform, Respond, Key, Result, SamePayload, Fingerprint
<1>4. AnswersTrue'
  <2>1. CASE UNCHANGED answer
    BY <2>1 DEF IndInv, AnswersTrue, Key, Fingerprint
  <2>2. CASE answer' = [answer EXCEPT ![Client(q)] = a]
    BY <2>2, RequestFacts
    DEF IndInv, TypeOK, AnswersTrue, Serves, SamePayload, Key, Fingerprint
  <2> QED
    BY <2>1, <2>2 DEF Respond
<1> QED
  BY <1>1, <1>2, <1>3, <1>4 DEF IndInv

\* A step that only moves the handler of a request on, to a statement whose
\* preconditions hold.
LEMMA GotoStep ==
  ASSUME IndInv, NEW q \in Requests, pc[q] # "unsent",
         NEW s \in {"insert", "collided", "dispatch", "done", "rethrown"}, Goto(q, s),
         s \in {"insert", "collided"} => q \notin bookings,
         s = "collided" => Key(q) \in Keys /\ record[Key(q)] # NoBooking,
         s = "dispatch" => Result(q) \in bookings /\ Key(Result(q)) = Key(q)
                           /\ SamePayload(q, Result(q)),
         UNCHANGED <<key, payload, tries, bookings, record>>
  PROVE  IndInv'
<1>1. TypeOK'
  BY DEF IndInv, TypeOK, Goto
<1>2. RecordsMatchBookings' /\ AnswersTrue'
  BY DEF IndInv, RecordsMatchBookings, AnswersTrue, Key, Fingerprint, Goto
<1>3. HandlersInform'
  <2> SUFFICES ASSUME NEW r \in Requests
               PROVE  /\ r[2] > tries'[Client(r)] <=> pc'[r] = "unsent"
                      /\ pc'[r] \in {"unsent", "lookup", "insert", "collided"} => r \notin bookings'
                      /\ pc'[r] \in {"lookup", "collided"} => Key(r)' \in Keys
                      /\ pc'[r] = "collided" => record'[Key(r)'] # NoBooking
                      /\ pc'[r] = "dispatch" => Result(r)' \in bookings' /\ Key(Result(r))' = Key(r)'
                                                /\ SamePayload(r, Result(r))'
    BY DEF HandlersInform, Key, Result, SamePayload, Fingerprint, Client
  <2>1. pc'[r] = IF r = q THEN s ELSE pc[r]
    BY DEF Goto, IndInv, TypeOK
  <2> QED
    BY <2>1 DEF IndInv, HandlersInform, Key, Result, SamePayload, Fingerprint
<1> QED
  BY <1>1, <1>2, <1>3 DEF IndInv


\* The look-up answers from a booking under the request's own key.
LEMMA LookupStep ==
  ASSUME IndInv, NEW q \in Requests, Lookup(q)
  PROVE  IndInv'
<1>1. pc[q] = "lookup" /\ Key(q) \in Keys /\ q \notin bookings
  BY DEF Lookup, IndInv, HandlersInform
<1>2. CASE Goto(q, "insert") \/ Fails(q)
  BY <1>1, <1>2, GotoStep DEF Lookup, Fails
<1>3. ASSUME record[Key(q)] # NoBooking,
             Respond(q, IF SamePayload(q, record[Key(q)]) THEN record[Key(q)] ELSE Refused)
      PROVE  IndInv'
  <2>1. /\ record[Key(q)] \in bookings /\ record[Key(q)] \in Requests
        /\ Key(record[Key(q)]) = Key(q)
    BY <1>1, <1>3 DEF IndInv, TypeOK, RecordsMatchBookings
  <2>2. UNCHANGED <<key, payload, tries, bookings, record>>
    BY DEF Lookup
  <2>3. CASE SamePayload(q, record[Key(q)])
    BY <1>1, <1>3, <2>1, <2>2, <2>3, RespondTrue, RequestFacts DEF Serves
  <2>4. CASE ~SamePayload(q, record[Key(q)])
    BY <1>1, <1>3, <2>1, <2>2, <2>4, RespondTrue, RequestFacts DEF SamePayload
  <2> QED
    BY <2>3, <2>4
<1> QED
  BY <1>2, <1>3 DEF Lookup

\* A booking committed with its key.
LEMMA InsertStep ==
  ASSUME IndInv, NEW q \in Requests, Insert(q)
  PROVE  IndInv'
<1>1. pc[q] = "insert" /\ q \notin bookings
  BY DEF Insert, IndInv, HandlersInform
<1>2. ASSUME ~KeyTaken(q),
             bookings' = bookings \union {q},
             record' = [k \in Keys |-> IF k = Key(q) THEN q ELSE record[k]],
             NEW s \in {"dispatch", "done"}, Goto(q, s)
      PROVE  IndInv'
  <2> UNCHANGED <<key, payload, tries, answer>>
    BY <1>2 DEF Insert, Goto
  <2>1. \A b \in bookings : b \in Requests /\ (Key(b) = Key(q) => Key(q) = NoKey)
    BY <1>2 DEF KeyTaken, IndInv, TypeOK
  <2>2. \A r \in Requests : Key(r)' = Key(r)
    BY DEF Key
  <2>3. Key(q) \in Keys => record[Key(q)] = NoBooking
    BY <2>1, RequestFacts DEF IndInv, RecordsMatchBookings
  <2>4. TypeOK'
    BY <1>2, RequestFacts DEF IndInv, TypeOK, Goto
  <2>5. RecordsMatchBookings'
    <3>1. \A k \in Keys : record'[k] # NoBooking
                            => record'[k] \in bookings' /\ key'[Client(record'[k])] = k
      BY <1>2 DEF IndInv, RecordsMatchBookings, Key
    <3>2. \A b \in bookings' : Key(b)' \in Keys => record'[Key(b)'] = b
      BY <1>2, <2>1, <2>2, RequestFacts DEF IndInv, RecordsMatchBookings
    <3>3. \A a, b \in bookings' : Key(a)' = EmptyKey /\ Key(b)' = EmptyKey => a = b
      BY <1>2, <2>1, <2>2, RequestFacts DEF IndInv, RecordsMatchBookings
    <3> QED
      BY <3>1, <3>2, <3>3 DEF RecordsMatchBookings, Key, Client
  <2>6. HandlersInform'
    <3> SUFFICES ASSUME NEW r \in Requests
                 PROVE  /\ r[2] > tries'[Client(r)] <=> pc'[r] = "unsent"
                        /\ pc'[r] \in {"unsent", "lookup", "insert", "collided"} => r \notin bookings'
                        /\ pc'[r] \in {"lookup", "collided"} => Key(r)' \in Keys
                        /\ pc'[r] = "collided" => record'[Key(r)'] # NoBooking
                        /\ pc'[r] = "dispatch" => Result(r)' \in bookings' /\ Key(Result(r))' = Key(r)'
                                                  /\ SamePayload(r, Result(r))'
      BY DEF HandlersInform, Key, Result, SamePayload, Fingerprint, Client
    <3>1. CASE r = q
      BY <1>1, <1>2, <2>2, <3>1
      DEF IndInv, TypeOK, HandlersInform, Goto, Key, Result, SamePayload, Fingerprint
    <3>2. CASE r # q
      <4>1. pc'[r] = pc[r] /\ (r \in bookings' <=> r \in bookings)
        BY <1>2, <3>2 DEF Goto, IndInv, TypeOK
      <4>2. pc[r] \in {"collided", "dispatch"} /\ Key(r) \in Keys
              => record[Key(r)] # NoBooking /\ Key(r) # Key(q)
        BY <2>1, <2>3, RequestFacts
        DEF IndInv, TypeOK, HandlersInform, RecordsMatchBookings, Result
      <4>3. pc[r] \in {"collided", "dispatch"} /\ Key(r) \in Keys
              => record'[Key(r)] = record[Key(r)]
        BY <1>2, <4>2
      <4>4. r[2] > tries'[Client(r)] <=> pc'[r] = "unsent"
        BY <4>1 DEF IndInv, HandlersInform
      <4>5. pc[r] = "dispatch" => Result(r)' = Result(r)
        BY <4>3, <2>2 DEF Result
      <4> QED
        BY <1>2, <2>2, <4>1, <4>2, <4>3, <4>4, <4>5
        DEF IndInv, HandlersInform, Key, SamePayload, Fingerprint
    <3> QED
      BY <3>1, <3>2
  <2>7. AnswersTrue'
    BY <1>2 DEF IndInv, AnswersTrue, Key, Fingerprint
  <2> QED
    BY <2>4, <2>5, <2>6, <2>7 DEF IndInv
<1>3. ASSUME KeyTaken(q), Goto(q, Catch(q)), UNCHANGED <<bookings, record>>
      PROVE  IndInv'
  <2>1. Key(q) \in Keys => record[Key(q)] # NoBooking
    BY <1>3, RequestFacts DEF KeyTaken, IndInv, TypeOK, RecordsMatchBookings
  <2>2. UNCHANGED <<key, payload, tries, bookings, record>>
    BY <1>3 DEF Insert
  <2> QED
    BY <1>1, <1>3, <2>1, <2>2, GotoStep DEF Catch
<1>4. ASSUME Fails(q), UNCHANGED <<bookings, record>>
      PROVE  IndInv'
  BY <1>1, <1>4, GotoStep DEF Insert, Fails
<1> QED
  BY <1>2, <1>3, <1>4 DEF Insert, Fails

LEMMA AnswerCollisionStep ==
  ASSUME IndInv, NEW q \in Requests, AnswerCollision(q)
  PROVE  IndInv'
<1>1. /\ pc[q] = "collided" /\ Key(q) \in Keys
      /\ record[Key(q)] \in bookings /\ Key(record[Key(q)]) = Key(q)
  BY DEF AnswerCollision, IndInv, HandlersInform, RecordsMatchBookings
<1>2. UNCHANGED <<key, payload, tries, bookings, record>>
  BY DEF AnswerCollision
<1>3. CASE SamePayload(q, record[Key(q)]) /\ Goto(q, "dispatch")
  BY <1>1, <1>2, <1>3, GotoStep DEF Result
<1>4. CASE ~SamePayload(q, record[Key(q)]) /\ Respond(q, Refused)
  BY <1>1, <1>2, <1>4, RespondTrue, RequestFacts DEF SamePayload
<1>5. CASE Fails(q)
  BY <1>1, <1>2, <1>5, GotoStep DEF Fails
<1> QED
  BY <1>3, <1>4, <1>5 DEF AnswerCollision

LEMMA DispatchStep ==
  ASSUME IndInv, NEW q \in Requests, Dispatch(q)
  PROVE  IndInv'
<1>1. /\ pc[q] = "dispatch"
      /\ Result(q) \in bookings /\ Result(q) \in Requests
      /\ Key(Result(q)) = Key(q) /\ SamePayload(q, Result(q))
      /\ Key(q) \notin Keys => Result(q) = q
  BY DEF Dispatch, IndInv, TypeOK, HandlersInform, Result
<1>2. UNCHANGED <<key, payload, tries, bookings, record>>
  BY DEF Dispatch
<1>3. CASE Respond(q, Result(q))
  BY <1>1, <1>2, <1>3, RespondTrue, RequestFacts DEF Serves
<1>4. CASE Fails(q)
  BY <1>1, <1>2, <1>4, GotoStep DEF Fails
<1> QED
  BY <1>3, <1>4 DEF Dispatch

LEMMA NextIndInv == IndInv /\ [Next]_vars => IndInv'
<1> SUFFICES ASSUME IndInv, [Next]_vars PROVE IndInv'
  OBVIOUS
<1>1. ASSUME NEW c \in Clients, Send(c) PROVE IndInv'
  BY <1>1, SendStep
<1>2. ASSUME NEW q \in Requests, Lookup(q) PROVE IndInv'
  BY <1>2, LookupStep
<1>3. ASSUME NEW q \in Requests, Insert(q) PROVE IndInv'
  BY <1>3, InsertStep
<1>4. ASSUME NEW q \in Requests, AnswerCollision(q) PROVE IndInv'
  BY <1>4, AnswerCollisionStep
<1>5. ASSUME NEW q \in Requests, Dispatch(q) PROVE IndInv'
  BY <1>5, DispatchStep
<1>6. CASE UNCHANGED vars
  BY <1>6
  DEF vars, IndInv, TypeOK, RecordsMatchBookings, HandlersInform, AnswersTrue, Key, Result,
      SamePayload, Fingerprint
<1> QED
  BY <1>1, <1>2, <1>3, <1>4, <1>5, <1>6 DEF Next

\* However requests, retries, races, failures and lost answers interleave, IndInv
\* holds: booking and key are never apart (booking.repository.ts, createBookingWithOutbox).
THEOREM KeysAndBookingsAgree == Spec => []IndInv
BY InitIndInv, NextIndInv, PTL DEF Spec

\* No two bookings are made under the same value of Idempotency-Key.
THEOREM OneBooking == Spec => []OneBookingPerKey
<1>1. IndInv => OneBookingPerKey
  <2> SUFFICES ASSUME IndInv, NEW a \in bookings, NEW b \in bookings,
                      Key(a) = Key(b), Key(a) # NoKey
               PROVE  a = b
    BY DEF OneBookingPerKey
  <2>1. Key(a) \in Keys \union {NoKey, EmptyKey}
    BY RequestFacts DEF IndInv, TypeOK, Key
  <2> QED
    BY <2>1 DEF IndInv, RecordsMatchBookings
<1> QED
  BY <1>1, KeysAndBookingsAgree, PTL

\* What a client was told of its booking is true: it exists and is the one the client
\* asked for; a refused client met another payload (booking.service.ts, createBooking).
THEOREM Truthful == Spec => []AnswersTrue
<1>1. IndInv => AnswersTrue
  BY DEF IndInv
<1> QED
  BY <1>1, KeysAndBookingsAgree, PTL

-----------------------------------------------------------------------------
(* The refinement of KeyedBooking.                                         *)

\* The answer a client with a key has follows from the booking under that key.
RepliesFollow ==
  \A c \in Clients :
    key[c] \in Keys /\ answer[c] # NoBooking =>
      /\ record[key[c]] # NoBooking
      /\ ReplyMap[c] = IF payload[OwnerMap[key[c]]] = payload[c] THEN "booking" ELSE "conflict"

LEMMA InformedReplies == IndInv => RepliesFollow
<1> SUFFICES ASSUME IndInv, NEW c \in Clients, key[c] \in Keys, answer[c] # NoBooking
             PROVE  /\ record[key[c]] # NoBooking
                    /\ ReplyMap[c] = IF payload[OwnerMap[key[c]]] = payload[c]
                                     THEN "booking" ELSE "conflict"
  BY DEF RepliesFollow
<1>1. PICK b \in bookings :
        /\ Key(b) = key[c]
        /\ answer[c] = Refused => Fingerprint(b) # payload[c]
        /\ answer[c] # Refused => Fingerprint(b) = payload[c]
  BY DEF IndInv, TypeOK, AnswersTrue
<1>2. record[key[c]] = b /\ b \in Requests
  BY <1>1 DEF IndInv, TypeOK, RecordsMatchBookings
<1>3. OwnerMap[key[c]] = Client(b)
  BY <1>2, RequestFacts DEF OwnerMap
<1> QED
  BY <1>1, <1>2, <1>3, RequestFacts DEF ReplyMap, Fingerprint

LEMMA InitRefines == Init => Promise!Init
BY RequestFacts DEF Init, Promise!Init, OwnerMap, ReplyMap

\* A commit under a key nobody has used settles its owner; a commit without a key
\* does not show.
LEMMA CommitRefines ==
  ASSUME IndInv, NEW q \in Requests, ~KeyTaken(q),
         record' = [k \in Keys |-> IF k = Key(q) THEN q ELSE record[k]],
         UNCHANGED <<key, payload, answer>>
  PROVE  [Promise!Next]_(Promise!keyedVars)
<1>1. ReplyMap' = ReplyMap
  BY DEF ReplyMap
<1>2. Client(q) \in Clients /\ q # NoBooking
  BY RequestFacts
<1>3. CASE Key(q) \in Keys
  <2>1. record[Key(q)] = NoBooking
    BY <1>3, RequestFacts DEF IndInv, RecordsMatchBookings, KeyTaken
  <2>2. OwnerMap[Key(q)] = NoClient
    BY <1>3, <2>1 DEF OwnerMap
  <2>3. OwnerMap' = [OwnerMap EXCEPT ![Key(q)] = Client(q)]
    BY <1>2, <1>3 DEF OwnerMap, Client
  <2>4. Promise!Create(Client(q))
    BY <1>1, <1>3, <2>2, <2>3 DEF Promise!Create, Key
  <2> QED
    BY <1>2, <2>4 DEF Promise!Next
<1>4. CASE Key(q) \notin Keys
  <2>1. OwnerMap' = OwnerMap
    BY <1>4 DEF OwnerMap, Client
  <2> QED
    BY <1>1, <2>1 DEF Promise!keyedVars
<1> QED
  BY <1>3, <1>4

\* A response to a client with a key is a reply; to one without, or a response that is
\* lost, it does not show.
LEMMA RespondRefines ==
  ASSUME IndInv, IndInv', NEW q \in Requests, NEW a \in Requests \union {Refused},
         Respond(q, a), UNCHANGED <<key, payload, record>>
  PROVE  [Promise!Next]_(Promise!keyedVars)
<1> DEFINE c == Client(q)
<1>1. OwnerMap' = OwnerMap
  BY DEF OwnerMap
<1>2. c \in Clients /\ a # NoBooking
  BY RequestFacts
<1>3. RepliesFollow'
  BY InformedReplies, PTL
<1>4. CASE UNCHANGED answer
  <2>1. ReplyMap' = ReplyMap
    BY <1>4 DEF ReplyMap
  <2> QED
    BY <1>1, <2>1 DEF Promise!keyedVars
<1>5. CASE answer' = [answer EXCEPT ![c] = a]
  <2>1. answer'[c] = a /\ \A d \in Clients \ {c} : answer'[d] = answer[d]
    BY <1>2, <1>5 DEF IndInv, TypeOK
  <2>2. \A d \in Clients \ {c} : ReplyMap'[d] = ReplyMap[d]
    BY <2>1 DEF ReplyMap
  <2>3. CASE key[c] \in Keys
    <3>1. /\ record[key[c]] # NoBooking
          /\ ReplyMap'[c] = IF payload[OwnerMap[key[c]]] = payload[c]
                            THEN "booking" ELSE "conflict"
      BY <1>1, <1>2, <1>3, <2>1, <2>3 DEF RepliesFollow
    <3>2. CASE answer[c] = NoBooking
      <4>1. ReplyMap[c] = "none"
        BY <1>2, <3>2 DEF ReplyMap
      <4>2. OwnerMap[key[c]] # NoClient
        BY <2>3, <3>1, RequestFacts DEF OwnerMap, IndInv, TypeOK
      <4>3. ReplyMap' = [ReplyMap EXCEPT ![c] = IF payload[OwnerMap[key[c]]] = payload[c]
                                               THEN "booking" ELSE "conflict"]
        BY <1>2, <2>2, <3>1 DEF ReplyMap
      <4>4. Promise!Reply(c)
        BY <1>1, <2>3, <4>1, <4>2, <4>3 DEF Promise!Reply
      <4> QED
        BY <1>2, <4>4 DEF Promise!Next
    <3>3. CASE answer[c] # NoBooking
      <4>1. ReplyMap'[c] = ReplyMap[c]
        BY <1>2, <2>3, <3>1, <3>3, InformedReplies DEF RepliesFollow
      <4>2. ReplyMap' = ReplyMap
        BY <2>2, <4>1 DEF ReplyMap
      <4> QED
        BY <1>1, <4>2 DEF Promise!keyedVars
    <3> QED
      BY <3>2, <3>3
  <2>4. CASE key[c] \notin Keys
    <3>1. ReplyMap' = ReplyMap
      BY <2>1, <2>4 DEF ReplyMap
    <3> QED
      BY <1>1, <3>1 DEF Promise!keyedVars
  <2> QED
    BY <2>3, <2>4
<1> QED
  BY <1>4, <1>5 DEF Respond

\* Everything else is a stutter.
LEMMA HiddenRefines ==
  ASSUME UNCHANGED <<key, payload, answer, record>>
  PROVE  [Promise!Next]_(Promise!keyedVars)
BY DEF Promise!keyedVars, OwnerMap, ReplyMap

LEMMA StepRefines ==
  ASSUME IndInv, IndInv', [Next]_vars
  PROVE  [Promise!Next]_(Promise!keyedVars)
<1>1. ASSUME NEW c \in Clients, Send(c) PROVE [Promise!Next]_(Promise!keyedVars)
  BY <1>1, HiddenRefines DEF Send
<1>2. ASSUME NEW q \in Requests, Lookup(q) PROVE [Promise!Next]_(Promise!keyedVars)
  <2> DEFINE found == record[Key(q)]
  <2>1. found # NoBooking => found \in Requests
    BY <1>2 DEF Lookup, IndInv, TypeOK, HandlersInform
  <2>2. CASE Goto(q, "insert") \/ Fails(q)
    BY <1>2, <2>2, HiddenRefines DEF Lookup, Goto, Fails
  <2>3. CASE found # NoBooking /\ Respond(q, IF SamePayload(q, found) THEN found ELSE Refused)
    BY <1>2, <2>1, <2>3, RespondRefines DEF Lookup
  <2> QED
    BY <1>2, <2>2, <2>3 DEF Lookup
<1>3. ASSUME NEW q \in Requests, Insert(q) PROVE [Promise!Next]_(Promise!keyedVars)
  <2>1. UNCHANGED <<key, payload, answer>>
    BY <1>3 DEF Insert, Goto, Fails
  <2>2. CASE UNCHANGED record
    BY <2>1, <2>2, HiddenRefines
  <2>3. CASE ~KeyTaken(q) /\ record' = [k \in Keys |-> IF k = Key(q) THEN q ELSE record[k]]
    BY <2>1, <2>3, CommitRefines
  <2> QED
    BY <1>3, <2>2, <2>3 DEF Insert
<1>4. ASSUME NEW q \in Requests, AnswerCollision(q) PROVE [Promise!Next]_(Promise!keyedVars)
  <2>1. CASE UNCHANGED answer
    BY <1>4, <2>1, HiddenRefines DEF AnswerCollision
  <2>2. CASE Respond(q, Refused)
    BY <1>4, <2>2, RespondRefines DEF AnswerCollision
  <2> QED
    BY <1>4, <2>1, <2>2 DEF AnswerCollision, Goto, Fails
<1>5. ASSUME NEW q \in Requests, Dispatch(q) PROVE [Promise!Next]_(Promise!keyedVars)
  <2>1. Result(q) \in Requests
    BY <1>5 DEF Dispatch, IndInv, TypeOK, HandlersInform
  <2>2. CASE Respond(q, Result(q))
    BY <1>5, <2>1, <2>2, RespondRefines DEF Dispatch
  <2>3. CASE Fails(q)
    BY <1>5, <2>3, HiddenRefines DEF Dispatch, Fails, Goto
  <2> QED
    BY <1>5, <2>2, <2>3 DEF Dispatch
<1>6. CASE UNCHANGED vars
  BY <1>6, HiddenRefines DEF vars
<1> QED
  BY <1>1, <1>2, <1>3, <1>4, <1>5, <1>6 DEF Next

\* To its clients the booking API is KeyedBooking: a key has one owner for good, and
\* every reply follows from the owner's payload (README.md, idempotency keys).
THEOREM RefinesKeyedBooking == Spec => ImplementsKeyedBooking
<1>1. IndInv /\ IndInv' /\ [Next]_vars => [Promise!Next]_(Promise!keyedVars)
  BY StepRefines
<1> QED
  BY <1>1, InitRefines, KeysAndBookingsAgree, PTL DEF Spec, ImplementsKeyedBooking, Promise!Spec

=============================================================================
