----------------------------- MODULE SeatLedger -----------------------------
(***************************************************************************)
(* What the services together promise, with no message, outbox or inbox in *)
(* sight: one ledger in which a booking asks for seats, is granted them    *)
(* exactly when they are free, is told so, and gives them back exactly     *)
(* once when it is cancelled.  EventBooking implements it.                 *)
(***************************************************************************)
EXTENDS Naturals, FiniteSets

CONSTANTS Bookings, Events, MaxQuantity, MaxCapacity, NoRequest

VARIABLES
  status,    \* the status a client reads
  request,   \* the event and quantity a booking asked for
  seats,     \* where the booking's seats are
  capacity   \* seats of each event, 0 for one that is not on offer

ledgerVars == <<status, request, seats, capacity>>

Requests == [eventId : Events, quantity : 1..MaxQuantity]

\* Seats of event e in the hands of bookings, one pair per seat.
TakenSeats(e) ==
  UNION { {b} \X (1..request[b].quantity) :
            b \in { x \in Bookings : request[x].eventId = e /\ seats[x] = "held" } }

Init ==
  /\ status = [b \in Bookings |-> "NONE"]
  /\ request = [b \in Bookings |-> NoRequest]
  /\ seats = [b \in Bookings |-> "none"]
  /\ capacity = [e \in Events |-> 0]

Ask(b, r) ==
  /\ status[b] = "NONE"
  /\ status' = [status EXCEPT ![b] = "PENDING"]
  /\ request' = [request EXCEPT ![b] = r]
  /\ UNCHANGED <<seats, capacity>>

SeatsFree(b) ==
  Cardinality(TakenSeats(request[b].eventId)) + request[b].quantity
    <= capacity[request[b].eventId]

\* The seats are granted if and only if there are enough of them at that moment.
Decide(b) ==
  /\ status[b] = "PENDING"
  /\ seats[b] = "none"
  /\ seats' = [seats EXCEPT ![b] = IF SeatsFree(b) THEN "held" ELSE "refused"]
  /\ UNCHANGED <<status, request, capacity>>

\* The client learns what was decided.
Announce(b) ==
  /\ status[b] = "PENDING"
  /\ seats[b] # "none"
  /\ status' = [status EXCEPT ![b] = IF seats[b] = "held" THEN "CONFIRMED" ELSE "FAILED"]
  /\ UNCHANGED <<request, seats, capacity>>

Cancel(b) ==
  /\ status[b] = "CONFIRMED"
  /\ status' = [status EXCEPT ![b] = "CANCELLED"]
  /\ UNCHANGED <<request, seats, capacity>>

GiveBack(b) ==
  /\ status[b] = "CANCELLED"
  /\ seats[b] = "held"
  /\ seats' = [seats EXCEPT ![b] = "returned"]
  /\ UNCHANGED <<status, request, capacity>>

\* An event is offered, resized or withdrawn, never below the seats taken.
Resize(e, n) ==
  /\ Cardinality(TakenSeats(e)) <= n
  /\ capacity' = [capacity EXCEPT ![e] = n]
  /\ UNCHANGED <<status, request, seats>>

Next ==
  \/ \E b \in Bookings : \/ \E r \in Requests : Ask(b, r)
                         \/ Decide(b)
                         \/ Announce(b)
                         \/ Cancel(b)
                         \/ GiveBack(b)
  \/ \E e \in Events, n \in 0..MaxCapacity : Resize(e, n)

Spec == Init /\ [][Next]_ledgerVars

=============================================================================
