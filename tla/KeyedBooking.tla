---------------------------- MODULE KeyedBooking ----------------------------
(***************************************************************************)
(* What an idempotency key promises to the clients that send one: the      *)
(* first request under a key settles whose booking it is, once and for     *)
(* all; whoever sends the same payload gets that booking, whoever sends    *)
(* another one is refused.  Requests, retries and races do not show.       *)
(***************************************************************************)
CONSTANTS
  Clients,  \* who send requests
  Keys,     \* idempotency keys
  NoClient  \* nobody has used the key

VARIABLES
  key,      \* the key of a client; clients with none of Keys take no part
  payload,  \* what it wants to book
  owner,    \* the client whose request created the booking of a key
  reply     \* what a client was told

keyedVars == <<key, payload, owner, reply>>

Init ==
  /\ owner = [k \in Keys |-> NoClient]
  /\ reply = [c \in Clients |-> "none"]

\* The first request under a key creates its booking.
Create(c) ==
  /\ key[c] \in Keys
  /\ owner[key[c]] = NoClient
  /\ owner' = [owner EXCEPT ![key[c]] = c]
  /\ UNCHANGED <<key, payload, reply>>

\* A client is told of the booking of its key, or that the key is in use.
Reply(c) ==
  /\ key[c] \in Keys
  /\ reply[c] = "none"
  /\ owner[key[c]] # NoClient
  /\ reply' = [reply EXCEPT ![c] = IF payload[owner[key[c]]] = payload[c]
                                   THEN "booking" ELSE "conflict"]
  /\ UNCHANGED <<key, payload, owner>>

Next == \E c \in Clients : Create(c) \/ Reply(c)

Spec == Init /\ [][Next]_keyedVars

=============================================================================
