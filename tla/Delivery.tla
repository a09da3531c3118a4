------------------------------ MODULE Delivery ------------------------------
(***************************************************************************)
(* What the saga of EventBooking relies on once a message is on the        *)
(* broker, for the records of one partition: each record that a handler    *)
(* can process takes effect, once or again and again, before any later     *)
(* record does; each other one is put aside; and none is owed for ever     *)
(* while somebody consumes.  EventBooking allows more: it hands out        *)
(* messages in any order.                                                  *)
(***************************************************************************)
EXTENDS Naturals

CONSTANT LastOffset  \* the records of the partition are 1..LastOffset

VARIABLES
  valid,    \* records that a handler can process
  handled,  \* records whose handler took effect, once or several times
  dead,     \* records put aside, once or several times
  served    \* somebody consumes the partition; not up to the consumers alone

deliveryVars == <<valid, handled, dead>>

Offsets == 1..LastOffset

Resolved(o) == o \in handled \union dead

Init ==
  /\ valid \in SUBSET Offsets
  /\ handled = {}
  /\ dead = {}

\* Every record before o is done with.
Due(o) == \A earlier \in Offsets : earlier < o => Resolved(earlier)

Handle(o) ==
  /\ o \in valid
  /\ Due(o)
  /\ handled' = handled \union {o}
  /\ UNCHANGED <<valid, dead>>

PutAside(o) ==
  /\ o \notin valid
  /\ Due(o)
  /\ dead' = dead \union {o}
  /\ UNCHANGED <<valid, handled>>

Next == \E o \in Offsets : Handle(o) \/ PutAside(o)

SafeSpec == Init /\ [][Next]_deliveryVars

Owed(o) == served /\ ~Resolved(o)

\* What weak fairness of EventBooking's consumers demands: no record stays owed.
Fairness == []<>(\A o \in Offsets : ~Owed(o))

Spec == SafeSpec /\ Fairness

=============================================================================
