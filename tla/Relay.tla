------------------------------- MODULE Relay -------------------------------
(***************************************************************************)
(* What the saga of EventBooking relies on for its messages: a message is  *)
(* published only after its row was stored, and in the end, unless its row *)
(* runs out of attempts.  Publish and Abandon are the actions of           *)
(* EventBooking with these names, Fairness is that of its Dispatch.        *)
(***************************************************************************)
CONSTANT Messages

VARIABLES
  stored,    \* messages whose transaction is committed
  broker,    \* messages that are on their topic, once or several times
  abandoned  \* messages whose rows are out of attempts

relayVars == <<stored, broker, abandoned>>

Init == stored = {} /\ broker = {} /\ abandoned = {}

Store(m) ==
  /\ m \notin stored
  /\ stored' = stored \union {m}
  /\ UNCHANGED <<broker, abandoned>>

\* Also of a message whose row is out of attempts, as a slow worker would do it.
Publish(m) ==
  /\ m \in stored
  /\ broker' = broker \union {m}
  /\ UNCHANGED <<stored, abandoned>>

\* Several rows may run out of attempts together.  EventBooking leaves out those whose
\* message is on the broker already, which makes no difference to anyone.
Abandon(exhausted) ==
  /\ exhausted \subseteq stored
  /\ abandoned' = abandoned \union exhausted
  /\ UNCHANGED <<stored, broker>>

Next ==
  \/ \E m \in Messages : Store(m) \/ Publish(m)
  \/ \E exhausted \in SUBSET Messages : Abandon(exhausted)

SafeSpec == Init /\ [][Next]_relayVars

Owed(m) == m \in stored \ (broker \union abandoned)

\* Weak fairness of Publish for a message that still has attempts: it is enabled for as
\* long as the publication is owed, and it ends that.
Fairness == \A m \in Messages : []<>~Owed(m)

Spec == SafeSpec /\ Fairness

=============================================================================
