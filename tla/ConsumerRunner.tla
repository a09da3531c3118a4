--------------------------- MODULE ConsumerRunner ---------------------------
(***************************************************************************)
(* KafkaConsumerRunner and processKafkaRecord of packages/messaging: what  *)
(* becomes of the records of one partition.  The replicas of a service     *)
(* each have a runner; Kafka assigns the partition to one of them, may     *)
(* assign it to another while the first is still in a handler, hands out   *)
(* records in the order of their offsets from the last committed one on,   *)
(* and hands a record out again after its handler threw.                   *)
(*                                                                         *)
(* A handler may fail with or without having taken effect, so may the      *)
(* publication to the dead letter topic, and a process may stop anywhere.  *)
(***************************************************************************)
EXTENDS Naturals

CONSTANTS
  Runners,      \* the members of the consumer group
  NoRunner,     \* the partition is assigned to nobody
  LastOffset,   \* the records of the partition are 1..LastOffset
  MaxAttempts   \* maxAttempts of start, 10 in the code

ASSUME ConsumerAssumption ==
  /\ NoRunner \notin Runners
  /\ LastOffset \in Nat
  /\ MaxAttempts \in Nat \ {0}

Offsets == 1..LastOffset

\* What a record may be: something a handler can process, no JSON, JSON that is not the
\* message of its topic, or a message that the handler refuses for good.
Contents == {"processable", "malformed", "mismatched", "refused"}

\* What a handler may throw because of its database or its broker.
HandlerErrors == {"PrismaClientKnownRequestError", "KafkaJSError"}

\* What parsing and the handler may throw, given what the record is.
Raised ==
  [processable |-> HandlerErrors,
   malformed   |-> {"SyntaxError"},
   mismatched  |-> {"ZodError"},
   refused     |-> HandlerErrors \union {"PermanentMessageError"}]

Errors == UNION { Raised[c] : c \in Contents }

VARIABLES
  content,    \* what each record is
  owner,      \* the runner the partition is assigned to
  committed,  \* the offset of the last committed record
  pc,         \* what a runner does
  attempt,    \* the attempts of its start, 1 when it is not starting
  position,   \* the record it processes now or next, 1 when it has no consumer
  handled,    \* the records whose handler took effect
  dead        \* the records on the dead letter topic

vars == <<content, owner, committed, pc, attempt, position, handled, dead>>

Resolved(o) == o \in handled \union dead

TypeOK ==
  /\ content \in [Offsets -> Contents]
  /\ owner \in Runners \union {NoRunner}
  /\ committed \in 0..LastOffset
  /\ pc \in [Runners -> {"stopped", "starting", "polling", "handling", "rejecting", "deaf"}]
  /\ attempt \in [Runners -> 1..MaxAttempts]
  /\ position \in [Runners -> 1..(LastOffset + 1)]
  /\ handled \subseteq Offsets
  /\ dead \subseteq Offsets

Init ==
  /\ content \in [Offsets -> Contents]
  /\ owner = NoRunner
  /\ committed = 0
  /\ pc = [r \in Runners |-> "stopped"]
  /\ attempt = [r \in Runners |-> 1]
  /\ position = [r \in Runners |-> 1]
  /\ handled = {}
  /\ dead = {}

-----------------------------------------------------------------------------
(* A runner's life.                                                        *)

Goto(r, next) == pc' = [pc EXCEPT ![r] = next]

\* start, called when the process is started; its attempts begin with 1.
Start(r) ==
  /\ pc[r] = "stopped"
  /\ Goto(r, "starting")
  /\ UNCHANGED <<content, owner, committed, attempt, position, handled, dead>>

\* start is left, and its loop variable with it.
LeaveStart(r, next) ==
  /\ Goto(r, next)
  /\ attempt' = [attempt EXCEPT ![r] = 1]

\* Connecting, subscribing and running succeed.
Connect(r) ==
  /\ pc[r] = "starting"
  /\ LeaveStart(r, "polling")
  /\ UNCHANGED <<content, owner, committed, position, handled, dead>>

\* One of them throws: the consumer is disconnected and start tries again, or gives
\* up and takes the process with it.
ConnectFails(r) ==
  /\ pc[r] = "starting"
  /\ \/ attempt[r] < MaxAttempts /\ attempt' = [attempt EXCEPT ![r] = @ + 1] /\ UNCHANGED pc
     \/ attempt[r] = MaxAttempts /\ LeaveStart(r, "stopped")
  /\ UNCHANGED <<content, owner, committed, position, handled, dead>>

\* The consumer is gone, and the partition is free if it was its own.
Release(r) ==
  /\ owner' = IF owner = r THEN NoRunner ELSE owner
  /\ position' = [position EXCEPT ![r] = 1]

\* The process stops, by stop or by a crash.
Stop(r) ==
  /\ pc[r] # "stopped"
  /\ LeaveStart(r, "stopped")
  /\ Release(r)
  /\ UNCHANGED <<content, committed, handled, dead>>

\* The consumer gives up on an error it does not retry.  The process goes on, and as
\* isRunning still says so, nobody restarts it.
GoDeaf(r) ==
  /\ pc[r] = "polling"
  /\ Goto(r, "deaf")
  /\ Release(r)
  /\ UNCHANGED <<content, committed, attempt, handled, dead>>

-----------------------------------------------------------------------------
(* Kafka.                                                                  *)

\* The partition is assigned to a runner, whoever had it and whatever that one is in
\* the middle of.
Assign(r) ==
  /\ pc[r] = "polling"
  /\ owner # r
  /\ owner' = r
  /\ position' = [position EXCEPT ![r] = committed + 1]
  /\ UNCHANGED <<content, committed, pc, attempt, handled, dead>>

\* A runner that commits a record when it is delivered.
CommitOnDelivery(r) ==
  /\ owner = r
  /\ pc[r] = "handling"
  /\ committed' = position[r]
  /\ UNCHANGED <<content, owner, pc, attempt, position, handled, dead>>

\* The offsets of what a runner has resolved are committed, if the partition is still
\* its own.
Commit(r) ==
  /\ owner = r
  /\ position[r] > committed + 1
  /\ committed' = position[r] - 1
  /\ UNCHANGED <<content, owner, pc, attempt, position, handled, dead>>

\* eachMessage is called with the next record.
Deliver(r) ==
  /\ owner = r
  /\ pc[r] = "polling"
  /\ position[r] \in Offsets
  /\ Goto(r, "handling")
  /\ UNCHANGED <<content, owner, committed, attempt, position, handled, dead>>

-----------------------------------------------------------------------------
(* processKafkaRecord.                                                     *)

Record(r) == position[r]

\* It returns, and the runner goes on with the next record.
Return(r) ==
  /\ Goto(r, "polling")
  /\ position' = [position EXCEPT ![r] = @ + 1]

\* It throws, and the record is delivered again.
Throw(r) == Goto(r, "polling") /\ UNCHANGED position

\* Two ways to get the test for permanent errors wrong: only the database passes, or a
\* message that does not match its schema may do so the next time.
AllButDatabase(error) == error # "PrismaClientKnownRequestError"

AllButSchema(error) == error \in {"SyntaxError", "PermanentMessageError"}

\* The instanceof tests: whether trying again is pointless.
Permanent(error) == error \in {"SyntaxError", "ZodError", "PermanentMessageError"}

\* A catch block that forgets the errors it does not reject.
CatchAll(r, error) ==
  IF Permanent(error) THEN Goto(r, "rejecting") /\ UNCHANGED position
                      ELSE Return(r)

\* The catch block goes on to the dead letter topic, or rethrows.
Catch(r, error) ==
  IF Permanent(error) THEN Goto(r, "rejecting") /\ UNCHANGED position
                      ELSE Throw(r)

\* The handler takes effect and returns.
Handle(r) ==
  /\ pc[r] = "handling"
  /\ content[Record(r)] = "processable"
  /\ handled' = handled \union {Record(r)}
  /\ Return(r)
  /\ UNCHANGED <<content, owner, committed, attempt, dead>>

\* Parsing or the handler throws, and a handler may have taken effect before it does.
Fail(r, error) ==
  /\ pc[r] = "handling"
  /\ error \in Raised[content[Record(r)]]
  /\ \/ UNCHANGED handled
     \/ content[Record(r)] = "processable" /\ handled' = handled \union {Record(r)}
  /\ Catch(r, error)
  /\ UNCHANGED <<content, owner, committed, attempt, dead>>

\* publishDeadLetter succeeds.
PublishDeadLetter(r) ==
  /\ pc[r] = "rejecting"
  /\ dead' = dead \union {Record(r)}
  /\ Return(r)
  /\ UNCHANGED <<content, owner, committed, attempt, handled>>

\* A runner that swallows the error of publishDeadLetter.
PublishDeadLetterSwallowed(r) ==
  /\ pc[r] = "rejecting"
  /\ Return(r)
  /\ UNCHANGED <<content, owner, committed, attempt, handled, dead>>

\* publishDeadLetter throws, before or after the record was written, and nothing
\* catches that.
PublishDeadLetterFails(r) ==
  /\ pc[r] = "rejecting"
  /\ dead' = dead \/ dead' = dead \union {Record(r)}
  /\ Throw(r)
  /\ UNCHANGED <<content, owner, committed, attempt, handled>>

-----------------------------------------------------------------------------
Process(r) ==
  \/ Handle(r) \/ \E error \in Errors : Fail(r, error)
  \/ PublishDeadLetter(r) \/ PublishDeadLetterFails(r)

Next ==
  \E r \in Runners :
    \/ Start(r) \/ Connect(r) \/ ConnectFails(r) \/ Stop(r) \/ GoDeaf(r)
    \/ Assign(r) \/ Commit(r) \/ Deliver(r)
    \/ Process(r)

Spec == Init /\ [][Next]_vars

\* A stopped process is started again, and no call hangs for ever.  Of what is tried
\* again and again (starting, being assigned the partition, getting a record, processing
\* it while the partition is the runner's own, and committing it) some attempt succeeds
\* before something else comes in between.
Fairness ==
  /\ WF_vars(\E r \in Runners : Start(r))
  /\ SF_vars(\E r \in Runners : Connect(r))
  /\ \A r \in Runners : WF_vars(Process(r))
  /\ SF_vars(\E r \in Runners : owner = NoRunner /\ Assign(r))
  /\ SF_vars(\E r \in Runners : Deliver(r))
  /\ SF_vars(\E r \in Runners :
               owner = r /\ (Handle(r) \/ \E error \in Errors \ HandlerErrors : Fail(r, error)))
  /\ SF_vars(\E r \in Runners : owner = r /\ PublishDeadLetter(r))
  /\ SF_vars(\E r \in Runners : Commit(r))

FairSpec == Spec /\ Fairness

-----------------------------------------------------------------------------
(* Properties.                                                             *)

\* Before a runner goes on to a record it has seen all earlier ones handled or dead.
PositionsCovered ==
  \A r \in Runners : \A o \in Offsets : o < position[r] => Resolved(o)

\* Wherever a runner stops, a call fails or the partition moves to another runner, no
\* record is passed over: a committed record was handled or is on the dead letter topic,
\* and so was every record before one that was.
NoRecordSkipped ==
  \A o \in Offsets :
    /\ o <= committed => Resolved(o)
    /\ Resolved(o) => \A earlier \in 1..o : Resolved(earlier)

\* No error costs a message and none is taken for a success: a committed record has
\* taken effect if a handler can process it, however often and with whatever error that
\* failed on the way, and is on the dead letter topic if not.
CommittedRecordsDone ==
  \A o \in Offsets :
    o <= committed => IF content[o] = "processable" THEN o \in handled \ dead
                                                    ELSE o \in dead \ handled

\* A runner is on the way to the dead letter topic only with what nobody can process, and
\* the two outcomes stay apart.
OutcomesFit ==
  /\ \A o \in handled : content[o] = "processable"
  /\ \A o \in dead : content[o] # "processable"
  /\ \A r \in Runners :
       /\ pc[r] \in {"handling", "rejecting"} => Record(r) \in Offsets
       /\ pc[r] = "rejecting" => content[Record(r)] # "processable"

\* The inductive invariant of the proofs.
IndInv == TypeOK /\ PositionsCovered /\ NoRecordSkipped /\ OutcomesFit

\* A record that cannot be processed does not block the ones behind it: every record is
\* handled or dead-lettered in the end, unless every process has gone deaf.
EveryRecordEnds ==
  \A o \in Offsets : <>(Resolved(o) \/ \A r \in Runners : pc[r] = "deaf")

\* The partition as the saga sees it.  A runner that is not deaf consumes, or will again.
Partition == INSTANCE Delivery WITH
  valid <- { o \in Offsets : content[o] = "processable" },
  served <- \E r \in Runners : pc[r] # "deaf"

\* The consumer runners deliver as the saga assumes: whatever fails, stops and is
\* reassigned, records take effect one after the other in the order of the partition,
\* the poisoned ones are put aside in their turn, and as long as a runner is not deaf
\* none stays undone.
ImplementsDelivery == Partition!Spec

=============================================================================
