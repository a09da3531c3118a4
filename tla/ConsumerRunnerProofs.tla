------------------------ MODULE ConsumerRunnerProofs ------------------------
(***************************************************************************)
(* No record is passed over or thrown away, for any number of runners and  *)
(* records and however often runners stop, fail and lose the partition.    *)
(***************************************************************************)
EXTENDS ConsumerRunner, TLAPS

\* The instanceof tests tell the errors of what nobody can process from those that a
\* handler may throw today and not tomorrow.
LEMMA PermanentErrorsFit ==
  ASSUME NEW c \in Contents, NEW error \in Raised[c]
  PROVE  /\ c = "processable" => ~Permanent(error)
         /\ c \in {"malformed", "mismatched"} => Permanent(error)
BY DEF Contents, Raised, HandlerErrors, Permanent

LEMMA InitIndInv == Init => IndInv
<1> SUFFICES ASSUME Init PROVE IndInv
  OBVIOUS
<1>1. TypeOK
  BY ConsumerAssumption DEF Init, TypeOK, Offsets
<1>2. PositionsCovered /\ NoRecordSkipped /\ OutcomesFit
  BY DEF Init, PositionsCovered, NoRecordSkipped, OutcomesFit, Resolved, Offsets
<1> QED
  BY <1>1, <1>2 DEF IndInv

-----------------------------------------------------------------------------
(* Steps.                                                                  *)

\* Records that are resolved stay so, and a step that resolves the record a runner is at
\* leaves no gap, because the runner has seen all earlier ones resolved.
LEMMA ResolveStep ==
  ASSUME IndInv, NEW r \in Runners, position[r] \in Offsets,
         handled' \union dead' \subseteq handled \union dead \union {position[r]},
         handled \union dead \subseteq handled' \union dead',
         UNCHANGED committed
  PROVE  NoRecordSkipped'
<1>1. \A o \in Offsets : Resolved(o)' => Resolved(o) \/ o = position[r]
  BY DEF Resolved
<1>2. \A o \in Offsets : Resolved(o) => Resolved(o)'
  BY DEF Resolved
<1>3. \A o \in Offsets : \A earlier \in 1..o :
        earlier \in Offsets /\ (earlier = o \/ earlier < o)
  BY ConsumerAssumption DEF Offsets
<1>4. \A o \in Offsets : o <= committed' => Resolved(o)'
  BY <1>2 DEF IndInv, NoRecordSkipped
<1>5. ASSUME NEW o \in Offsets, Resolved(o)', NEW earlier \in 1..o
      PROVE  Resolved(earlier)'
  <2>1. CASE Resolved(o)
    BY <1>2, <1>3, <1>5, <2>1 DEF IndInv, NoRecordSkipped
  <2>2. CASE o = position[r]
    <3>1. CASE earlier = o
      BY <1>5, <3>1
    <3>2. CASE earlier < o
      BY <1>2, <1>3, <2>2, <3>2 DEF IndInv, PositionsCovered
    <3> QED
      BY <1>3, <3>1, <3>2
  <2> QED
    BY <1>1, <1>5, <2>1, <2>2
<1> QED
  BY <1>4, <1>5 DEF NoRecordSkipped

\* The steps of a runner's life, and of Kafka, resolve nothing.
LEMMA LifeStep ==
  ASSUME IndInv, NEW r \in Runners,
         Start(r) \/ Connect(r) \/ ConnectFails(r) \/ Stop(r) \/ GoDeaf(r) \/ Deliver(r)
  PROVE  IndInv'
<1>1. /\ UNCHANGED <<content, committed, handled, dead>>
      /\ \/ UNCHANGED position
         \/ /\ position' = [position EXCEPT ![r] = 1]
            /\ pc' \in {[pc EXCEPT ![r] = "stopped"], [pc EXCEPT ![r] = "deaf"]}
  BY DEF Start, Connect, ConnectFails, Stop, GoDeaf, Deliver, LeaveStart, Release, Goto
<1>2. 1 \in 1..MaxAttempts /\ 1 \in 1..(LastOffset + 1)
  BY ConsumerAssumption
<1>3. TypeOK'
  BY <1>2, ConsumerAssumption
  DEF IndInv, TypeOK, Start, Connect, ConnectFails, Stop, GoDeaf, Deliver, LeaveStart, Goto,
      Release
<1>4. NoRecordSkipped'
  BY <1>1 DEF IndInv, NoRecordSkipped, Resolved
<1>5. PositionsCovered'
  BY <1>1, ConsumerAssumption DEF IndInv, TypeOK, PositionsCovered, Resolved, Offsets
<1>6. OutcomesFit'
  BY <1>1
  DEF IndInv, TypeOK, OutcomesFit, Record, Goto, LeaveStart, Start, Connect, ConnectFails,
      Stop, GoDeaf, Deliver
<1> QED
  BY <1>3, <1>4, <1>5, <1>6 DEF IndInv

\* A new owner starts behind the last committed record, and all up to there are resolved.
LEMMA AssignStep ==
  ASSUME IndInv, NEW r \in Runners, Assign(r)
  PROVE  IndInv'
<1>1. committed \in 0..LastOffset /\ committed + 1 \in 1..(LastOffset + 1)
  BY ConsumerAssumption DEF IndInv, TypeOK
<1>2. TypeOK'
  BY <1>1 DEF IndInv, TypeOK, Assign
<1>3. PositionsCovered'
  BY <1>1, ConsumerAssumption
  DEF IndInv, TypeOK, PositionsCovered, NoRecordSkipped, Resolved, Assign, Offsets
<1>4. NoRecordSkipped' /\ OutcomesFit'
  BY DEF IndInv, TypeOK, NoRecordSkipped, OutcomesFit, Resolved, Record, Assign
<1> QED
  BY <1>2, <1>3, <1>4 DEF IndInv

LEMMA CommitStep ==
  ASSUME IndInv, NEW r \in Runners, Commit(r)
  PROVE  IndInv'
<1>1. position[r] \in 1..(LastOffset + 1) /\ committed' = position[r] - 1
  BY DEF IndInv, TypeOK, Commit
<1>2. TypeOK'
  BY <1>1, ConsumerAssumption DEF IndInv, TypeOK, Commit
<1>3. NoRecordSkipped'
  BY <1>1, ConsumerAssumption
  DEF IndInv, PositionsCovered, NoRecordSkipped, Resolved, Commit, Offsets
<1>4. PositionsCovered' /\ OutcomesFit'
  BY DEF IndInv, PositionsCovered, OutcomesFit, Resolved, Record, Commit
<1> QED
  BY <1>2, <1>3, <1>4 DEF IndInv

\* What an error does: the runner goes to the dead letter topic with what cannot be
\* processed, or comes back to the record.
LEMMA FailOutcome ==
  ASSUME IndInv, NEW r \in Runners, NEW error, Fail(r, error)
  PROVE  /\ UNCHANGED <<position, dead>>
         /\ \/ pc' = [pc EXCEPT ![r] = "polling"]
            \/ pc' = [pc EXCEPT ![r] = "rejecting"] /\ content[Record(r)] # "processable"
<1>1. Record(r) \in Offsets /\ content[Record(r)] \in Contents
  BY DEF IndInv, TypeOK, OutcomesFit, Fail
<1>2. Permanent(error) => content[Record(r)] # "processable"
  BY <1>1, PermanentErrorsFit DEF Fail
<1> QED
  BY <1>2 DEF Fail, Catch, Throw, Goto

\* Processing a record resolves it, or leaves the runner where it was.
LEMMA ProcessStep ==
  ASSUME IndInv, NEW r \in Runners, Process(r)
  PROVE  IndInv'
<1>1. /\ position[r] \in Offsets
      /\ pc[r] = "rejecting" => content[position[r]] # "processable"
      /\ pc[r] \in {"handling", "rejecting"}
  BY DEF IndInv, OutcomesFit, Record, Process, Handle, Fail, PublishDeadLetter,
     PublishDeadLetterFails
<1>2. position[r] + 1 \in 1..(LastOffset + 1)
  BY <1>1, ConsumerAssumption DEF Offsets
<1>3. \/ /\ pc' = [pc EXCEPT ![r] = "polling"]
         /\ \/ UNCHANGED position
            \/ /\ position' = [position EXCEPT ![r] = @ + 1]
               /\ position[r] \in handled' \union dead'
      \/ /\ pc' = [pc EXCEPT ![r] = "rejecting"]
         /\ content[position[r]] # "processable"
         /\ UNCHANGED position
  BY FailOutcome
  DEF Process, Record, Handle, PublishDeadLetter, PublishDeadLetterFails, Return, Throw, Goto
<1>4. /\ handled' = handled \/ /\ handled' = handled \union {position[r]}
                               /\ content[position[r]] = "processable"
      /\ dead' = dead \/ /\ dead' = dead \union {position[r]}
                         /\ content[position[r]] # "processable"
      /\ UNCHANGED <<content, owner, committed, attempt>>
  BY <1>1 DEF Record, Process, Handle, Fail, PublishDeadLetter, PublishDeadLetterFails
<1>5. TypeOK'
  <2>1. pc' \in [Runners -> {"stopped", "starting", "polling", "handling", "rejecting", "deaf"}]
    BY <1>3 DEF IndInv, TypeOK
  <2>2. position' \in [Runners -> 1..(LastOffset + 1)]
    BY <1>2, <1>3 DEF IndInv, TypeOK
  <2> QED
    BY <1>1, <1>4, <2>1, <2>2 DEF IndInv, TypeOK
<1>6. NoRecordSkipped'
  BY <1>1, <1>4, ResolveStep
<1>7. PositionsCovered'
  <2>1. CASE UNCHANGED position
    BY <1>4, <2>1 DEF IndInv, PositionsCovered, Resolved
  <2>2. CASE position' = [position EXCEPT ![r] = @ + 1] /\ position[r] \in handled' \union dead'
    <3> SUFFICES ASSUME NEW q \in Runners, NEW o \in Offsets, o < position'[q]
                 PROVE  Resolved(o)'
      BY DEF PositionsCovered, Resolved
    <3>1. CASE q # r
      BY <1>4, <2>2, <3>1 DEF IndInv, TypeOK, PositionsCovered, Resolved
    <3>2. CASE q = r
      <4>1. o < position[r] \/ o = position[r]
        BY <1>1, <2>2, <3>2, ConsumerAssumption DEF IndInv, TypeOK, Offsets
      <4> QED
        BY <1>4, <2>2, <4>1 DEF IndInv, PositionsCovered, Resolved
    <3> QED
      BY <3>1, <3>2
  <2> QED
    BY <1>3, <2>1, <2>2
<1>8. OutcomesFit'
  <2>1. /\ \A o \in handled' : content'[o] = "processable"
        /\ \A o \in dead' : content'[o] # "processable"
    BY <1>4 DEF IndInv, OutcomesFit
  <2>2. ASSUME NEW q \in Runners, pc'[q] \in {"handling", "rejecting"}
        PROVE  /\ position'[q] \in Offsets
               /\ pc'[q] = "rejecting" => content'[position'[q]] # "processable"
    <3>1. CASE q = r
      BY <1>1, <1>3, <1>4, <2>2, <3>1 DEF IndInv, TypeOK
    <3>2. CASE q # r
      BY <1>3, <1>4, <2>2, <3>2 DEF IndInv, TypeOK, OutcomesFit, Record
    <3> QED
      BY <3>1, <3>2
  <2> QED
    BY <2>1, <2>2 DEF OutcomesFit, Record
<1> QED
  BY <1>5, <1>6, <1>7, <1>8 DEF IndInv

LEMMA NextIndInv == IndInv /\ [Next]_vars => IndInv'
<1> SUFFICES ASSUME IndInv, [Next]_vars PROVE IndInv'
  OBVIOUS
<1>1. CASE UNCHANGED vars
  BY <1>1
  DEF vars, IndInv, TypeOK, PositionsCovered, NoRecordSkipped, OutcomesFit, Resolved, Record
<1> QED
  BY <1>1, LifeStep, AssignStep, CommitStep, ProcessStep DEF Next

\* IndInv holds of KafkaConsumerRunner however runners, Kafka and failures interleave.
THEOREM RunnersConsistent == Spec => []IndInv
BY InitIndInv, NextIndInv, PTL DEF Spec

\* A committed record was handled or dead-lettered, and so was every record before one
\* that was (packages/messaging, processKafkaRecord rethrows what it cannot resolve).
THEOREM NothingSkipped == Spec => []NoRecordSkipped
<1>1. IndInv => NoRecordSkipped
  BY DEF IndInv
<1> QED
  BY <1>1, RunnersConsistent, PTL

\* The classification of errors in processKafkaRecord costs no message and forgets none:
\* what is committed has taken effect if it can, and is on the dead letter topic if not.
THEOREM CommittedDone == Spec => []CommittedRecordsDone
<1>1. IndInv => CommittedRecordsDone
  BY DEF IndInv, NoRecordSkipped, OutcomesFit, CommittedRecordsDone, Resolved
<1> QED
  BY <1>1, RunnersConsistent, PTL

-----------------------------------------------------------------------------
(* The runners deliver.                                                    *)

\* When a runner is at a record, every earlier one is done with.
LEMMA RecordIsDue ==
  ASSUME IndInv, NEW r \in Runners, Record(r) \in Offsets
  PROVE  Partition!Due(Record(r))
BY DEF IndInv, PositionsCovered, Resolved, Record, Offsets, Partition!Due, Partition!Resolved,
   Partition!Offsets

\* Whatever a runner does with its record, the partition sees it take effect, put aside,
\* or nothing.
LEMMA ProcessDelivers ==
  ASSUME IndInv, NEW r \in Runners, Process(r)
  PROVE  [Partition!Next]_(Partition!deliveryVars)
<1> USE DEF Partition!Next, Partition!deliveryVars
<1> DEFINE processable == { o \in Offsets : content[o] = "processable" }
<1>1. /\ Record(r) \in Offsets
      /\ pc[r] = "rejecting" => Record(r) \notin processable
  BY DEF IndInv, OutcomesFit, Process, Handle, Fail, PublishDeadLetter, PublishDeadLetterFails
<1>2. Record(r) \in Partition!Offsets /\ Partition!Due(Record(r))
  BY <1>1, RecordIsDue DEF Offsets, Partition!Offsets
<1>3. CASE Handle(r) \/ \E error \in Errors : Fail(r, error)
  <2>1. /\ UNCHANGED content /\ dead' = dead
        /\ \/ handled' = handled
           \/ Record(r) \in processable /\ handled' = handled \union {Record(r)}
    BY <1>1, <1>3 DEF Handle, Fail
  <2>2. Partition!Handle(Record(r)) \/ UNCHANGED Partition!deliveryVars
    BY <1>2, <2>1 DEF Partition!Handle
  <2> QED
    BY <1>2, <2>2
<1>4. CASE PublishDeadLetter(r) \/ PublishDeadLetterFails(r)
  <2>1. /\ pc[r] = "rejecting" /\ UNCHANGED <<content, handled>>
        /\ dead' = dead \/ dead' = dead \union {Record(r)}
    BY <1>4 DEF PublishDeadLetter, PublishDeadLetterFails
  <2>2. Partition!PutAside(Record(r)) \/ UNCHANGED Partition!deliveryVars
    BY <1>1, <1>2, <2>1 DEF Partition!PutAside
  <2> QED
    BY <1>2, <2>2
<1> QED
  BY <1>3, <1>4 DEF Process

\* KafkaConsumerRunner and processKafkaRecord deliver as the saga assumes, as far as
\* safety goes: in order, each record to its handler or to the dead letter topic, whoever
\* has the partition and however often a record is tried.
THEOREM DeliverySafe == Spec => Partition!SafeSpec
<1>1. Init => Partition!Init
  BY DEF Init, Partition!Init, Offsets, Partition!Offsets
<1>2. ASSUME IndInv, [Next]_vars
      PROVE  [Partition!Next]_(Partition!deliveryVars)
  <2>1. ASSUME NEW r \in Runners,
               \/ Start(r) \/ Connect(r) \/ ConnectFails(r) \/ Stop(r) \/ GoDeaf(r)
               \/ Assign(r) \/ Commit(r) \/ Deliver(r)
        PROVE  UNCHANGED Partition!deliveryVars
    BY <2>1 DEF Start, Connect, ConnectFails, Stop, GoDeaf, Assign, Commit, Deliver,
      Partition!deliveryVars
  <2>2. CASE UNCHANGED vars
    BY <2>2 DEF vars, Partition!deliveryVars
  <2> QED
    BY <1>2, <2>1, <2>2, ProcessDelivers DEF Next
<1> QED
  BY <1>1, <1>2, RunnersConsistent, PTL DEF Spec, Partition!SafeSpec

=============================================================================
