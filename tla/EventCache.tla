----------------------------- MODULE EventCache -----------------------------
(***************************************************************************)
(* The cache of one event: GET /events/:id reads Redis first, then the     *)
(* database, and fills the cache; whatever changes the event commits and   *)
(* then deletes the key.  Nothing orders a fill after the deletion it      *)
(* should precede, every call to Redis may fail or take effect without an  *)
(* answer, and a process may stop between its commit and its deletion.     *)
(* What is left is the expiry of the key.                                  *)
(***************************************************************************)
EXTENDS Naturals

CONSTANTS
  Readers,      \* requests for the event in progress at the same time
  Versions,     \* states of the event's row, in the order of its changes
  FirstVersion,
  TTL,          \* CACHE_TTL_SECONDS, in ticks of the clock
  Delay,        \* the ticks that may pass between a reader's query and its fill
  None          \* no such key

ASSUME EventCacheAssumption ==
  /\ Versions \subseteq Nat
  /\ FirstVersion \in Versions
  /\ TTL \in Nat \ {0}
  /\ Delay \in Nat
  /\ None \notin Nat

VARIABLES
  version,  \* the state of the event's row
  deleted,  \* the row is gone
  cached,   \* the state under the key of the event
  ttl,      \* the ticks after which the key expires
  pending,  \* commits whose deletion of the key is still to come
  pc,       \* what a reader does next
  held,     \* the state it read from the database
  waited,   \* the ticks that passed since
  age,      \* the ticks since a state was superseded: read by the properties only
  excused   \* why the key may be out of date: read by the properties only

dbVars == <<version, deleted>>
cacheVars == <<cached, ttl>>
readerVars == <<pc, held, waited>>
vars == <<dbVars, cacheVars, pending, readerVars, age, excused>>

Current(v) == v = version /\ ~deleted

\* The ages are counted up to this bound, one more than any property looks at.
Horizon == TTL + Delay + 1

TypeOK ==
  /\ version \in Versions
  /\ deleted \in BOOLEAN
  /\ cached \in Versions \union {None}
  /\ ttl \in 0..TTL
  /\ cached = None <=> ttl = 0
  /\ pending \in Nat
  /\ pc \in [Readers -> {"idle", "query", "fill"}]
  /\ held \in [Readers -> Versions \union {None}]
  /\ waited \in [Readers -> 0..Delay]
  /\ age \in [Versions -> 0..Horizon]
  /\ excused \in BOOLEAN

Init ==
  /\ version = FirstVersion
  /\ deleted = FALSE
  /\ cached = None
  /\ ttl = 0
  /\ pending = 0
  /\ pc = [r \in Readers |-> "idle"]
  /\ held = [r \in Readers |-> None]
  /\ waited = [r \in Readers |-> 0]
  /\ age = [v \in Versions |-> 0]
  /\ excused = FALSE

-----------------------------------------------------------------------------
(* Readers: getEventById.                                                  *)

\* A service that prolongs the life of a key whenever it is read.
GetProlonging(r) ==
  /\ pc[r] = "idle"
  /\ \/ cached # None /\ ttl' = TTL /\ UNCHANGED readerVars
     \/ pc' = [pc EXCEPT ![r] = "query"] /\ UNCHANGED <<ttl, held, waited>>
  /\ UNCHANGED <<dbVars, cached, pending, age, excused>>

\* getCached: a hit is the answer, a miss or an error leads to the database.
Get(r) ==
  /\ pc[r] = "idle"
  /\ \/ cached # None /\ UNCHANGED readerVars
     \/ pc' = [pc EXCEPT ![r] = "query"] /\ UNCHANGED <<held, waited>>
  /\ UNCHANGED <<dbVars, cacheVars, pending, age, excused>>

\* A service that caches what it found before it looks whether it found it.
QueryUnchecked(r) ==
  /\ pc[r] = "query"
  /\ pc' = [pc EXCEPT ![r] = "fill"]
  /\ held' = [held EXCEPT ![r] = IF deleted THEN None ELSE version]
  /\ waited' = [waited EXCEPT ![r] = 0]
  /\ UNCHANGED <<dbVars, cacheVars, pending, age, excused>>

\* findById: an event that is gone is answered with 404.  An error ends the request.
Query(r) ==
  /\ pc[r] = "query"
  /\ \/ /\ ~deleted
        /\ pc' = [pc EXCEPT ![r] = "fill"]
        /\ held' = [held EXCEPT ![r] = version]
        /\ waited' = [waited EXCEPT ![r] = 0]
     \/ pc' = [pc EXCEPT ![r] = "idle"] /\ UNCHANGED <<held, waited>>
  /\ UNCHANGED <<dbVars, cacheVars, pending, age, excused>>

\* setCached: the key is set with its full life, or, after an error that is
\* swallowed or a process that stopped, it is not.
Fill(r) ==
  /\ pc[r] = "fill"
  /\ \/ /\ cached' = held[r]
        /\ ttl' = TTL
        /\ excused' = ~Current(held[r])
     \/ UNCHANGED <<cacheVars, excused>>
  /\ pc' = [pc EXCEPT ![r] = "idle"]
  /\ held' = [held EXCEPT ![r] = None]
  /\ waited' = [waited EXCEPT ![r] = 0]
  /\ UNCHANGED <<dbVars, pending, age>>

-----------------------------------------------------------------------------
(* Writers: updateEvent, deleteEvent, reserveSeats, releaseSeats.          *)

\* A handler that forgets the cache.
ChangeSilently ==
  /\ ~deleted
  /\ version + 1 \in Versions
  /\ version' = version + 1
  /\ UNCHANGED <<deleted, cacheVars, pending, readerVars, age, excused>>

\* The commit of an update, a reservation or a release.
Change ==
  /\ ~deleted
  /\ version + 1 \in Versions
  /\ version' = version + 1
  /\ pending' = pending + 1
  /\ UNCHANGED <<deleted, cacheVars, readerVars, age, excused>>

\* The commit of a deletion.
Delete ==
  /\ ~deleted
  /\ deleted' = TRUE
  /\ pending' = pending + 1
  /\ UNCHANGED <<version, cacheVars, readerVars, age, excused>>

\* invalidateCached, invalidateCache: the key is deleted, or an error is swallowed, or
\* the process has stopped after its commit.  Nobody comes back to it: the redelivered
\* message is a duplicate, and its handler returns before it would delete the key.
Invalidate ==
  /\ pending > 0
  /\ pending' = pending - 1
  /\ \/ cached' = None /\ ttl' = 0 /\ excused' = FALSE
     \/ UNCHANGED cacheVars /\ excused' = TRUE
  /\ UNCHANGED <<dbVars, readerVars, age>>

-----------------------------------------------------------------------------
\* The clock: Redis counts down the life of the key.
Tick ==
  /\ \A r \in Readers : pc[r] = "fill" => waited[r] < Delay
  /\ waited' = [r \in Readers |-> IF pc[r] = "fill" THEN waited[r] + 1 ELSE waited[r]]
  /\ age' = [v \in Versions |-> IF (v < version \/ deleted) /\ age[v] < Horizon
                                THEN age[v] + 1 ELSE age[v]]
  /\ ttl' = IF ttl = 0 THEN 0 ELSE ttl - 1
  /\ cached' = IF ttl = 1 THEN None ELSE cached
  /\ excused' = (excused /\ ttl # 1)
  /\ UNCHANGED <<dbVars, pending, pc, held>>

Next ==
  \/ \E r \in Readers : Get(r) \/ Query(r) \/ Fill(r)
  \/ Change \/ Delete \/ Invalidate
  \/ Tick

Spec == Init /\ [][Next]_vars

\* Time passes, and a request that has read the database does not hang for ever.
\* Nobody is obliged to read, to write or to invalidate.
Fairness == WF_vars(Tick) /\ \A r \in Readers : WF_vars(Fill(r))

FairSpec == Spec /\ Fairness

-----------------------------------------------------------------------------
(* Properties.                                                             *)

\* What a reader is about to fill in was current when it asked the database, and a
\* state that is current has no age.
HeldBounded ==
  /\ \A r \in Readers :
       pc[r] = "fill" => held[r] \in Versions /\ age[held[r]] <= waited[r]
  /\ \A v \in Versions : v >= version /\ ~deleted => age[v] = 0

\* Whatever fails and however reads and writes overlap, a state that is no longer the
\* event's can be read from the cache only for TTL ticks, and the delay of the slowest
\* fill, after it was superseded.  A hit that prolongs the key, or a key set without
\* its life, would serve it for ever.
StalenessBounded == cached # None => age[cached] + ttl <= TTL + Delay

\* Only two things leave a superseded state in the cache: a deletion of the key that is
\* still to come or was lost, and a fill that was overtaken by a change.
StalenessExplained == cached # None /\ ~Current(cached) => pending > 0 \/ excused

\* The inductive invariant: the age of what is cached is bounded because the age of what
\* readers hold is.
IndInv == TypeOK /\ HeldBounded /\ StalenessBounded /\ StalenessExplained

\* Once nothing changes the event any more, readers end up with its last state, even if
\* every deletion of the key was lost and readers never stop asking.
FreshAtLast == <>[](cached = None \/ Current(cached))

=============================================================================
