-------------------------- MODULE EventCacheProofs --------------------------
(***************************************************************************)
(* How stale the cache of an event can be, for any number of readers and   *)
(* changes, any life of a key and any delay of a reader.                   *)
(***************************************************************************)
EXTENDS EventCache, TLAPS

\* TypeOK in two halves, one for each kind of prover.
Flags == deleted \in BOOLEAN /\ excused \in BOOLEAN

Types ==
  /\ version \in Versions
  /\ cached \in Versions \union {None}
  /\ ttl \in 0..TTL
  /\ cached = None <=> ttl = 0
  /\ pending \in Nat
  /\ pc \in [Readers -> {"idle", "query", "fill"}]
  /\ held \in [Readers -> Versions \union {None}]
  /\ waited \in [Readers -> 0..Delay]
  /\ age \in [Versions -> 0..Horizon]

LEMMA TypeHalves == TypeOK <=> Flags /\ Types
BY DEF TypeOK, Flags, Types

LEMMA HorizonIsNat == Horizon \in Nat /\ Horizon > 0
BY EventCacheAssumption DEF Horizon

LEMMA InitIndInv == Init => IndInv
<1> SUFFICES ASSUME Init PROVE IndInv
  OBVIOUS
<1>1. Flags
  BY Zenon DEF Init, Flags
<1>2. Types
  BY EventCacheAssumption, HorizonIsNat DEF Init, Types
<1>3. HeldBounded /\ StalenessBounded /\ StalenessExplained
  BY EventCacheAssumption DEF Init, HeldBounded, StalenessBounded, StalenessExplained
<1> QED
  BY <1>1, <1>2, <1>3, TypeHalves DEF IndInv

-----------------------------------------------------------------------------
(* Steps.                                                                  *)

\* A step of a reader that does not reach the cache: it may have read the current state.
LEMMA ReaderStep ==
  ASSUME IndInv, NEW r \in Readers, Get(r) \/ Query(r)
  PROVE  IndInv'
<1>1. TypeOK'
  BY EventCacheAssumption DEF IndInv, TypeOK, Get, Query, dbVars, cacheVars, readerVars, Horizon
<1>2. HeldBounded'
  BY EventCacheAssumption
  DEF IndInv, TypeOK, HeldBounded, Get, Query, dbVars, readerVars, Horizon
<1>3. StalenessBounded' /\ StalenessExplained'
  BY DEF IndInv, StalenessBounded, StalenessExplained, Current, Get, Query, dbVars, cacheVars
<1> QED
  BY <1>1, <1>2, <1>3 DEF IndInv

\* What is filled in is at most Delay ticks out of date.
LEMMA FillStep ==
  ASSUME IndInv, NEW r \in Readers, Fill(r)
  PROVE  IndInv'
<1>1. /\ held[r] \in Versions /\ held[r] # None
      /\ age[held[r]] \in Nat /\ waited[r] \in Nat
      /\ age[held[r]] <= waited[r] /\ waited[r] <= Delay
  <2>1. held[r] \in Versions /\ age[held[r]] <= waited[r]
    BY DEF IndInv, HeldBounded, Fill
  <2>2. age[held[r]] \in Nat /\ waited[r] \in 0..Delay
    BY <2>1, TypeHalves DEF IndInv, Types
  <2>3. held[r] # None
    BY <2>1, EventCacheAssumption, Zenon
  <2>4. waited[r] \in Nat /\ waited[r] <= Delay
    BY <2>2, EventCacheAssumption
  <2> QED
    BY <2>1, <2>2, <2>3, <2>4
<1>2. Flags'
  BY Zenon DEF IndInv, TypeOK, Flags, Fill, dbVars, Current
<1>3. CASE UNCHANGED <<cacheVars, excused>>
  <2>1. Types'
    BY <1>1, <1>3, TypeHalves, EventCacheAssumption
    DEF IndInv, Types, Fill, dbVars, cacheVars, Horizon
  <2>2. HeldBounded'
    BY DEF IndInv, TypeOK, HeldBounded, Fill, dbVars
  <2>3. StalenessBounded' /\ StalenessExplained'
    BY <1>3 DEF IndInv, StalenessBounded, StalenessExplained, Current, Fill, dbVars, cacheVars
  <2> QED
    BY <1>2, <2>1, <2>2, <2>3, TypeHalves DEF IndInv, TypeOK, Flags, Types
<1>4. CASE cached' = held[r] /\ ttl' = TTL /\ excused' = ~Current(held[r])
  <2>1. Types'
    <3>1. /\ version' = version /\ pending' = pending /\ age' = age
          /\ cached' = held[r] /\ ttl' = TTL
      BY <1>4 DEF Fill, dbVars
    <3>2. /\ pc' \in [Readers -> {"idle", "query", "fill"}]
          /\ held' \in [Readers -> Versions \union {None}]
          /\ waited' \in [Readers -> 0..Delay]
      BY EventCacheAssumption DEF IndInv, TypeOK, Fill
    <3> QED
      BY <1>1, <3>1, <3>2, TypeHalves, EventCacheAssumption DEF IndInv, Types, Horizon
  <2>2. HeldBounded'
    BY DEF IndInv, TypeOK, HeldBounded, Fill, dbVars
  <2>3. StalenessBounded'
    <3>1. cached' = held[r] /\ ttl' = TTL /\ age' = age
      BY <1>4 DEF Fill
    <3> QED
      BY <1>1, <3>1, EventCacheAssumption DEF StalenessBounded
  <2>4. StalenessExplained'
    BY <1>4, Zenon DEF StalenessExplained, Current, Fill, dbVars
  <2> QED
    BY <1>2, <2>1, <2>2, <2>3, <2>4, TypeHalves DEF IndInv, TypeOK, Flags, Types
<1> QED
  BY <1>3, <1>4 DEF Fill

\* A commit leaves the deletion of the key pending.
LEMMA WriteStep ==
  ASSUME IndInv, Change \/ Delete
  PROVE  IndInv'
<1>1. TypeOK'
  <2>1. Flags'
    BY Zenon DEF IndInv, TypeOK, Flags, Change, Delete
  <2>2. Types'
    BY TypeHalves, EventCacheAssumption
    DEF IndInv, Types, Change, Delete, cacheVars, readerVars, Horizon
  <2> QED
    BY <2>1, <2>2 DEF TypeOK, Flags, Types
<1>2. HeldBounded'
  BY EventCacheAssumption DEF IndInv, TypeOK, HeldBounded, Change, Delete, readerVars
<1>3. StalenessBounded'
  BY DEF IndInv, StalenessBounded, Change, Delete, cacheVars
<1>4. StalenessExplained'
  BY DEF IndInv, TypeOK, StalenessExplained, Change, Delete
<1> QED
  BY <1>1, <1>2, <1>3, <1>4 DEF IndInv

LEMMA InvalidateStep ==
  ASSUME IndInv, Invalidate
  PROVE  IndInv'
<1>1. TypeOK'
  <2>1. Flags'
    BY Zenon DEF IndInv, TypeOK, Flags, Invalidate, dbVars
  <2>2. Types'
    BY TypeHalves, EventCacheAssumption
    DEF IndInv, Types, Invalidate, dbVars, cacheVars, readerVars, Horizon
  <2> QED
    BY <2>1, <2>2 DEF TypeOK, Flags, Types
<1>2. HeldBounded'
  BY DEF IndInv, HeldBounded, Invalidate, dbVars, readerVars
<1>3. StalenessBounded' /\ StalenessExplained'
  BY DEF IndInv, StalenessBounded, StalenessExplained, Invalidate, cacheVars
<1> QED
  BY <1>1, <1>2, <1>3 DEF IndInv

\* The clock moves the age of the cached state and the life of its key by the same tick.
LEMMA TickStep ==
  ASSUME IndInv, Tick
  PROVE  IndInv'
<1>1. \A v \in Versions : age[v] \in Nat /\ age'[v] \in Nat /\ age'[v] <= age[v] + 1
  BY EventCacheAssumption DEF IndInv, TypeOK, Tick, Horizon
<1>2. TypeOK'
  BY EventCacheAssumption DEF IndInv, TypeOK, Tick, dbVars, Horizon
<1>3. HeldBounded'
  <2>1. ASSUME NEW r \in Readers, pc'[r] = "fill"
        PROVE  held'[r] \in Versions /\ age'[held'[r]] <= waited'[r]
    <3>1. pc[r] = "fill" /\ held'[r] = held[r] /\ held[r] \in Versions
      BY <2>1 DEF Tick, IndInv, HeldBounded
    <3>2. waited'[r] = waited[r] + 1 /\ waited[r] \in Nat /\ age[held[r]] <= waited[r]
      BY <3>1, EventCacheAssumption DEF Tick, IndInv, TypeOK, HeldBounded
    <3> QED
      BY <1>1, <3>1, <3>2
  <2>2. ASSUME NEW v \in Versions, v >= version', ~deleted'
        PROVE  age'[v] = 0
    BY <2>2, EventCacheAssumption DEF IndInv, TypeOK, HeldBounded, Tick, dbVars
  <2> QED
    BY <2>1, <2>2 DEF HeldBounded
<1>4. StalenessBounded'
  BY <1>1, EventCacheAssumption DEF IndInv, TypeOK, StalenessBounded, Tick
<1>5. StalenessExplained'
  BY EventCacheAssumption DEF IndInv, TypeOK, StalenessExplained, Current, Tick, dbVars
<1> QED
  BY <1>2, <1>3, <1>4, <1>5 DEF IndInv

LEMMA NextIndInv == IndInv /\ [Next]_vars => IndInv'
<1> SUFFICES ASSUME IndInv, [Next]_vars PROVE IndInv'
  OBVIOUS
<1>1. ASSUME NEW r \in Readers, Get(r) \/ Query(r) PROVE IndInv'
  BY <1>1, ReaderStep
<1>2. ASSUME NEW r \in Readers, Fill(r) PROVE IndInv'
  BY <1>2, FillStep
<1>3. CASE UNCHANGED vars
  BY <1>3
  DEF vars, dbVars, cacheVars, readerVars, IndInv, TypeOK, HeldBounded, StalenessBounded,
      StalenessExplained, Current
<1> QED
  BY <1>1, <1>2, <1>3, WriteStep, InvalidateStep, TickStep DEF Next

\* IndInv holds of event.service.ts and inventory.service.ts however their calls
\* overlap, fail or get lost.
THEOREM CacheConsistent == Spec => []IndInv
BY InitIndInv, NextIndInv, PTL DEF Spec

\* A superseded state of an event is in the cache for TTL ticks and the delay of the
\* slowest fill at most (event.service.ts, getEventById and setCached).
THEOREM StaleForABoundedTime == Spec => []StalenessBounded
<1>1. IndInv => StalenessBounded
  BY DEF IndInv
<1> QED
  BY <1>1, CacheConsistent, PTL

\* It is there because its deletion from the cache is to come or was lost, or because a
\* fill was overtaken (event.service.ts:66, inventory.service.ts, invalidateCache).
THEOREM StaleForAReason == Spec => []StalenessExplained
<1>1. IndInv => StalenessExplained
  BY DEF IndInv
<1> QED
  BY <1>1, CacheConsistent, PTL

=============================================================================
