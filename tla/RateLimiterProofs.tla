------------------------- MODULE RateLimiterProofs -------------------------
(***************************************************************************)
(* What the rate limiter promises for any clients, limits, windows and     *)
(* sizes of the store: the store is bounded and ordered, and no burst      *)
(* reaches twice the limit.                                                *)
(***************************************************************************)
EXTENDS RateLimiter, FiniteSetTheorems, WellFoundedInduction, TLAPS

-----------------------------------------------------------------------------
(* The store.                                                              *)

\* Some entry is the oldest.
LEMMA OldestExists ==
  ASSUME NEW m, IsFiniteSet(DOMAIN m), DOMAIN m # {}, Ordered(m)
  PROVE  \E c \in DOMAIN m : m[c].older = {}
<1> DEFINE S == DOMAIN m
           T == { m[c].older : c \in S }
<1>1. T \subseteq FiniteSubsetsOf(S) /\ T # {}
  BY FS_Subset DEF Ordered, FiniteSubsetsOf
<1>2. PICK x \in T : \A y \in T : <<y, x>> \notin StrictSubsetOrdering(S)
  BY <1>1, FS_StrictSubsetOrderingWellFounded, WFMin
<1>3. PICK c \in S : x = m[c].older
  OBVIOUS
<1>4. ASSUME NEW d \in x
      PROVE  FALSE
  <2>1. /\ d \in S
        /\ m[d].older \in T
        /\ m[d].older \subseteq x
        /\ d \notin m[d].older
    BY <1>3, <1>4 DEF Ordered
  <2>2. <<m[d].older, x>> \in StrictSubsetOrdering(S)
    BY <1>4, <2>1, <1>3 DEF StrictSubsetOrdering, Ordered
  <2> QED
    BY <1>2, <2>1, <2>2
<1> QED
  BY <1>3, <1>4

\* Keep takes entries out and leaves the rest as it is.
LEMMA KeepStore ==
  ASSUME NEW m, Store(m), NEW kept \in SUBSET DOMAIN m
  PROVE  /\ Store(Keep(m, kept))
         /\ DOMAIN Keep(m, kept) = kept
         /\ \A c \in kept : /\ Keep(m, kept)[c].count = m[c].count
                            /\ Keep(m, kept)[c].left = m[c].left
<1> DEFINE n == Keep(m, kept)
<1>1. DOMAIN n = kept /\ kept \subseteq Clients
  BY DEF Keep, Store
<1>2. \A c \in kept : /\ m[c] \in Entries
                      /\ n[c] \in Entries
                      /\ n[c].count = m[c].count
                      /\ n[c].left = m[c].left
                      /\ n[c].older = m[c].older \intersect kept
  BY DEF Keep, Store, Entries
<1>3. n \in [DOMAIN n -> Entries]
  BY <1>1, <1>2 DEF Keep
<1>4. Ordered(n)
  BY <1>1, <1>2 DEF Ordered, Store
<1>5. IsFiniteSet(DOMAIN n) /\ Cardinality(DOMAIN n) <= MaxEntries
  <2>1. /\ IsFiniteSet(kept)
        /\ Cardinality(kept) <= Cardinality(DOMAIN m)
    BY FS_Subset DEF Store
  <2>2. Cardinality(kept) \in Nat /\ Cardinality(DOMAIN m) \in Nat
    BY <2>1, FS_CardinalityType DEF Store
  <2> QED
    BY <1>1, <2>1, <2>2, RateLimiterAssumption DEF Store
<1> QED
  BY <1>1, <1>2, <1>3, <1>4, <1>5 DEF Store

\* There is room for one more entry in Room(m), and what it keeps is unchanged.
LEMMA RoomStore ==
  ASSUME NEW m, Store(m)
  PROVE  /\ Store(Room(m))
         /\ DOMAIN Room(m) \subseteq DOMAIN m
         /\ Cardinality(DOMAIN Room(m)) < MaxEntries
         /\ \A c \in DOMAIN Room(m) : /\ Room(m)[c].count = m[c].count
                                      /\ Room(m)[c].left = m[c].left
<1>1. IsFiniteSet(DOMAIN m) /\ Cardinality(DOMAIN m) \in Nat /\ MaxEntries \in Nat \ {0}
  BY FS_CardinalityType, RateLimiterAssumption DEF Store
<1>2. CASE Cardinality(DOMAIN m) >= MaxEntries
  <2> DEFINE kept == { c \in DOMAIN m : m[c].older # {} }
  <2>1. Room(m) = Keep(m, kept)
    BY <1>2 DEF Room
  <2>2. PICK oldest \in DOMAIN m : m[oldest].older = {}
    <3>1. DOMAIN m # {}
      BY <1>1, <1>2, FS_EmptySet
    <3> QED
      BY <1>1, <3>1, OldestExists DEF Store
  <2>3. Cardinality(kept) < MaxEntries
    <3>1. kept \subseteq DOMAIN m \ {oldest}
      BY <2>2
    <3>2. /\ IsFiniteSet(DOMAIN m \ {oldest})
          /\ Cardinality(DOMAIN m \ {oldest}) = Cardinality(DOMAIN m) - 1
      BY <1>1, <2>2, FS_RemoveElement
    <3>3. /\ IsFiniteSet(kept)
          /\ Cardinality(kept) <= Cardinality(DOMAIN m \ {oldest})
      BY <3>1, <3>2, FS_Subset
    <3>4. Cardinality(kept) \in Nat
      BY <3>3, FS_CardinalityType
    <3> QED
      BY <1>1, <3>2, <3>3, <3>4 DEF Store
  <2>4. kept \in SUBSET DOMAIN m
    OBVIOUS
  <2> HIDE DEF kept
  <2> QED
    BY <2>1, <2>3, <2>4, KeepStore
<1>3. CASE ~(Cardinality(DOMAIN m) >= MaxEntries)
  BY <1>1, <1>3 DEF Room
<1> QED
  BY <1>2, <1>3

\* A new entry comes last.
LEMMA PutStore ==
  ASSUME NEW m, Store(m), Cardinality(DOMAIN m) < MaxEntries,
         NEW c \in Clients \ DOMAIN m,
         NEW e \in Entries, e.older = DOMAIN m
  PROVE  Store(Put(m, c, e))
<1> DEFINE n == Put(m, c, e)
<1>1. /\ DOMAIN n = DOMAIN m \union {c}
      /\ n[c] = e
      /\ \A d \in DOMAIN m : n[d] = m[d]
  BY DEF Put
<1>2. DOMAIN n \subseteq Clients /\ n \in [DOMAIN n -> Entries]
  BY <1>1 DEF Store, Put
<1>3. Ordered(n)
  BY <1>1 DEF Ordered, Store
<1>4. IsFiniteSet(DOMAIN n) /\ Cardinality(DOMAIN n) <= MaxEntries
  <2>1. /\ IsFiniteSet(DOMAIN m \union {c})
        /\ Cardinality(DOMAIN m \union {c}) = Cardinality(DOMAIN m) + 1
    BY FS_AddElement DEF Store
  <2>2. Cardinality(DOMAIN m) \in Nat /\ MaxEntries \in Nat
    BY FS_CardinalityType, RateLimiterAssumption DEF Store
  <2> QED
    BY <1>1, <2>1, <2>2
<1> QED
  BY <1>2, <1>3, <1>4 DEF Store

\* A change of counts and ends keeps the store and its order.
LEMMA ChangeStore ==
  ASSUME NEW m, Store(m), NEW n \in [DOMAIN m -> Entries],
         \A c \in DOMAIN m : n[c].older = m[c].older
  PROVE  Store(n)
<1>1. DOMAIN n = DOMAIN m
  OBVIOUS
<1>2. Ordered(n)
  BY <1>1 DEF Ordered, Store
<1> QED
  BY <1>1, <1>2 DEF Store

-----------------------------------------------------------------------------
(* The ages of the requests that passed.                                   *)

Ages(length) == [Clients -> [Latest -> 0..length]]

LEMMA CountsTyped ==
  ASSUME NEW n \in 0..(MaxRequests + 1)
  PROVE  /\ Capped(n + 1) \in 1..(MaxRequests + 1)
         /\ PassedOf(n) \in 0..MaxRequests
         /\ n > 0 => PassedOf(n) > 0
         /\ PassedOf(Capped(n + 1)) = IF Passes(n + 1) THEN PassedOf(n) + 1 ELSE PassedOf(n)
BY RateLimiterAssumption DEF Capped, PassedOf, Passes

\* A request that passes becomes the latest one.
LEMMA PassedAges ==
  ASSUME NEW length \in Nat, NEW h \in Ages(length), NEW c \in Clients, NEW n
  PROVE  /\ Passed(h, c, n) \in Ages(length)
         /\ \A d \in Clients : d # c \/ ~Passes(n) => Passed(h, c, n)[d] = h[d]
         /\ Passes(n) => \A k \in Latest :
              Passed(h, c, n)[c][k] = IF k = 1 THEN 0 ELSE h[c][k - 1]
         /\ \A k \in Latest : k # 1 => k - 1 \in Latest
<1>1. \A k \in Latest : k \in Int /\ (k # 1 => k - 1 \in Latest)
  BY RateLimiterAssumption DEF Latest
<1>2. 0 \in 0..length
  OBVIOUS
<1>3. CASE Passes(n)
  <2> DEFINE new == [k \in Latest |-> IF k = 1 THEN 0 ELSE h[c][k - 1]]
  <2>1. new \in [Latest -> 0..length]
    BY <1>1, <1>2 DEF Ages
  <2>2. Passed(h, c, n) = [h EXCEPT ![c] = new]
    BY <1>3 DEF Passed
  <2>3. \A k \in Latest : new[k] = IF k = 1 THEN 0 ELSE h[c][k - 1]
    OBVIOUS
  <2> HIDE DEF new
  <2>4. /\ Passed(h, c, n) \in Ages(length)
        /\ Passed(h, c, n)[c] = new
        /\ \A d \in Clients : d # c => Passed(h, c, n)[d] = h[d]
    BY <2>1, <2>2 DEF Ages
  <2> QED
    BY <1>1, <1>3, <2>3, <2>4
<1>4. CASE ~Passes(n)
  BY <1>1, <1>4 DEF Passed
<1> QED
  BY <1>3, <1>4

LEMMA OlderAges ==
  ASSUME NEW length \in Nat, NEW h \in Ages(length)
  PROVE  /\ Older(h, length) \in Ages(length)
         /\ \A c \in Clients : \A k \in Latest :
              Older(h, length)[c][k] = IF h[c][k] < length THEN h[c][k] + 1 ELSE length
<1>1. \A c \in Clients : \A k \in Latest : h[c][k] \in 0..length
  BY DEF Ages
<1> QED
  BY <1>1 DEF Older, Ages

-----------------------------------------------------------------------------
(* Windows in memory.                                                      *)

\* Entries that had ended when the request read the clock can go: their clients'
\* requests are as old as without a window.
LEMMA EndedWindows ==
  ASSUME NEW m, Store(m), NEW h \in Ages(MemoryWindow), WindowsOf(m, h), NEW late \in 0..Lag
  PROVE  WindowsOf(Keep(m, { d \in DOMAIN m : ~Ended(m[d], late) }), h)
<1> DEFINE kept == { d \in DOMAIN m : ~Ended(m[d], late) }
           n == Keep(m, kept)
<1>1. kept \in SUBSET DOMAIN m
  OBVIOUS
<1>2. /\ DOMAIN n = kept
      /\ \A c \in kept : n[c].count = m[c].count /\ n[c].left = m[c].left
  BY <1>1, KeepStore
<1> HIDE DEF n
<1>3. ASSUME NEW c \in DOMAIN m, c \notin kept, NEW k \in Latest, k >= MaxRequests
      PROVE  h[c][k] = MemoryWindow
  <2>1. m[c].left <= -late /\ c \in Clients
    BY <1>3 DEF Ended, Store
  <2>2. m[c] \in Entries
    BY DEF Store
  <2>3. m[c].left \in Int /\ m[c].left <= 0 /\ m[c].count \in 1..(MaxRequests + 1)
    BY <2>1, <2>2, RateLimiterAssumption DEF Entries
  <2>4. k >= PassedOf(m[c].count)
    BY <1>3, <2>3, RateLimiterAssumption DEF Latest, PassedOf, Passes
  <2>5. h[c][k] = MemoryWindow \/ h[c][k] >= MemoryWindow - m[c].left
    BY <2>1, <2>4 DEF WindowsOf
  <2>6. h[c][k] \in 0..MemoryWindow /\ MemoryWindow \in Int
    BY <2>1, RateLimiterAssumption DEF Ages, MemoryWindow
  <2> QED
    BY <2>3, <2>5, <2>6
<1>4. SUFFICES ASSUME NEW c \in Clients, NEW k \in Latest
               PROVE  IF c \in kept
                      THEN /\ k >= PassedOf(n[c].count) =>
                                h[c][k] = MemoryWindow \/ h[c][k] >= MemoryWindow - n[c].left
                           /\ k >= PassedOf(n[c].count) + MaxRequests => h[c][k] = MemoryWindow
                      ELSE k >= MaxRequests => h[c][k] = MemoryWindow
  BY <1>2 DEF WindowsOf, n
<1> QED
  BY <1>2, <1>3 DEF WindowsOf

\* A client that had to make room has no history.
LEMMA RoomWindows ==
  ASSUME NEW m, Store(m), NEW h \in Ages(MemoryWindow), WindowsOf(m, h)
  PROVE  /\ Forget(h, DOMAIN m \ DOMAIN Room(m)) \in Ages(MemoryWindow)
         /\ WindowsOf(Room(m), Forget(h, DOMAIN m \ DOMAIN Room(m)))
<1> DEFINE n == Room(m)
           g == Forget(h, DOMAIN m \ DOMAIN n)
<1>1. /\ DOMAIN n \subseteq DOMAIN m
      /\ \A c \in DOMAIN n : n[c].count = m[c].count /\ n[c].left = m[c].left
  BY RoomStore
<1>2. MemoryWindow \in 0..MemoryWindow
  BY RateLimiterAssumption DEF MemoryWindow
<1>3. g \in Ages(MemoryWindow)
  BY <1>2 DEF Forget, Ages
<1>4. \A c \in Clients : IF c \in DOMAIN m \ DOMAIN n
                         THEN \A k \in Latest : g[c][k] = MemoryWindow
                         ELSE g[c] = h[c]
  BY DEF Forget
<1> HIDE DEF n, g
<1>5. WindowsOf(n, g)
  BY <1>1, <1>4 DEF WindowsOf
<1> QED
  BY <1>3, <1>5 DEF n, g

\* One more request in a window.
LEMMA IncrementWindows ==
  ASSUME NEW m, Store(m), NEW h \in Ages(MemoryWindow), WindowsOf(m, h),
         NEW c \in DOMAIN m
  PROVE  /\ Store([m EXCEPT ![c].count = Capped(@ + 1)])
         /\ WindowsOf([m EXCEPT ![c].count = Capped(@ + 1)], Passed(h, c, m[c].count + 1))
<1> DEFINE n == [m EXCEPT ![c].count = Capped(@ + 1)]
           g == Passed(h, c, m[c].count + 1)
<1>1. c \in Clients /\ \A d \in DOMAIN m : m[d] \in Entries
  BY DEF Store
<1>2. m[c].count \in 1..(MaxRequests + 1) /\ m[c].left \in Int
  BY <1>1 DEF Entries
<1>3. /\ Capped(m[c].count + 1) \in 1..(MaxRequests + 1)
      /\ PassedOf(m[c].count) \in 1..MaxRequests
      /\ PassedOf(Capped(m[c].count + 1)) =
           IF Passes(m[c].count + 1) THEN PassedOf(m[c].count) + 1 ELSE PassedOf(m[c].count)
  BY <1>2, CountsTyped, RateLimiterAssumption
<1>4. /\ n[c] = [m[c] EXCEPT !.count = Capped(m[c].count + 1)]
      /\ \A d \in DOMAIN m : d # c => n[d] = m[d]
      /\ DOMAIN n = DOMAIN m
  BY DEF Store
<1>5. /\ n[c].count = Capped(m[c].count + 1)
      /\ n[c].left = m[c].left
      /\ n[c].older = m[c].older
      /\ n[c] \in Entries
  BY <1>1, <1>3, <1>4 DEF Entries
<1>6. n \in [DOMAIN m -> Entries]
  BY <1>1, <1>4, <1>5 DEF Store
<1>7. Store(n)
  BY <1>4, <1>5, <1>6, ChangeStore
<1>8. MemoryWindow \in Nat
  BY RateLimiterAssumption DEF MemoryWindow
<1>9. /\ \A d \in Clients : d # c \/ ~Passes(m[c].count + 1) => g[d] = h[d]
      /\ Passes(m[c].count + 1) =>
           \A k \in Latest : g[c][k] = IF k = 1 THEN 0 ELSE h[c][k - 1]
      /\ \A k \in Latest : k # 1 => k - 1 \in Latest
  BY <1>1, <1>8, PassedAges
<1> HIDE DEF n, g
<1>10. ASSUME NEW k \in Latest
       PROVE  /\ k >= PassedOf(n[c].count) =>
                   g[c][k] = MemoryWindow \/ g[c][k] >= MemoryWindow - n[c].left
              /\ k >= PassedOf(n[c].count) + MaxRequests => g[c][k] = MemoryWindow
  <2>1. k \in Int /\ MaxRequests \in Nat \ {0}
    BY RateLimiterAssumption DEF Latest
  <2>2. CASE ~Passes(m[c].count + 1)
    BY <1>1, <1>3, <1>5, <1>9, <2>2 DEF WindowsOf
  <2>3. CASE Passes(m[c].count + 1) /\ k = 1
    BY <1>3, <1>5, <2>1, <2>3
  <2>4. CASE Passes(m[c].count + 1) /\ k # 1
    <3>1. k - 1 \in Latest /\ g[c][k] = h[c][k - 1]
      BY <1>9, <2>4
    <3>2. /\ k - 1 >= PassedOf(m[c].count) =>
               h[c][k - 1] = MemoryWindow \/ h[c][k - 1] >= MemoryWindow - m[c].left
          /\ k - 1 >= PassedOf(m[c].count) + MaxRequests => h[c][k - 1] = MemoryWindow
      BY <1>1, <3>1 DEF WindowsOf
    <3> QED
      BY <1>3, <1>5, <2>1, <2>4, <3>1, <3>2
  <2> QED
    BY <2>2, <2>3, <2>4
<1>11. ASSUME NEW d \in Clients, d # c, NEW k \in Latest
       PROVE  IF d \in DOMAIN n
              THEN /\ k >= PassedOf(n[d].count) =>
                        g[d][k] = MemoryWindow \/ g[d][k] >= MemoryWindow - n[d].left
                   /\ k >= PassedOf(n[d].count) + MaxRequests => g[d][k] = MemoryWindow
              ELSE k >= MaxRequests => g[d][k] = MemoryWindow
  <2>1. g[d] = h[d] /\ (d \in DOMAIN n <=> d \in DOMAIN m) /\ (d \in DOMAIN m => n[d] = m[d])
    BY <1>4, <1>9, <1>11
  <2> QED
    BY <2>1 DEF WindowsOf
<1>12. WindowsOf(n, g)
  BY <1>1, <1>4, <1>10, <1>11 DEF WindowsOf
<1> QED
  BY <1>7, <1>12 DEF n, g

\* A new window: the requests of the client's last one are too old to matter.
LEMMA StartWindows ==
  ASSUME NEW m, Store(m), NEW h \in Ages(MemoryWindow), WindowsOf(m, h),
         NEW c \in Clients \ DOMAIN m, NEW e \in Entries, e.count = 1,
         MemoryWindow = 0 \/ e.left >= MemoryWindow
  PROVE  WindowsOf(Put(m, c, e), Passed(h, c, 1))
<1> DEFINE n == Put(m, c, e)
           g == Passed(h, c, 1)
<1>1. /\ DOMAIN n = DOMAIN m \union {c}
      /\ n[c] = e
      /\ \A d \in DOMAIN m : n[d] = m[d]
  BY DEF Put
<1>2. MemoryWindow \in Nat
  BY RateLimiterAssumption DEF MemoryWindow
<1>3. Passes(1) /\ PassedOf(1) = 1
  BY RateLimiterAssumption DEF Passes, PassedOf
<1>4. /\ \A d \in Clients : d # c => g[d] = h[d]
      /\ \A k \in Latest : g[c][k] = IF k = 1 THEN 0 ELSE h[c][k - 1]
      /\ \A k \in Latest : k # 1 => k - 1 \in Latest
  BY <1>2, <1>3, PassedAges
<1>5. g \in Ages(MemoryWindow)
  BY <1>2, PassedAges
<1> HIDE DEF n, g
<1>6. ASSUME NEW k \in Latest
      PROVE  /\ g[c][k] = MemoryWindow \/ g[c][k] >= MemoryWindow - e.left
             /\ k >= 1 + MaxRequests => g[c][k] = MemoryWindow
  <2>1. k \in Int /\ MaxRequests \in Nat \ {0} /\ e.left \in Int
    BY RateLimiterAssumption DEF Latest, Entries
  <2>2. g[c][k] \in 0..MemoryWindow
    BY <1>5 DEF Ages
  <2>3. g[c][k] = MemoryWindow \/ g[c][k] >= MemoryWindow - e.left
    BY <1>2, <2>1, <2>2
  <2>4. ASSUME k >= 1 + MaxRequests
        PROVE  g[c][k] = MemoryWindow
    <3>1. k # 1 /\ k - 1 >= MaxRequests
      BY <2>1, <2>4
    <3>2. k - 1 \in Latest /\ g[c][k] = h[c][k - 1]
      BY <1>4, <3>1
    <3> QED
      BY <3>1, <3>2 DEF WindowsOf
  <2> QED
    BY <2>3, <2>4
<1>7. WindowsOf(n, g)
  BY <1>1, <1>3, <1>4, <1>6 DEF WindowsOf
<1> QED
  BY <1>7 DEF n, g

\* consumeFallback keeps the store and its windows in order.
LEMMA ConsumeFallbackStep ==
  ASSUME IndInv, NEW c \in Clients, NEW late \in 0..Lag, ConsumeFallback(c, late)
  PROVE  Store(memory') /\ memoryAge' \in Ages(MemoryWindow) /\ MemoryWindows'
<1> DEFINE alive == Keep(memory, { d \in DOMAIN memory : ~Ended(memory[d], late) })
           room == Room(alive)
           forgotten == Forget(memoryAge, DOMAIN alive \ DOMAIN room)
           fresh == [count |-> 1, left |-> Window - late, older |-> DOMAIN room]
<1>1. Store(memory) /\ memoryAge \in Ages(MemoryWindow) /\ WindowsOf(memory, memoryAge)
  BY DEF IndInv, TypeOK, MemoryWindows, Ages
<1>2. Store(alive)
  BY <1>1, KeepStore
<1>3. WindowsOf(alive, memoryAge)
  BY <1>1, EndedWindows
<1>4. MemoryWindow \in Nat
  BY RateLimiterAssumption DEF MemoryWindow
<1>5. CASE c \in DOMAIN alive
  <2>1. Increment(alive, c)
    BY <1>5 DEF ConsumeFallback
  <2> HIDE DEF alive
  <2>2. alive[c] \in Entries
    BY <1>2, <1>5 DEF Store
  <2>3. memoryAge' \in Ages(MemoryWindow)
    BY <1>1, <1>4, <2>1, PassedAges DEF Increment
  <2> QED
    BY <1>1, <1>2, <1>3, <1>5, <2>1, <2>3, IncrementWindows DEF Increment, MemoryWindows
<1>6. CASE c \notin DOMAIN alive
  <2>1. StartWindow(alive, room, c, late)
    BY <1>6 DEF ConsumeFallback
  <2> HIDE DEF alive
  <2>2. /\ Store(room)
        /\ DOMAIN room \subseteq DOMAIN alive
        /\ Cardinality(DOMAIN room) < MaxEntries
    BY <1>2, RoomStore
  <2>3. forgotten \in Ages(MemoryWindow) /\ WindowsOf(room, forgotten)
    BY <1>1, <1>2, <1>3, RoomWindows
  <2>4. /\ fresh \in Entries
        /\ fresh.count = 1
        /\ fresh.older = DOMAIN room
        /\ MemoryWindow = 0 \/ fresh.left >= MemoryWindow
    BY <2>2, RateLimiterAssumption DEF Entries, Store, MemoryWindow
  <2>5. memory' = Put(room, c, fresh) /\ memoryAge' = Passed(forgotten, c, 1)
    BY <2>1 DEF StartWindow
  <2>6. c \in Clients \ DOMAIN room
    BY <1>6, <2>2
  <2> HIDE DEF room, forgotten, fresh
  <2>7. Store(memory')
    BY <2>2, <2>4, <2>5, <2>6, PutStore
  <2>8. memoryAge' \in Ages(MemoryWindow)
    BY <1>4, <2>3, <2>5, PassedAges
  <2>9. WindowsOf(memory', memoryAge')
    BY <2>2, <2>3, <2>4, <2>5, <2>6, StartWindows
  <2> QED
    BY <2>7, <2>8, <2>9 DEF MemoryWindows
<1> QED
  BY <1>5, <1>6

-----------------------------------------------------------------------------
(* Windows in Redis.                                                       *)

\* The part of the type invariant that is about Redis.
RedisTyped ==
  /\ count \in [Clients -> 0..(MaxRequests + 1)]
  /\ life \in [Clients -> 0..Window]
  /\ \A c \in Clients : count[c] = 0 <=> life[c] = 0
  /\ age \in Ages(Window)

\* The script counts a request.
LEMMA ScriptStep ==
  ASSUME RedisTyped, NEW c \in Clients, Script(c)
  PROVE  /\ count' \in [Clients -> 0..(MaxRequests + 1)]
         /\ life' \in [Clients -> 0..Window]
         /\ \A d \in Clients : count'[d] = 0 <=> life'[d] = 0
         /\ \A d \in Clients : d # c => count'[d] = count[d] /\ life'[d] = life[d]
         /\ count'[c] = Capped(count[c] + 1)
         /\ life'[c] = IF count[c] = 0 THEN Window ELSE life[c]
<1>1. Capped(count[c] + 1) \in 1..(MaxRequests + 1) /\ MaxRequests \in Nat
  BY CountsTyped, RateLimiterAssumption DEF RedisTyped
<1>2. Window \in Nat \ {0}
  BY RateLimiterAssumption
<1>3. /\ count' = [count EXCEPT ![c] = Capped(count[c] + 1)]
      /\ life' = [life EXCEPT ![c] = IF count[c] = 0 THEN Window ELSE life[c]]
  BY DEF Script
<1> QED
  BY <1>1, <1>2, <1>3 DEF RedisTyped

\* A request that Redis counts leaves the windows right, whether it was let pass or its
\* answer was lost.
LEMMA RedisCounts ==
  ASSUME RedisTyped, RedisWindows, NEW c \in Clients, Script(c),
         age' = age \/ age' = Passed(age, c, count[c] + 1)
  PROVE  RedisTyped' /\ RedisWindows'
<1>1. /\ count' \in [Clients -> 0..(MaxRequests + 1)]
      /\ life' \in [Clients -> 0..Window]
      /\ \A d \in Clients : count'[d] = 0 <=> life'[d] = 0
      /\ \A d \in Clients : d # c => count'[d] = count[d] /\ life'[d] = life[d]
      /\ count'[c] = Capped(count[c] + 1)
      /\ life'[c] = IF count[c] = 0 THEN Window ELSE life[c]
  BY ScriptStep
<1>2. /\ count[c] \in 0..(MaxRequests + 1)
      /\ life[c] \in 0..Window
      /\ Window \in Nat
      /\ MaxRequests \in Nat \ {0}
  BY RateLimiterAssumption DEF RedisTyped
<1>3. age \in Ages(Window) /\ Passed(age, c, count[c] + 1) \in Ages(Window)
  BY <1>2, PassedAges DEF RedisTyped
<1>4. age' \in Ages(Window)
  BY <1>3
<1>5. RedisTyped'
  BY <1>1, <1>4 DEF RedisTyped
<1>6. \A d \in Clients : d # c => age'[d] = age[d]
  BY <1>2, <1>3, PassedAges
<1>7. /\ PassedOf(count[c]) \in 0..MaxRequests
      /\ count[c] > 0 => PassedOf(count[c]) > 0
      /\ PassedOf(count'[c]) =
           IF Passes(count[c] + 1) THEN PassedOf(count[c]) + 1 ELSE PassedOf(count[c])
  BY <1>1, <1>2, CountsTyped
<1>8. ASSUME NEW k \in Latest
      PROVE  /\ k >= PassedOf(count'[c]) => age'[c][k] >= Window - life'[c]
             /\ k >= PassedOf(count'[c]) + MaxRequests => age'[c][k] = Window
  <2>1. k \in Int /\ k >= 1 /\ age'[c][k] \in 0..Window /\ age[c][k] \in 0..Window
    <3>1. k \in Int /\ k >= 1
      BY <1>2 DEF Latest
    <3>2. age'[c][k] \in 0..Window /\ age[c][k] \in 0..Window
      BY <1>3, <1>4 DEF Ages
    <3> QED
      BY <3>1, <3>2
  <2>2. /\ count[c] > 0 /\ k >= PassedOf(count[c]) => age[c][k] >= Window - life[c]
        /\ k >= PassedOf(count[c]) + MaxRequests => age[c][k] = Window
    BY DEF RedisWindows
  <2>3. CASE age'[c] = age[c]
    BY <1>1, <1>2, <1>7, <2>1, <2>2, <2>3
  <2>4. CASE age' = Passed(age, c, count[c] + 1) /\ Passes(count[c] + 1)
    <3>1. /\ age'[c][k] = IF k = 1 THEN 0 ELSE age[c][k - 1]
          /\ k # 1 => k - 1 \in Latest
      BY <1>2, <1>3, <2>4, PassedAges
    <3>2. CASE k = 1
      BY <1>1, <1>2, <1>7, <2>1, <2>4, <3>1, <3>2
    <3>3. CASE k # 1
      <4>1. /\ count[c] > 0 /\ k - 1 >= PassedOf(count[c]) => age[c][k - 1] >= Window - life[c]
            /\ k - 1 >= PassedOf(count[c]) + MaxRequests => age[c][k - 1] = Window
        BY <3>1, <3>3 DEF RedisWindows
      <4> QED
        BY <1>1, <1>2, <1>7, <2>1, <2>4, <3>1, <3>3, <4>1
    <3> QED
      BY <3>2, <3>3
  <2>5. age' = Passed(age, c, count[c] + 1) /\ ~Passes(count[c] + 1) => age'[c] = age[c]
    BY <1>2, <1>3, PassedAges
  <2> QED
    BY <2>3, <2>4, <2>5
<1>9. RedisWindows'
  BY <1>1, <1>6, <1>8 DEF RedisWindows
<1> QED
  BY <1>5, <1>9

-----------------------------------------------------------------------------
(* Time passes.                                                            *)

LEMMA RedisTicks ==
  ASSUME RedisTyped, RedisWindows, Tick
  PROVE  RedisTyped' /\ RedisWindows'
<1>1. Window \in Nat /\ MaxRequests \in Nat \ {0}
  BY RateLimiterAssumption
<1>2. /\ \A c \in Clients : life'[c] = IF life[c] = 0 THEN 0 ELSE life[c] - 1
      /\ \A c \in Clients : count'[c] = IF life[c] <= 1 THEN 0 ELSE count[c]
  BY DEF Tick
<1>3. \A c \in Clients : count[c] \in 0..(MaxRequests + 1) /\ life[c] \in 0..Window
  BY DEF RedisTyped
<1>4. /\ count' \in [Clients -> 0..(MaxRequests + 1)]
      /\ life' \in [Clients -> 0..Window]
      /\ \A c \in Clients : count'[c] = 0 <=> life'[c] = 0
  <2>1. count' \in [Clients -> 0..(MaxRequests + 1)]
    BY <1>1, <1>3 DEF Tick
  <2>2. life' \in [Clients -> 0..Window]
    <3>1. \A c \in Clients : life'[c] \in 0..Window
      BY <1>1, <1>2, <1>3
    <3> QED
      BY <3>1 DEF Tick
  <2>3. \A c \in Clients : count'[c] = 0 <=> life'[c] = 0
    BY <1>1, <1>2, <1>3 DEF RedisTyped
  <2> QED
    BY <2>1, <2>2, <2>3
<1>5. /\ age' \in Ages(Window)
      /\ \A c \in Clients : \A k \in Latest :
           age'[c][k] = IF age[c][k] < Window THEN age[c][k] + 1 ELSE Window
  BY <1>1, OlderAges DEF Tick, RedisTyped
<1>6. ASSUME NEW c \in Clients, NEW k \in Latest
      PROVE  /\ count'[c] > 0 /\ k >= PassedOf(count'[c]) => age'[c][k] >= Window - life'[c]
             /\ k >= PassedOf(count'[c]) + MaxRequests => age'[c][k] = Window
  <2>1. /\ count[c] > 0 /\ k >= PassedOf(count[c]) => age[c][k] >= Window - life[c]
        /\ k >= PassedOf(count[c]) + MaxRequests => age[c][k] = Window
    BY DEF RedisWindows
  <2>2. k \in Int /\ age[c][k] \in 0..Window
    BY <1>1 DEF Latest, RedisTyped, Ages
  <2>3. count[c] \in 0..(MaxRequests + 1) /\ life[c] \in 0..Window
    BY <1>3
  <2>4. /\ life'[c] = IF life[c] = 0 THEN 0 ELSE life[c] - 1
        /\ count'[c] = IF life[c] <= 1 THEN 0 ELSE count[c]
        /\ age'[c][k] = IF age[c][k] < Window THEN age[c][k] + 1 ELSE Window
        /\ count[c] = 0 <=> life[c] = 0
    BY <1>2, <1>5 DEF RedisTyped
  <2>5. PassedOf(count[c]) \in 0..MaxRequests /\ PassedOf(0) = 0
    BY <1>1, <2>3 DEF PassedOf, Passes
  <2>6. CASE life[c] > 1
    BY <1>1, <2>1, <2>2, <2>3, <2>4, <2>5, <2>6
  <2>7. CASE life[c] = 1
    BY <1>1, <2>1, <2>2, <2>3, <2>4, <2>5, <2>7
  <2>8. CASE life[c] = 0
    BY <1>1, <2>1, <2>2, <2>3, <2>4, <2>5, <2>8
  <2> QED
    BY <1>1, <2>3, <2>6, <2>7, <2>8
<1> QED
  BY <1>4, <1>5, <1>6 DEF RedisTyped, RedisWindows

LEMMA MemoryTicks ==
  ASSUME Store(memory), memoryAge \in Ages(MemoryWindow), MemoryWindows, Tick
  PROVE  Store(memory') /\ memoryAge' \in Ages(MemoryWindow) /\ MemoryWindows'
<1>1. MemoryWindow \in Nat /\ Lag \in Nat /\ Window \in Nat
  BY RateLimiterAssumption DEF MemoryWindow
<1>2. ASSUME NEW c \in DOMAIN memory
      PROVE  /\ memory[c].left \in Int
             /\ memory[c] \in Entries
             /\ memory'[c] \in Entries
             /\ memory'[c].count = memory[c].count
             /\ memory'[c].older = memory[c].older
             /\ memory'[c].left >= memory[c].left - 1
             /\ \/ memory'[c].left = memory[c].left - 1
                \/ memory[c].left = -Lag /\ memory'[c].left = -Lag
  <2>1. memory[c] \in Entries
    BY DEF Store
  <2> DEFINE left == IF memory[c].left = -Lag THEN memory[c].left ELSE memory[c].left - 1
  <2>2. memory'[c] = [memory[c] EXCEPT !.left = left]
    BY DEF Tick
  <2>3. memory[c].left \in (-Lag)..Window
    BY <2>1 DEF Entries
  <2>4. /\ left \in (-Lag)..Window
        /\ left >= memory[c].left - 1
        /\ left = memory[c].left - 1 \/ (memory[c].left = -Lag /\ left = -Lag)
    BY <1>1, <2>3
  <2> HIDE DEF left
  <2>5. /\ memory'[c] \in Entries
        /\ memory'[c].count = memory[c].count
        /\ memory'[c].older = memory[c].older
        /\ memory'[c].left = left
    BY <2>1, <2>2, <2>4 DEF Entries
  <2> QED
    BY <1>1, <2>1, <2>3, <2>4, <2>5
<1>3. DOMAIN memory' = DOMAIN memory /\ memory' \in [DOMAIN memory -> Entries]
  BY <1>2 DEF Tick
<1>4. Store(memory')
  BY <1>2, <1>3, ChangeStore
<1>5. /\ memoryAge' \in Ages(MemoryWindow)
      /\ \A c \in Clients : \A k \in Latest :
           memoryAge'[c][k] =
             IF memoryAge[c][k] < MemoryWindow THEN memoryAge[c][k] + 1 ELSE MemoryWindow
  BY <1>1, OlderAges DEF Tick
<1>6. \A c \in Clients : \A k \in Latest : memoryAge[c][k] \in 0..MemoryWindow
  BY DEF Ages
<1>7. \A c \in Clients : \A k \in Latest :
        memoryAge[c][k] = MemoryWindow => memoryAge'[c][k] = MemoryWindow
  BY <1>1, <1>5
<1>8. ASSUME NEW c \in DOMAIN memory, c \in Clients, NEW k \in Latest,
             memoryAge[c][k] >= MemoryWindow - memory[c].left
      PROVE  \/ memoryAge'[c][k] = MemoryWindow
             \/ memoryAge'[c][k] >= MemoryWindow - memory'[c].left
  BY <1>1, <1>2, <1>5, <1>6, <1>8
<1>9. WindowsOf(memory', memoryAge')
  BY <1>2, <1>3, <1>7, <1>8 DEF WindowsOf, MemoryWindows
<1> QED
  BY <1>4, <1>5, <1>9 DEF MemoryWindows

-----------------------------------------------------------------------------
(* The inductive invariant.                                                *)

SlotsTyped ==
  /\ client \in [Slots -> Clients \union {NoClient}]
  /\ lag \in [Slots -> 0..Lag]

MemoryTyped == Store(memory) /\ memoryAge \in Ages(MemoryWindow)

LEMMA TypeParts == TypeOK <=> SlotsTyped /\ RedisTyped /\ MemoryTyped
BY DEF TypeOK, SlotsTyped, RedisTyped, MemoryTyped, Ages

\* A store without entries.
LEMMA EmptyStore ==
  ASSUME NEW m, m = Empty, NEW h, h = LongAgo(MemoryWindow)
  PROVE  Store(m) /\ h \in Ages(MemoryWindow) /\ WindowsOf(m, h)
<1>1. DOMAIN m = {} /\ m \in [{} -> Entries]
  BY DEF Empty
<1>2. IsFiniteSet({}) /\ Cardinality({}) = 0
  BY FS_EmptySet
<1>3. Store(m)
  BY <1>1, <1>2, RateLimiterAssumption DEF Store, Ordered
<1>4. MemoryWindow \in 0..MemoryWindow
  BY RateLimiterAssumption DEF MemoryWindow
<1>5. h \in Ages(MemoryWindow)
  BY <1>4 DEF LongAgo, Ages
<1>6. WindowsOf(m, h)
  BY <1>1 DEF LongAgo, WindowsOf
<1> QED
  BY <1>3, <1>5, <1>6

LEMMA InitIndInv == Init => IndInv
<1> SUFFICES ASSUME Init PROVE IndInv
  OBVIOUS
<1>1. Window \in Nat /\ Lag \in Nat /\ MaxRequests \in Nat \ {0}
  BY RateLimiterAssumption
<1>2. SlotsTyped
  BY <1>1 DEF Init, SlotsTyped
<1>3. age \in Ages(Window)
  BY <1>1 DEF Init, LongAgo, Ages
<1>4. RedisTyped
  BY <1>1, <1>3 DEF Init, RedisTyped
<1>5. \A c \in Clients : count[c] = 0 /\ \A k \in Latest : age[c][k] = Window
  BY DEF Init, LongAgo
<1>6. RedisWindows
  BY <1>5 DEF RedisWindows
<1>7. MemoryTyped /\ MemoryWindows
  BY EmptyStore DEF Init, MemoryTyped, MemoryWindows
<1> QED
  BY <1>2, <1>4, <1>6, <1>7, TypeParts DEF IndInv

LEMMA NextIndInv == IndInv /\ [Next]_vars => IndInv'
<1> SUFFICES ASSUME IndInv, [Next]_vars PROVE IndInv'
  OBVIOUS
<1>1. /\ SlotsTyped /\ RedisTyped /\ MemoryTyped
      /\ RedisWindows /\ MemoryWindows
  BY TypeParts DEF IndInv
<1>2. /\ Window \in Nat /\ Lag \in Nat
      /\ 0 \in 0..Lag
  BY RateLimiterAssumption
<1> DEFINE Kept == /\ SlotsTyped'
                   /\ RedisTyped' /\ RedisWindows'
                   /\ MemoryTyped' /\ MemoryWindows'
<1>3. SUFFICES Kept
  <2>1. TypeOK' <=> SlotsTyped' /\ RedisTyped' /\ MemoryTyped'
    BY TypeParts, PTL
  <2> QED
    BY <2>1 DEF IndInv
<1>4. UNCHANGED slotVars => SlotsTyped'
  BY <1>1 DEF slotVars, SlotsTyped
<1>5. UNCHANGED redisVars => RedisTyped' /\ RedisWindows'
  BY <1>1 DEF redisVars, RedisTyped, RedisWindows
<1>6. UNCHANGED memoryVars => MemoryTyped' /\ MemoryWindows'
  BY <1>1 DEF memoryVars, MemoryTyped, MemoryWindows
<1>7. ASSUME NEW c \in Clients, NEW late \in 0..Lag, ConsumeFallback(c, late)
      PROVE  MemoryTyped' /\ MemoryWindows'
  BY <1>7, ConsumeFallbackStep DEF MemoryTyped
<1>8. ASSUME NEW c \in Clients, Count(c)
      PROVE  Kept
  <2>1. RedisTyped' /\ RedisWindows'
    BY <1>1, <1>8, RedisCounts DEF Count
  <2> QED
    BY <1>4, <1>6, <1>8, <2>1 DEF Count
<1>9. ASSUME NEW c \in Clients, CountInMemory(c)
      PROVE  Kept
  BY <1>2, <1>4, <1>5, <1>7, <1>9 DEF CountInMemory
<1>10. ASSUME NEW q \in Slots, NEW c \in Clients, CallRedis(q, c)
       PROVE  Kept
  <2>1. RedisTyped' /\ RedisWindows'
    <3>1. CASE Script(c)
      BY <1>1, <1>10, <3>1, RedisCounts DEF CallRedis
    <3>2. CASE UNCHANGED <<count, life>>
      BY <1>5, <1>10, <3>2 DEF CallRedis, redisVars
    <3> QED
      BY <1>10, <3>1, <3>2 DEF CallRedis
  <2>2. SlotsTyped'
    BY <1>1, <1>10 DEF CallRedis, SlotsTyped
  <2> QED
    BY <1>6, <1>10, <2>1, <2>2 DEF CallRedis
<1>11. ASSUME NEW q \in Slots, RedisFails(q)
       PROVE  Kept
  <2>1. client[q] \in Clients /\ lag[q] \in 0..Lag
    BY <1>1, <1>11 DEF RedisFails, SlotsTyped
  <2>2. MemoryTyped' /\ MemoryWindows'
    BY <1>7, <1>11, <2>1 DEF RedisFails
  <2>3. SlotsTyped'
    BY <1>1, <1>2, <1>11 DEF RedisFails, SlotsTyped
  <2> QED
    BY <1>5, <1>11, <2>2, <2>3 DEF RedisFails
<1>12. CASE Tick
  <2>1. RedisTyped' /\ RedisWindows' /\ MemoryTyped' /\ MemoryWindows'
    BY <1>1, <1>12, RedisTicks, MemoryTicks DEF MemoryTyped
  <2>2. SlotsTyped'
    BY <1>1, <1>2, <1>12 DEF Tick, SlotsTyped
  <2> QED
    BY <2>1, <2>2
<1>13. CASE Restart
  <2>1. MemoryTyped' /\ MemoryWindows'
    BY <1>13, EmptyStore DEF Restart, MemoryTyped, MemoryWindows
  <2>2. SlotsTyped'
    BY <1>1, <1>2, <1>13 DEF Restart, SlotsTyped
  <2> QED
    BY <1>5, <1>13, <2>1, <2>2 DEF Restart
<1>14. CASE UNCHANGED vars
  BY <1>4, <1>5, <1>6, <1>14 DEF vars
<1> QED
  BY <1>8, <1>9, <1>10, <1>11, <1>12, <1>13, <1>14 DEF Next

\* Types, order and bound of the store, and the windows of both stores, hold in every
\* reachable state: createRedisRateLimiter for any limit, window and size of the store.
THEOREM WindowsRight == Spec => []IndInv
BY InitIndInv, NextIndInv, PTL DEF Spec

\* The store never holds more than maxFallbackEntries entries, each client once, in the
\* order in which they were made.
THEOREM TypeCorrect == Spec => []TypeOK
<1>1. IndInv => TypeOK
  BY DEF IndInv
<1> QED
  BY <1>1, WindowsRight, PTL

\* Neither store lets twice the limit pass within a window's length, less the time of a
\* failing call in memory, although a window in Redis begins without looking at the last
\* one and one in memory begins at an old reading of the clock.
THEOREM BurstsBounded == Spec => []BurstBounded
<1>1. IndInv => BurstBounded
  <2> SUFFICES ASSUME IndInv, NEW c \in Clients
               PROVE  /\ age[c][2 * MaxRequests] = Window
                      /\ memoryAge[c][2 * MaxRequests] = MemoryWindow
    BY DEF BurstBounded
  <2>1. /\ 2 * MaxRequests \in Latest
        /\ 2 * MaxRequests = MaxRequests + MaxRequests
        /\ MaxRequests \in Nat \ {0}
    BY RateLimiterAssumption DEF Latest
  <2>2. \A n \in 0..(MaxRequests + 1) : PassedOf(n) \in 0..MaxRequests
    BY CountsTyped
  <2>3. age[c][2 * MaxRequests] = Window
    <3>1. PassedOf(count[c]) \in 0..MaxRequests
      BY <2>2 DEF IndInv, TypeOK
    <3>2. 2 * MaxRequests >= PassedOf(count[c]) + MaxRequests
      BY <2>1, <3>1
    <3> QED
      BY <2>1, <3>2 DEF IndInv, RedisWindows
  <2>4. memoryAge[c][2 * MaxRequests] = MemoryWindow
    <3>1. CASE c \in DOMAIN memory
      <4>1. memory[c].count \in 1..(MaxRequests + 1)
        BY <3>1 DEF IndInv, TypeOK, Store, Entries
      <4>2. PassedOf(memory[c].count) \in 0..MaxRequests
        BY <2>1, <2>2, <4>1
      <4>3. 2 * MaxRequests >= PassedOf(memory[c].count) + MaxRequests
        BY <2>1, <4>2
      <4> QED
        BY <2>1, <3>1, <4>3 DEF IndInv, MemoryWindows, WindowsOf
    <3>2. CASE c \notin DOMAIN memory
      BY <2>1, <3>2 DEF IndInv, MemoryWindows, WindowsOf
    <3> QED
      BY <3>1, <3>2
  <2> QED
    BY <2>3, <2>4
<1> QED
  BY <1>1, WindowsRight, PTL

=============================================================================
