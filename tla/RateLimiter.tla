---------------------------- MODULE RateLimiter ----------------------------
(***************************************************************************)
(* The fixed-window rate limiter in front of the event API.  The counts    *)
(* are in Redis, where one script counts a request and starts a window,    *)
(* and, for the requests whose call to Redis fails, in the memory of the   *)
(* replica, a Map in the order in which windows were started.              *)
(*                                                                         *)
(* A request reads the clock before it calls Redis and uses that reading   *)
(* when the call fails, however long it took.                              *)
(***************************************************************************)
EXTENDS Integers, FiniteSets

CONSTANTS
  Clients,     \* pairs of address and path
  NoClient,    \* a slot without a request
  Slots,       \* requests whose call to Redis is about to fail, at the same time
  MaxRequests, \* maxRequests
  Window,      \* windowSeconds, in ticks of the clock
  Lag,         \* the ticks a call to Redis may take before it fails
  MaxEntries   \* maxFallbackEntries

ASSUME RateLimiterAssumption ==
  /\ NoClient \notin Clients
  /\ MaxRequests \in Nat \ {0}
  /\ MaxEntries \in Nat \ {0}
  /\ Lag \in Nat
  /\ Window \in Nat \ {0}

VARIABLES
  client,   \* whose request is in a slot
  lag,      \* the ticks since it read the clock
  count,    \* Redis: the requests of a client in its window, up to MaxRequests + 1
  life,     \* Redis: the ticks after which the window ends
  memory,   \* inMemoryStore
  age,      \* the ticks since Redis let the latest requests of a client pass, the latest
            \* one first, and
  memoryAge \* those since the memory did and last forgot the client, both counted to the
            \* length that BurstBounded is about and read by the properties only

slotVars == <<client, lag>>
redisVars == <<count, life, age>>
memoryVars == <<memory, memoryAge>>
vars == <<slotVars, redisVars, memoryVars>>

\* The counts tell only whether a client is over the limit, so they stop one above it.
Capped(n) == IF n > MaxRequests THEN MaxRequests + 1 ELSE n

\* The window ends `left` ticks from now; it may have ended already.  `older` holds the
\* clients whose entries come before this one.
Entries == [count : 1..(MaxRequests + 1), left : (-Lag)..Window, older : SUBSET Clients]

\* The length of time for which the memory keeps its promise: none if a call may take a
\* whole window to fail.
MemoryWindow == IF Lag < Window THEN Window - Lag ELSE 0

\* Twice the limit of requests, the latest one first.
Latest == 1..(2 * MaxRequests)

\* The entries are in the order in which they were made.
Ordered(m) ==
  \A c \in DOMAIN m :
    /\ m[c].older \subseteq DOMAIN m \ {c}
    /\ \A d \in m[c].older : m[d].older \subseteq m[c].older
    /\ \A d \in DOMAIN m \ {c} : d \in m[c].older \/ c \in m[d].older

Store(m) ==
  /\ DOMAIN m \subseteq Clients
  /\ m \in [DOMAIN m -> Entries]
  /\ Ordered(m)
  /\ IsFiniteSet(DOMAIN m)
  /\ Cardinality(DOMAIN m) <= MaxEntries

TypeOK ==
  /\ client \in [Slots -> Clients \union {NoClient}]
  /\ lag \in [Slots -> 0..Lag]
  /\ count \in [Clients -> 0..(MaxRequests + 1)]
  /\ life \in [Clients -> 0..Window]
  /\ \A c \in Clients : count[c] = 0 <=> life[c] = 0
  /\ Store(memory)
  /\ age \in [Clients -> [Latest -> 0..Window]]
  /\ memoryAge \in [Clients -> [Latest -> 0..MemoryWindow]]

Empty == [c \in {} |-> c]

LongAgo(length) == [c \in Clients |-> [k \in Latest |-> length]]

Init ==
  /\ client = [q \in Slots |-> NoClient]
  /\ lag = [q \in Slots |-> 0]
  /\ count = [c \in Clients |-> 0]
  /\ life = [c \in Clients |-> 0]
  /\ memory = Empty
  /\ age = LongAgo(Window)
  /\ memoryAge = LongAgo(MemoryWindow)

-----------------------------------------------------------------------------
(* A request.                                                              *)

\* A limiter that looks at the count before it counts the request.
PassesBefore(n) == n - 1 <= MaxRequests

\* respond: the n-th request of a window passes, or is refused with 429.
Passes(n) == n <= MaxRequests

\* One more request of the client passed in this tick, if it did.
Passed(h, c, n) ==
  IF Passes(n)
  THEN [h EXCEPT ![c] = [k \in Latest |-> IF k = 1 THEN 0 ELSE h[c][k - 1]]]
  ELSE h

\* A script that sets the expiry on every request.
ScriptRenewing(c) ==
  /\ count' = [count EXCEPT ![c] = Capped(@ + 1)]
  /\ life' = [life EXCEPT ![c] = Window]

\* FIXED_WINDOW_SCRIPT: the first request of a window sets the key's expiry.
Script(c) ==
  /\ count' = [count EXCEPT ![c] = Capped(@ + 1)]
  /\ life' = [life EXCEPT ![c] = IF count[c] = 0 THEN Window ELSE @]

\* Redis answers.  It counts time by its own clock.
Count(c) ==
  /\ Script(c)
  /\ age' = Passed(age, c, count[c] + 1)
  /\ UNCHANGED <<slotVars, memoryVars>>

\* A request reads the clock and calls Redis.  The script may run, but there will be no
\* answer.
CallRedis(q, c) ==
  /\ client[q] = NoClient
  /\ client' = [client EXCEPT ![q] = c]
  /\ Script(c) \/ UNCHANGED <<count, life>>
  /\ UNCHANGED <<lag, age, memoryVars>>

\* The window had ended by the time the request read the clock, `late` ticks ago.
Ended(e, late) == e.left <= -late

Keep(m, kept) == [c \in kept |-> [m[c] EXCEPT !.older = @ \intersect kept]]

\* A store that forgets to make room.
RoomForever(m) == m

\* The oldest entry makes room for a new one.
Room(m) ==
  IF Cardinality(DOMAIN m) >= MaxEntries
  THEN Keep(m, { c \in DOMAIN m : m[c].older # {} })
  ELSE m

Put(m, c, e) == [d \in DOMAIN m \union {c} |-> IF d = c THEN e ELSE m[d]]

\* A client that was dropped starts to be counted again.
Forget(h, forgotten) ==
  [c \in Clients |-> IF c \in forgotten THEN [k \in Latest |-> MemoryWindow] ELSE h[c]]

\* A store that counts in a copy of the entry.
IncrementCopy(alive, c) ==
  /\ memory' = alive
  /\ memoryAge' = Passed(memoryAge, c, alive[c].count + 1)

\* One more request in a window.
Increment(alive, c) ==
  /\ memory' = [alive EXCEPT ![c].count = Capped(@ + 1)]
  /\ memoryAge' = Passed(memoryAge, c, alive[c].count + 1)

\* A new window ends Window ticks after the reading of the clock.
StartWindow(alive, room, c, late) ==
  /\ memory' = Put(room, c, [count |-> 1, left |-> Window - late, older |-> DOMAIN room])
  /\ memoryAge' = Passed(Forget(memoryAge, DOMAIN alive \ DOMAIN room), c, 1)

\* consumeFallback, for a request that read the clock `late` ticks ago.
ConsumeFallback(c, late) ==
  LET alive == Keep(memory, { d \in DOMAIN memory : ~Ended(memory[d], late) })
  IN IF c \in DOMAIN alive
     THEN Increment(alive, c)
     ELSE StartWindow(alive, Room(alive), c, late)

\* Redis is not connected.
CountInMemory(c) == ConsumeFallback(c, 0) /\ UNCHANGED <<slotVars, redisVars>>

\* The call to Redis throws.
RedisFails(q) ==
  /\ client[q] # NoClient
  /\ ConsumeFallback(client[q], lag[q])
  /\ client' = [client EXCEPT ![q] = NoClient]
  /\ lag' = [lag EXCEPT ![q] = 0]
  /\ UNCHANGED redisVars

-----------------------------------------------------------------------------
(* What happens to the stores.                                             *)

Older(h, length) ==
  [c \in Clients |->
    [k \in Latest |-> IF h[c][k] < length THEN h[c][k] + 1 ELSE length]]

Tick ==
  /\ \A q \in Slots : client[q] # NoClient => lag[q] < Lag
  /\ lag' = [q \in Slots |-> IF client[q] # NoClient THEN lag[q] + 1 ELSE 0]
  /\ life' = [c \in Clients |-> IF life[c] = 0 THEN 0 ELSE life[c] - 1]
  /\ count' = [c \in Clients |-> IF life[c] <= 1 THEN 0 ELSE count[c]]
  /\ memory' = [c \in DOMAIN memory |->
                  [memory[c] EXCEPT !.left = IF @ = -Lag THEN @ ELSE @ - 1]]
  /\ age' = Older(age, Window)
  /\ memoryAge' = Older(memoryAge, MemoryWindow)
  /\ UNCHANGED client

\* The replica restarts and has forgotten its counts and its requests.
Restart ==
  /\ DOMAIN memory # {}
  /\ memory' = Empty
  /\ memoryAge' = LongAgo(MemoryWindow)
  /\ client' = [q \in Slots |-> NoClient]
  /\ lag' = [q \in Slots |-> 0]
  /\ UNCHANGED redisVars

Next ==
  \/ \E c \in Clients : \/ Count(c) \/ CountInMemory(c)
                        \/ \E q \in Slots : CallRedis(q, c)
  \/ \E q \in Slots : RedisFails(q)
  \/ Tick \/ Restart

Spec == Init /\ [][Next]_vars

\* Time passes, and a call that fails does so in the end.
Fairness ==
  /\ WF_vars(Tick)
  /\ \A q \in Slots : WF_vars(RedisFails(q))

FairSpec == Spec /\ Fairness

-----------------------------------------------------------------------------
(* Properties.                                                             *)

\* A store lets a client pass less than twice its limit within any window's length, not
\* only within the windows it counts in.  In memory that length is shorter by the time a
\* call to Redis takes to fail, because such a call puts the window back by as much; an
\* entry that was dropped for a newer one or lost in a restart starts the count again.
BurstBounded ==
  \A c \in Clients : /\ age[c][2 * MaxRequests] = Window
                     /\ memoryAge[c][2 * MaxRequests] = MemoryWindow

\* The requests that the n requests of a window let pass, if all calls were answered.
PassedOf(n) == IF Passes(n) THEN n ELSE MaxRequests

\* Of a client's latest requests, the first of its window is no younger than the window,
\* and those before the limit's number of requests of the window before are too old to
\* matter.  Without a window, the requests of the last one are.
RedisWindows ==
  \A c \in Clients : \A k \in Latest :
    /\ count[c] > 0 /\ k >= PassedOf(count[c]) => age[c][k] >= Window - life[c]
    /\ k >= PassedOf(count[c]) + MaxRequests => age[c][k] = Window

\* The same in memory, where a window may have begun earlier than its end tells by the
\* time a call takes to fail.
WindowsOf(m, h) ==
  \A c \in Clients : \A k \in Latest :
    IF c \in DOMAIN m
    THEN /\ k >= PassedOf(m[c].count) =>
              h[c][k] = MemoryWindow \/ h[c][k] >= MemoryWindow - m[c].left
         /\ k >= PassedOf(m[c].count) + MaxRequests => h[c][k] = MemoryWindow
    ELSE k >= MaxRequests => h[c][k] = MemoryWindow

MemoryWindows == WindowsOf(memory, memoryAge)

\* The inductive invariant.
IndInv == TypeOK /\ RedisWindows /\ MemoryWindows

RefusedByRedis(c) == count[c] >= MaxRequests
RefusedByMemory(c) ==
  /\ c \in DOMAIN memory
  /\ memory[c].count >= MaxRequests
  /\ memory[c].left > 0

\* A client that is refused is let pass again although it never stops asking: refused
\* requests do not prolong a window.
RefusalsEnd ==
  \A c \in Clients :
    /\ RefusedByRedis(c) ~> ~RefusedByRedis(c)
    /\ RefusedByMemory(c) ~> ~RefusedByMemory(c)

=============================================================================
