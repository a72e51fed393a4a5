-------------------------- MODULE RateLimiter_proofs --------------------------
(***************************************************************************)
(* Proofs about RateLimiter, for every set of threads and all capacities.  *)
(***************************************************************************)
EXTENDS RateLimiter, FiniteSetTheorems, TLAPS

(* The three levels as numbers.                                            *)
LEMMA LevelNumbers ==
    /\ Levels = 0..2 /\ Levels \subseteq Int /\ NoLevel = 3
    /\ REQUEST = 0 /\ EVENT = 1 /\ MAINTENANCE = 2
BY DEF Levels, REQUEST, EVENT, MAINTENANCE, NoLevel

(* What a step of a caller changes of its own record, and its type.        *)
LEMMA CallerTypes ==
    ASSUME TypeOK, NEW t \in Threads
    PROVE  /\ thread[t] \in Thread
           /\ thread[t].level \in 0..2 /\ thread[t].priority \in 0..2
           /\ thread[t].priority <= thread[t].level
           /\ permits[thread[t].level] \in Nat
BY LevelNumbers DEF TypeOK, Thread

-----------------------------------------------------------------------------
(* Types.                                                                  *)

LEMMA TypeInit == Init => TypeOK
BY LevelNumbers, LimiterAssumption DEF Init, TypeOK, Thread, At, Closed

(* A thread that gets a permit leaves all types intact.                    *)
LEMMA TypeGrant ==
    ASSUME TypeOK, NEW t \in Threads, NEW l \in Levels, permits[l] > 0, Grant(t, l)
    PROVE  TypeOK'
<1>1. /\ permits' \in [Levels -> Nat]
      /\ \A k \in Levels : permits'[k] <= Capacity[k]
  <2>1. permits[l] \in Nat /\ permits[l] - 1 \in Nat /\ permits[l] <= Capacity[l]
    BY DEF TypeOK
  <2>2. permits' = [permits EXCEPT ![l] = permits[l] - 1]
    BY DEF Grant, Taken
  <2> QED BY <2>1, <2>2, LimiterAssumption, LevelNumbers DEF TypeOK
<1>2. tick' \in Levels \cup {NoLevel}
  BY DEF TypeOK, Grant
<1>3. /\ thread' \in [Threads -> Thread]
      /\ \A u \in Threads :
            /\ thread'[u].priority <= thread'[u].level
            /\ thread'[u].pc \in {"idle", "granted"} => thread'[u].level = MAINTENANCE
  <2>1. thread' = [thread EXCEPT ![t] = At("granted", thread[t].priority, MAINTENANCE)]
    BY DEF Grant
  <2>2. /\ thread \in [Threads -> Thread]
        /\ \A u \in Threads :
            /\ thread[u].priority <= thread[u].level
            /\ thread[u].pc \in {"idle", "granted"} => thread[u].level = MAINTENANCE
    BY DEF TypeOK
  <2>3. thread[t].priority <= MAINTENANCE
    BY CallerTypes, LevelNumbers
  <2> QED BY <2>1, <2>2, <2>3, CallerTypes, LevelNumbers DEF Thread, At
<1>4. window' \in [open : BOOLEAN, ticks : Nat, grants : Nat]
  <2>1. window \in [open : BOOLEAN, ticks : Nat, grants : Nat]
    BY DEF TypeOK
  <2>2. window' = IF window.open THEN [window EXCEPT !.grants = window.grants + 1] ELSE window
    BY DEF Grant
  <2> QED BY <2>1, <2>2
<1> QED BY <1>1, <1>2, <1>3, <1>4 DEF TypeOK

LEMMA TypeNext == TypeOK /\ [Next]_vars => TypeOK'
<1> SUFFICES ASSUME TypeOK, [Next]_vars PROVE TypeOK'
  OBVIOUS
<1> USE LevelNumbers
<1>1. CASE AddPermit
  BY <1>1, LimiterAssumption DEF AddPermit, TypeOK, Highest, Closed
<1>2. CASE Offer
  <2>1. tick \in Levels
    BY <1>2 DEF Offer, TypeOK
  <2>2. permits' \in [Levels -> Nat] /\ \A k \in Levels : permits'[k] <= Capacity[k]
    BY <1>2, <2>1, LimiterAssumption DEF Offer, TypeOK, HasRoom
  <2>3. tick' \in Levels \cup {NoLevel}
    BY <1>2, <2>1 DEF Offer, AfterFull
  <2>4. UNCHANGED <<thread, window>>
    BY <1>2 DEF Offer
  <2> QED BY <2>2, <2>3, <2>4 DEF TypeOK
<1>3. ASSUME NEW t \in Threads, NEW p \in Levels, SetThreadPriority(t, p) PROVE TypeOK'
  BY <1>3 DEF SetThreadPriority, TypeOK, Thread
<1>4. ASSUME NEW t \in Threads, LimitRate(t) PROVE TypeOK'
  BY <1>4, CallerTypes DEF LimitRate, TypeOK, Thread, At, FirstPolled
<1>5. ASSUME NEW t \in Threads, Found(t) \/ Take(t) PROVE TypeOK'
  <2>1. thread[t].level \in Levels
    BY DEF TypeOK, Thread
  <2> QED BY <1>5, <2>1, TypeGrant DEF Found, Take
<1>6. ASSUME NEW t \in Threads, NotFound(t) PROVE TypeOK'
  <2>1. /\ thread[t] \in Thread
        /\ thread[t].priority \in 0..2 /\ thread[t].level \in 0..2
        /\ thread[t].priority <= thread[t].level
    BY CallerTypes
  <2>2. /\ UNCHANGED <<permits, tick, window>>
        /\ thread[t].pc = "poll"
    BY <1>6 DEF NotFound
  <2>3. CASE thread[t].level = thread[t].priority
    <3>1. thread' = [thread EXCEPT ![t].pc = "blocked"]
      BY <1>6, <2>3 DEF NotFound
    <3> QED BY <2>2, <3>1 DEF TypeOK, Thread
  <2>4. CASE thread[t].level # thread[t].priority
    <3>1. thread' = [thread EXCEPT ![t].level = thread[t].level - 1]
      BY <1>6, <2>4 DEF NotFound
    <3>2. /\ thread[t].level - 1 \in 0..2
          /\ thread[t].priority <= thread[t].level - 1
      BY <2>1, <2>4
    <3> QED BY <2>2, <3>1, <3>2 DEF TypeOK, Thread
  <2> QED BY <2>3, <2>4
<1>7. ASSUME NEW t \in Threads, Interrupt(t) PROVE TypeOK'
  BY <1>7, CallerTypes DEF Interrupt, TypeOK, Thread, At
<1>8. ASSUME NEW t \in Threads, Return(t) PROVE TypeOK'
  BY <1>8 DEF Return, TypeOK, Thread
<1>9. CASE OpenWindow
  BY <1>9 DEF OpenWindow, TypeOK
<1>10. CASE UNCHANGED vars
  BY <1>10 DEF vars, TypeOK
<1> QED
  BY <1>1, <1>2, <1>3, <1>4, <1>5, <1>6, <1>7, <1>8, <1>9, <1>10
  DEF Next, Caller, Scan

(* Every queue stays within its capacity, and every thread looks for       *)
(* permits no more urgent than its own priority (RateLimiter.java:44-49,   *)
(* 75).                                                                    *)
THEOREM TypeCorrect == Spec => []TypeOK
BY TypeInit, TypeNext, PTL DEF Spec

-----------------------------------------------------------------------------
(* The rate.  Since the window was opened, what was let through and what   *)
(* is still in the queues, or on its way into one, was either scheduled    *)
(* since then or there before.                                             *)

Placing == IF tick = NoLevel THEN 0 ELSE 1

Accounted ==
    IF window.open
    THEN window.grants + Total + Placing <= window.ticks + TotalCapacity + 1
    ELSE window.grants = 0 /\ window.ticks = 0

(* The counters are numbers.                                               *)
LEMMA Numbers ==
    ASSUME TypeOK
    PROVE  /\ permits \in [Levels -> Nat]
           /\ permits[0] \in Nat /\ permits[1] \in Nat /\ permits[2] \in Nat
           /\ Capacity[0] \in Nat /\ Capacity[1] \in Nat /\ Capacity[2] \in Nat
           /\ permits[0] <= Capacity[0] /\ permits[1] <= Capacity[1]
           /\ permits[2] <= Capacity[2]
           /\ window \in [open : BOOLEAN, ticks : Nat, grants : Nat]
           /\ tick \in 0..3
           /\ TotalCapacity = Capacity[0] + Capacity[1] + Capacity[2]
           /\ Total = permits[0] + permits[1] + permits[2]
BY LevelNumbers, LimiterAssumption DEF TypeOK, TotalCapacity, Total

(* A permit more or less in one queue is one more or less in total.        *)
LEMMA TotalChanges ==
    ASSUME TypeOK, NEW l \in Levels, NEW n \in Int,
           permits' = [permits EXCEPT ![l] = n]
    PROVE  Total' = Total - permits[l] + n
<1>1. Total' = permits'[0] + permits'[1] + permits'[2]
  BY LevelNumbers DEF Total
<1>2. CASE l = 0
  BY <1>1, <1>2, Numbers, LevelNumbers
<1>3. CASE l = 1
  BY <1>1, <1>3, Numbers, LevelNumbers
<1>4. CASE l = 2
  BY <1>1, <1>4, Numbers, LevelNumbers
<1> QED BY <1>2, <1>3, <1>4, LevelNumbers

LEMMA AccountedInit == Init => Accounted
BY DEF Init, Accounted, Closed

LEMMA AccountedNext == TypeOK /\ Accounted /\ [Next]_vars => Accounted'
<1> SUFFICES ASSUME TypeOK, Accounted, [Next]_vars PROVE Accounted'
  OBVIOUS
<1>n. /\ Total \in Nat /\ TotalCapacity \in Nat /\ Total <= TotalCapacity
      /\ window \in [open : BOOLEAN, ticks : Nat, grants : Nat]
      /\ Placing \in 0..1
      /\ TotalCapacity' = TotalCapacity
  BY Numbers DEF Placing, TotalCapacity
<1>1. CASE AddPermit
  <2>1. /\ tick = NoLevel /\ tick' = 0
        /\ window' = IF window.open /\ window.ticks < MaxTicks
                     THEN [window EXCEPT !.ticks = window.ticks + 1]
                     ELSE [open |-> FALSE, ticks |-> 0, grants |-> 0]
        /\ permits' = permits
    BY <1>1 DEF AddPermit, Highest, REQUEST, Closed
  <2>2. Placing = 0 /\ Placing' = 1 /\ Total' = Total
    BY <2>1, LevelNumbers DEF Placing, Total
  <2> QED BY <1>n, <2>1, <2>2 DEF Accounted
<1>2. CASE Offer
  <2>1. tick # NoLevel /\ window' = window
    BY <1>2 DEF Offer
  <2>2. Placing = 1
    BY <2>1 DEF Placing
  <2>3. CASE HasRoom(tick)
    <3>1. /\ permits' = [permits EXCEPT ![tick] = permits[tick] + 1]
          /\ tick' = NoLevel
      BY <1>2, <2>3 DEF Offer
    <3>2. PICK l \in Levels : l = tick /\ permits[l] \in Nat
      BY <2>1 DEF TypeOK
    <3>4. PICK n \in Int : n = permits[l] + 1
      BY <3>2
    <3>5. permits' = [permits EXCEPT ![l] = n]
      BY <3>1, <3>2, <3>4
    <3>6. Total' = Total + 1
      <4>1. Total' = Total - permits[l] + n
        BY <3>5, TotalChanges, Zenon
      <4> QED BY <1>n, <3>2, <3>4, <4>1
    <3>3. Placing' = 0
      BY <3>1 DEF Placing, NoLevel
    <3> QED BY <1>n, <2>1, <2>2, <3>6, <3>3 DEF Accounted
  <2>4. CASE ~HasRoom(tick)
    <3>1. permits' = permits
      BY <1>2, <2>4 DEF Offer
    <3>2. Total' = Total
      BY <3>1 DEF Total
    <3>3. Placing' \in 0..1
      BY DEF Placing
    <3> QED BY <1>n, <2>1, <2>2, <3>2, <3>3 DEF Accounted
  <2> QED BY <2>3, <2>4
<1>3. ASSUME NEW t \in Threads, Found(t) \/ Take(t) PROVE Accounted'
  <2>1. PICK l \in Levels : Grant(t, l)
    BY <1>3 DEF Found, Take, TypeOK, Thread
  <2>2. permits[l] \in Nat
    BY DEF TypeOK
  <2>6. PICK n \in Int : n = permits[l] - 1
    BY <2>2
  <2>7. permits' = [permits EXCEPT ![l] = n]
    BY <2>1, <2>6 DEF Grant, Taken
  <2>3. Total' = Total - 1
    <3>1. Total' = Total - permits[l] + n
      BY <2>7, TotalChanges, Zenon
    <3> QED BY <1>n, <2>2, <2>6, <3>1
  <2>4. Placing' = Placing
    BY <2>1 DEF Grant, Placing
  <2>5. window' = IF window.open THEN [window EXCEPT !.grants = window.grants + 1] ELSE window
    BY <2>1 DEF Grant
  <2> QED BY <1>n, <2>3, <2>4, <2>5 DEF Accounted
<1>4. CASE UNCHANGED <<permits, tick, window>>
  BY <1>4 DEF Accounted, Placing, Total, TotalCapacity
<1>5. CASE OpenWindow
  <2>1. window' = [window EXCEPT !.open = TRUE] /\ ~window.open
    BY <1>5 DEF OpenWindow
  <2>2. Total' = Total /\ Placing' = Placing
    BY <1>5 DEF OpenWindow, Total, Placing
  <2> QED BY <1>n, <2>1, <2>2 DEF Accounted
<1> QED
  BY <1>1, <1>2, <1>3, <1>4, <1>5
  DEF Next, Caller, Scan, SetThreadPriority, LimitRate, NotFound, Interrupt, Return, vars

LEMMA AccountedBounds == TypeOK /\ Accounted => BurstBound
<1> SUFFICES ASSUME TypeOK, Accounted PROVE BurstBound
  OBVIOUS
<1> QED BY Numbers DEF Accounted, BurstBound, Placing

(* In every interval the calls let through exceed the permits scheduled by *)
(* at most the capacities and one (RateLimiter.java:22, 68-106).           *)
THEOREM RateIsLimited == Spec => []BurstBound
BY TypeInit, TypeNext, AccountedInit, AccountedNext, AccountedBounds, PTL DEF Spec

-----------------------------------------------------------------------------
(* The buffer.  The threads that may still take from queue i after they    *)
(* found queue j empty are racing.  As soon as queue j holds two permits,  *)
(* or one and addPermit is about to place another behind queue i, queue i  *)
(* was full at a time since when only the racing threads took from it.     *)

Racing(i, j) ==
    {t \in Threads : /\ thread[t].pc \in {"poll", "blocked"}
                     /\ i <= thread[t].level /\ thread[t].level < j}

Stocked(i, j) ==
    \/ permits[j] >= 2
    \/ permits[j] >= 1 /\ tick \in (i + 1)..MAINTENANCE

Buffered(i, j) ==
    Stocked(i, j) =>
        Capacity[i] - permits[i] + Cardinality(Racing(i, j)) <= Cardinality(Threads)

BufferInv == \A i, j \in Levels : i < j => Buffered(i, j)

LEMMA RacingSize ==
    ASSUME NEW i \in Levels, NEW j \in Levels
    PROVE  /\ IsFiniteSet(Racing(i, j))
           /\ Cardinality(Racing(i, j)) \in Nat
           /\ Cardinality(Threads) \in Nat
           /\ Cardinality(Racing(i, j)) <= Cardinality(Threads)
<1>1. Racing(i, j) \in SUBSET Threads
  BY DEF Racing
<1> QED BY <1>1, LimiterAssumption, FS_Subset, FS_CardinalityType

LEMMA RacingSizeNext ==
    ASSUME NEW i \in Levels, NEW j \in Levels
    PROVE  /\ IsFiniteSet(Racing(i, j)')
           /\ Cardinality(Racing(i, j)') \in Nat
           /\ Cardinality(Racing(i, j)') <= Cardinality(Threads)
<1>1. Racing(i, j)' \in SUBSET Threads
  BY DEF Racing
<1> QED BY <1>1, LimiterAssumption, FS_Subset, FS_CardinalityType

LEMMA FewerRacing ==
    ASSUME NEW i \in Levels, NEW j \in Levels, Racing(i, j)' \subseteq Racing(i, j)
    PROVE  Cardinality(Racing(i, j)') <= Cardinality(Racing(i, j))
BY RacingSize, FS_Subset

(* Once nothing changes but that fewer threads race, the buffer stays.     *)
LEMMA BufferedIfFewer ==
    ASSUME TypeOK, NEW i \in Levels, NEW j \in Levels, Buffered(i, j),
           Racing(i, j)' \subseteq Racing(i, j),
           permits'[i] \in Nat, permits[i] <= permits'[i],
           Stocked(i, j)' => Stocked(i, j)
    PROVE  Buffered(i, j)'
<1>1. /\ permits[i] \in Nat /\ Capacity[i] \in Nat
      /\ Cardinality(Racing(i, j)) \in Nat /\ Cardinality(Racing(i, j)') \in Nat
      /\ Cardinality(Threads) \in Nat
      /\ Cardinality(Racing(i, j)') <= Cardinality(Racing(i, j))
  BY RacingSize, RacingSizeNext, FewerRacing, LimiterAssumption DEF TypeOK
<1>2. ASSUME Stocked(i, j)'
      PROVE  Capacity[i] - permits'[i] + Cardinality(Racing(i, j)') <= Cardinality(Threads)
  BY <1>1, <1>2 DEF Buffered
<1> QED BY <1>2 DEF Buffered

LEMMA BufferInit == Init => BufferInv
BY LevelNumbers DEF Init, BufferInv, Buffered, Stocked

(* addPermit.                                                              *)
LEMMA BufferOffer ==
    ASSUME TypeOK, TypeOK', NEW i \in Levels, NEW j \in Levels, i < j,
           Buffered(i, j), AddPermit \/ Offer
    PROVE  Buffered(i, j)'
<1> USE LevelNumbers
<1>t. /\ permits \in [Levels -> Nat] /\ permits' \in [Levels -> Nat]
      /\ tick \in 0..3
      /\ permits[i] <= Capacity[i] /\ Capacity[i] \in Nat
      /\ i \in 0..2 /\ j \in 0..2
  BY LimiterAssumption DEF TypeOK
<1>r. Racing(i, j)' = Racing(i, j)
  BY DEF AddPermit, Offer, Racing
<1>1. CASE AddPermit
  <2>1. permits' = permits /\ tick' = 0
    BY <1>1 DEF AddPermit, Highest
  <2>2. Stocked(i, j)' => Stocked(i, j)
    BY <1>t, <2>1 DEF Stocked
  <2> QED BY <1>t, <1>r, <2>1, <2>2, BufferedIfFewer
<1>2. CASE Offer /\ HasRoom(tick)
  <2>1. /\ permits' = [permits EXCEPT ![tick] = permits[tick] + 1]
        /\ tick' = 3 /\ tick \in 0..2
    BY <1>2, <1>t DEF Offer
  <2>2. permits[i] <= permits'[i]
    BY <1>t, <2>1
  <2>3. Stocked(i, j)' => Stocked(i, j)
    <3>1. CASE tick = j
      BY <1>t, <2>1, <3>1 DEF Stocked
    <3>2. CASE tick # j
      BY <1>t, <2>1, <3>2 DEF Stocked
    <3> QED BY <3>1, <3>2
  <2> QED BY <1>t, <1>r, <2>2, <2>3, BufferedIfFewer
<1>3. CASE Offer /\ ~HasRoom(tick)
  <2>1. permits' = permits /\ tick' = tick + 1 /\ tick \in 0..2
    BY <1>3, <1>t DEF Offer, AfterFull
  <2>2. CASE tick = i
    <3>1. Capacity[i] - permits'[i] = 0
      BY <1>3, <1>t, <2>1, <2>2 DEF HasRoom
    <3> QED BY <3>1, RacingSizeNext, RacingSize DEF Buffered
  <2>3. CASE tick # i
    <3>1. Stocked(i, j)' => Stocked(i, j)
      BY <1>t, <2>1, <2>3 DEF Stocked
    <3> QED BY <1>t, <1>r, <2>1, <3>1, BufferedIfFewer
  <2> QED BY <2>2, <2>3
<1> QED BY <1>1, <1>2, <1>3

(* A thread that takes a permit.                                           *)
LEMMA BufferGrant ==
    ASSUME TypeOK, TypeOK', NEW i \in Levels, NEW j \in Levels, i < j,
           Buffered(i, j), NEW t \in Threads, NEW l \in Levels,
           l = thread[t].level, thread[t].pc \in {"poll", "blocked"},
           permits[l] > 0, Grant(t, l)
    PROVE  Buffered(i, j)'
<1> USE LevelNumbers
<1>t. /\ permits \in [Levels -> Nat] /\ permits' \in [Levels -> Nat]
      /\ permits[i] <= Capacity[i] /\ Capacity[i] \in Nat
      /\ i \in 0..2 /\ j \in 0..2 /\ l \in 0..2
  BY LimiterAssumption DEF TypeOK
<1>1. /\ permits' = [permits EXCEPT ![l] = permits[l] - 1]
      /\ tick' = tick
      /\ thread' = [thread EXCEPT ![t] = At("granted", thread[t].priority, MAINTENANCE)]
  BY DEF Grant, Taken
<1>2. Racing(i, j)' = Racing(i, j) \ {t}
  <2>1. thread \in [Threads -> Thread]
    BY DEF TypeOK
  <2>2. thread'[t].pc = "granted" /\ \A u \in Threads \ {t} : thread'[u] = thread[u]
    BY <1>1, <2>1 DEF At
  <2> QED BY <2>2 DEF Racing
<1>3. CASE l = i
  <2>1. t \in Racing(i, j)
    <3>1. thread[t].level = i /\ i <= i /\ i < j
      BY <1>3, <1>t
    <3> QED BY <3>1 DEF Racing
  <2>2. Cardinality(Racing(i, j)') = Cardinality(Racing(i, j)) - 1
    BY <1>2, <2>1, RacingSize, FS_RemoveElement
  <2>3. permits'[i] = permits[i] - 1 /\ permits'[j] = permits[j]
    BY <1>1, <1>3, <1>t
  <2>4. Stocked(i, j)' => Stocked(i, j)
    BY <1>1, <2>3 DEF Stocked
  <2>5. ASSUME Stocked(i, j)'
        PROVE  Capacity[i] - permits'[i] + Cardinality(Racing(i, j)') <= Cardinality(Threads)
    BY <1>t, <2>2, <2>3, <2>4, <2>5, RacingSize DEF Buffered
  <2> QED BY <2>5 DEF Buffered
<1>4. CASE l # i
  <2>1. permits'[i] = permits[i] /\ permits'[j] <= permits[j]
    BY <1>1, <1>4, <1>t
  <2>2. Stocked(i, j)' => Stocked(i, j)
    BY <1>1, <1>t, <2>1 DEF Stocked
  <2> QED BY <1>t, <1>2, <2>1, <2>2, BufferedIfFewer
<1> QED BY <1>3, <1>4

(* The other steps of a thread.                                            *)
LEMMA BufferScan ==
    ASSUME TypeOK, TypeOK', NEW i \in Levels, NEW j \in Levels, i < j,
           Buffered(i, j), NEW t \in Threads,
           \/ \E p \in Levels : SetThreadPriority(t, p)
           \/ LimitRate(t) \/ NotFound(t) \/ Interrupt(t) \/ Return(t)
    PROVE  Buffered(i, j)'
<1> USE LevelNumbers
<1>t. /\ permits \in [Levels -> Nat]
      /\ thread \in [Threads -> Thread]
      /\ i \in 0..2 /\ j \in 0..2
      /\ thread[t].level \in 0..2
  BY CallerTypes DEF TypeOK
<1>1. /\ permits' = permits /\ tick' = tick
      /\ \A u \in Threads \ {t} : thread'[u] = thread[u]
  BY <1>t DEF SetThreadPriority, LimitRate, NotFound, Interrupt, Return
<1>2. Stocked(i, j)' <=> Stocked(i, j)
  BY <1>1 DEF Stocked
<1>3. CASE NotFound(t) /\ thread[t].level = j
  BY <1>3, <1>t, <1>2 DEF NotFound, Stocked, Buffered
<1>4. CASE ~(NotFound(t) /\ thread[t].level = j)
  <2>1. t \in Racing(i, j)' => t \in Racing(i, j)
    <3>1. CASE \/ \E p \in Levels : SetThreadPriority(t, p)
               \/ Interrupt(t) \/ Return(t)
      <4>1. thread'[t].pc = "idle"
        BY <3>1, <1>t DEF SetThreadPriority, Interrupt, Return, At, Thread
      <4> QED BY <4>1 DEF Racing
    <3>2. CASE LimitRate(t)
      <4>1. thread'[t].level = 2
        BY <3>2, <1>t DEF LimitRate, At, FirstPolled
      <4> QED BY <4>1, <1>t DEF Racing
    <3>3. CASE NotFound(t)
      <4>1. thread[t].pc = "poll" /\ thread[t].level # j
        BY <1>4, <3>3 DEF NotFound
      <4>2. \/ thread'[t].level = thread[t].level
            \/ thread'[t].level = thread[t].level - 1
        BY <3>3, <1>t DEF NotFound, Thread
      <4> QED BY <4>1, <4>2, <1>t DEF Racing
    <3> QED BY <3>1, <3>2, <3>3
  <2>2. Racing(i, j)' \subseteq Racing(i, j)
    BY <1>1, <2>1 DEF Racing
  <2> QED BY <1>t, <1>1, <1>2, <2>2, BufferedIfFewer
<1> QED BY <1>3, <1>4

LEMMA BufferNext == TypeOK /\ TypeOK' /\ BufferInv /\ [Next]_vars => BufferInv'
<1> SUFFICES ASSUME TypeOK, TypeOK', [Next]_vars,
                    NEW i \in Levels, NEW j \in Levels, i < j, Buffered(i, j)
             PROVE  Buffered(i, j)'
  BY DEF BufferInv
<1>1. CASE AddPermit \/ Offer
  BY <1>1, BufferOffer
<1>2. ASSUME NEW t \in Threads, Found(t) \/ Take(t) PROVE Buffered(i, j)'
  <2>1. PICK l \in Levels : /\ l = thread[t].level /\ permits[l] > 0 /\ Grant(t, l)
                            /\ thread[t].pc \in {"poll", "blocked"}
    BY <1>2, CallerTypes, LevelNumbers DEF Found, Take
  <2> QED BY <2>1, BufferGrant
<1>3. ASSUME NEW t \in Threads,
             \/ \E p \in Levels : SetThreadPriority(t, p)
             \/ LimitRate(t) \/ NotFound(t) \/ Interrupt(t) \/ Return(t)
      PROVE  Buffered(i, j)'
  BY <1>3, BufferScan
<1>4. CASE UNCHANGED <<permits, tick, thread>>
  BY <1>4 DEF Buffered, Stocked, Racing
<1> QED BY <1>1, <1>2, <1>3, <1>4 DEF Next, Caller, Scan, OpenWindow, vars

LEMMA BufferBounds == TypeOK /\ BufferInv => BufferKept
<1> SUFFICES ASSUME TypeOK, BufferInv,
                    NEW i \in Levels, NEW j \in Levels, i < j, permits[j] >= 2
             PROVE  Capacity[i] - permits[i] <= Cardinality(Threads)
  BY DEF BufferKept
<1>1. permits[i] \in Nat /\ Capacity[i] \in Nat
  BY LimiterAssumption DEF TypeOK
<1>2. Capacity[i] - permits[i] + Cardinality(Racing(i, j)) <= Cardinality(Threads)
  BY DEF BufferInv, Buffered, Stocked
<1> QED BY <1>1, <1>2, RacingSize

(* While a queue for less urgent threads holds permits, every more urgent  *)
(* queue is full up to the number of threads (RateLimiter.java:20-21).     *)
THEOREM BufferIsKept == Spec => []BufferKept
BY TypeInit, TypeNext, BufferInit, BufferNext, BufferBounds, PTL DEF Spec
=============================================================================
