------------------------ MODULE Recommendations_proofs ------------------------
(***************************************************************************)
(* What holds of the recommendations of a user for all numbers of threads  *)
(* and attempts, and all pools.  The types need that a request which is    *)
(* not done has something to do (Pending).  Each of the three other        *)
(* invariants has a strengthening of its own: Drawing says where an item   *)
(* is on its way out of a sampler, Matching what a thread's sampler was    *)
(* made for, and Fresh what a single request sees of the past.  With       *)
(* Truthful, what isEmpty says of a sampler, the last one also gives that  *)
(* a single request does not sample an empty sampler.                      *)
(* Last comes the arithmetic of the sampler: it is fair for every          *)
(* population.                                                             *)
(***************************************************************************)
EXTENDS Recommendations, FiniteSetTheorems, FunctionTheorems, SequenceTheorems, TLAPS

USE RecommendationsAssumption DEF RecommendationsAssumption

Sampling == {"check", "draw", "refill", "found", "save"}
Holding == {"refill", "found", "save"}

Pending ==
    \A t \in Threads :
        /\ thread[t].pc # "idle" => thread[t].wants > 0
        /\ thread[t].pc = "lookup" => thread[t].tries > 0

Drawing ==
    /\ \A t \in Threads :
        /\ thread[t].pc = "refill" => thread[t].item \in samplers[Ref(t)].left
        /\ thread[t].pc \in {"found", "save"} => thread[t].item \notin samplers[Ref(t)].left
    /\ \A t, u \in Threads :
        thread[t].pc = "refill" /\ thread[u].pc = "refill" /\ Ref(t) = Ref(u) => t = u
    /\ DrawnOnce

Matching ==
    /\ \A s \in Made : samplers[s].left \subseteq Pool[samplers[s].settings]
    /\ \A t \in Threads :
        /\ Ref(t) # None /\ thread[t].message # NoMessage
            => samplers[Ref(t)].settings = thread[t].message
        /\ thread[t].pc \in Holding => thread[t].item \in Pool[samplers[Ref(t)].settings]

Unseen(s) == samplers[s].left \cap recent = {}

Fresh ==
    ~overlapped =>
        /\ \A t, u \in Threads : thread[t].pc # "idle" /\ thread[u].pc # "idle" => t = u
        /\ cache # None => Unseen(cache)
        /\ \A t \in Threads :
            /\ thread[t].pc \in Sampling => cache \in {None, Ref(t)}
            /\ Ref(t) # None => Unseen(Ref(t))
            /\ thread[t].pc \in Holding => thread[t].item \notin recent

IInv == TypeOK /\ Pending

ThreadsOK == thread \in [Threads -> Thread]
Others(t) == \A u \in Threads \ {t} : thread'[u] = thread[u]
\* What t holds on to while it moves on.
Holds(t) ==
    /\ thread'[t].message = thread[t].message
    /\ Ref(t)' = Ref(t)
    /\ thread'[t].wants = thread[t].wants

-----------------------------------------------------------------------------
(* What an assignment to the state of a thread does.                       *)

LEMMA IdleIsThread == Idle \in Thread
BY DEF Idle, Thread, Places, Messages, None

LEMMA Becoming ==
    ASSUME ThreadsOK, NEW t \in Threads, NEW r \in Thread, Become(t, r)
    PROVE  ThreadsOK' /\ thread'[t] = r /\ Others(t)
BY DEF ThreadsOK, Become, Others

LEMMA Going ==
    ASSUME ThreadsOK, NEW t \in Threads, NEW place \in Places, Goto(t, place)
    PROVE  /\ ThreadsOK' /\ Others(t) /\ Holds(t)
           /\ thread'[t].pc = place
           /\ thread'[t].item = thread[t].item
           /\ thread'[t].tries = thread[t].tries
<1> DEFINE r == [thread[t] EXCEPT !.pc = place]
<1>1. thread[t] \in Thread
  BY DEF ThreadsOK
<1>2. r \in Thread
  BY <1>1 DEF Thread
<1>3. Become(t, r)
  BY DEF Goto
<1>4. ThreadsOK' /\ thread'[t] = r /\ Others(t)
  BY <1>2, <1>3, Becoming
<1>5. /\ r.pc = place /\ r.message = thread[t].message /\ r.ref = thread[t].ref
      /\ r.item = thread[t].item /\ r.tries = thread[t].tries /\ r.wants = thread[t].wants
  BY <1>1 DEF Thread
<1> QED
  BY <1>4, <1>5 DEF Holds, Ref

LEMMA Resting ==
    ASSUME ThreadsOK, NEW t \in Threads, Become(t, Idle)
    PROVE  /\ ThreadsOK' /\ Others(t)
           /\ thread'[t].pc = "idle" /\ Ref(t)' = None
           /\ thread'[t].item = NoItem /\ thread'[t].message = NoMessage
BY IdleIsThread, Becoming DEF Idle, Ref

\* A request that begins, or goes on, has neither a sampler nor an item.
LEMMA Starting ==
    ASSUME ThreadsOK, NEW t \in Threads, NEW message \in Messages, NEW n \in Nat, NEW w \in Nat,
           Become(t, Request(message, n, w))
    PROVE  /\ ThreadsOK' /\ Others(t)
           /\ thread'[t].pc = "lookup" /\ Ref(t)' = None
           /\ thread'[t].item = NoItem /\ thread'[t].message = message
           /\ thread'[t].tries = n /\ thread'[t].wants = w
<1>1. Request(message, n, w) \in Thread
  BY DEF Request, Thread, Places, None
<1>2. ThreadsOK' /\ Others(t) /\ thread'[t] = Request(message, n, w)
  BY <1>1, Becoming
<1> QED
  BY <1>2 DEF Ref, Request

LEMMA Continuing ==
    ASSUME ThreadsOK, NEW t \in Threads, NEW w \in Nat, Become(t, Continue(t, w))
    PROVE  /\ ThreadsOK' /\ Others(t)
           /\ Ref(t)' = None /\ thread'[t].item = NoItem
           /\ \/ thread'[t].pc = "idle"
              \/ thread'[t].pc = "lookup" /\ thread'[t].wants > 0 /\ thread'[t].tries > 0
<1>1. CASE More(w, thread[t].tries)
  <2>1. thread[t].message \in Messages /\ thread[t].tries \in Nat
    BY DEF ThreadsOK, Thread
  <2>2. Become(t, Request(thread[t].message, thread[t].tries, w))
    BY <1>1 DEF Continue
  <2>3. w > 0 /\ thread[t].tries > 0
    BY <1>1 DEF More
  <2> QED
    BY <2>1, <2>2, <2>3, Starting
<1>2. CASE ~More(w, thread[t].tries)
  <2>1. Become(t, Idle)
    BY <1>2 DEF Continue
  <2> QED
    BY <2>1, Resting
<1> QED
  BY <1>1, <1>2

-----------------------------------------------------------------------------
(* What the steps do to the samplers.                                      *)

SamplersOK == (\E n \in 0..MaxSamplers : Made = 1..n) /\ samplers \in [Made -> SamplerType]

LEMMA SizeOfMade ==
    ASSUME NEW n \in 0..MaxSamplers, Made = 1..n
    PROVE  Cardinality(Made) = n
<1>1. n \in Nat
  OBVIOUS
<1>2. Cardinality(1..n) = IF 1 > n THEN 0 ELSE n - 1 + 1
  BY <1>1, FS_Interval
<1> QED
  BY <1>1, <1>2

\* The sampler that a thread loads.
Loaded(t) ==
    [settings |-> Asked(t), left |-> {e \in Pool[Asked(t)] : BeatmapOf[e] \notin Excluded},
     seemsEmpty |-> {e \in Pool[Asked(t)] : BeatmapOf[e] \notin Excluded} = {}]

LEMMA LoadedIsSampler ==
    ASSUME ThreadsOK, NEW t \in Threads
    PROVE  Asked(t) \in Settings /\ Loaded(t) \in SamplerType
<1>1. thread[t].message \in Messages
  BY DEF ThreadsOK, Thread
<1>2. Asked(t) \in Settings
  BY <1>1 DEF Asked, Messages
<1>3. Pool[Asked(t)] \subseteq Items
  BY <1>2
<1> QED
  BY <1>2, <1>3 DEF Loaded, SamplerType

LEMMA Loading ==
    ASSUME ThreadsOK, SamplersOK, NEW t \in Threads, Load(t)
    PROVE  \E s \in Nat \ {None} :
             /\ s \notin Made /\ Made' = Made \cup {s} /\ SamplersOK'
             /\ samplers'[s] = Loaded(t)
             /\ \A k \in Made : samplers'[k] = samplers[k]
             /\ Become(t, [thread[t] EXCEPT !.pc = "put", !.ref = s])
<1>1. PICK n \in 0..MaxSamplers : Made = 1..n
  BY DEF SamplersOK
<1>2. Cardinality(Made) = n
  BY <1>1, SizeOfMade
<1>3. n < MaxSamplers
  BY <1>2 DEF Load
<1> DEFINE s == n + 1
<1>4. /\ samplers' = [k \in Made \cup {s} |-> IF k = s THEN Loaded(t) ELSE samplers[k]]
      /\ Become(t, [thread[t] EXCEPT !.pc = "put", !.ref = s])
  BY <1>2 DEF Load, Loaded
<1>5. s \notin Made /\ s \in Nat \ {None}
  BY <1>1 DEF None
<1>6. Made' = Made \cup {s}
  BY <1>4 DEF Made
<1>7. Made' = 1..(n + 1) /\ n + 1 \in 0..MaxSamplers
  BY <1>1, <1>3, <1>6
<1>8. /\ samplers'[s] = Loaded(t)
      /\ \A k \in Made : samplers'[k] = samplers[k]
  BY <1>4, <1>5
<1>9. samplers' \in [Made' -> SamplerType]
  BY <1>4, <1>5, <1>6, <1>8, LoadedIsSampler DEF SamplersOK
<1>10. SamplersOK'
  BY <1>7, <1>9 DEF SamplersOK
<1> QED
  BY <1>4, <1>5, <1>6, <1>8, <1>10

LEMMA Hollowing ==
    ASSUME SamplersOK, NEW s \in Made, NEW hollow \in BOOLEAN,
           samplers' = [samplers EXCEPT ![s].seemsEmpty = hollow]
    PROVE  /\ SamplersOK' /\ Made' = Made
           /\ \A k \in Made :
                /\ samplers'[k].left = samplers[k].left
                /\ samplers'[k].settings = samplers[k].settings
                /\ k # s => samplers'[k] = samplers[k]
<1> DEFINE r == [samplers[s] EXCEPT !.seemsEmpty = hollow]
<1>1. samplers[s] \in SamplerType
  BY DEF SamplersOK
<1>2. r \in SamplerType /\ r.left = samplers[s].left /\ r.settings = samplers[s].settings
  BY <1>1 DEF SamplerType
<1>3. samplers' = [samplers EXCEPT ![s] = r]
  OBVIOUS
<1>4. Made' = Made
  BY <1>3 DEF Made
<1> QED
  BY <1>2, <1>3, <1>4 DEF SamplersOK

LEMMA Refilling ==
    ASSUME SamplersOK, NEW s \in Made, NEW e,
           samplers' = [samplers EXCEPT ![s] = Without(samplers[s], e)]
    PROVE  /\ SamplersOK' /\ Made' = Made
           /\ samplers'[s].left = samplers[s].left \ {e}
           /\ samplers'[s].settings = samplers[s].settings
           /\ samplers'[s].seemsEmpty <=> samplers'[s].left = {}
           /\ \A k \in Made \ {s} : samplers'[k] = samplers[k]
<1>1. samplers[s] \in SamplerType
  BY DEF SamplersOK
<1>2. /\ Without(samplers[s], e) \in SamplerType
      /\ Without(samplers[s], e).left = samplers[s].left \ {e}
      /\ Without(samplers[s], e).settings = samplers[s].settings
      /\ Without(samplers[s], e).seemsEmpty <=> Without(samplers[s], e).left = {}
  BY <1>1 DEF Without, SamplerType
<1>3. Made' = Made
  BY DEF Made
<1> QED
  BY <1>2, <1>3 DEF SamplersOK

-----------------------------------------------------------------------------
(* What the steps that do more than move on do to their thread.            *)

LEMMA LookingUp ==
    ASSUME IInv, NEW t \in Threads, Lookup(t)
    PROVE  /\ ThreadsOK' /\ Others(t)
           /\ thread'[t].message = thread[t].message /\ thread'[t].wants = thread[t].wants
           /\ thread'[t].item = NoItem
           /\ \/ Reusable(t) /\ thread'[t].pc = "check" /\ Ref(t)' = cache /\ cache \in Made
              \/ thread'[t].pc = "load" /\ Ref(t)' = None
<1> DEFINE place == IF Reusable(t) THEN "check" ELSE "load"
           number == IF Reusable(t) THEN cache ELSE None
           r == [thread[t] EXCEPT !.pc = place, !.ref = number, !.tries = thread[t].tries - 1]
<1>1. thread[t] \in Thread /\ thread[t].item = NoItem /\ ThreadsOK
  BY DEF IInv, TypeOK, ThreadsOK, Lookup
<1>2. thread[t].tries - 1 \in Nat
  BY <1>1 DEF IInv, Pending, Lookup, Thread
<1>3. Reusable(t) => cache \in Made /\ cache \in Nat
  BY DEF IInv, TypeOK, Reusable, None
<1>4. place \in Places /\ number \in Nat
  BY <1>3 DEF Places, None
<1> HIDE DEF place, number
<1>5. /\ r.pc = place /\ r.ref = number /\ r.message = thread[t].message
      /\ r.wants = thread[t].wants /\ r.item = thread[t].item
  BY <1>1 DEF Thread
<1>6. r \in Thread
  BY <1>1, <1>2, <1>4 DEF Thread
<1> USE DEF place, number
<1>7. Become(t, r)
  BY DEF Lookup
<1>8. ThreadsOK' /\ Others(t) /\ thread'[t] = r
  BY <1>1, <1>6, <1>7, Becoming
<1> QED
  BY <1>1, <1>3, <1>5, <1>8 DEF Ref

LEMMA PuttingNext ==
    ASSUME ThreadsOK, NEW t \in Threads, NEW s \in Nat,
           Become(t, [thread[t] EXCEPT !.pc = "put", !.ref = s])
    PROVE  /\ ThreadsOK' /\ Others(t)
           /\ thread'[t].pc = "put" /\ Ref(t)' = s
           /\ thread'[t].message = thread[t].message /\ thread'[t].wants = thread[t].wants
           /\ thread'[t].item = thread[t].item
<1> DEFINE r == [thread[t] EXCEPT !.pc = "put", !.ref = s]
<1>1. thread[t] \in Thread
  BY DEF ThreadsOK
<1>2. /\ r.pc = "put" /\ r.ref = s /\ r.message = thread[t].message
      /\ r.wants = thread[t].wants /\ r.item = thread[t].item
  BY <1>1 DEF Thread
<1>3. r \in Thread
  BY <1>1 DEF Thread, Places
<1>4. ThreadsOK' /\ Others(t) /\ thread'[t] = r
  BY <1>3, Becoming
<1> QED
  BY <1>2, <1>4 DEF Ref

LEMMA Drawn ==
    ASSUME ThreadsOK, NEW t \in Threads, NEW e \in Items,
           Become(t, [thread[t] EXCEPT !.pc = "refill", !.item = e])
    PROVE  /\ ThreadsOK' /\ Others(t) /\ Holds(t)
           /\ thread'[t].pc = "refill" /\ thread'[t].item = e
<1> DEFINE r == [thread[t] EXCEPT !.pc = "refill", !.item = e]
<1>1. thread[t] \in Thread
  BY DEF ThreadsOK
<1>2. /\ r.pc = "refill" /\ r.item = e /\ r.message = thread[t].message
      /\ r.ref = thread[t].ref /\ r.wants = thread[t].wants
  BY <1>1 DEF Thread
<1>3. r \in Thread
  BY <1>1 DEF Thread, Places
<1>4. ThreadsOK' /\ Others(t) /\ thread'[t] = r
  BY <1>3, Becoming
<1> QED
  BY <1>2, <1>4 DEF Ref, Holds

-----------------------------------------------------------------------------
(* Types.                                                                  *)

Placed(t) ==
    /\ Ref(t) \in IF thread[t].pc \in {"idle", "lookup", "load"} THEN {None} ELSE Made
    /\ thread[t].item # NoItem <=> thread[t].pc \in {"refill", "found", "save"}
    /\ thread[t].pc # "idle" => thread[t].wants > 0
    /\ thread[t].pc = "lookup" => thread[t].tries > 0

LEMMA TypesOf ==
    IInv <=> /\ ThreadsOK /\ SamplersOK
             /\ \A t \in Threads : Placed(t)
             /\ cache \in Made \cup {None} /\ recent \subseteq Items /\ overlapped \in BOOLEAN
BY DEF IInv, TypeOK, Pending, ThreadsOK, SamplersOK, Placed

LEMMA Typing ==
    ASSUME ThreadsOK', SamplersOK', \A t \in Threads : Placed(t)',
           cache' \in Made' \cup {None}, recent' \subseteq Items, overlapped' \in BOOLEAN
    PROVE  IInv'
BY DEF IInv, TypeOK, Pending, ThreadsOK, SamplersOK, Placed

\* A step of a thread leaves the others where they are.
LEMMA OthersPlaced ==
    ASSUME IInv, NEW t \in Threads, Others(t), Made \subseteq Made', Placed(t)'
    PROVE  \A u \in Threads : Placed(u)'
<1>1. ASSUME NEW u \in Threads \ {t} PROVE Placed(u)'
  <2>1. thread'[u] = thread[u] /\ Placed(u)
    BY TypesOf DEF Others
  <2> QED
    BY <2>1 DEF Placed, Ref
<1> QED
  BY <1>1

LEMMA InitTyped == Init => IInv
<1> SUFFICES ASSUME Init PROVE IInv
  OBVIOUS
<1>1. thread = [t \in Threads |-> Idle] /\ samplers = [s \in {} |-> {}]
  BY DEF Init
<1>2. ThreadsOK
  BY <1>1, IdleIsThread DEF ThreadsOK
<1>3. Made = 1..0
  BY <1>1 DEF Made
<1>4. samplers \in [Made -> SamplerType]
  BY <1>1 DEF Made
<1>5. SamplersOK
  BY <1>3, <1>4 DEF SamplersOK
<1>6. \A t \in Threads : Placed(t)
  BY <1>1 DEF Placed, Ref, Idle
<1> QED
  BY <1>2, <1>5, <1>6, TypesOf DEF Init

LEMMA StepTyped == IInv /\ [Next]_vars => IInv'
<1> SUFFICES ASSUME IInv, [Next]_vars PROVE IInv'
  OBVIOUS
<1>0. ThreadsOK /\ SamplersOK
  BY TypesOf
<1>1. ASSUME NEW t \in Threads, NEW message \in Messages, NEW n \in Nat \ {0}, NEW w \in Nat \ {0},
             Begin(t, message, n, w)
      PROVE  IInv'
  <2>1. /\ ThreadsOK' /\ Others(t)
        /\ thread'[t].pc = "lookup" /\ Ref(t)' = None /\ thread'[t].item = NoItem
        /\ thread'[t].tries = n /\ thread'[t].wants = w
    BY <1>0, <1>1, Starting DEF Begin
  <2>2. samplers' = samplers /\ cache' = cache /\ recent' = recent /\ overlapped' \in BOOLEAN
    BY <1>1, TypesOf DEF Begin
  <2>3. Made' = Made /\ SamplersOK'
    BY <1>0, <2>2 DEF SamplersOK, Made
  <2>4. Placed(t)'
    BY <2>1 DEF Placed
  <2> QED
    BY <2>1, <2>2, <2>3, <2>4, OthersPlaced, TypesOf, Typing
<1>2. ASSUME NEW t \in Threads, Lookup(t)
      PROVE  IInv'
  <2>1. /\ ThreadsOK' /\ Others(t) /\ thread'[t].item = NoItem
        /\ thread'[t].wants = thread[t].wants
        /\ \/ thread'[t].pc = "check" /\ Ref(t)' \in Made
           \/ thread'[t].pc = "load" /\ Ref(t)' = None
    BY <1>2, LookingUp
  <2>2. UNCHANGED <<samplers, cache, recent, overlapped>> /\ thread[t].pc = "lookup"
    BY <1>2 DEF Lookup
  <2>3. Made' = Made /\ SamplersOK'
    BY <1>0, <2>2 DEF SamplersOK, Made
  <2>4. Placed(t)'
    BY <2>1, <2>2, <2>3, TypesOf DEF Placed
  <2> QED
    BY <2>1, <2>2, <2>3, <2>4, OthersPlaced, TypesOf, Typing
<1>3. ASSUME NEW t \in Threads, Load(t)
      PROVE  IInv'
  <2>1. thread[t].pc = "load" /\ UNCHANGED <<cache, recent, overlapped>>
    BY <1>3 DEF Load
  <2>2. PICK s \in Nat \ {None} :
          /\ Made' = Made \cup {s} /\ SamplersOK'
          /\ Become(t, [thread[t] EXCEPT !.pc = "put", !.ref = s])
    BY <1>0, <1>3, Loading
  <2>3. /\ ThreadsOK' /\ Others(t) /\ thread'[t].pc = "put" /\ Ref(t)' = s
        /\ thread'[t].wants = thread[t].wants /\ thread'[t].item = thread[t].item
    BY <1>0, <2>2, PuttingNext
  <2>4. Placed(t)'
    BY <2>1, <2>2, <2>3, TypesOf DEF Placed
  <2> QED
    BY <2>1, <2>2, <2>3, <2>4, OthersPlaced, TypesOf, Typing
<1>4. ASSUME NEW t \in Threads, Become(t, Idle), cache' \in {cache, None},
             UNCHANGED <<samplers, recent, overlapped>>
      PROVE  IInv'
  <2>1. ThreadsOK' /\ Others(t) /\ thread'[t].pc = "idle" /\ Ref(t)' = None /\ thread'[t].item = NoItem
    BY <1>0, <1>4, Resting
  <2>2. Made' = Made /\ SamplersOK'
    BY <1>0, <1>4 DEF SamplersOK, Made
  <2>3. Placed(t)'
    BY <2>1 DEF Placed
  <2> QED
    BY <1>4, <2>1, <2>2, <2>3, OthersPlaced, TypesOf, Typing
<1>5. ASSUME NEW t \in Threads, NEW place \in {"check", "draw", "save"}, Goto(t, place),
             Ref(t) \in Made, thread[t].pc # "idle",
             thread[t].item # NoItem <=> place = "save",
             cache' \in {cache, Ref(t)}, UNCHANGED <<samplers, recent, overlapped>>
      PROVE  IInv'
  <2>1. place \in Places
    BY DEF Places
  <2>2. /\ ThreadsOK' /\ Others(t) /\ Ref(t)' = Ref(t) /\ thread'[t].wants = thread[t].wants
        /\ thread'[t].pc = place /\ thread'[t].item = thread[t].item
    BY <1>0, <1>5, <2>1, Going DEF Holds
  <2>3. Made' = Made /\ SamplersOK'
    BY <1>0, <1>5 DEF SamplersOK, Made
  <2>4. Placed(t)'
    BY <1>5, <2>2, <2>3, TypesOf DEF Placed
  <2> QED
    BY <1>5, <2>2, <2>3, <2>4, OthersPlaced, TypesOf, Typing
<1>6. ASSUME NEW t \in Threads, Draw(t)
      PROVE  IInv'
  <2>1. thread[t].pc = "draw" /\ UNCHANGED <<cache, recent, overlapped>>
    BY <1>6 DEF Draw
  <2>2. Ref(t) \in Made
    BY <2>1, TypesOf DEF Placed
  <2>3. PICK e \in samplers[Ref(t)].left, hollow \in BOOLEAN :
          /\ Become(t, [thread[t] EXCEPT !.pc = "refill", !.item = e])
          /\ samplers' = [samplers EXCEPT ![Ref(t)].seemsEmpty = hollow]
    BY <1>6 DEF Draw
  <2>4. e \in Items
    BY <1>0, <2>2 DEF SamplersOK, SamplerType
  <2>5. /\ ThreadsOK' /\ Others(t) /\ Ref(t)' = Ref(t) /\ thread'[t].wants = thread[t].wants
        /\ thread'[t].pc = "refill" /\ thread'[t].item = e
    BY <1>0, <2>3, <2>4, Drawn DEF Holds
  <2>6. Made' = Made /\ SamplersOK'
    BY <1>0, <2>2, <2>3, Hollowing
  <2>7. Placed(t)'
    BY <2>1, <2>2, <2>4, <2>5, <2>6, TypesOf DEF Placed
  <2> QED
    BY <2>1, <2>5, <2>6, <2>7, OthersPlaced, TypesOf, Typing
<1>7. ASSUME NEW t \in Threads, Refill(t)
      PROVE  IInv'
  <2>1. thread[t].pc = "refill" /\ Goto(t, "found") /\ UNCHANGED <<cache, recent, overlapped>>
    BY <1>7 DEF Refill
  <2>2. Ref(t) \in Made
    BY <2>1, TypesOf DEF Placed
  <2>3. /\ ThreadsOK' /\ Others(t) /\ Ref(t)' = Ref(t) /\ thread'[t].wants = thread[t].wants
        /\ thread'[t].pc = "found" /\ thread'[t].item = thread[t].item
    <3>1. "found" \in Places
      BY DEF Places
    <3> QED
      BY <1>0, <2>1, <3>1, Going DEF Holds
  <2>4. Made' = Made /\ SamplersOK'
    BY <1>0, <1>7, <2>2, Refilling DEF Refill
  <2>5. Placed(t)'
    BY <2>1, <2>2, <2>3, <2>4, TypesOf DEF Placed
  <2> QED
    BY <2>1, <2>3, <2>4, <2>5, OthersPlaced, TypesOf, Typing
<1>8. ASSUME NEW t \in Threads, NEW w \in Nat, Become(t, Continue(t, w)), recent' \subseteq Items,
             UNCHANGED <<samplers, cache, overlapped>>
      PROVE  IInv'
  <2>1. /\ ThreadsOK' /\ Others(t)
        /\ Ref(t)' = None /\ thread'[t].item = NoItem
        /\ \/ thread'[t].pc = "idle"
           \/ thread'[t].pc = "lookup" /\ thread'[t].wants > 0 /\ thread'[t].tries > 0
    BY <1>0, <1>8, Continuing
  <2>2. Made' = Made /\ SamplersOK'
    BY <1>0, <1>8 DEF SamplersOK, Made
  <2>3. Placed(t)'
    BY <2>1 DEF Placed
  <2> QED
    BY <1>8, <2>1, <2>2, <2>3, OthersPlaced, TypesOf, Typing
<1>9. ASSUME cache' \in {cache, None}, recent' \subseteq recent, UNCHANGED <<thread, samplers, overlapped>>
      PROVE  IInv'
  <2>1. Made' = Made /\ SamplersOK' /\ ThreadsOK'
    BY <1>0, <1>9 DEF SamplersOK, Made, ThreadsOK
  <2>2. \A t \in Threads : Placed(t)'
    BY <1>9, <2>1, TypesOf DEF Placed, Ref
  <2> QED
    BY <1>9, <2>1, <2>2, TypesOf, Typing
<1>10. ASSUME NEW t \in Threads
       PROVE  /\ Recommend(t) \/ GetRecommendations(t) \/ HideRecommendation(t) => IInv'
              /\ Fail(t) \/ OutOfRecommendations(t) \/ Overflow(t) => IInv'
  <2>1. 1 \in Nat \ {0} /\ (\A w \in 1..PageSize : w \in Nat \ {0}) /\ Settings \subseteq Messages
    BY DEF Messages
  <2>2. Recommend(t) \/ GetRecommendations(t) \/ HideRecommendation(t) => IInv'
    BY <1>1, <2>1 DEF Recommend, GetRecommendations, HideRecommendation
  <2> QED
    BY <1>4, <2>2 DEF Fail, OutOfRecommendations, Overflow
<1>11. ASSUME NEW t \in Threads
       PROVE  Put(t) \/ Check(t) \/ Found(t) => IInv'
  <2>1. /\ thread[t].pc \in {"put", "check", "found"} => Ref(t) \in Made
        /\ thread[t].item # NoItem <=> thread[t].pc \in {"refill", "found", "save"}
    BY TypesOf DEF Placed
  <2> QED
    BY <1>5, <2>1 DEF Put, Check, Found
<1>12. ASSUME NEW t \in Threads
       PROVE  NotFound(t) \/ Save(t) => IInv'
  <2>1. thread[t].wants \in Nat /\ (thread[t].pc = "save" => thread[t].wants - 1 \in Nat)
    BY <1>0, TypesOf DEF ThreadsOK, Thread, Placed
  <2>2. recent \subseteq Items /\ (thread[t].pc = "save" => thread[t].item \in Items)
    BY <1>0, TypesOf DEF ThreadsOK, Thread, Placed
  <2>3. NotFound(t) => IInv'
    BY <1>8, <2>1, <2>2 DEF NotFound
  <2>4. Save(t) => IInv'
    BY <1>8, <2>1, <2>2 DEF Save
  <2> QED
    BY <2>3, <2>4
<1>13. Evict \/ ForgetRecommendations \/ (\E e \in Items : Age(e)) \/ UNCHANGED vars => IInv'
  BY <1>9 DEF Evict, ForgetRecommendations, Age, vars
<1> QED
  BY <1>2, <1>3, <1>6, <1>7, <1>10, <1>11, <1>12, <1>13 DEF Next, GetRecommendation

(* Samplers are numbered without gaps, a thread has a sampler and an item  *)
(* exactly where it needs them, and no request goes on without an attempt  *)
(* and something to do.                                                    *)
THEOREM TypeCorrect == Spec => []TypeOK
<1>1. IInv => TypeOK
  BY DEF IInv
<1> QED
  BY <1>1, InitTyped, StepTyped, PTL DEF Spec

-----------------------------------------------------------------------------
(* The steps, as the other invariants see them.                            *)

Begins(t) ==
    /\ Others(t) /\ Ref(t)' = None /\ thread'[t].item = NoItem /\ thread[t].pc = "idle"
    /\ overlapped' = (overlapped \/ \E u \in Threads : thread[u].pc # "idle")
    /\ UNCHANGED <<samplers, cache, recent>>

\* Without a sampler, or done with one.
LetsGo(t) ==
    /\ Others(t) /\ Ref(t)' = None /\ thread'[t].item = NoItem
    /\ thread[t].pc \notin {"idle", "refill"}
    /\ cache' \in {cache, None}
    /\ \/ recent' = recent
       \/ thread[t].pc = "save" /\ recent' = recent \cup {thread[t].item}
    /\ UNCHANGED <<samplers, overlapped>>

Reuses(t) ==
    /\ Reusable(t) /\ cache \in Made
    /\ Others(t) /\ Ref(t)' = cache /\ thread'[t].item = NoItem
    /\ thread[t].pc = "lookup" /\ thread'[t].pc = "check"
    /\ thread'[t].message = thread[t].message
    /\ UNCHANGED <<samplers, cache, recent, overlapped>>

Loads(t) ==
    /\ \E s \in Nat \ {None} :
        /\ s \notin Made /\ Made' = Made \cup {s}
        /\ samplers'[s] = Loaded(t)
        /\ \A k \in Made : samplers'[k] = samplers[k]
        /\ Ref(t)' = s
    /\ Others(t) /\ thread'[t].item = NoItem /\ thread[t].pc = "load" /\ thread'[t].pc = "put"
    /\ thread'[t].message = thread[t].message
    /\ UNCHANGED <<cache, recent, overlapped>>

Puts(t) ==
    /\ Others(t) /\ Holds(t) /\ thread'[t].item = thread[t].item
    /\ thread[t].pc = "put" /\ thread'[t].pc = "check" /\ cache' = Ref(t)
    /\ UNCHANGED <<samplers, recent, overlapped>>

MovesOn(t) ==
    /\ Others(t) /\ Holds(t) /\ thread'[t].item = thread[t].item
    /\ \/ thread[t].pc = "check" /\ thread'[t].pc = "draw" /\ ~samplers[Ref(t)].seemsEmpty
       \/ thread[t].pc = "found" /\ thread'[t].pc = "save"
    /\ UNCHANGED <<samplers, cache, recent, overlapped>>

Draws(t) ==
    /\ Others(t) /\ Holds(t) /\ thread[t].pc = "draw" /\ thread'[t].pc = "refill"
    /\ thread'[t].item \in samplers[Ref(t)].left
    /\ Unlocked(Ref(t))
    /\ Made' = Made
    /\ \A k \in Made :
        /\ samplers'[k].left = samplers[k].left
        /\ samplers'[k].settings = samplers[k].settings
        /\ k # Ref(t) => samplers'[k] = samplers[k]
    /\ UNCHANGED <<cache, recent, overlapped>>

Refills(t) ==
    /\ Others(t) /\ Holds(t) /\ thread[t].pc = "refill" /\ thread'[t].pc = "found"
    /\ thread'[t].item = thread[t].item
    /\ Made' = Made
    /\ samplers'[Ref(t)].left = samplers[Ref(t)].left \ {thread[t].item}
    /\ samplers'[Ref(t)].settings = samplers[Ref(t)].settings
    /\ samplers'[Ref(t)].seemsEmpty <=> samplers'[Ref(t)].left = {}
    /\ \A k \in Made \ {Ref(t)} : samplers'[k] = samplers[k]
    /\ UNCHANGED <<cache, recent, overlapped>>

Forgets ==
    /\ cache' \in {cache, None} /\ recent' \subseteq recent
    /\ UNCHANGED <<thread, samplers, overlapped>>

LEMMA Steps ==
    ASSUME IInv, [Next]_vars
    PROVE  \/ \E t \in Threads :
               \/ Begins(t) \/ LetsGo(t) \/ Reuses(t) \/ Loads(t)
               \/ Puts(t) \/ MovesOn(t) \/ Draws(t) \/ Refills(t)
           \/ Forgets
<1>0. ThreadsOK /\ SamplersOK /\ \A t \in Threads : Placed(t)
  BY TypesOf
<1>1. ASSUME NEW t \in Threads, Recommend(t) \/ GetRecommendations(t) \/ HideRecommendation(t)
      PROVE  Begins(t)
  <2>1. PICK message \in Messages, n \in Nat, w \in Nat : Begin(t, message, n, w)
    BY <1>1 DEF Recommend, GetRecommendations, HideRecommendation, Messages
  <2> QED
    BY <1>0, <2>1, Starting DEF Begin, Begins
<1>2. ASSUME NEW t \in Threads, Lookup(t)
      PROVE  Reuses(t) \/ LetsGo(t)
  BY <1>2, LookingUp DEF Lookup, Reuses, LetsGo
<1>3. ASSUME NEW t \in Threads, Load(t)
      PROVE  Loads(t)
  <2>1. PICK s \in Nat \ {None} :
          /\ s \notin Made /\ Made' = Made \cup {s}
          /\ samplers'[s] = Loaded(t)
          /\ \A k \in Made : samplers'[k] = samplers[k]
          /\ Become(t, [thread[t] EXCEPT !.pc = "put", !.ref = s])
    BY <1>0, <1>3, Loading
  <2>2. thread[t].pc = "load" /\ UNCHANGED <<cache, recent, overlapped>>
    BY <1>3 DEF Load
  <2>3. thread[t].item = NoItem
    BY <1>0, <2>2 DEF Placed
  <2>4. /\ Others(t) /\ thread'[t].pc = "put" /\ Ref(t)' = s
        /\ thread'[t].message = thread[t].message /\ thread'[t].item = thread[t].item
    BY <1>0, <2>1, PuttingNext
  <2> QED
    BY <2>1, <2>2, <2>3, <2>4 DEF Loads
<1>4. ASSUME NEW t \in Threads, Fail(t) \/ OutOfRecommendations(t) \/ Overflow(t)
      PROVE  LetsGo(t)
  <2>1. /\ Become(t, Idle) /\ thread[t].pc \notin {"idle", "refill"} /\ cache' \in {cache, None}
        /\ UNCHANGED <<samplers, recent, overlapped>>
    BY <1>4 DEF Fail, OutOfRecommendations, Overflow
  <2> QED
    BY <1>0, <2>1, Resting DEF LetsGo
<1>5. ASSUME NEW t \in Threads, NotFound(t) \/ Save(t)
      PROVE  LetsGo(t)
  <2>1. thread[t].wants \in Nat /\ (thread[t].pc # "idle" => thread[t].wants - 1 \in Nat)
    BY <1>0 DEF ThreadsOK, Thread, Placed
  <2>2. PICK w \in Nat : Become(t, Continue(t, w))
    BY <1>5, <2>1 DEF NotFound, Save
  <2>3. Others(t) /\ Ref(t)' = None /\ thread'[t].item = NoItem
    BY <1>0, <2>2, Continuing
  <2> QED
    BY <1>5, <2>3 DEF LetsGo, NotFound, Save
<1>6. ASSUME NEW t \in Threads, Put(t) \/ Check(t) \/ Found(t)
      PROVE  Puts(t) \/ MovesOn(t)
  <2>1. "check" \in Places /\ "draw" \in Places /\ "save" \in Places
    BY DEF Places
  <2> QED
    BY <1>0, <1>6, <2>1, Going DEF Put, Check, Found, Puts, MovesOn
<1>7. ASSUME NEW t \in Threads, Draw(t)
      PROVE  Draws(t)
  <2>1. thread[t].pc = "draw" /\ Unlocked(Ref(t)) /\ UNCHANGED <<cache, recent, overlapped>>
    BY <1>7 DEF Draw
  <2>2. Ref(t) \in Made
    BY <1>0, <2>1 DEF Placed
  <2>3. PICK e \in samplers[Ref(t)].left, hollow \in BOOLEAN :
          /\ Become(t, [thread[t] EXCEPT !.pc = "refill", !.item = e])
          /\ samplers' = [samplers EXCEPT ![Ref(t)].seemsEmpty = hollow]
    BY <1>7 DEF Draw
  <2>4. e \in Items
    BY <1>0, <2>2 DEF SamplersOK, SamplerType
  <2>5. Others(t) /\ Holds(t) /\ thread'[t].pc = "refill" /\ thread'[t].item = e
    BY <1>0, <2>3, <2>4, Drawn
  <2> QED
    BY <1>0, <2>1, <2>2, <2>3, <2>5, Hollowing DEF Draws
<1>8. ASSUME NEW t \in Threads, Refill(t)
      PROVE  Refills(t)
  <2>1. /\ thread[t].pc = "refill" /\ Goto(t, "found") /\ UNCHANGED <<cache, recent, overlapped>>
        /\ samplers' = [samplers EXCEPT ![Ref(t)] = Without(samplers[Ref(t)], thread[t].item)]
    BY <1>8 DEF Refill
  <2>2. Ref(t) \in Made /\ "found" \in Places
    BY <1>0, <2>1 DEF Placed, Places
  <2>3. Others(t) /\ Holds(t) /\ thread'[t].pc = "found" /\ thread'[t].item = thread[t].item
    BY <1>0, <2>1, <2>2, Going
  <2> QED
    BY <1>0, <2>1, <2>2, <2>3, Refilling DEF Refills
<1>9. Evict \/ ForgetRecommendations \/ (\E e \in Items : Age(e)) \/ UNCHANGED vars => Forgets
  BY DEF Evict, ForgetRecommendations, Age, vars, Forgets
<1> QED
  BY <1>1, <1>2, <1>3, <1>4, <1>5, <1>6, <1>7, <1>8, <1>9 DEF Next, GetRecommendation

\* What a case of a step needs of the other threads.
LEMMA Kept ==
    ASSUME NEW t, Others(t)
    PROVE  \A u \in Threads \ {t} : thread'[u] = thread[u] /\ Ref(u)' = Ref(u)
BY DEF Others, Ref

LEMMA PlacedBefore ==
    ASSUME IInv
    PROVE  \A t \in Threads : Placed(t)
BY TypesOf

LEMMA PlacedAfter ==
    ASSUME IInv'
    PROVE  \A t \in Threads : Placed(t)'
BY DEF IInv, TypeOK, Pending, Placed

-----------------------------------------------------------------------------
(* No item is drawn twice from a sampler.                                  *)

\* Where no sampler changes, a thread may lose its item.
LEMMA DrawingKept ==
    ASSUME IInv, IInv', Drawing, NEW t \in Threads, Others(t),
           Made \subseteq Made', \A k \in Made : samplers'[k].left = samplers[k].left,
           thread'[t].item = NoItem
    PROVE  Drawing'
<1>1. \A u \in Threads : Placed(u) /\ Placed(u)'
  BY PlacedBefore, PlacedAfter
<1>2. \A u \in Threads \ {t} : thread'[u] = thread[u] /\ Ref(u)' = Ref(u)
  BY Kept
<1>3. thread'[t].pc \notin Holding
  BY <1>1 DEF Placed, Holding
<1>4. \A u \in Threads \ {t} : thread[u].item # NoItem => Ref(u) \in Made
  BY <1>1 DEF Placed
<1>5. \A u \in Threads : thread'[u].pc \in Holding => u # t /\ Ref(u) \in Made
  BY <1>1, <1>2, <1>3, <1>4 DEF Placed, Holding
<1>6. ASSUME NEW u \in Threads
      PROVE  /\ thread'[u].pc = "refill" => thread'[u].item \in samplers'[Ref(u)'].left
             /\ thread'[u].pc \in {"found", "save"} => thread'[u].item \notin samplers'[Ref(u)'].left
  BY <1>2, <1>5 DEF Drawing, Holding
<1>7. ASSUME NEW u \in Threads, NEW v \in Threads,
             thread'[u].pc = "refill", thread'[v].pc = "refill", Ref(u)' = Ref(v)'
      PROVE  u = v
  BY <1>2, <1>3, <1>7 DEF Drawing, Holding
<1>8. DrawnOnce'
  BY <1>2 DEF Drawing, DrawnOnce
<1> QED
  BY <1>6, <1>7, <1>8 DEF Drawing

LEMMA DrawingStep == IInv /\ IInv' /\ Drawing /\ [Next]_vars => Drawing'
<1> SUFFICES ASSUME IInv, IInv', Drawing, [Next]_vars PROVE Drawing'
  OBVIOUS
<1>0. \A u \in Threads : Placed(u) /\ Placed(u)'
  BY PlacedBefore, PlacedAfter
<1>1. ASSUME NEW t \in Threads, Begins(t) \/ LetsGo(t) \/ Reuses(t) \/ Loads(t)
      PROVE  Drawing'
  <2>1. Others(t) /\ thread'[t].item = NoItem
    BY <1>1 DEF Begins, LetsGo, Reuses, Loads
  <2>2. Made \subseteq Made' /\ \A k \in Made : samplers'[k].left = samplers[k].left
    BY <1>1 DEF Begins, LetsGo, Reuses, Loads, Made
  <2> QED
    BY <2>1, <2>2, DrawingKept
<1>2. ASSUME NEW t \in Threads, Puts(t)
      PROVE  Drawing'
  <2>1. Others(t) /\ thread'[t].item = NoItem /\ samplers' = samplers
    BY <1>0, <1>2 DEF Puts, Placed
  <2> QED
    BY <2>1, DrawingKept DEF Made
<1>3. ASSUME NEW t \in Threads, MovesOn(t)
      PROVE  Drawing'
  <2>1. CASE thread[t].pc = "check"
    <3>1. Others(t) /\ thread'[t].item = NoItem /\ samplers' = samplers
      BY <1>0, <1>3, <2>1 DEF MovesOn, Placed
    <3> QED
      BY <3>1, DrawingKept DEF Made
  <2>2. CASE thread[t].pc = "found"
    <3>1. /\ thread'[t].pc = "save" /\ Ref(t)' = Ref(t) /\ thread'[t].item = thread[t].item
          /\ \A u \in Threads \ {t} : thread'[u] = thread[u] /\ Ref(u)' = Ref(u)
          /\ samplers' = samplers
      BY <1>3, <2>2, Kept DEF MovesOn, Holds
    <3>2. \A u \in Threads : Ref(u)' = Ref(u) /\ thread'[u].item = thread[u].item
      BY <3>1
    <3>3. \A u \in Threads : thread'[u].pc = "refill" => thread[u].pc = "refill"
      BY <3>1
    <3>4. \A u \in Threads : thread'[u].pc \in {"found", "save"} => thread[u].pc \in {"found", "save"}
      BY <2>2, <3>1
    <3>5. DrawnOnce'
      BY <3>2 DEF Drawing, DrawnOnce
    <3> QED
      BY <3>1, <3>2, <3>3, <3>4, <3>5 DEF Drawing
  <2> QED
    BY <1>3, <2>1, <2>2 DEF MovesOn
<1>4. ASSUME NEW t \in Threads, Draws(t)
      PROVE  Drawing'
  <2>1. /\ thread[t].pc = "draw" /\ thread'[t].pc = "refill" /\ Ref(t)' = Ref(t)
        /\ thread'[t].item \in samplers[Ref(t)].left
        /\ \A k \in Made : samplers'[k].left = samplers[k].left
        /\ \A u \in Threads \ {t} : thread'[u] = thread[u] /\ Ref(u)' = Ref(u)
    BY <1>4, Kept DEF Draws, Holds
  <2>2. Ref(t) \in Made
    BY <1>0, <2>1 DEF Placed
  <2>3. \A u \in Threads : thread[u].pc = "refill" => Ref(u) # Ref(t)
    BY <1>4 DEF Draws, Unlocked
  <2>4. \A u \in Threads \ {t} : thread[u].pc \in Holding => Ref(u) \in Made
    BY <1>0 DEF Placed, Holding
  <2>5. ASSUME NEW u \in Threads
        PROVE  /\ thread'[u].pc = "refill" => thread'[u].item \in samplers'[Ref(u)'].left
               /\ thread'[u].pc \in {"found", "save"} => thread'[u].item \notin samplers'[Ref(u)'].left
    BY <2>1, <2>2, <2>4 DEF Drawing, Holding
  <2>6. ASSUME NEW u \in Threads, NEW v \in Threads,
               thread'[u].pc = "refill", thread'[v].pc = "refill", Ref(u)' = Ref(v)'
        PROVE  u = v
    BY <2>1, <2>3, <2>6 DEF Drawing
  <2>7. ASSUME NEW u \in Threads \ {t}, Ref(u) = Ref(t), thread[u].item # NoItem
        PROVE  thread[u].item # thread'[t].item
    <3>1. thread[u].pc \in {"found", "save"}
      BY <1>0, <2>3, <2>7 DEF Placed
    <3> QED
      BY <2>1, <2>7, <3>1 DEF Drawing
  <2>8. DrawnOnce'
    BY <2>1, <2>7 DEF Drawing, DrawnOnce
  <2> QED
    BY <2>5, <2>6, <2>8 DEF Drawing
<1>5. ASSUME NEW t \in Threads, Refills(t)
      PROVE  Drawing'
  <2>1. /\ thread[t].pc = "refill" /\ thread'[t].pc = "found" /\ Ref(t)' = Ref(t)
        /\ thread'[t].item = thread[t].item
        /\ samplers'[Ref(t)].left = samplers[Ref(t)].left \ {thread[t].item}
        /\ \A k \in Made \ {Ref(t)} : samplers'[k] = samplers[k]
        /\ \A u \in Threads \ {t} : thread'[u] = thread[u] /\ Ref(u)' = Ref(u)
    BY <1>5, Kept DEF Refills, Holds
  <2>2. \A u \in Threads : Ref(u)' = Ref(u) /\ thread'[u].item = thread[u].item
    BY <2>1
  <2>3. \A u \in Threads : thread[u].pc \in Holding => Ref(u) \in Made
    BY <1>0 DEF Placed, Holding
  <2>4. ASSUME NEW u \in Threads
        PROVE  /\ thread'[u].pc = "refill" => thread'[u].item \in samplers'[Ref(u)'].left
               /\ thread'[u].pc \in {"found", "save"} => thread'[u].item \notin samplers'[Ref(u)'].left
    <3>1. CASE u = t
      BY <2>1, <3>1
    <3>2. CASE u # t /\ Ref(u) # Ref(t)
      BY <2>1, <2>3, <3>2 DEF Drawing, Holding
    <3>3. CASE u # t /\ Ref(u) = Ref(t)
      <4>1. thread[u].pc # "refill"
        BY <2>1, <3>3 DEF Drawing
      <4> QED
        BY <2>1, <3>3, <4>1 DEF Drawing
    <3> QED
      BY <3>1, <3>2, <3>3
  <2>5. ASSUME NEW u \in Threads, NEW v \in Threads,
               thread'[u].pc = "refill", thread'[v].pc = "refill", Ref(u)' = Ref(v)'
        PROVE  u = v
    BY <2>1, <2>5 DEF Drawing
  <2>6. DrawnOnce'
    BY <2>2 DEF Drawing, DrawnOnce
  <2> QED
    BY <2>4, <2>5, <2>6 DEF Drawing
<1>6. CASE Forgets
  BY <1>6 DEF Forgets, Drawing, DrawnOnce, Ref
<1> QED
  BY <1>1, <1>2, <1>3, <1>4, <1>5, <1>6, Steps

LEMMA InitDrawing == Init => Drawing
BY DEF Init, Idle, Drawing, DrawnOnce

(* However many threads draw from a sampler, none gets what another has:   *)
(* only one at a time is between removing an item and putting the rest     *)
(* back, and what has been removed is not put back.                        *)
THEOREM EachIsDrawnOnce == Spec => []DrawnOnce
<1>1. Drawing => DrawnOnce
  BY DEF Drawing
<1> QED
  BY <1>1, InitTyped, StepTyped, InitDrawing, DrawingStep, PTL DEF Spec

-----------------------------------------------------------------------------
(* A thread's sampler was made for what the thread was asked for.          *)

Matches(t) ==
    /\ Ref(t) # None /\ thread[t].message # NoMessage
        => samplers[Ref(t)].settings = thread[t].message
    /\ thread[t].pc \in Holding => thread[t].item \in Pool[samplers[Ref(t)].settings]

\* Where a step of t makes or changes samplers, the others keep theirs.
LEMMA OthersMatch ==
    ASSUME IInv, Matching, NEW t \in Threads, Others(t),
           \A k \in Made : samplers'[k].settings = samplers[k].settings, Matches(t)'
    PROVE  \A u \in Threads : Matches(u)'
<1>1. ASSUME NEW u \in Threads \ {t} PROVE Matches(u)'
  <2>1. thread'[u] = thread[u] /\ Ref(u)' = Ref(u)
    BY Kept
  <2>2. Ref(u) # None \/ thread[u].pc \in Holding => Ref(u) \in Made
    BY PlacedBefore DEF Placed, Holding
  <2>3. Matches(u)
    BY DEF Matching, Matches
  <2> QED
    BY <2>1, <2>2, <2>3 DEF Matches
<1> QED
  BY <1>1

LEMMA MatchingStep == IInv /\ IInv' /\ Matching /\ [Next]_vars => Matching'
<1> SUFFICES ASSUME IInv, IInv', Matching, [Next]_vars PROVE Matching'
  OBVIOUS
<1>0. \A u \in Threads : Placed(u) /\ Placed(u)'
  BY PlacedBefore, PlacedAfter
<1>step. ASSUME NEW t \in Threads, \A s \in Made' : samplers'[s].left \subseteq Pool[samplers'[s].settings],
                Others(t), \A k \in Made : samplers'[k].settings = samplers[k].settings, Matches(t)'
         PROVE  Matching'
  BY <1>step, OthersMatch DEF Matching, Matches
<1>1. ASSUME NEW t \in Threads, Begins(t) \/ LetsGo(t)
      PROVE  Matching'
  <2>1. Others(t) /\ samplers' = samplers /\ Ref(t)' = None /\ thread'[t].item = NoItem
    BY <1>1 DEF Begins, LetsGo
  <2>2. Matches(t)'
    BY <1>0, <2>1 DEF Matches, Placed, Holding
  <2> QED
    BY <1>step, <2>1, <2>2 DEF Matching, Made
<1>2. ASSUME NEW t \in Threads, Reuses(t)
      PROVE  Matching'
  <2>1. /\ Others(t) /\ samplers' = samplers /\ Ref(t)' = cache /\ thread'[t].item = NoItem
        /\ thread'[t].message = thread[t].message
    BY <1>2 DEF Reuses
  <2>2. thread[t].message # NoMessage => samplers[cache].settings = thread[t].message
    BY <1>2 DEF Reuses, Reusable, Asked
  <2>3. Matches(t)'
    BY <1>0, <2>1, <2>2 DEF Matches, Placed, Holding
  <2> QED
    BY <1>step, <2>1, <2>3 DEF Matching, Made
<1>3. ASSUME NEW t \in Threads, Loads(t)
      PROVE  Matching'
  <2>1. PICK s \in Nat \ {None} :
          /\ s \notin Made /\ Made' = Made \cup {s}
          /\ samplers'[s] = Loaded(t)
          /\ \A k \in Made : samplers'[k] = samplers[k]
          /\ Ref(t)' = s
    BY <1>3 DEF Loads
  <2>2. Others(t) /\ thread'[t].pc = "put" /\ thread'[t].message = thread[t].message
    BY <1>3 DEF Loads
  <2>3. /\ Loaded(t).settings = Asked(t)
        /\ Loaded(t).left \subseteq Pool[Asked(t)]
    BY DEF Loaded
  <2>4. Matches(t)'
    BY <2>1, <2>2, <2>3 DEF Matches, Holding, Asked
  <2>5. \A k \in Made' : samplers'[k].left \subseteq Pool[samplers'[k].settings]
    BY <2>1, <2>3 DEF Matching
  <2> QED
    BY <1>step, <2>1, <2>2, <2>4, <2>5
<1>4. ASSUME NEW t \in Threads, Puts(t) \/ MovesOn(t)
      PROVE  Matching'
  <2>1. /\ Others(t) /\ samplers' = samplers /\ Ref(t)' = Ref(t) /\ thread'[t].item = thread[t].item
        /\ thread'[t].message = thread[t].message
        /\ thread'[t].pc \in Holding => thread[t].pc \in Holding
    BY <1>4 DEF Puts, MovesOn, Holds, Holding
  <2>2. Matches(t)
    BY DEF Matching, Matches
  <2>3. Matches(t)'
    BY <2>1, <2>2 DEF Matches
  <2> QED
    BY <1>step, <2>1, <2>3 DEF Matching, Made
<1>5. ASSUME NEW t \in Threads, Draws(t)
      PROVE  Matching'
  <2>1. /\ Others(t) /\ Ref(t)' = Ref(t) /\ thread'[t].message = thread[t].message
        /\ thread'[t].item \in samplers[Ref(t)].left /\ thread[t].pc = "draw"
        /\ Made' = Made
        /\ \A k \in Made : /\ samplers'[k].left = samplers[k].left
                           /\ samplers'[k].settings = samplers[k].settings
    BY <1>5 DEF Draws, Holds
  <2>2. Ref(t) \in Made
    BY <1>0, <2>1 DEF Placed
  <2>3. Matches(t)
    BY DEF Matching, Matches
  <2>4. Matches(t)'
    BY <2>1, <2>2, <2>3 DEF Matches, Matching
  <2> QED
    BY <1>step, <2>1, <2>4 DEF Matching
<1>6. ASSUME NEW t \in Threads, Refills(t)
      PROVE  Matching'
  <2>1. /\ Others(t) /\ Ref(t)' = Ref(t) /\ thread'[t].message = thread[t].message
        /\ thread'[t].item = thread[t].item /\ thread[t].pc = "refill"
        /\ Made' = Made
        /\ \A k \in Made : /\ samplers'[k].left \subseteq samplers[k].left
                           /\ samplers'[k].settings = samplers[k].settings
    BY <1>6 DEF Refills, Holds
  <2>2. Ref(t) \in Made
    BY <1>0, <2>1 DEF Placed
  <2>3. Matches(t)
    BY DEF Matching, Matches
  <2>4. Matches(t)'
    BY <2>1, <2>2, <2>3 DEF Matches, Holding
  <2>5. \A k \in Made' : samplers'[k].left \subseteq Pool[samplers'[k].settings]
    BY <2>1 DEF Matching
  <2> QED
    BY <1>step, <2>1, <2>4, <2>5
<1>7. CASE Forgets
  BY <1>7 DEF Forgets, Matching, Ref, Made
<1> QED
  BY <1>1, <1>2, <1>3, <1>4, <1>5, <1>6, <1>7, Steps

LEMMA InitMatching == Init => Matching
BY DEF Init, Idle, Matching, Made, Ref, Holding

(* A request with arguments is given what the recommender has for these    *)
(* arguments, although the cached sampler may be replaced by one for other *)
(* arguments while the request is under way.                               *)
THEOREM SettingsAreHonoured == Spec => []SettingsHonoured
<1>1. IInv /\ Matching => SettingsHonoured
  <2> SUFFICES ASSUME IInv, Matching, NEW t \in Threads,
                      thread[t].item # NoItem, thread[t].message # NoMessage
               PROVE  thread[t].item \in Pool[thread[t].message]
    BY DEF SettingsHonoured
  <2>1. thread[t].pc \in Holding /\ Ref(t) \in Made
    BY PlacedBefore DEF Placed, Holding
  <2>2. Ref(t) # None
    BY <2>1 DEF IInv, TypeOK, None
  <2> QED
    BY <2>1, <2>2 DEF Matching
<1> QED
  BY <1>1, InitTyped, StepTyped, InitMatching, MatchingStep, PTL DEF Spec

-----------------------------------------------------------------------------
(* One request at a time sees all that was recommended before.             *)

\* A step of the only thread at work.
LEMMA FreshKept ==
    ASSUME IInv, IInv', Fresh, ~overlapped, NEW t \in Threads, Others(t),
           \A u \in Threads \ {t} : thread[u].pc = "idle",
           cache' # None => Unseen(cache)',
           Ref(t)' # None => Unseen(Ref(t))',
           thread'[t].pc \in Sampling => cache' \in {None, Ref(t)'},
           thread'[t].pc \in Holding => thread'[t].item \notin recent'
    PROVE  Fresh'
<1>1. \A u \in Threads \ {t} : thread'[u].pc = "idle" /\ Ref(u)' = None
  BY Kept, PlacedBefore DEF Placed
<1> QED
  BY <1>1 DEF Fresh, Sampling, Holding

LEMMA FreshStep == IInv /\ IInv' /\ Drawing /\ Fresh /\ [Next]_vars => Fresh'
<1> SUFFICES ASSUME IInv, IInv', Drawing, Fresh, [Next]_vars, ~overlapped'
             PROVE  Fresh'
  BY DEF Fresh
<1>0. \A u \in Threads : Placed(u) /\ Placed(u)'
  BY PlacedBefore, PlacedAfter
<1>quiet. ~overlapped /\ ~overlapped'
  <2>1. overlapped \in BOOLEAN
    BY TypesOf
  <2>2. overlapped => overlapped'
    BY Steps DEF Begins, LetsGo, Reuses, Loads, Puts, MovesOn, Draws, Refills, Forgets
  <2> QED
    BY <2>1, <2>2
<1>alone. ASSUME NEW t \in Threads, thread[t].pc # "idle"
          PROVE  /\ \A u \in Threads \ {t} : thread[u].pc = "idle"
                 /\ cache # None => cache \in Made /\ Unseen(cache)
                 /\ Ref(t) # None => Ref(t) \in Made /\ Unseen(Ref(t))
                 /\ thread[t].pc \in Sampling => cache \in {None, Ref(t)}
                 /\ thread[t].pc \in Holding => thread[t].item \notin recent
  BY <1>0, <1>quiet, <1>alone, TypesOf DEF Fresh, Placed
<1>1. ASSUME NEW t \in Threads, Begins(t)
      PROVE  Fresh'
  <2>1. /\ Others(t) /\ Ref(t)' = None /\ thread'[t].item = NoItem
        /\ UNCHANGED <<samplers, cache, recent>>
        /\ \A u \in Threads : thread[u].pc = "idle"
    BY <1>quiet, <1>1 DEF Begins
  <2>2. thread'[t].pc \notin Sampling /\ thread'[t].pc \notin Holding
    BY <1>0, <2>1, PlacedAfter DEF Placed, Sampling, Holding, IInv, TypeOK, None
  <2>3. cache' # None => Unseen(cache)'
    BY <1>quiet, <2>1 DEF Fresh, Unseen
  <2> QED
    BY <1>quiet, <2>1, <2>2, <2>3, FreshKept
<1>2. ASSUME NEW t \in Threads, LetsGo(t)
      PROVE  Fresh'
  <2>1. /\ Others(t) /\ Ref(t)' = None /\ thread'[t].item = NoItem /\ thread[t].pc # "idle"
        /\ cache' \in {cache, None} /\ samplers' = samplers
        /\ \/ recent' = recent
           \/ thread[t].pc = "save" /\ recent' = recent \cup {thread[t].item}
    BY <1>2 DEF LetsGo
  <2>2. thread'[t].pc \notin Sampling /\ thread'[t].pc \notin Holding
    BY <1>0, <2>1 DEF Placed, Sampling, Holding, IInv, TypeOK, None
  <2>3. ASSUME cache' # None PROVE Unseen(cache)'
    <3>1. cache' = cache /\ cache # None /\ Unseen(cache)
      BY <2>1, <2>3, <1>alone
    <3>2. thread[t].pc = "save" => cache = Ref(t) /\ thread[t].item \notin samplers[cache].left
      BY <2>1, <3>1, <1>alone DEF Sampling, Drawing
    <3> QED
      BY <2>1, <3>1, <3>2 DEF Unseen
  <2> QED
    BY <1>quiet, <1>alone, <2>1, <2>2, <2>3, FreshKept
<1>3. ASSUME NEW t \in Threads, Reuses(t)
      PROVE  Fresh'
  <2>1. /\ Others(t) /\ Ref(t)' = cache /\ thread'[t].item = NoItem /\ thread[t].pc # "idle"
        /\ UNCHANGED <<samplers, cache, recent>>
    BY <1>3 DEF Reuses
  <2>2. thread'[t].pc \notin Holding
    BY <1>0, <2>1 DEF Placed, Holding
  <2>3. cache' # None => Unseen(cache)' /\ Unseen(Ref(t))'
    BY <1>alone, <2>1 DEF Unseen
  <2> QED
    BY <1>quiet, <1>alone, <2>1, <2>2, <2>3, FreshKept
<1>4. ASSUME NEW t \in Threads, Loads(t)
      PROVE  Fresh'
  <2>1. PICK s \in Nat \ {None} :
          /\ s \notin Made
          /\ samplers'[s] = Loaded(t)
          /\ \A k \in Made : samplers'[k] = samplers[k]
          /\ Ref(t)' = s
    BY <1>4 DEF Loads
  <2>2. /\ Others(t) /\ thread'[t].item = NoItem /\ thread[t].pc = "load" /\ thread'[t].pc = "put"
        /\ UNCHANGED <<cache, recent>>
    BY <1>4 DEF Loads
  <2>3. Loaded(t).left \cap recent = {}
    BY DEF Loaded, Excluded
  <2>4. Unseen(Ref(t))'
    BY <2>1, <2>2, <2>3 DEF Unseen
  <2>5. cache' # None => Unseen(cache)'
    BY <1>alone, <2>1, <2>2 DEF Unseen
  <2>6. thread'[t].pc \notin Sampling /\ thread'[t].pc \notin Holding
    BY <2>2 DEF Sampling, Holding
  <2> QED
    BY <1>quiet, <1>alone, <2>2, <2>4, <2>5, <2>6, FreshKept
<1>5. ASSUME NEW t \in Threads, Puts(t) \/ MovesOn(t)
      PROVE  Fresh'
  <2>1. /\ Others(t) /\ Ref(t)' = Ref(t) /\ thread'[t].item = thread[t].item /\ thread[t].pc # "idle"
        /\ UNCHANGED <<samplers, recent>>
        /\ thread'[t].pc \in Holding => thread[t].pc \in Holding
        /\ \/ cache' = Ref(t)
           \/ cache' = cache /\ thread[t].pc \in Sampling
    BY <1>5 DEF Puts, MovesOn, Holds, Holding, Sampling
  <2>2. Ref(t)' # None => Unseen(Ref(t))'
    BY <1>alone, <2>1 DEF Unseen
  <2>3. cache' # None => Unseen(cache)'
    BY <1>alone, <2>1 DEF Unseen
  <2>4. thread'[t].pc \in Sampling => cache' \in {None, Ref(t)'}
    BY <1>alone, <2>1
  <2> QED
    BY <1>quiet, <1>alone, <2>1, <2>2, <2>3, <2>4, FreshKept
<1>6. ASSUME NEW t \in Threads, Draws(t) \/ Refills(t)
      PROVE  Fresh'
  <2>1. /\ Others(t) /\ Ref(t)' = Ref(t) /\ thread[t].pc \in Sampling
        /\ cache' = cache /\ recent' = recent
        /\ thread[t].pc = "draw" \/ thread[t].pc = "refill"
    BY <1>6 DEF Draws, Refills, Holds, Sampling
  <2>2. thread[t].pc # "idle" /\ Ref(t) \in Made
    BY <1>0, <2>1 DEF Placed
  <2>3. \A k \in Made : samplers'[k].left \subseteq samplers[k].left
    BY <1>6, <2>2 DEF Draws, Refills
  <2>4. Ref(t) # None
    BY <2>2 DEF IInv, TypeOK, None
  <2>5. Unseen(Ref(t))'
    BY <1>alone, <2>1, <2>2, <2>3, <2>4 DEF Unseen
  <2>6. thread'[t].item \notin recent
    <3>1. CASE Draws(t)
      BY <1>alone, <2>2, <2>4, <3>1 DEF Draws, Unseen
    <3>2. CASE Refills(t)
      BY <1>alone, <2>2, <3>2 DEF Refills, Holding
    <3> QED
      BY <1>6, <3>1, <3>2
  <2>7. cache' # None => Unseen(cache)'
    BY <1>alone, <2>1, <2>2, <2>3 DEF Unseen
  <2> QED
    BY <1>quiet, <1>alone, <2>1, <2>2, <2>5, <2>6, <2>7, FreshKept
<1>7. CASE Forgets
  BY <1>quiet, <1>7 DEF Forgets, Fresh, Unseen, Ref
<1> QED
  BY <1>1, <1>2, <1>3, <1>4, <1>5, <1>6, <1>7, Steps

LEMMA InitFresh == Init => Fresh
BY DEF Init, Idle, Fresh, Ref, Sampling, Holding

(* What a sampler may still give leaves out all that was recommended since *)
(* it was made, because it gave these itself; and a sampler for other      *)
(* settings leaves them out because it is made after they were saved.      *)
THEOREM NothingIsRepeated == Spec => []NoRepeat
<1>1. Fresh => NoRepeat
  BY DEF Fresh, NoRepeat, Holding
<1>2. IInv /\ Drawing /\ Fresh /\ [Next]_vars => (IInv /\ Drawing /\ Fresh)'
  BY StepTyped, DrawingStep, FreshStep
<1>3. Init => IInv /\ Drawing /\ Fresh
  BY InitTyped, InitDrawing, InitFresh
<1> QED
  BY <1>1, <1>2, <1>3, PTL DEF Spec

-----------------------------------------------------------------------------
(* What isEmpty says of a sampler, and what follows for a single request.  *)

(* When no sample() is under way on a sampler, isEmpty tells whether there *)
(* is something left in it.                                                *)
Truthful ==
    \A s \in Made : Unlocked(s) => (samplers[s].seemsEmpty <=> samplers[s].left = {})

\* A request that is alone draws from a sampler that it has found to hold something.
Stocked ==
    ~overlapped => \A t \in Threads : thread[t].pc = "draw" => samplers[Ref(t)].left # {}

(* As long as the user's requests do not overlap, sample() is not called   *)
(* on an empty sampler, and does not call itself until the stack overflows. *)
NotEmptiedByOneself == ~overlapped => NeverSampledEmpty

\* Only a thread that refills a sampler gives up its lock.
LEMMA LockKept ==
    ASSUME NEW t \in Threads, Others(t), thread[t].pc # "refill", NEW s, Unlocked(s)'
    PROVE  Unlocked(s)
<1>1. ASSUME NEW u \in Threads, thread[u].pc = "refill", Ref(u) = s
      PROVE  FALSE
  <2>1. thread'[u].pc = "refill" /\ Ref(u)' = s
    BY <1>1, Kept
  <2> QED
    BY <2>1 DEF Unlocked
<1> QED
  BY <1>1 DEF Unlocked

LEMMA TruthfulKept ==
    ASSUME Truthful, NEW t \in Threads, Others(t), thread[t].pc # "refill", samplers' = samplers
    PROVE  Truthful'
<1> SUFFICES ASSUME NEW s \in Made', Unlocked(s)'
             PROVE  samplers'[s].seemsEmpty <=> samplers'[s].left = {}
  BY DEF Truthful
<1>1. s \in Made
  BY DEF Made
<1>2. Unlocked(s)
  BY LockKept
<1> QED
  BY <1>1, <1>2 DEF Truthful

LEMMA TruthfulStep == IInv /\ Truthful /\ [Next]_vars => Truthful'
<1> SUFFICES ASSUME IInv, Truthful, [Next]_vars PROVE Truthful'
  OBVIOUS
<1>1. ASSUME NEW t \in Threads, Begins(t) \/ LetsGo(t) \/ Reuses(t) \/ Puts(t) \/ MovesOn(t)
      PROVE  Truthful'
  <2>1. Others(t) /\ thread[t].pc # "refill" /\ samplers' = samplers
    BY <1>1 DEF Begins, LetsGo, Reuses, Puts, MovesOn
  <2> QED
    BY <2>1, TruthfulKept
<1>2. ASSUME NEW t \in Threads, Loads(t)
      PROVE  Truthful'
  <2>1. PICK n \in Nat \ {None} :
          /\ Made' = Made \cup {n}
          /\ samplers'[n] = Loaded(t)
          /\ \A k \in Made : samplers'[k] = samplers[k]
    BY <1>2 DEF Loads
  <2>2. Others(t) /\ thread[t].pc # "refill"
    BY <1>2 DEF Loads
  <2>3. Loaded(t).seemsEmpty <=> Loaded(t).left = {}
    BY DEF Loaded
  <2>4. ASSUME NEW s \in Made, Unlocked(s)'
        PROVE  samplers'[s].seemsEmpty <=> samplers'[s].left = {}
    BY <2>1, <2>2, <2>4, LockKept DEF Truthful
  <2> QED
    BY <2>1, <2>3, <2>4 DEF Truthful
<1>3. ASSUME NEW t \in Threads, Draws(t)
      PROVE  Truthful'
  <2>1. /\ Others(t) /\ thread[t].pc = "draw" /\ Made' = Made
        /\ \A k \in Made : k # Ref(t) => samplers'[k] = samplers[k]
    BY <1>3 DEF Draws
  <2>2. thread'[t].pc = "refill" /\ Ref(t)' = Ref(t)
    BY <1>3 DEF Draws, Holds
  <2>3. ASSUME NEW s \in Made, Unlocked(s)'
        PROVE  samplers'[s].seemsEmpty <=> samplers'[s].left = {}
    <3>1. s # Ref(t)
      BY <2>2, <2>3 DEF Unlocked
    <3>2. Unlocked(s)
      BY <2>1, <2>3, LockKept
    <3> QED
      BY <2>1, <3>1, <3>2 DEF Truthful
  <2> QED
    BY <2>1, <2>3 DEF Truthful
<1>4. ASSUME NEW t \in Threads, Refills(t)
      PROVE  Truthful'
  <2>1. /\ Others(t) /\ Made' = Made
        /\ samplers'[Ref(t)].seemsEmpty <=> samplers'[Ref(t)].left = {}
        /\ \A k \in Made \ {Ref(t)} : samplers'[k] = samplers[k]
    BY <1>4 DEF Refills
  <2>2. ASSUME NEW s \in Made \ {Ref(t)}, Unlocked(s)'
        PROVE  Unlocked(s)
    <3>1. \A u \in Threads \ {t} : thread'[u] = thread[u] /\ Ref(u)' = Ref(u)
      BY <2>1, Kept
    <3> QED
      BY <2>2, <3>1 DEF Unlocked
  <2>3. ASSUME NEW s \in Made, Unlocked(s)'
        PROVE  samplers'[s].seemsEmpty <=> samplers'[s].left = {}
    BY <2>1, <2>2, <2>3 DEF Truthful
  <2> QED
    BY <2>1, <2>3 DEF Truthful
<1>5. CASE Forgets
  BY <1>5 DEF Forgets, Truthful, Unlocked, Ref, Made
<1> QED
  BY <1>1, <1>2, <1>3, <1>4, <1>5, Steps

LEMMA StockedStep == IInv /\ IInv' /\ Fresh /\ Truthful /\ Stocked /\ [Next]_vars => Stocked'
<1> SUFFICES ASSUME IInv, IInv', Fresh, Truthful, Stocked, [Next]_vars, ~overlapped',
                    NEW u \in Threads, thread'[u].pc = "draw"
             PROVE  samplers'[Ref(u)'].left # {}
  BY DEF Stocked
<1>0. \A t \in Threads : Placed(t) /\ Placed(t)'
  BY PlacedBefore, PlacedAfter
<1>quiet. ~overlapped
  <2>1. overlapped \in BOOLEAN
    BY TypesOf
  <2>2. overlapped => overlapped'
    BY Steps DEF Begins, LetsGo, Reuses, Loads, Puts, MovesOn, Draws, Refills, Forgets
  <2> QED
    BY <2>1, <2>2
\* Whoever is at work and takes a step is the thread that draws afterwards.
<1>alone. ASSUME NEW t \in Threads, thread[t].pc # "idle"
          PROVE  \A v \in Threads \ {t} : thread[v].pc = "idle"
  BY <1>quiet, <1>alone DEF Fresh
<1>mine. ASSUME NEW t \in Threads, Others(t), thread[t].pc # "idle"
         PROVE  u = t
  BY <1>alone, <1>mine, Kept
<1>1. ASSUME NEW t \in Threads, Begins(t)
      PROVE  samplers'[Ref(u)'].left # {}
  <2>1. \A v \in Threads : thread[v].pc = "idle"
    BY <1>1 DEF Begins
  <2>2. u = t
    BY <1>1, <2>1, Kept DEF Begins
  <2> QED
    BY <1>0, <1>1, <2>2 DEF Begins, Placed, IInv, TypeOK, None
<1>2. ASSUME NEW t \in Threads, LetsGo(t) \/ Reuses(t) \/ Loads(t) \/ Puts(t) \/ Draws(t) \/ Refills(t)
      PROVE  FALSE
  <2>1. Others(t) /\ thread[t].pc # "idle"
    BY <1>2 DEF LetsGo, Reuses, Loads, Puts, Draws, Refills
  <2>2. u = t
    BY <1>mine, <2>1
  <2>3. LetsGo(t) => Ref(t)' = None /\ Ref(t)' \in Made'
    BY <1>0, <2>2 DEF LetsGo, Placed
  <2> QED
    BY <1>2, <2>2, <2>3 DEF Reuses, Loads, Puts, Draws, Refills, IInv, TypeOK, None
<1>3. ASSUME NEW t \in Threads, MovesOn(t)
      PROVE  samplers'[Ref(u)'].left # {}
  <2>1. Others(t) /\ thread[t].pc # "idle" /\ Ref(t)' = Ref(t) /\ samplers' = samplers
    BY <1>3 DEF MovesOn, Holds
  <2>2. u = t
    BY <1>mine, <2>1
  <2>3. thread[t].pc = "check" /\ ~samplers[Ref(t)].seemsEmpty
    BY <1>3, <2>2 DEF MovesOn
  <2>4. Unlocked(Ref(t))
    BY <1>alone, <2>1, <2>3 DEF Unlocked
  <2>5. Ref(t) \in Made
    BY <1>0, <2>3 DEF Placed
  <2> QED
    BY <2>1, <2>2, <2>3, <2>4, <2>5 DEF Truthful
<1>4. CASE Forgets
  BY <1>quiet, <1>4 DEF Forgets, Stocked, Ref
<1> QED
  BY <1>1, <1>2, <1>3, <1>4, Steps

LEMMA InitTruthful == Init => Truthful /\ Stocked
BY DEF Init, Idle, Truthful, Stocked, Made

(* isEmpty does not wait for a sample() under way, and may then say that a *)
(* sampler is empty that is not.  At any other time it is right, whatever  *)
(* the requests of the user that draw from the sampler.                    *)
THEOREM EmptinessIsKnown == Spec => []Truthful
BY InitTyped, StepTyped, InitTruthful, TruthfulStep, PTL DEF Spec

(* The recursion of sample() on an empty sampler needs two requests of one *)
(* user at the same time: with one at a time, nothing comes between        *)
(* isEmpty and sample().                                                   *)
THEOREM EmptiedOnlyByAnother == Spec => []NotEmptiedByOneself
<1>1. Stocked => NotEmptiedByOneself
  BY DEF Stocked, NotEmptiedByOneself, NeverSampledEmpty
<1>2. IInv /\ Drawing /\ Fresh /\ Truthful /\ Stocked /\ [Next]_vars
          => (IInv /\ Drawing /\ Fresh /\ Truthful /\ Stocked)'
  BY StepTyped, DrawingStep, FreshStep, TruthfulStep, StockedStep
<1>3. Init => IInv /\ Drawing /\ Fresh /\ Truthful /\ Stocked
  BY InitTyped, InitDrawing, InitFresh, InitTruthful
<1> QED
  BY <1>1, <1>2, <1>3, PTL DEF Spec

-----------------------------------------------------------------------------
(* Fairness of the sampler, by induction over the population.  Induction   *)
(* itself follows from the fact that every set of numbers has a least one. *)
HIDE RecommendationsAssumption DEF RecommendationsAssumption
USE ProbabilityAssumption

LEMMA LeastNumber ==
    ASSUME NEW T \in SUBSET Nat, T # {}
    PROVE  \E n \in T : \A m \in T : n <= m
<1> DEFINE R == {ss \in Nat \X Nat : ss[1] < ss[2]}
<1>1. IsWellFoundedOn(R, Nat)
  <2>1. R = OpToRel(<, Nat)
    BY Zenon DEF OpToRel
  <2> QED
    BY <2>1, NatLessThanWellFounded, Zenon
<1>2. \A n, m \in T : <<m, n>> \in R <=> m < n
  OBVIOUS
<1> HIDE DEF R
<1>3. PICK n \in T : \A m \in T : ~ (<<m, n>> \in R)
  BY <1>1, WFMin
<1>4. \A m \in T : ~ (m < n)
  BY <1>2, <1>3
<1>5. \A m \in T : n <= m
  BY <1>4
<1> QED
  BY <1>5

LEMMA Induction ==
    ASSUME NEW P, NEW N \in Nat, 0 \in P, \A n \in 0..(N - 1) : n \in P => n + 1 \in P
    PROVE  \A n \in 0..N : n \in P
<1> DEFINE T == (0..N) \ P
<1> SUFFICES ASSUME T # {} PROVE FALSE
  OBVIOUS
<1>1. T \in SUBSET Nat
  OBVIOUS
<1> HIDE DEF T
<1>2. PICK n \in T : \A m \in T : n <= m
  BY <1>1, LeastNumber
<1> USE DEF T
<1>3. n \in 1..N /\ n - 1 \notin T
  BY <1>2
<1>4. n - 1 \in 0..(N - 1) /\ n - 1 \in P /\ (n - 1) + 1 = n
  BY <1>3
<1>5. n \in P
  BY <1>4
<1> QED
  BY <1>2, <1>5

-----------------------------------------------------------------------------
(* The loops of the sampler.                                               *)

Distributions == UNION {[K -> Elements] : K \in SUBSET Nat}
Samplers == [distribution : Distributions, sum : Nat]

\* new is old with e at key.
Enters(new, old, key, e) ==
    /\ DOMAIN new = DOMAIN old \cup {key}
    /\ new[key] = e
    /\ \A k \in DOMAIN old : k # key => new[k] = old[k]

LEMMA Entering ==
    ASSUME NEW map \in Distributions, NEW key \in Nat, NEW e \in Elements
    PROVE  /\ Entered(map, key, e) \in Distributions
           /\ Enters(Entered(map, key, e), map, key, e)
<1>1. PICK K \in SUBSET Nat : map \in [K -> Elements]
  BY DEF Distributions
<1>2. Entered(map, key, e) \in [K \cup {key} -> Elements]
  BY <1>1 DEF Entered
<1>3. Entered(map, key, e) \in Distributions
  BY <1>2 DEF Distributions
<1>4. Enters(Entered(map, key, e), map, key, e)
  BY <1>1 DEF Entered, Enters
<1> QED
  BY <1>3, <1>4

LEMMA PuttingOne ==
    ASSUME NEW s \in Samplers, NEW e \in Elements
    PROVE  /\ PutNext(s, e) \in Samplers
           /\ PutNext(s, e).sum = s.sum + Probability[e]
           /\ PutNext(s, e).distribution = Entered(s.distribution, s.sum + Probability[e], e)
<1>1. s.sum + Probability[e] \in Nat /\ s.distribution \in Distributions
  BY DEF Samplers
<1>2. Entered(s.distribution, s.sum + Probability[e], e) \in Distributions
  BY <1>1, Entering
<1> QED
  BY <1>1, <1>2 DEF PutNext, Samplers

LEMMA PuttingAll ==
    ASSUME NEW s \in Samplers, NEW elements \in Seq(Elements)
    PROVE  \E loop \in [0..Len(elements) -> Samplers] :
             /\ loop[0] = s
             /\ \A n \in 1..Len(elements) : loop[n] = PutNext(loop[n - 1], elements[n])
             /\ PutAll(s, elements) = loop[Len(elements)]
<1> DEFINE N == Len(elements)
           After(g, n) == g[0] = s /\ \A i \in 1..n : g[i] = PutNext(g[i - 1], elements[i])
           P == {n \in Nat : \E g \in [0..n -> Samplers] : After(g, n)}
           Round(g) == [n \in 0..N |-> IF n = 0 THEN s ELSE PutNext(g[n - 1], elements[n])]
           loop[n \in 0..Len(elements)] ==
             IF n = 0 THEN s ELSE PutNext(loop[n - 1], elements[n])
<1>1. N \in Nat /\ \A n \in 1..N : elements[n] \in Elements
  OBVIOUS
<1> HIDE DEF N
<1>2. 0 \in P
  <2>1. [i \in 0..0 |-> s] \in [0..0 -> Samplers] /\ After([i \in 0..0 |-> s], 0)
    OBVIOUS
  <2> QED
    BY <2>1
<1>3. ASSUME NEW n \in 0..(N - 1), \E g \in [0..n -> Samplers] : After(g, n)
      PROVE  \E g \in [0..(n + 1) -> Samplers] : After(g, n + 1)
  <2>1. PICK g \in [0..n -> Samplers] : After(g, n)
    BY <1>3
  <2> DEFINE next == PutNext(g[n], elements[n + 1])
             h == [i \in 0..(n + 1) |-> IF i = n + 1 THEN next ELSE g[i]]
  <2>2. next \in Samplers
    BY <1>1, <1>3, PuttingOne
  <2> HIDE DEF next
  <2>3. h \in [0..(n + 1) -> Samplers]
    BY <2>2
  <2>4. \A i \in 0..n : h[i] = g[i]
    OBVIOUS
  <2>5. h[n + 1] = PutNext(h[n], elements[n + 1])
    BY DEF next
  <2> HIDE DEF h
  <2>6. After(h, n + 1)
    <3>1. \A i \in 1..(n + 1) : i = n + 1 \/ (i \in 1..n /\ i - 1 \in 0..n)
      BY <1>3
    <3>2. \A i \in 1..n : h[i] = PutNext(h[i - 1], elements[i])
      BY <2>1, <2>4, <3>1
    <3>3. ASSUME NEW i \in 1..(n + 1), i = n + 1
          PROVE  h[i] = PutNext(h[i - 1], elements[i])
      <4>1. i - 1 = n
        BY <3>3
      <4> QED
        BY <2>5, <3>3, <4>1
    <3>4. h[0] = s
      BY <2>1, <2>4
    <3> QED
      BY <3>1, <3>2, <3>3, <3>4
  <2> QED
    BY <2>3, <2>6
<1> HIDE DEF After
<1>4. \A n \in 0..(N - 1) : n \in P => n + 1 \in P
  BY <1>3
<1> HIDE DEF P
<1>5. \A n \in 0..N : n \in P
  BY <1>1, <1>2, <1>4, Induction
<1>6. PICK g \in [0..N -> Samplers] : After(g, N)
  BY <1>1, <1>5 DEF P
<1>7. g = Round(g)
  BY <1>1, <1>6 DEF After
<1>8. loop = CHOOSE f : f = Round(f)
  BY DEF N
<1> HIDE DEF Round, loop
<1>9. loop = Round(loop)
  BY <1>7, <1>8, Zenon
<1>10. PutAll(s, elements) = loop[N]
  BY DEF PutAll, loop, N
<1>11. /\ DOMAIN loop = 0..N /\ loop[0] = s
       /\ \A n \in 1..N : loop[n] = PutNext(loop[n - 1], elements[n])
  BY <1>1, <1>9 DEF Round
<1> DEFINE Q == {n \in Nat : loop[n] \in Samplers}
<1>12. 0 \in Q
  BY <1>11
<1>13. ASSUME NEW n \in 0..(N - 1), loop[n] \in Samplers
       PROVE  loop[n + 1] \in Samplers
  <2>1. loop[n + 1] = PutNext(loop[n], elements[n + 1])
    BY <1>1, <1>11
  <2>2. elements[n + 1] \in Elements
    BY <1>1
  <2> QED
    BY <1>13, <2>1, <2>2, PuttingOne
<1>14. \A n \in 0..(N - 1) : n \in Q => n + 1 \in Q
  BY <1>13
<1> HIDE DEF Q
<1>15. \A n \in 0..N : n \in Q
  BY <1>1, <1>12, <1>14, Induction
<1>16. loop \in [0..N -> Samplers]
  BY <1>9, <1>15 DEF Round, Q
<1> QED
  BY <1>10, <1>11, <1>16 DEF N

-----------------------------------------------------------------------------
(* Running sums.                                                           *)

LEMMA Increasing ==
    ASSUME NEW m \in Nat, NEW f \in [0..m -> Nat], \A i \in 1..m : f[i - 1] < f[i]
    PROVE  \A i, j \in 0..m : i < j => f[i] < f[j]
<1> DEFINE P == {j \in 0..m : \A i \in 0..m : i < j => f[i] < f[j]}
<1>1. 0 \in P
  OBVIOUS
<1>2. ASSUME NEW n \in 0..(m - 1), n \in P
      PROVE  n + 1 \in P
  <2>1. n + 1 \in 1..m /\ (n + 1) - 1 = n
    OBVIOUS
  <2>2. f[n] < f[n + 1]
    BY <2>1
  <2>3. ASSUME NEW i \in 0..m, i < n + 1
        PROVE  f[i] < f[n + 1]
    <3>1. i = n \/ i < n
      BY <2>3
    <3>2. f[i] = f[n] \/ f[i] < f[n]
      BY <1>2, <3>1
    <3> QED
      BY <2>2, <3>2
  <2> QED
    BY <2>1, <2>3
<1> HIDE DEF P
<1>3. \A j \in 0..m : j \in P
  BY <1>1, <1>2, Induction
<1> QED
  BY <1>3 DEF P

\* sums are the keys at which the elements are put into a sampler, after its own.
Sums(sums, before, elements) ==
    /\ sums \in [0..Len(elements) -> Nat]
    /\ sums[0] = before
    /\ \A i \in 1..Len(elements) : sums[i] = sums[i - 1] + Probability[elements[i]]

\* sampler with the first n elements, put under their sums.
Extends(sampler, elements, sums, n, extended) ==
    /\ extended \in Samplers
    /\ extended.sum = sums[n]
    /\ DOMAIN extended.distribution = DOMAIN sampler.distribution \cup {sums[i] : i \in 1..n}
    /\ \A k \in DOMAIN sampler.distribution : extended.distribution[k] = sampler.distribution[k]
    /\ \A i \in 1..n : extended.distribution[sums[i]] = elements[i]

LEMMA SameSums ==
    ASSUME NEW elements \in Seq(Elements), NEW before, NEW f, NEW g,
           Sums(f, before, elements), Sums(g, before, elements)
    PROVE  f = g
<1> DEFINE N == Len(elements)
           P == {i \in 0..N : f[i] = g[i]}
<1>1. N \in Nat /\ \A i \in 1..N : Probability[elements[i]] \in Nat
  OBVIOUS
<1>2. /\ f \in [0..N -> Nat] /\ f[0] = before
      /\ \A i \in 1..N : f[i] = f[i - 1] + Probability[elements[i]]
  BY DEF Sums
<1>3. /\ g \in [0..N -> Nat] /\ g[0] = before
      /\ \A i \in 1..N : g[i] = g[i - 1] + Probability[elements[i]]
  BY DEF Sums
<1> HIDE DEF N
<1>4. 0 \in P
  BY <1>1, <1>2, <1>3
<1>5. ASSUME NEW n \in 0..(N - 1), n \in P
      PROVE  n + 1 \in P
  <2>1. n + 1 \in 1..N /\ n + 1 \in 0..N /\ (n + 1) - 1 = n /\ f[n] = g[n]
    BY <1>1, <1>5
  <2>2. f[n + 1] = f[n] + Probability[elements[n + 1]]
    BY <1>2, <2>1
  <2>3. g[n + 1] = g[n] + Probability[elements[n + 1]]
    BY <1>3, <2>1
  <2> QED
    BY <2>1, <2>2, <2>3
<1> HIDE DEF P
<1>6. \A i \in 0..N : i \in P
  BY <1>1, <1>4, <1>5, Induction
<1>7. \A i \in 0..N : f[i] = g[i]
  BY <1>6 DEF P
<1>8. f \in [0..N -> Nat] /\ g \in [0..N -> Nat]
  BY <1>2, <1>3
<1>9. /\ f = [i \in 0..N |-> f[i]] /\ g = [i \in 0..N |-> g[i]]
      /\ [i \in 0..N |-> f[i]] = [i \in 0..N |-> g[i]]
  BY <1>7, <1>8
<1> QED
  BY <1>9

LEMMA SumsIncrease ==
    ASSUME NEW elements \in Seq(Elements), NEW before, NEW sums, Sums(sums, before, elements)
    PROVE  \A i, j \in 0..Len(elements) : i < j => sums[i] < sums[j]
<1>1. Len(elements) \in Nat /\ \A i \in 1..Len(elements) : elements[i] \in Elements
  OBVIOUS
<1>2. \A i \in 1..Len(elements) : Probability[elements[i]] \in Nat \ {0}
  BY <1>1
<1>3. \A i \in 1..Len(elements) : i \in 0..Len(elements) /\ i - 1 \in 0..Len(elements)
  BY <1>1
<1>4. ASSUME NEW i \in 1..Len(elements)
      PROVE  sums[i - 1] < sums[i]
  <2>1. sums[i - 1] \in Nat /\ sums[i] = sums[i - 1] + Probability[elements[i]]
    BY <1>3 DEF Sums
  <2>2. Probability[elements[i]] \in Nat \ {0}
    BY <1>2
  <2> QED
    BY <2>1, <2>2
<1> QED
  BY <1>1, <1>4, Increasing DEF Sums

LEMMA Putting ==
    ASSUME NEW s \in Samplers, \A k \in DOMAIN s.distribution : k <= s.sum,
           NEW elements \in Seq(Elements)
    PROVE  \E sums : /\ Sums(sums, s.sum, elements)
                     /\ Extends(s, elements, sums, Len(elements), PutAll(s, elements))
<1> DEFINE N == Len(elements)
<1>1. N \in Nat /\ \A n \in 1..N : elements[n] \in Elements
  OBVIOUS
<1>2. PICK loop \in [0..N -> Samplers] :
        /\ loop[0] = s
        /\ \A n \in 1..N : loop[n] = PutNext(loop[n - 1], elements[n])
        /\ PutAll(s, elements) = loop[N]
  BY PuttingAll
<1> HIDE DEF N
<1> DEFINE sums == [n \in 0..N |-> loop[n].sum]
<1>3. sums \in [0..N -> Nat] /\ sums[0] = s.sum
  BY <1>1, <1>2 DEF Samplers
<1>4. ASSUME NEW n \in 1..N
      PROVE  /\ loop[n].sum = loop[n - 1].sum + Probability[elements[n]]
             /\ loop[n].distribution = Entered(loop[n - 1].distribution, loop[n].sum, elements[n])
  <2>1. n - 1 \in 0..N
    BY <1>1
  <2> DEFINE old == loop[n - 1]
             e == elements[n]
  <2>2. old \in Samplers /\ e \in Elements /\ loop[n] = PutNext(old, e)
    BY <1>1, <1>2, <2>1
  <2> HIDE DEF old, e
  <2>3. loop[n].sum = old.sum + Probability[e]
    BY <2>2, PuttingOne
  <2>4. loop[n].distribution = Entered(old.distribution, old.sum + Probability[e], e)
    BY <2>2, PuttingOne
  <2>5. loop[n].distribution = Entered(old.distribution, loop[n].sum, e)
    BY <2>3, <2>4
  <2> QED
    BY <2>3, <2>5 DEF old, e
<1>5. \A n \in 1..N : sums[n] = sums[n - 1] + Probability[elements[n]]
  BY <1>1, <1>4
<1>6. Sums(sums, s.sum, elements)
  BY <1>3, <1>5 DEF Sums, N
<1>7. \A n \in 0..N : loop[n].sum = sums[n]
  OBVIOUS
<1> HIDE DEF sums
<1>8. \A i, j \in 0..N : i < j => sums[i] < sums[j]
  BY <1>6, SumsIncrease DEF N
<1> DEFINE P == {n \in 0..N : Extends(s, elements, sums, n, loop[n])}
<1>9. 0 \in P
  <2>1. {sums[i] : i \in 1..0} = {}
    OBVIOUS
  <2> QED
    BY <1>1, <1>2, <1>3, <2>1 DEF Extends
<1>10. ASSUME NEW n \in 0..(N - 1), n \in P
       PROVE  n + 1 \in P
  <2> DEFINE m == n + 1
             old == loop[n].distribution
             new == loop[m].distribution
  <2>1. m \in 1..N /\ m - 1 = n /\ m = n + 1
    BY <1>1
  <2>2. new = Entered(old, sums[m], elements[m]) /\ loop[m].sum = sums[m]
    BY <1>4, <1>7, <2>1
  <2>3. loop[m] \in Samplers /\ old \in Distributions /\ sums[m] \in Nat /\ elements[m] \in Elements
    BY <1>1, <1>2, <1>3, <2>1 DEF Samplers
  <2>4. Extends(s, elements, sums, n, loop[n])
    BY <1>10
  <2> HIDE DEF new, old, m
  <2>5. /\ DOMAIN new = DOMAIN old \cup {sums[m]}
        /\ new[sums[m]] = elements[m]
        /\ \A k \in DOMAIN old : k # sums[m] => new[k] = old[k]
    <3>1. Enters(Entered(old, sums[m], elements[m]), old, sums[m], elements[m])
      BY <2>3, Entering
    <3>2. Enters(new, old, sums[m], elements[m])
      BY <2>2, <3>1
    <3> QED
      BY <3>2 DEF Enters
  <2>6. \A k \in DOMAIN s.distribution : k \in Nat /\ k <= s.sum
    <3>1. s.distribution \in Distributions
      BY DEF Samplers
    <3> QED
      BY <3>1 DEF Distributions
  <2>7. sums[0] < sums[m]
    BY <1>1, <1>8, <2>1
  <2>8. \A k \in DOMAIN s.distribution : k \in DOMAIN old \ {sums[m]}
    <3>1. s.sum = sums[0] /\ sums[0] \in Nat /\ sums[m] \in Nat
      <4>1. 0 \in 0..N
        BY <1>1
      <4> QED
        BY <1>3, <2>3, <4>1
    <3>2. \A k \in DOMAIN s.distribution : k # sums[m]
      BY <2>6, <2>7, <3>1
    <3> QED
      BY <2>4, <3>2 DEF Extends, old
  <2>9. \A i \in 1..n : sums[i] \in DOMAIN old \ {sums[m]}
    <3>1. \A i \in 1..n : sums[i] < sums[m] /\ sums[i] \in Nat
      BY <1>1, <1>3, <1>8, <2>1
    <3> QED
      BY <2>3, <2>4, <3>1 DEF Extends, old
  <2>10. DOMAIN new = DOMAIN s.distribution \cup {sums[i] : i \in 1..m}
    <3>1. \A i : i \in 1..m <=> i \in 1..n \/ i = m
      BY <2>1
    <3>2. {sums[i] : i \in 1..m} = {sums[i] : i \in 1..n} \cup {sums[m]}
      BY <3>1
    <3> QED
      BY <2>4, <2>5, <3>2 DEF Extends, old
  <2>11. \A k \in DOMAIN s.distribution : new[k] = s.distribution[k]
    BY <2>4, <2>5, <2>8 DEF Extends, old
  <2>12. \A i \in 1..m : new[sums[i]] = elements[i]
    <3>1. \A i \in 1..m : i \in 1..n \/ i = m
      BY <2>1
    <3>2. \A i \in 1..n : new[sums[i]] = elements[i]
      BY <2>4, <2>5, <2>9 DEF Extends, old
    <3> QED
      BY <2>5, <3>1, <3>2
  <2> QED
    BY <2>1, <2>2, <2>3, <2>10, <2>11, <2>12 DEF Extends, new, m
<1> HIDE DEF P
<1>11. \A n \in 0..N : n \in P
  BY <1>1, <1>9, <1>10, Induction
<1>12. Extends(s, elements, sums, N, loop[N])
  BY <1>1, <1>11 DEF P
<1> QED
  BY <1>2, <1>6, <1>12 DEF N

-----------------------------------------------------------------------------
(* Least keys, and keys in order.                                          *)

LEMMA Minimum ==
    ASSUME NEW T \in SUBSET Nat, NEW n \in T, \A m \in T : n <= m
    PROVE  Min(T) = n
<1>1. Min(T) \in T /\ \A m \in T : Min(T) <= m
  BY Zenon DEF Min
<1>2. Min(T) \in Nat /\ n \in Nat /\ Min(T) <= n /\ n <= Min(T)
  BY <1>1
<1> QED
  BY <1>2

LEMMA SameOrder ==
    ASSUME NEW m \in Nat, NEW f \in [1..m -> Nat], NEW g \in [1..m -> Nat],
           \A i, j \in 1..m : i < j => f[i] < f[j],
           \A i, j \in 1..m : i < j => g[i] < g[j],
           \A i \in 1..m : \E j \in 1..m : g[j] = f[i],
           \A i \in 1..m : \E j \in 1..m : f[j] = g[i]
    PROVE  f = g
<1> DEFINE T == {i \in 1..m : f[i] # g[i]}
<1>1. ASSUME T # {}
      PROVE  FALSE
  <2>1. T \in SUBSET Nat
    OBVIOUS
  <2> HIDE DEF T
  <2>2. PICK i \in T : \A k \in T : i <= k
    BY <1>1, <2>1, LeastNumber
  <2>3. i \in 1..m /\ f[i] # g[i]
    BY DEF T
  <2>4. \A k \in 1..m : k < i => f[k] = g[k]
    BY <2>2 DEF T
  <2>5. PICK j \in 1..m : g[j] = f[i]
    BY <2>3
  <2>6. PICK k \in 1..m : f[k] = g[i]
    BY <2>3
  <2>7. f[i] \in Nat /\ g[i] \in Nat /\ f[j] \in Nat /\ g[k] \in Nat
    BY <2>3
  <2>8. j # i /\ k # i
    BY <2>3, <2>5, <2>6
  <2>9. ~ (j < i)
    BY <2>3, <2>4, <2>5, <2>7
  <2>10. ~ (k < i)
    BY <2>3, <2>4, <2>6, <2>7
  <2>11. i < j /\ i < k
    BY <2>3, <2>8, <2>9, <2>10
  <2>12. g[i] < g[j] /\ f[i] < f[k]
    BY <2>3, <2>11
  <2>13. g[i] < f[i] /\ f[i] < g[i]
    BY <2>5, <2>6, <2>12, Zenon
  <2> QED
    BY SMTT(20), <2>3, <2>7, <2>13
<1>2. \A i \in 1..m : f[i] = g[i]
  BY <1>1
<1> QED
  BY <1>2

LEMMA InOrder ==
    ASSUME NEW m \in Nat, NEW f \in [1..m -> Nat], \A i, j \in 1..m : i < j => f[i] < f[j]
    PROVE  Ascending({f[i] : i \in 1..m}) = f
<1> DEFINE keys == {f[i] : i \in 1..m}
           Grows(g) == \A i, j \in DOMAIN g : i < j => g[i] < g[j]
           g == Ascending(keys)
<1>1. IsFiniteSet(1..m) /\ Cardinality(1..m) = m
  BY FS_Interval
<1>2. \A i, j \in 1..m : f[i] = f[j] => i = j
  OBVIOUS
<1>3. f \in Bijection(1..m, keys)
  <2>1. f \in [1..m -> keys] /\ \A k \in keys : \E i \in 1..m : f[i] = k
    OBVIOUS
  <2> QED
    BY <1>2, <2>1, Fun_IsBij
<1>4. ExistsBijection(1..m, keys)
  BY <1>3, Zenon DEF ExistsBijection
<1>5. IsFiniteSet(keys) /\ Cardinality(keys) = m
  BY <1>1, <1>4, FS_Bijection
<1>6. f \in [1..m -> keys] /\ Grows(f) /\ keys \in SUBSET Nat
  OBVIOUS
<1> HIDE DEF keys
<1>7. g = CHOOSE h \in [1..m -> keys] : Grows(h)
  BY <1>5 DEF Ascending
<1> HIDE DEF g, Grows
<1>8. g \in [1..m -> keys] /\ Grows(g)
  BY <1>6, <1>7, Zenon
<1>9. \A i, j \in 1..m : i < j => g[i] < g[j]
  BY <1>8 DEF Grows
<1>10. \A i, j \in 1..m : g[i] = g[j] => i = j
  <2>1. ASSUME NEW i \in 1..m, NEW j \in 1..m, g[i] = g[j]
        PROVE  i = j
    <3>1. g[i] \in Nat /\ g[j] \in Nat
      BY <1>6, <1>8
    <3>2. ~ (i < j) /\ ~ (j < i)
      BY <1>9, <2>1, <3>1
    <3> QED
      BY <3>2
  <2> QED
    BY <2>1
<1>11. g \in Surjection(1..m, keys)
  <2>1. g \in Injection(1..m, keys)
    BY <1>8, <1>10, Fun_IsInj
  <2> QED
    BY <1>1, <1>5, <2>1, FS_Injection
<1>12. \A k \in keys : \E i \in 1..m : g[i] = k
  BY <1>11, Fun_SurjectionProperties
<1>13. \A i \in 1..m : \E j \in 1..m : g[j] = f[i]
  BY <1>6, <1>12
<1>14. \A i \in 1..m : \E j \in 1..m : f[j] = g[i]
  <2>1. \A k \in keys : \E j \in 1..m : f[j] = k
    BY DEF keys
  <2> QED
    BY <1>8, <2>1
<1>15. g \in [1..m -> Nat]
  BY <1>6, <1>8
<1>16. f = g
  BY <1>9, <1>13, <1>14, <1>15, SameOrder
<1> QED
  BY <1>16 DEF g, keys

-----------------------------------------------------------------------------
(* The sampler of a population.                                            *)

\* sampler is that of population, whose running sums are sums.
Represents(sampler, population, sums) ==
    /\ sampler \in Samplers
    /\ sampler.sum = sums[Len(population)]
    /\ DOMAIN sampler.distribution = {sums[i] : i \in 1..Len(population)}
    /\ \A i \in 1..Len(population) : sampler.distribution[sums[i]] = population[i]

LEMMA NewSamplerRepresents ==
    ASSUME NEW population \in Seq(Elements)
    PROVE  \E sums : Sums(sums, 0, population) /\ Represents(NewSampler(population), population, sums)
<1> DEFINE s == EmptySampler
<1>1. s \in Samplers /\ s.sum = 0 /\ DOMAIN s.distribution = {}
  <2>1. [k \in {} |-> k] \in [{} -> Elements]
    OBVIOUS
  <2>2. [k \in {} |-> k] \in Distributions /\ DOMAIN [k \in {} |-> k] = {}
    BY <2>1 DEF Distributions
  <2> QED
    BY <2>2 DEF EmptySampler, Samplers
<1> HIDE DEF s
<1>2. PICK sums : /\ Sums(sums, s.sum, population)
                  /\ Extends(s, population, sums, Len(population), PutAll(s, population))
  BY <1>1, Putting
<1>3. Represents(PutAll(s, population), population, sums)
  BY <1>1, <1>2 DEF Extends, Represents
<1> QED
  BY <1>1, <1>2, <1>3 DEF NewSampler, s

LEMMA SameSampler ==
    ASSUME NEW population, NEW sums, NEW a, NEW b,
           Represents(a, population, sums), Represents(b, population, sums)
    PROVE  a = b
<1> DEFINE K == {sums[i] : i \in 1..Len(population)}
           f == a.distribution
           g == b.distribution
<1>1. a \in Samplers /\ b \in Samplers /\ a.sum = b.sum
  BY DEF Represents
<1>2. f \in Distributions /\ g \in Distributions
  BY <1>1 DEF Samplers
<1>3. DOMAIN f = K /\ DOMAIN g = K
  BY DEF Represents
<1>4. \A k \in K : f[k] = g[k]
  BY DEF Represents
<1> HIDE DEF K
<1>5. f = g
  <2> HIDE DEF f, g
  <2> QED
    BY <1>2, <1>3, <1>4 DEF Distributions
<1> QED
  BY <1>1, <1>5 DEF Samplers

\* x is among the numbers that lead to place j of the population.
Leads(sums, j, x) == sums[j - 1] < x /\ x <= sums[j]

LEMMA Leading ==
    ASSUME NEW population \in Seq(Elements), NEW sums, Sums(sums, 0, population),
           NEW x \in 1..sums[Len(population)]
    PROVE  \E j \in 1..Len(population) : Leads(sums, j, x)
<1> DEFINE N == Len(population)
           T == {i \in 0..N : x <= sums[i]}
<1>1. N \in Nat
  OBVIOUS
<1> HIDE DEF N
<1>2. sums \in [0..N -> Nat] /\ sums[0] = 0 /\ N \in 0..N
  BY <1>1 DEF Sums, N
<1>3. T \in SUBSET Nat /\ N \in T
  BY <1>2 DEF N
<1> HIDE DEF T
<1>4. PICK j \in T : \A i \in T : j <= i
  BY <1>3, LeastNumber
<1> USE DEF T
<1>5. j \in 0..N /\ x <= sums[j] /\ x >= 1 /\ x \in Nat
  <2>1. sums[N] \in Nat /\ x \in 1..sums[N]
    BY <1>2 DEF N
  <2> QED
    BY <2>1
<1>6. j # 0
  BY <1>2, <1>5
<1>7. j \in 1..N /\ j - 1 \in 0..N /\ j - 1 < j
  BY <1>1, <1>5, <1>6
<1>8. ~ (x <= sums[j - 1])
  BY <1>4, <1>7
<1>9. sums[j - 1] \in Nat /\ x \in Nat
  BY <1>2, <1>5, <1>7
<1> QED
  BY <1>5, <1>7, <1>8, <1>9 DEF Leads, N

LEMMA SampleIsPlace ==
    ASSUME NEW population \in Seq(Elements), NEW sums, Sums(sums, 0, population),
           NEW sampler, Represents(sampler, population, sums),
           NEW j \in 1..Len(population), NEW x \in Nat, Leads(sums, j, x)
    PROVE  /\ TailMap(sampler, x) = {sums[i] : i \in j..Len(population)}
           /\ Min(TailMap(sampler, x)) = sums[j]
           /\ Sample(sampler, x) = population[j]
<1> DEFINE N == Len(population)
           tail == {sums[i] : i \in j..N}
<1>1. N \in Nat /\ sums \in [0..N -> Nat] /\ \A i, k \in 0..N : i < k => sums[i] < sums[k]
  <2>1. \A i, k \in 0..N : i < k => sums[i] < sums[k]
    BY SumsIncrease
  <2> QED
    BY <2>1 DEF Sums
<1>2. /\ DOMAIN sampler.distribution = {sums[i] : i \in 1..N}
      /\ sampler.distribution[sums[j]] = population[j]
  BY DEF Represents
<1>3. j \in 1..N
  OBVIOUS
<1> HIDE DEF N
<1>4. j - 1 \in 0..N /\ j \in 0..N
  BY <1>1, <1>3
<1>5. \A i \in 1..N : i \in 0..N
  BY <1>1
<1>6. \A i \in 1..N : i \in j..N <=> ~ (i <= j - 1)
  BY <1>1, <1>3
<1>7. \A i \in 1..N : i \in j..N => sums[i] >= x
  <2>1. ASSUME NEW i \in 1..N, i \in j..N
        PROVE  sums[i] >= x
    <3>1. sums[j] \in Nat /\ sums[i] \in Nat /\ x <= sums[j]
      BY <1>1, <1>4, <1>5 DEF Leads
    <3>2. i = j \/ j < i
      BY <1>3, <2>1
    <3>3. sums[i] = sums[j] \/ sums[j] < sums[i]
      BY <1>1, <1>4, <1>5, <3>2
    <3> QED
      BY <3>1, <3>3
  <2> QED
    BY <2>1
<1>8. \A i \in 1..N : i <= j - 1 => ~ (sums[i] >= x)
  <2>1. ASSUME NEW i \in 1..N, i <= j - 1
        PROVE  ~ (sums[i] >= x)
    <3>1. sums[j - 1] \in Nat /\ sums[i] \in Nat /\ sums[j - 1] < x
      BY <1>1, <1>4, <1>5 DEF Leads
    <3>2. i = j - 1 \/ i < j - 1
      BY <1>3, <2>1
    <3>3. sums[i] = sums[j - 1] \/ sums[i] < sums[j - 1]
      BY <1>1, <1>4, <1>5, <3>2
    <3> QED
      BY <3>1, <3>3
  <2> QED
    BY <2>1
<1>9. TailMap(sampler, x) = {k \in {sums[i] : i \in 1..N} : k >= x}
  BY <1>2 DEF TailMap
<1>10. \A i \in j..N : i \in 1..N
  BY <1>1, <1>3
<1>11. TailMap(sampler, x) = tail
  BY <1>6, <1>7, <1>8, <1>9, <1>10
<1>12. tail \in SUBSET Nat /\ sums[j] \in tail
  BY <1>1, <1>3, <1>5, <1>10
<1>13. \A k \in tail : sums[j] <= k
  <2>1. \A i \in j..N : sums[j] <= sums[i]
    <3>1. ASSUME NEW i \in j..N
          PROVE  sums[j] <= sums[i]
      <4>1. (i = j \/ j < i) /\ i \in 0..N
        BY <1>3, <1>5, <1>10
      <4>2. sums[j] \in Nat /\ sums[i] \in Nat
        BY <1>1, <1>4, <4>1
      <4>3. sums[i] = sums[j] \/ sums[j] < sums[i]
        BY <1>1, <1>4, <4>1
      <4> QED
        BY <4>2, <4>3
    <3> QED
      BY <3>1
  <2> QED
    BY <2>1
<1> HIDE DEF tail
<1>14. Min(tail) = sums[j]
  BY <1>12, <1>13, Minimum
<1>15. Sample(sampler, x) = population[j]
  BY <1>2, <1>11, <1>14 DEF Sample
<1> QED
  BY <1>11, <1>14, <1>15 DEF tail, N

LEMMA Likelihood ==
    ASSUME NEW population \in Seq(Elements), NEW sums, Sums(sums, 0, population),
           NEW sampler, Represents(sampler, population, sums),
           \A i, k \in 1..Len(population) : population[i] = population[k] => i = k,
           NEW j \in 1..Len(population)
    PROVE  Cardinality({x \in 1..sampler.sum : Sample(sampler, x) = population[j]})
             = Probability[population[j]]
<1> DEFINE N == Len(population)
           drawn == {x \in 1..sampler.sum : Sample(sampler, x) = population[j]}
           p == Probability[population[j]]
<1>1. N \in Nat /\ j \in 1..N /\ sampler.sum = sums[N]
  BY DEF Represents
<1>2. p \in Nat \ {0}
  <2>1. population[j] \in Elements
    OBVIOUS
  <2> QED
    BY <2>1
<1>3. j \in 0..N /\ j - 1 \in 0..N /\ N \in 0..N /\ j - 1 < j /\ (j = N \/ j < N)
  BY <1>1
<1>4. sums[j] \in Nat /\ sums[j - 1] \in Nat /\ sums[N] \in Nat /\ sums[j] = sums[j - 1] + p
  <2>1. sums \in [0..N -> Nat] /\ sums[j] = sums[j - 1] + p
    BY <1>1 DEF Sums
  <2> QED
    BY <1>3, <2>1
<1>5. sums[j] <= sums[N]
  <2>1. sums[j] = sums[N] \/ sums[j] < sums[N]
    BY <1>3, SumsIncrease
  <2> QED
    BY <1>4, <2>1
<1>6. \A x \in Nat : Leads(sums, j, x) => Sample(sampler, x) = population[j]
  BY SampleIsPlace
<1>7. \A x \in 1..sums[N] : \E k \in 1..N : Leads(sums, k, x)
  BY Leading
<1>8. \A k \in 1..N, x \in Nat : Leads(sums, k, x) => Sample(sampler, x) = population[k]
  BY SampleIsPlace
<1>9. \A k \in 1..N : population[k] = population[j] => k = j
  OBVIOUS
<1> HIDE DEF N, p
<1>10. drawn = (sums[j - 1] + 1)..sums[j]
  <2>1. ASSUME NEW x \in drawn
        PROVE  x \in (sums[j - 1] + 1)..sums[j]
    <3>1. x \in 1..sums[N] /\ x \in Nat /\ Sample(sampler, x) = population[j]
      BY <1>1, <1>4, <2>1
    <3>2. PICK k \in 1..N : Leads(sums, k, x)
      BY <1>7, <3>1
    <3>3. population[k] = population[j]
      BY <1>8, <3>1, <3>2
    <3>4. k = j
      BY <1>9, <3>3
    <3> QED
      BY <1>4, <3>1, <3>2, <3>4 DEF Leads
  <2>2. ASSUME NEW x \in (sums[j - 1] + 1)..sums[j]
        PROVE  x \in drawn
    <3>1. x \in Nat /\ Leads(sums, j, x) /\ x \in 1..sums[N]
      BY SMTT(20), <1>4, <1>5 DEF Leads
    <3> QED
      BY <1>1, <1>6, <3>1
  <2> QED
    BY <2>1, <2>2, <1>1, <1>4
<1>11. Cardinality((sums[j - 1] + 1)..sums[j]) = p
  <2> DEFINE least == sums[j - 1] + 1
             greatest == sums[j]
  <2>1. /\ least \in Int /\ greatest \in Int
        /\ ~ (least > greatest) /\ greatest - least + 1 = p
    BY SMTT(20), <1>2, <1>4
  <2> HIDE DEF least, greatest
  <2>2. Cardinality(least..greatest) = p
    BY <2>1, FS_Interval
  <2> QED
    BY <2>2 DEF least, greatest
<1> QED
  BY <1>10, <1>11 DEF p

-----------------------------------------------------------------------------
(* What a draw leaves.                                                     *)

LEMMA Part ==
    ASSUME NEW S, NEW s \in Seq(S), NEW m \in 1..(Len(s) + 1), NEW n \in 0..Len(s),
           NEW l \in Nat, m + l = n + 1
    PROVE  /\ SubSeq(s, m, n) \in Seq(S)
           /\ Len(SubSeq(s, m, n)) = l
           /\ \A i \in 1..l : SubSeq(s, m, n)[i] = s[m + i - 1]
<1>1. m \in Int /\ n \in Int /\ \A i \in m..n : s[i] \in S
  OBVIOUS
<1>2. /\ SubSeq(s, m, n) \in Seq(S)
      /\ Len(SubSeq(s, m, n)) = (IF m <= n THEN n - m + 1 ELSE 0)
      /\ \A i \in 1..(n - m + 1) : SubSeq(s, m, n)[i] = s[m + i - 1]
  BY <1>1, SubSeqProperties
<1>3. n - m + 1 = l /\ (m <= n \/ l = 0)
  BY <1>1
<1> QED
  BY <1>2, <1>3

\* u is s, of length m, and t.
Joins(u, s, t, m) ==
    \A i \in 1..Len(u) : u[i] = IF i <= m THEN s[i] ELSE t[i - m]

LEMMA Joined ==
    ASSUME NEW S, NEW s \in Seq(S), NEW t \in Seq(S), NEW m \in Nat, NEW n \in Nat,
           NEW l \in Nat, Len(s) = m, Len(t) = n, m + n = l
    PROVE  s \o t \in Seq(S) /\ Len(s \o t) = l /\ Joins(s \o t, s, t, m)
<1>1. /\ s \o t \in Seq(S) /\ Len(s \o t) = Len(s) + Len(t)
      /\ \A i \in 1..(Len(s) + Len(t)) :
            (s \o t)[i] = (IF i <= Len(s) THEN s[i] ELSE t[i - Len(s)])
  BY ConcatProperties
<1> QED
  BY <1>1 DEF Joins

LEMMA Removing ==
    ASSUME NEW S, NEW population \in Seq(S), NEW j \in 1..Len(population)
    PROVE  /\ RemoveAt(population, j) \in Seq(S)
           /\ Len(RemoveAt(population, j)) = Len(population) - 1
           /\ \A i \in 1..(j - 1) : RemoveAt(population, j)[i] = population[i]
           /\ \A i \in j..(Len(population) - 1) : RemoveAt(population, j)[i] = population[i + 1]
<1> DEFINE N == Len(population)
           last == j - 1
           next == j + 1
           l == N - j
           short == N - 1
           front == SubSeq(population, 1, last)
           back == SubSeq(population, next, N)
           rest == front \o back
<1>1. N \in Nat /\ j \in 1..N /\ N = Len(population)
  OBVIOUS
<1>2. /\ 1 \in 1..(N + 1) /\ last \in 0..N /\ 1 + last = last + 1
      /\ next \in 1..(N + 1) /\ N \in 0..N /\ next + l = N + 1
      /\ last \in Nat /\ l \in Nat /\ short \in Nat /\ last + l = short
      /\ last = j - 1 /\ next = j + 1 /\ short = N - 1
  BY <1>1
<1>3. RemoveAt(population, j) = rest
  BY DEF RemoveAt
<1> HIDE DEF N, last, next, l, short
<1>4. /\ front \in Seq(S) /\ Len(front) = last
      /\ \A i \in 1..last : front[i] = population[1 + i - 1]
  BY <1>1, <1>2, Part
<1>5. /\ back \in Seq(S) /\ Len(back) = l
      /\ \A i \in 1..l : back[i] = population[next + i - 1]
  BY <1>1, <1>2, Part
<1> HIDE DEF front, back
<1>6. rest \in Seq(S) /\ Len(rest) = short /\ Joins(rest, front, back, last)
  BY <1>2, <1>4, <1>5, Joined
<1> HIDE DEF rest
<1>7. ASSUME NEW i \in 1..last
      PROVE  rest[i] = population[i]
  <2>1. 1 + i - 1 = i /\ i \in 1..short /\ i <= last
    BY <1>1, <1>2
  <2> QED
    BY <1>4, <1>6, <2>1 DEF Joins
<1>8. ASSUME NEW i \in j..short
      PROVE  rest[i] = population[i + 1]
  <2>1. /\ i \in 1..short /\ ~ (i <= last)
        /\ i - last \in 1..l /\ next + (i - last) - 1 = i + 1
    BY <1>1, <1>2
  <2> QED
    BY <1>5, <1>6, <2>1 DEF Joins
<1> QED
  BY <1>3, <1>6, <1>7, <1>8 DEF N, last, short

\* The elements after place j, and what a sample at place j keeps of a sampler.
Behind(population, j) == [i \in 1..(Len(population) - j) |-> population[j + i]]
Trimmed(sampler, sums, j) ==
    [distribution |-> [k \in {sums[i] : i \in 1..(j - 1)} |-> sampler.distribution[k]],
     sum |-> sums[j - 1]]

LEMMA PuttingBack ==
    ASSUME NEW population \in Seq(Elements), NEW sums, Sums(sums, 0, population),
           NEW sampler, Represents(sampler, population, sums),
           NEW j \in 1..Len(population), NEW x \in Nat, Leads(sums, j, x)
    PROVE  AfterSample(sampler, x) = PutAll(Trimmed(sampler, sums, j), Behind(population, j))
<1> DEFINE N == Len(population)
           m == N - j
           map == sampler.distribution
           tail == {sums[i] : i \in j..N}
           later == [i \in 1..m |-> sums[j + i]]
           kept == [distribution |-> Restrict(map, DOMAIN map \ tail), sum |-> sums[j - 1]]
<1>1. N \in Nat /\ j \in 1..N /\ m \in Nat /\ m = N - j
  OBVIOUS
<1>2. /\ TailMap(sampler, x) = tail
      /\ Min(tail) = sums[j]
  <2>1. TailMap(sampler, x) = tail
    BY SMTT(20), SampleIsPlace
  <2>2. Min(TailMap(sampler, x)) = sums[j]
    BY SampleIsPlace
  <2> HIDE DEF tail
  <2> QED
    BY <2>1, <2>2
<1>3. \A i, k \in 0..N : i < k => sums[i] < sums[k]
  BY SumsIncrease
<1>4. sums \in [0..N -> Nat] /\ sums[j] = sums[j - 1] + Probability[population[j]]
  BY DEF Sums
<1>5. /\ DOMAIN map = {sums[i] : i \in 1..N}
      /\ \A i \in 1..N : map[sums[i]] = population[i]
  BY DEF Represents
<1>6. Probability[population[j]] \in Nat
  <2>1. population[j] \in Elements
    OBVIOUS
  <2> QED
    BY <2>1
<1> HIDE DEF N, m, map
<1>7. j \in 0..N /\ j - 1 \in 0..N /\ \A i \in 1..m : j + i \in 1..N /\ j + i \in 0..N /\ j + i > j
  BY <1>1
<1>8. \A i, k \in 0..N : sums[i] = sums[k] => i = k
  <2>1. ASSUME NEW i \in 0..N, NEW k \in 0..N, sums[i] = sums[k]
        PROVE  i = k
    <3>1. sums[i] \in Nat /\ sums[k] \in Nat
      BY <1>4
    <3>2. ~ (i < k) /\ ~ (k < i)
      BY <1>3, <2>1, <3>1
    <3> QED
      BY <1>1, <3>2
  <2> QED
    BY <2>1
<1>9. Before(sampler, sums[j]) = sums[j - 1]
  <2>1. map[sums[j]] = population[j] /\ sums[j - 1] \in Nat
    BY <1>1, <1>4, <1>5, <1>7
  <2> QED
    BY <1>4, <1>6, <2>1 DEF Before, map
<1>10. later \in [1..m -> Nat] /\ \A i, k \in 1..m : i < k => later[i] < later[k]
  <2>1. \A i, k \in 1..m : i < k => j + i < j + k
    BY <1>1
  <2> QED
    BY <1>3, <1>4, <1>7, <2>1
<1>11. tail \ {sums[j]} = {later[i] : i \in 1..m}
  <2>1. ASSUME NEW i \in j..N
        PROVE  sums[i] = sums[j] \/ sums[i] \in {later[k] : k \in 1..m}
    <3>1. i = j \/ (i - j \in 1..m /\ j + (i - j) = i)
      BY <1>1
    <3>2. i - j \in 1..m /\ j + (i - j) = i => sums[i] = later[i - j]
      OBVIOUS
    <3> QED
      BY <3>1, <3>2
  <2>2. ASSUME NEW i \in 1..m
        PROVE  later[i] \in tail /\ later[i] # sums[j]
    <3>1. j + i \in j..N /\ j + i # j /\ later[i] = sums[j + i]
      BY <1>1
    <3>2. sums[j + i] # sums[j]
      BY <1>7, <1>8, <3>1
    <3> QED
      BY <3>1, <3>2
  <2>3. \A k \in tail : k = sums[j] \/ k \in {later[i] : i \in 1..m}
    BY <2>1
  <2>4. \A k \in {later[i] : i \in 1..m} : k \in tail /\ k # sums[j]
    BY <2>2
  <2> HIDE DEF tail, later
  <2> QED
    BY <2>3, <2>4
<1>12. Ascending(tail \ {sums[j]}) = later
  <2> HIDE DEF tail, later
  <2>1. Ascending({later[i] : i \in 1..m}) = later
    BY <1>1, <1>10, InOrder
  <2> QED
    BY <1>11, <2>1
<1>13. [i \in DOMAIN later |-> map[later[i]]] = Behind(population, j)
  <2>1. \A i \in 1..m : map[later[i]] = population[j + i]
    BY <1>5, <1>7
  <2>2. DOMAIN later = 1..m
    OBVIOUS
  <2> HIDE DEF later
  <2> QED
    BY <2>1, <2>2 DEF Behind, m, N
<1>14. kept = Trimmed(sampler, sums, j)
  <2> DEFINE front == {sums[i] : i \in 1..(j - 1)}
  <2>1. \A i \in 1..N : i \in 1..(j - 1) \/ i \in j..N
    BY <1>1
  <2>2. \A i \in 1..(j - 1) : i \in 1..N /\ i \in 0..N /\ i < j
    BY <1>1
  <2>3. \A i \in 1..(j - 1), k \in j..N : sums[i] # sums[k]
    <3>1. \A i \in 1..(j - 1), k \in j..N : i \in 0..N /\ k \in 0..N /\ i # k
      BY <1>1
    <3> QED
      BY <1>8, <3>1
  <2>4. \A k \in DOMAIN map : k \in front \/ k \in tail
    BY <1>5, <2>1
  <2>5. \A k \in front : k \in DOMAIN map /\ k \notin tail
    BY <1>5, <2>2, <2>3
  <2> HIDE DEF front, tail
  <2>6. DOMAIN map \ tail = front
    BY <2>4, <2>5
  <2> QED
    BY <2>6 DEF Trimmed, Restrict, front, map
<1> HIDE DEF tail, later, kept
<1>15. AfterSample(sampler, x) = PutAll(kept, [i \in DOMAIN later |-> map[later[i]]])
  BY <1>2, <1>9, <1>12 DEF AfterSample, map, kept
<1> QED
  BY <1>13, <1>14, <1>15

LEMMA TrimmedIsASampler ==
    ASSUME NEW population \in Seq(Elements), NEW sums, Sums(sums, 0, population),
           NEW sampler, Represents(sampler, population, sums), NEW j \in 1..Len(population)
    PROVE  /\ Trimmed(sampler, sums, j) \in Samplers
           /\ Trimmed(sampler, sums, j).sum = sums[j - 1]
           /\ DOMAIN Trimmed(sampler, sums, j).distribution = {sums[i] : i \in 1..(j - 1)}
           /\ \A i \in 1..(j - 1) : Trimmed(sampler, sums, j).distribution[sums[i]] = population[i]
           /\ \A i \in 1..(j - 1) : sums[i] <= sums[j - 1]
<1> DEFINE N == Len(population)
           keys == {sums[i] : i \in 1..(j - 1)}
           map == sampler.distribution
           left == [k \in keys |-> map[k]]
<1>1. N \in Nat /\ j \in 1..N /\ sums \in [0..N -> Nat]
  BY DEF Sums
<1>2. \A i, k \in 0..N : i < k => sums[i] < sums[k]
  BY SumsIncrease
<1>3. \A i \in 1..N : map[sums[i]] = population[i] /\ population[i] \in Elements
  BY DEF Represents
<1> HIDE DEF N, map
<1>4. j - 1 \in 0..N /\ \A i \in 1..(j - 1) : i \in 1..N /\ i \in 0..N /\ (i = j - 1 \/ i < j - 1)
  BY <1>1
<1>5. \A k \in keys : k \in Nat /\ map[k] \in Elements
  <2>1. \A i \in 1..(j - 1) : sums[i] \in Nat /\ map[sums[i]] \in Elements
    BY <1>1, <1>3, <1>4
  <2> QED
    BY <2>1
<1>6. \A i \in 1..(j - 1) : sums[i] \in keys /\ map[sums[i]] = population[i]
  BY <1>3, <1>4
<1>7. ASSUME NEW i \in 1..(j - 1)
      PROVE  sums[i] <= sums[j - 1]
  <2>1. sums[i] \in Nat /\ sums[j - 1] \in Nat
    BY <1>1, <1>4
  <2>2. sums[i] = sums[j - 1] \/ sums[i] < sums[j - 1]
    BY <1>2, <1>4
  <2> QED
    BY <2>1, <2>2
<1> HIDE DEF keys
<1>8. left \in [keys -> Elements] /\ keys \in SUBSET Nat
  BY <1>5
<1>9. left \in Distributions
  BY <1>8 DEF Distributions
<1>10. DOMAIN left = keys /\ \A i \in 1..(j - 1) : left[sums[i]] = population[i]
  BY <1>6
<1> HIDE DEF left
<1>11. sums[j - 1] \in Nat
  BY <1>1, <1>4
<1>12. Trimmed(sampler, sums, j) = [distribution |-> left, sum |-> sums[j - 1]]
  BY DEF Trimmed, left, keys, map
<1> QED
  BY <1>7, <1>9, <1>10, <1>11, <1>12 DEF Samplers, keys

LEMMA BehindIsElements ==
    ASSUME NEW population \in Seq(Elements), NEW j \in 1..Len(population)
    PROVE  /\ Behind(population, j) \in Seq(Elements)
           /\ Len(Behind(population, j)) = Len(population) - j
           /\ \A i \in 1..(Len(population) - j) : Behind(population, j)[i] = population[j + i]
<1> DEFINE m == Len(population) - j
<1>1. m \in Nat /\ \A i \in 1..m : population[j + i] \in Elements
  OBVIOUS
<1>2. [i \in 1..m |-> population[j + i]] \in [1..m -> Elements]
  BY <1>1
<1> QED
  BY <1>1, <1>2 DEF Behind

\* The running sums of the population without its element at place j.
SumsWithout(sums, after, n, j) ==
    [i \in 0..(n - 1) |-> IF i < j THEN sums[i] ELSE after[i - (j - 1)]]

LEMMA SumsOfTheOthers ==
    ASSUME NEW population \in Seq(Elements), NEW sums, Sums(sums, 0, population),
           NEW j \in 1..Len(population),
           NEW after, Sums(after, sums[j - 1], Behind(population, j))
    PROVE  Sums(SumsWithout(sums, after, Len(population), j), 0, RemoveAt(population, j))
<1> DEFINE N == Len(population)
           last == j - 1
           m == N - j
           short == N - 1
           others == RemoveAt(population, j)
           behind == Behind(population, j)
           all == [i \in 0..short |-> IF i < j THEN sums[i] ELSE after[i - last]]
<1>1. N \in Nat /\ j \in 1..N /\ last = j - 1 /\ m = N - j /\ short = N - 1
  OBVIOUS
<1>2. /\ sums \in [0..N -> Nat] /\ sums[0] = 0
      /\ \A i \in 1..N : sums[i] = sums[i - 1] + Probability[population[i]]
  BY DEF Sums
<1>3. Len(behind) = m /\ \A i \in 1..m : behind[i] = population[j + i]
  BY BehindIsElements
<1>4. /\ after \in [0..m -> Nat] /\ after[0] = sums[last]
      /\ \A i \in 1..m : after[i] = after[i - 1] + Probability[behind[i]]
  BY <1>3 DEF Sums
<1>5. /\ Len(others) = short
      /\ \A i \in 1..last : others[i] = population[i]
      /\ \A i \in j..short : others[i] = population[i + 1]
  BY Removing
<1> HIDE DEF N, last, m, short, others, behind
<1>6. /\ last \in 0..N /\ short \in Nat
      /\ \A i \in 0..short : i < j => i \in 0..N
      /\ \A i \in 0..short : ~ (i < j) => i - last \in 0..m
  BY <1>1
<1>7. all \in [0..short -> Nat]
  BY <1>2, <1>4, <1>6
<1>8. all[0] = 0
  BY <1>1, <1>2, <1>6
<1>9. ASSUME NEW i \in 1..short, i < j
      PROVE  all[i] = all[i - 1] + Probability[others[i]]
  <2>1. i \in 0..short /\ i - 1 \in 0..short /\ i - 1 < j /\ i \in 1..last /\ i \in 1..N
    BY <1>1, <1>9
  <2>2. all[i] = sums[i] /\ all[i - 1] = sums[i - 1]
    BY <1>9, <2>1
  <2> HIDE DEF all
  <2>3. others[i] = population[i] /\ sums[i] = sums[i - 1] + Probability[population[i]]
    BY <1>2, <1>5, <2>1
  <2> QED
    BY <2>2, <2>3
<1>10. ASSUME NEW i \in 1..short, ~ (i < j)
       PROVE  all[i] = all[i - 1] + Probability[others[i]]
  <2> DEFINE k == i - last
  <2>1. /\ i \in 0..short /\ i - 1 \in 0..short /\ i \in j..short
        /\ k \in 1..m /\ j + k = i + 1 /\ (i - 1) - last = k - 1
        /\ (i - 1 < j => i - 1 = last /\ k - 1 = 0)
    BY <1>1, <1>10
  <2>2. all[i] = after[k]
    BY <1>10, <2>1
  <2>3. all[i - 1] = after[k - 1]
    <3>1. CASE i - 1 < j
      <4>1. i - 1 = last /\ k - 1 = 0
        BY <2>1, <3>1
      <4>2. all[i - 1] = sums[i - 1]
        BY <2>1, <3>1
      <4> HIDE DEF all, k
      <4> QED
        BY <1>4, <4>1, <4>2
    <3>2. CASE ~ (i - 1 < j)
      <4>1. all[i - 1] = after[(i - 1) - last]
        BY <2>1, <3>2
      <4> HIDE DEF all, k
      <4> QED
        BY <2>1, <4>1
    <3> QED
      BY <3>1, <3>2
  <2> HIDE DEF all, k
  <2>4. after[k] = after[k - 1] + Probability[behind[k]]
    BY <1>4, <2>1
  <2>5. behind[k] = others[i]
    BY <1>3, <1>5, <2>1
  <2> QED
    BY <2>2, <2>3, <2>4, <2>5
<1>11. all = SumsWithout(sums, after, N, j)
  BY DEF SumsWithout, short, last
<1> HIDE DEF all
<1>12. \A i \in 1..short : all[i] = all[i - 1] + Probability[others[i]]
  BY <1>9, <1>10
<1>13. Sums(all, 0, others)
  BY <1>5, <1>7, <1>8, <1>12 DEF Sums
<1> QED
  BY <1>11, <1>13 DEF N, others

LEMMA OthersRemain ==
    ASSUME NEW population \in Seq(Elements), NEW sums, Sums(sums, 0, population),
           NEW sampler, Represents(sampler, population, sums), NEW j \in 1..Len(population),
           NEW after, Sums(after, sums[j - 1], Behind(population, j)), NEW left,
           Extends(Trimmed(sampler, sums, j), Behind(population, j), after,
                   Len(population) - j, left)
    PROVE  Represents(left, RemoveAt(population, j), SumsWithout(sums, after, Len(population), j))
<1> DEFINE N == Len(population)
           last == j - 1
           m == N - j
           short == N - 1
           others == RemoveAt(population, j)
           behind == Behind(population, j)
           kept == Trimmed(sampler, sums, j)
           all == SumsWithout(sums, after, N, j)
           map == left.distribution
<1>1. N \in Nat /\ j \in 1..N /\ last = j - 1 /\ m = N - j /\ short = N - 1
  OBVIOUS
<1>2. \A i \in 1..m : behind[i] = population[j + i]
  BY BehindIsElements
<1>3. /\ Len(others) = short
      /\ \A i \in 1..last : others[i] = population[i]
      /\ \A i \in j..short : others[i] = population[i + 1]
  BY Removing
<1>4. /\ DOMAIN kept.distribution = {sums[i] : i \in 1..last}
      /\ \A i \in 1..last : kept.distribution[sums[i]] = population[i]
  BY TrimmedIsASampler
<1>5. /\ left \in Samplers /\ left.sum = after[m]
      /\ DOMAIN map = DOMAIN kept.distribution \cup {after[i] : i \in 1..m}
      /\ \A k \in DOMAIN kept.distribution : map[k] = kept.distribution[k]
      /\ \A i \in 1..m : map[after[i]] = behind[i]
  BY DEF Extends
<1>6. after[0] = sums[last]
  BY DEF Sums
<1>7. all = [i \in 0..short |-> IF i < j THEN sums[i] ELSE after[i - last]]
  BY DEF SumsWithout
<1> HIDE DEF N, last, m, short, others, behind, kept, all, map
<1>8. \A i \in 1..last : i \in 1..short /\ all[i] = sums[i]
  <2>1. \A i \in 1..last : i \in 0..short /\ i \in 1..short /\ i < j
    BY <1>1
  <2> QED
    BY <1>7, <2>1
<1>9. \A i \in 1..m : i + last \in j..short /\ i + last \in 1..short /\ all[i + last] = after[i]
  <2>1. \A i \in 1..m : /\ i + last \in 0..short /\ i + last \in j..short /\ i + last \in 1..short
                        /\ ~ (i + last < j) /\ (i + last) - last = i
    BY <1>1
  <2> QED
    BY <1>7, <2>1
<1>10. \A i \in 1..short : i \in 1..last \/ (i - last \in 1..m /\ (i - last) + last = i)
  BY <1>1
<1>11. left.sum = all[short]
  <2>1. CASE m = 0
    <3>1. short = last /\ short \in 0..short /\ short < j
      BY <1>1, <2>1
    <3>2. all[short] = sums[last]
      BY <1>7, <3>1
    <3> QED
      BY <1>5, <1>6, <2>1, <3>2
  <2>2. CASE m # 0
    <3>1. m \in 1..m /\ m + last = short
      BY <1>1, <2>2
    <3> QED
      BY <1>5, <1>9, <3>1
  <2> QED
    BY <2>1, <2>2
<1>12. DOMAIN map = {all[i] : i \in 1..short}
  <2>1. \A k \in DOMAIN map : k \in {all[i] : i \in 1..short}
    <3>1. \A i \in 1..last : sums[i] \in {all[k] : k \in 1..short}
      BY <1>8
    <3>2. \A i \in 1..m : after[i] \in {all[k] : k \in 1..short}
      BY <1>9
    <3>3. \A k \in DOMAIN map : (\E i \in 1..last : k = sums[i]) \/ (\E i \in 1..m : k = after[i])
      BY <1>4, <1>5
    <3> QED
      BY <3>1, <3>2, <3>3
  <2>2. \A i \in 1..short : all[i] \in DOMAIN map
    <3>1. \A i \in 1..last : all[i] \in DOMAIN map
      BY <1>4, <1>5, <1>8
    <3>2. \A i \in 1..m : all[i + last] \in DOMAIN map
      BY <1>5, <1>9
    <3> QED
      BY <1>10, <3>1, <3>2
  <2> QED
    BY <2>1, <2>2
<1>13. \A i \in 1..short : map[all[i]] = others[i]
  <2>1. ASSUME NEW i \in 1..last
        PROVE  map[all[i]] = others[i]
    <3>1. sums[i] \in DOMAIN kept.distribution
      BY <1>4
    <3>2. map[sums[i]] = population[i]
      BY <1>4, <1>5, <3>1
    <3> QED
      BY <1>3, <1>8, <3>2
  <2>2. ASSUME NEW i \in 1..m
        PROVE  map[all[i + last]] = others[i + last]
    <3>1. (i + last) + 1 = j + i
      BY <1>1
    <3>2. others[i + last] = population[j + i]
      BY <1>3, <1>9, <3>1
    <3>3. map[after[i]] = population[j + i]
      BY <1>2, <1>5
    <3> QED
      BY <1>9, <3>2, <3>3
  <2>3. ASSUME NEW i \in 1..short
        PROVE  map[all[i]] = others[i]
    <3>1. CASE i \in 1..last
      BY <2>1, <3>1
    <3>2. CASE i - last \in 1..m /\ (i - last) + last = i
      <4> DEFINE k == i - last
      <4>1. k \in 1..m /\ k + last = i
        BY <3>2
      <4> HIDE DEF k
      <4>2. map[all[k + last]] = others[k + last]
        BY <2>2, <4>1
      <4> QED
        BY <4>1, <4>2
    <3> QED
      BY <1>10, <3>1, <3>2
  <2> QED
    BY <2>3
<1>14. Represents(left, others, all)
  BY <1>3, <1>5, <1>11, <1>12, <1>13 DEF Represents, map
<1> QED
  BY <1>14 DEF others, all, N

LEMMA AfterSampleIsNew ==
    ASSUME NEW population \in Seq(Elements), NEW sums, Sums(sums, 0, population),
           NEW sampler, Represents(sampler, population, sums),
           NEW j \in 1..Len(population), NEW x \in Nat, Leads(sums, j, x)
    PROVE  AfterSample(sampler, x) = NewSampler(RemoveAt(population, j))
<1> DEFINE N == Len(population)
           m == N - j
           others == RemoveAt(population, j)
           behind == Behind(population, j)
           kept == Trimmed(sampler, sums, j)
           left == PutAll(kept, behind)
<1>1. AfterSample(sampler, x) = left
  BY PuttingBack
<1>2. behind \in Seq(Elements) /\ Len(behind) = m
  BY BehindIsElements
<1>3. kept \in Samplers /\ kept.sum = sums[j - 1] /\ \A k \in DOMAIN kept.distribution : k <= kept.sum
  <2>1. /\ kept \in Samplers /\ kept.sum = sums[j - 1]
        /\ DOMAIN kept.distribution = {sums[i] : i \in 1..(j - 1)}
        /\ \A i \in 1..(j - 1) : sums[i] <= sums[j - 1]
    BY TrimmedIsASampler
  <2> HIDE DEF kept
  <2> QED
    BY <2>1
<1> HIDE DEF kept, behind
<1>4. PICK after : /\ Sums(after, sums[j - 1], behind)
                   /\ Extends(kept, behind, after, m, left)
  BY <1>2, <1>3, Putting
<1> HIDE DEF left
<1> DEFINE all == SumsWithout(sums, after, N, j)
<1>5. Represents(left, others, all) /\ Sums(all, 0, others)
  BY <1>4, OthersRemain, SumsOfTheOthers DEF kept, behind
<1>6. others \in Seq(Elements)
  BY Removing
<1> HIDE DEF all, others
<1>7. PICK anew : Sums(anew, 0, others) /\ Represents(NewSampler(others), others, anew)
  BY <1>6, NewSamplerRepresents
<1>8. anew = all
  BY <1>5, <1>6, <1>7, SameSums
<1>9. left = NewSampler(others)
  BY <1>5, <1>7, <1>8, SameSampler
<1> QED
  BY <1>1, <1>9 DEF others

-----------------------------------------------------------------------------
(* Every sampler is fair.                                                  *)

Injective(population) ==
    \A i, j \in 1..Len(population) : population[i] = population[j] => i = j

(* However many elements a sampler is made of, in whatever order, and      *)
(* whatever their probabilities: each is drawn with its probability        *)
(* relative to the others, and what sample() leaves, which puts everything *)
(* behind the element back under smaller keys, is the sampler that the     *)
(* constructor would have made of the others.                              *)
THEOREM SamplersAreFair ==
    ASSUME NEW population \in Seq(Elements), Injective(population)
    PROVE  Fair(population)
<1> DEFINE N == Len(population)
           sampler == NewSampler(population)
<1>1. PICK sums : Sums(sums, 0, population) /\ Represents(sampler, population, sums)
  BY NewSamplerRepresents
<1> HIDE DEF sampler
<1>2. N \in Nat /\ sums \in [0..N -> Nat] /\ sampler.sum = sums[N]
  BY <1>1 DEF Sums, Represents
<1>3. DOMAIN population = 1..N
  OBVIOUS
<1>4. ASSUME NEW e \in Range(population)
      PROVE  Cardinality({x \in 1..sampler.sum : Sample(sampler, x) = e}) = Probability[e]
  <2>1. PICK j \in 1..N : e = population[j]
    BY <1>3, <1>4 DEF Range
  <2>2. Cardinality({x \in 1..sampler.sum : Sample(sampler, x) = population[j]})
          = Probability[population[j]]
    BY <1>1, Likelihood DEF Injective
  <2> QED
    BY <2>1, <2>2
<1>5. ASSUME NEW x \in 1..sampler.sum
      PROVE  \E j \in DOMAIN population :
               /\ Sample(sampler, x) = population[j]
               /\ AfterSample(sampler, x) = NewSampler(RemoveAt(population, j))
  <2>1. x \in 1..sums[N] /\ x \in Nat
    <3>1. N \in 0..N
      BY <1>2
    <3>2. sums[N] \in Nat
      BY <1>2, <3>1
    <3> QED
      BY <1>2, <1>5, <3>2
  <2>2. PICK j \in 1..N : Leads(sums, j, x)
    BY <1>1, <2>1, Leading
  <2>3. Sample(sampler, x) = population[j]
    BY <1>1, <2>1, <2>2, SampleIsPlace
  <2>4. AfterSample(sampler, x) = NewSampler(RemoveAt(population, j))
    BY <1>1, <2>1, <2>2, AfterSampleIsNew
  <2> QED
    BY <1>3, <2>3, <2>4
<1> QED
  BY <1>4, <1>5 DEF Fair, sampler

LEMMA PermutationsAreInjective ==
    ASSUME NEW population \in SetToAllKPermutations(Elements)
    PROVE  population \in Seq(Elements) /\ Injective(population)
<1>1. PICK S \in SUBSET Elements : population \in SetToSeqs(S)
  BY DEF SetToAllKPermutations
<1>2. Cardinality(S) \in Nat
  BY <1>1, FS_Subset, FS_CardinalityType
<1> DEFINE n == Cardinality(S)
<1>3. /\ population \in [1..n -> S]
      /\ \A i, j \in 1..n : i # j => population[i] # population[j]
  BY <1>1 DEF SetToSeqs
<1> HIDE DEF n
<1>4. population \in [1..n -> Elements] /\ n \in Nat
  BY <1>1, <1>2, <1>3 DEF n
<1>5. population \in Seq(Elements) /\ Len(population) = n
  BY <1>4
<1> QED
  BY <1>3, <1>5 DEF Injective

(* So the sampler that is put into the cache gives each item its fair      *)
(* chance, now and after any number of draws.                              *)
THEOREM SamplesAreFair == Spec => []SamplesFairly
<1>1. SamplesFairly
  BY PermutationsAreInjective, SamplersAreFair DEF SamplesFairly, Items
<1> QED
  BY <1>1, PTL

-----------------------------------------------------------------------------
(* Any number of draws.                                                    *)

LEMMA RemovingOne ==
    ASSUME NEW population \in Seq(Elements), Injective(population),
           NEW j \in 1..Len(population)
    PROVE  /\ RemoveAt(population, j) \in Seq(Elements)
           /\ Len(RemoveAt(population, j)) = Len(population) - 1
           /\ Injective(RemoveAt(population, j))
           /\ Range(RemoveAt(population, j)) = Range(population) \ {population[j]}
<1> DEFINE N == Len(population)
           short == N - 1
           others == RemoveAt(population, j)
           Place(i) == IF i < j THEN i ELSE i + 1
<1>1. N \in Nat /\ j \in 1..N /\ short \in Nat /\ short = N - 1
  OBVIOUS
<1>2. /\ others \in Seq(Elements) /\ Len(others) = short
      /\ \A i \in 1..(j - 1) : others[i] = population[i]
      /\ \A i \in j..short : others[i] = population[i + 1]
  BY Removing
<1>3. \A i, k \in 1..N : population[i] = population[k] => i = k
  BY DEF Injective
<1>4. DOMAIN population = 1..N /\ DOMAIN others = 1..short
  BY <1>1, <1>2
<1> HIDE DEF N, short, others
<1>5. \A i \in 1..short : others[i] = population[Place(i)] /\ Place(i) \in 1..N /\ Place(i) # j
  <2>1. ASSUME NEW i \in 1..short
        PROVE  others[i] = population[Place(i)] /\ Place(i) \in 1..N /\ Place(i) # j
    <3>1. CASE i < j
      <4>1. i \in 1..(j - 1) /\ i \in 1..N /\ Place(i) = i
        BY <1>1, <3>1
      <4> QED
        BY <1>2, <3>1, <4>1
    <3>2. CASE ~ (i < j)
      <4>1. i \in j..short /\ i + 1 \in 1..N /\ i + 1 # j /\ Place(i) = i + 1
        BY <1>1, <3>2
      <4> QED
        BY <1>2, <4>1
    <3> QED
      BY <3>1, <3>2
  <2> QED
    BY <2>1
<1>6. \A i, k \in 1..short : Place(i) = Place(k) => i = k
  BY <1>1
<1>7. \A k \in 1..N : k # j => \E i \in 1..short : Place(i) = k
  <2>1. ASSUME NEW k \in 1..N, k # j
        PROVE  \E i \in 1..short : Place(i) = k
    <3>1. CASE k < j
      BY <1>1, <3>1
    <3>2. CASE ~ (k < j)
      <4>1. k - 1 \in 1..short /\ Place(k - 1) = k
        BY <1>1, <2>1, <3>2
      <4> QED
        BY <4>1
    <3> QED
      BY <3>1, <3>2
  <2> QED
    BY <2>1
<1> HIDE DEF Place
<1>8. Injective(others)
  <2>1. ASSUME NEW i \in 1..short, NEW k \in 1..short, others[i] = others[k]
        PROVE  i = k
    <3>1. population[Place(i)] = population[Place(k)] /\ Place(i) \in 1..N /\ Place(k) \in 1..N
      BY <1>5, <2>1
    <3>2. Place(i) = Place(k)
      BY <1>3, <3>1
    <3> QED
      BY <1>6, <3>2
  <2> QED
    BY <1>2, <2>1 DEF Injective
<1>9. \A e \in Range(others) : e \in Range(population) /\ e # population[j]
  <2>1. ASSUME NEW i \in 1..short
        PROVE  others[i] \in Range(population) /\ others[i] # population[j]
    BY <1>1, <1>3, <1>4, <1>5 DEF Range
  <2> QED
    BY <1>4, <2>1 DEF Range
<1>10. \A e \in Range(population) : e # population[j] => e \in Range(others)
  <2>1. ASSUME NEW k \in 1..N, k # j
        PROVE  population[k] \in Range(others)
    <3>1. PICK i \in 1..short : Place(i) = k
      BY <1>7, <2>1
    <3>2. others[i] = population[k]
      BY <1>5, <3>1
    <3> QED
      BY <1>4, <3>2 DEF Range
  <2> QED
    BY <1>4, <2>1 DEF Range
<1> QED
  BY <1>2, <1>8, <1>9, <1>10 DEF N, short, others

(* What the sets of module Recommendations take from the arithmetic: a     *)
(* sampler has the elements it was made of, sample() may give each of      *)
(* them and nothing else, and it leaves those it has not given.            *)
THEOREM SamplersAreSets ==
    ASSUME NEW population \in Seq(Elements), Injective(population),
           NEW sampler, sampler = NewSampler(population)
    PROVE  /\ Range(sampler.distribution) = Range(population)
           /\ {Sample(sampler, x) : x \in 1..sampler.sum} = Range(population)
           /\ \A x \in 1..sampler.sum :
                Range(AfterSample(sampler, x).distribution)
                  = Range(population) \ {Sample(sampler, x)}
<1> DEFINE Whole(p) == Range(NewSampler(p).distribution) = Range(p)
<1>1. ASSUME NEW p \in Seq(Elements)
      PROVE  Whole(p)
  <2> DEFINE map == NewSampler(p).distribution
  <2>1. PICK sums : Represents(NewSampler(p), p, sums)
    BY NewSamplerRepresents
  <2>2. /\ DOMAIN map = {sums[i] : i \in 1..Len(p)}
        /\ \A i \in 1..Len(p) : map[sums[i]] = p[i]
    BY <2>1 DEF Represents
  <2>3. DOMAIN p = 1..Len(p)
    OBVIOUS
  <2> HIDE DEF map
  <2>4. Range(map) = {p[i] : i \in 1..Len(p)}
    <3>1. \A k \in DOMAIN map : \E i \in 1..Len(p) : map[k] = p[i]
      BY <2>2
    <3>2. \A i \in 1..Len(p) : sums[i] \in DOMAIN map /\ map[sums[i]] = p[i]
      BY <2>2
    <3>3. \A i \in 1..Len(p) : p[i] \in Range(map)
      BY <3>2 DEF Range
    <3> QED
      BY <3>1, <3>3 DEF Range
  <2>5. Range(p) = {p[i] : i \in 1..Len(p)}
    BY <2>3 DEF Range
  <2> QED
    BY <2>4, <2>5 DEF map
<1>2. Fair(population)
  BY SamplersAreFair
<1>3. /\ \A e \in Range(population) :
           Cardinality({x \in 1..sampler.sum : Sample(sampler, x) = e}) = Probability[e]
      /\ \A x \in 1..sampler.sum : \E j \in DOMAIN population :
           /\ Sample(sampler, x) = population[j]
           /\ AfterSample(sampler, x) = NewSampler(RemoveAt(population, j))
  BY <1>2 DEF Fair
<1>4. DOMAIN population = 1..Len(population)
  OBVIOUS
<1>5. ASSUME NEW e \in Range(population)
      PROVE  \E x \in 1..sampler.sum : Sample(sampler, x) = e
  <2>1. e \in Elements
    BY <1>4, <1>5 DEF Range
  <2>2. Probability[e] # 0
    BY <2>1
  <2>3. {x \in 1..sampler.sum : Sample(sampler, x) = e} # {}
    BY <1>3, <2>2, FS_EmptySet
  <2> QED
    BY <2>3
<1>6. ASSUME NEW x \in 1..sampler.sum
      PROVE  /\ Sample(sampler, x) \in Range(population)
             /\ Range(AfterSample(sampler, x).distribution)
                  = Range(population) \ {Sample(sampler, x)}
  <2>1. PICK j \in 1..Len(population) :
          /\ Sample(sampler, x) = population[j]
          /\ AfterSample(sampler, x) = NewSampler(RemoveAt(population, j))
    BY <1>3, <1>4
  <2>2. population[j] \in Range(population)
    BY <1>4 DEF Range
  <2>3. /\ RemoveAt(population, j) \in Seq(Elements)
        /\ Range(RemoveAt(population, j)) = Range(population) \ {population[j]}
    BY RemovingOne
  <2>4. Whole(RemoveAt(population, j))
    BY <1>1, <2>3
  <2> QED
    BY <2>1, <2>2, <2>3, <2>4
<1>7. Range(sampler.distribution) = Range(population)
  BY <1>1
<1> QED
  BY <1>5, <1>6, <1>7

\* The i-th element drawn, if the random numbers are numbers and the samplers trace.
GivenAs(trace, numbers, i) == Sample(trace[i - 1], numbers[i])

\* After n draws the sampler is that of the elements that are left, and none came twice.
LeavesOthers(population, trace, numbers, n) ==
    /\ \A i, k \in 1..n : GivenAs(trace, numbers, i) = GivenAs(trace, numbers, k) => i = k
    /\ \E rest \in Seq(Elements) :
        /\ Injective(rest) /\ Len(rest) = Len(population) - n
        /\ trace[n] = NewSampler(rest)
        /\ Range(rest) = Range(population) \ {GivenAs(trace, numbers, i) : i \in 1..n}

LEMMA OneMoreDraw ==
    ASSUME NEW population \in Seq(Elements), NEW trace, NEW numbers, NEW n \in Nat,
           LeavesOthers(population, trace, numbers, n),
           numbers[n + 1] \in 1..trace[n].sum,
           trace[n + 1] = AfterSample(trace[n], numbers[n + 1])
    PROVE  LeavesOthers(population, trace, numbers, n + 1)
<1> DEFINE x == numbers[n + 1]
           m == n + 1
           d(i) == GivenAs(trace, numbers, i)
           e == d(m)
<1>1. PICK rest \in Seq(Elements) :
        /\ Injective(rest) /\ Len(rest) = Len(population) - n
        /\ trace[n] = NewSampler(rest)
        /\ Range(rest) = Range(population) \ {d(i) : i \in 1..n}
  BY DEF LeavesOthers
<1>2. Fair(rest)
  BY <1>1, SamplersAreFair
<1>3. DOMAIN rest = 1..Len(rest) /\ Len(rest) \in Nat /\ Len(population) \in Nat
  OBVIOUS
<1>4. e = Sample(trace[n], x)
  BY DEF GivenAs
<1>5. PICK j \in 1..Len(rest) :
        /\ Sample(trace[n], x) = rest[j]
        /\ AfterSample(trace[n], x) = NewSampler(RemoveAt(rest, j))
  BY <1>1, <1>2, <1>3 DEF Fair
<1> HIDE DEF x, d, e
<1> DEFINE others == RemoveAt(rest, j)
<1>6. /\ others \in Seq(Elements) /\ Len(others) = Len(rest) - 1 /\ Injective(others)
      /\ Range(others) = Range(rest) \ {rest[j]}
  BY <1>1, RemovingOne
<1>7. trace[m] = NewSampler(others)
  BY <1>5 DEF x
<1>8. rest[j] \in Range(rest) /\ e = rest[j]
  BY <1>3, <1>4, <1>5 DEF Range
<1> HIDE DEF others
<1>9. \A i : i \in 1..m <=> (i \in 1..n \/ i = m)
  OBVIOUS
<1>10. Len(others) = Len(population) - m
  BY <1>1, <1>3, <1>6
<1>11. \A i \in 1..n : d(i) # e
  BY <1>1, <1>8
<1>12. {d(i) : i \in 1..m} = {d(i) : i \in 1..n} \cup {e}
  BY <1>9 DEF e
<1>13. Range(others) = Range(population) \ {d(i) : i \in 1..m}
  <2> HIDE DEF m
  <2> QED
    BY <1>1, <1>6, <1>8, <1>12
<1>14. \A i, k \in 1..n : d(i) = d(k) => i = k
  BY DEF LeavesOthers, d
<1>15. \A i, k \in 1..m : d(i) = d(k) => i = k
  <2> HIDE DEF m
  <2>1. ASSUME NEW i \in 1..m, NEW k \in 1..m, d(i) = d(k)
        PROVE  i = k
    <3>1. CASE i \in 1..n /\ k \in 1..n
      BY <1>14, <2>1, <3>1
    <3>2. CASE i = m /\ k \in 1..n
      BY <1>11, <2>1, <3>2 DEF e
    <3>3. CASE i \in 1..n /\ k = m
      BY <1>11, <2>1, <3>3 DEF e
    <3> QED
      BY <1>9, <3>1, <3>2, <3>3
  <2> QED
    BY <2>1
<1> HIDE DEF m
<1>16. LeavesOthers(population, trace, numbers, m)
  BY <1>6, <1>7, <1>10, <1>13, <1>15 DEF LeavesOthers, d
<1> QED
  BY <1>16 DEF m

(* Whatever the random numbers, a sampler gives every element at most once *)
(* in any number of draws, and all along it is the fair sampler of those   *)
(* it has not given yet; so it has given each of them when it is empty.    *)
THEOREM SamplersRunEmpty ==
    ASSUME NEW population \in Seq(Elements), Injective(population),
           NEW last \in Nat, NEW trace, NEW numbers,
           trace[0] = NewSampler(population),
           \A i \in 1..last : /\ numbers[i] \in 1..trace[i - 1].sum
                              /\ trace[i] = AfterSample(trace[i - 1], numbers[i])
    PROVE  \A n \in 0..last : LeavesOthers(population, trace, numbers, n)
<1> DEFINE P == {n \in 0..last : LeavesOthers(population, trace, numbers, n)}
<1>1. LeavesOthers(population, trace, numbers, 0)
  <2>1. {GivenAs(trace, numbers, i) : i \in 1..0} = {} /\ \A i \in 1..0 : FALSE
    OBVIOUS
  <2>2. Len(population) - 0 = Len(population)
    OBVIOUS
  <2> QED
    BY <2>1, <2>2 DEF LeavesOthers
<1>2. 0 \in P
  BY <1>1
<1>3. ASSUME NEW n \in 0..(last - 1), n \in P
      PROVE  n + 1 \in P
  <2>1. n + 1 \in 1..last /\ (n + 1) - 1 = n /\ n \in Nat /\ n + 1 \in 0..last
    OBVIOUS
  <2>2. numbers[n + 1] \in 1..trace[n].sum /\ trace[n + 1] = AfterSample(trace[n], numbers[n + 1])
    BY <2>1
  <2>3. LeavesOthers(population, trace, numbers, n)
    BY <1>3
  <2>4. LeavesOthers(population, trace, numbers, n + 1)
    BY <2>1, <2>2, <2>3, OneMoreDraw
  <2> QED
    BY <2>1, <2>4
<1> HIDE DEF P
<1>4. \A n \in 0..last : n \in P
  BY <1>2, <1>3, Induction
<1> QED
  BY <1>4 DEF P
===============================================================================
