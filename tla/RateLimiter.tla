----------------------------- MODULE RateLimiter -----------------------------
(***************************************************************************)
(* RateLimiter hands out permits for calls of the osu! API.  It keeps one  *)
(* bounded queue of permits per priority.  A scheduled task adds a permit  *)
(* to the first queue, from the highest priority down, that has room; a    *)
(* thread looks for a permit from the lowest priority up to its own and    *)
(* then waits at the queue of its own.                                     *)
(*                                                                         *)
(* Every operation on a queue is atomic, the sequence of operations that   *)
(* addPermit and limitRate make is not.  A permit has no identity, so that *)
(* a queue is the number of its permits.                                   *)
(***************************************************************************)
EXTENDS Integers, FiniteSets

CONSTANTS
    Threads,   \* callers: core workers, HTTP threads, maintenance threads
    Capacity,  \* capacity of each queue, 50, 50 and 100 in the code
    MaxTicks   \* bound on the ticks of an interval in which calls are counted

REQUEST == 0
EVENT == 1
MAINTENANCE == 2
Levels == REQUEST..MAINTENANCE

ASSUME LimiterAssumption ==
    /\ IsFiniteSet(Threads)
    /\ Capacity \in [Levels -> Nat]
    /\ MaxTicks \in Nat

VARIABLES
    permits, \* permits in each queue
    tick,    \* the queue addPermit offers to next, NoLevel when it is not running
    thread,  \* the callers: where they are in limitRate, and their priority
    window   \* history: of some interval, the ticks begun and the calls let through

vars == <<permits, tick, thread, window>>

NoLevel == MAINTENANCE + 1

Thread == [pc : {"idle", "poll", "blocked", "granted"}, priority : Levels, level : Levels]
At(pc, p, l) == [pc |-> pc, priority |-> p, level |-> l]

Closed == [open |-> FALSE, ticks |-> 0, grants |-> 0]

Init ==
    /\ permits = [l \in Levels |-> 0]
    /\ tick = NoLevel
    /\ thread = [t \in Threads |-> At("idle", MAINTENANCE, MAINTENANCE)]
    /\ window = Closed

-----------------------------------------------------------------------------
(* addPermit.  scheduleAtFixedRate never runs it twice at once.            *)

\* Mutants: the loop starts at the second queue; it ends at the first queue that is
\* full.
MutHighest == EVENT
MutAfterFull(l) == NoLevel

Highest == REQUEST
HasRoom(l) == permits[l] < Capacity[l]
AfterFull(l) == l + 1

AddPermit ==
    /\ tick = NoLevel
    /\ tick' = Highest
    /\ window' = IF window.open /\ window.ticks < MaxTicks
                 THEN [window EXCEPT !.ticks = @ + 1]
                 ELSE Closed
    /\ UNCHANGED <<permits, thread>>

Offer ==
    /\ tick # NoLevel
    /\ IF HasRoom(tick)
       THEN /\ permits' = [permits EXCEPT ![tick] = @ + 1]
            /\ tick' = NoLevel
       ELSE /\ tick' = AfterFull(tick)
            /\ UNCHANGED permits
    /\ UNCHANGED <<thread, window>>

-----------------------------------------------------------------------------
(* Threads.                                                                *)

\* setThreadPriority at the start of a task, or clearThreadPriority at its end,
\* which restores the initial value.
SetThreadPriority(t, p) ==
    /\ thread[t].pc = "idle"
    /\ thread' = [thread EXCEPT ![t].priority = p]
    /\ UNCHANGED <<permits, tick, window>>

\* Mutant: the thread looks into the queue of its own priority only.
MutFirstPolled(priority) == priority
FirstPolled(priority) == MAINTENANCE

LimitRate(t) ==
    /\ thread[t].pc = "idle"
    /\ thread' = [thread EXCEPT ![t] = At("poll", @.priority, FirstPolled(@.priority))]
    /\ UNCHANGED <<permits, tick, window>>

\* Mutant: the permit that was found stays in the queue.
MutTaken(q) == q
Taken(q) == q - 1

\* The thread gets a permit of queue l, and limitRate returns.
Grant(t, l) ==
    /\ permits' = [permits EXCEPT ![l] = Taken(@)]
    /\ thread' = [thread EXCEPT ![t] = At("granted", @.priority, MAINTENANCE)]
    /\ window' = IF window.open THEN [window EXCEPT !.grants = @ + 1] ELSE window
    /\ UNCHANGED tick

Found(t) ==
    /\ thread[t].pc = "poll"
    /\ permits[thread[t].level] > 0
    /\ Grant(t, thread[t].level)

\* poll returns null: the next queue, or take at the queue of the own priority.
NotFound(t) ==
    /\ thread[t].pc = "poll"
    /\ permits[thread[t].level] = 0
    /\ thread' = IF thread[t].level = thread[t].priority
                 THEN [thread EXCEPT ![t].pc = "blocked"]
                 ELSE [thread EXCEPT ![t].level = @ - 1]
    /\ UNCHANGED <<permits, tick, window>>

\* The queues are fair, but a thread that polls may overtake those that wait.
Take(t) ==
    /\ thread[t].pc = "blocked"
    /\ permits[thread[t].level] > 0
    /\ Grant(t, thread[t].level)

\* InterruptedException while waiting.
Interrupt(t) ==
    /\ thread[t].pc = "blocked"
    /\ thread' = [thread EXCEPT ![t] = At("idle", @.priority, MAINTENANCE)]
    /\ UNCHANGED <<permits, tick, window>>

\* The API call that the permit was for is over.
Return(t) ==
    /\ thread[t].pc = "granted"
    /\ thread' = [thread EXCEPT ![t].pc = "idle"]
    /\ UNCHANGED <<permits, tick, window>>

\* From here on ticks and calls are counted, up to tick MaxTicks.
OpenWindow ==
    /\ ~window.open
    /\ MaxTicks > 0
    /\ window' = [window EXCEPT !.open = TRUE]
    /\ UNCHANGED <<permits, tick, thread>>

-----------------------------------------------------------------------------
Scan(t) == Found(t) \/ NotFound(t)

Caller(t) ==
    \/ \E p \in Levels : SetThreadPriority(t, p)
    \/ LimitRate(t)
    \/ Scan(t)
    \/ Take(t)
    \/ Interrupt(t)
    \/ Return(t)

Next ==
    \/ AddPermit
    \/ Offer
    \/ \E t \in Threads : Caller(t)
    \/ OpenWindow

Spec == Init /\ [][Next]_vars

WaitingAt(l) == {t \in Threads : thread[t].pc = "blocked" /\ thread[t].level = l}

\* The schedule is kept, a thread that looks for a permit goes on looking, an
\* API call returns, and of the threads that wait for a permit some thread
\* gets it; which one is up to the scheduler.
Fairness ==
    /\ WF_vars(AddPermit \/ Offer)
    /\ \A t \in Threads : WF_vars(Scan(t)) /\ WF_vars(Return(t))
    /\ \A l \in Levels : WF_vars(\E t \in WaitingAt(l) : Take(t))

FairSpec == Spec /\ Fairness

-----------------------------------------------------------------------------
TypeOK ==
    /\ permits \in [Levels -> Nat] /\ \A l \in Levels : permits[l] <= Capacity[l]
    /\ tick \in Levels \cup {NoLevel}
    /\ thread \in [Threads -> Thread]
    /\ \A t \in Threads :
        /\ thread[t].priority <= thread[t].level
        /\ thread[t].pc \in {"idle", "granted"} => thread[t].level = MAINTENANCE
    /\ window \in [open : BOOLEAN, ticks : Nat, grants : Nat]

TotalCapacity == Capacity[REQUEST] + Capacity[EVENT] + Capacity[MAINTENANCE]
Total == permits[REQUEST] + permits[EVENT] + permits[MAINTENANCE]

(* "1200 requests per minute, with burst capability of up to 200 beyond    *)
(* that" (RateLimiter.java:22): in whatever interval one counts, the calls *)
(* let through exceed the permits scheduled by no more than the sum of the *)
(* capacities, and the one permit that addPermit may be placing when the   *)
(* interval begins.                                                        *)
BurstBound == window.grants <= window.ticks + TotalCapacity + 1

(* "which will always keep a buffer for high priority threads"             *)
(* (RateLimiter.java:20-21): while a queue holds permits for less urgent   *)
(* threads, a more urgent one lacks no more permits than there are threads *)
(* to race with.  One permit may be misplaced, since addPermit does not    *)
(* look at the more urgent queues again.                                   *)
BufferKept ==
    \A i, j \in Levels :
        i < j /\ permits[j] >= 2 => Capacity[i] - permits[i] <= Cardinality(Threads)

(* Direct requests that wait for a permit are not held up by less urgent   *)
(* work: they do not go on waiting without one of them being let through.  *)
RequestsProgress ==
    WaitingAt(REQUEST) # {} ~>
        \/ WaitingAt(REQUEST) = {}
        \/ \E t \in Threads : thread[t].pc = "granted" /\ thread[t].priority = REQUEST

(* Whoever waits is let through when no other thread wants a permit for    *)
(* long enough: maintenance work is postponed, never locked out.           *)
ServedWhenQuiet ==
    \A t \in Threads :
        (<>[] \A u \in Threads \ {t} : thread[u].pc = "idle")
            => []<>(thread[t].pc # "blocked")
=============================================================================
