---------------------------- MODULE ChatPipeline ----------------------------
(***************************************************************************)
(* The life of a chat event inside the bot process: MessagePreprocessor    *)
(* asks the Bouncer for the user's lock and publishes the event to the     *)
(* internal RabbitMQ queue, MessageHandlerScheduler hands it to one of the *)
(* core worker threads, IRCBot answers it into the response queue, and     *)
(* ResponsePostprocessor writes the answer to the game chat and gives the  *)
(* lock back.                                                              *)
(*                                                                         *)
(* There is one preprocessor thread, one scheduler thread and one          *)
(* postprocessor thread (RabbitMQ delivers the messages of a channel one   *)
(* at a time) and a fixed pool of workers.  An event is named by its id,   *)
(* its position in the order of arrival.                                   *)
(***************************************************************************)
EXTENDS Integers, Sequences, FiniteSets

CONSTANTS
    Nicks,        \* users of the game chat
    Workers,      \* the core pool (coreSize threads)
    MaxEvents,    \* bound on the number of events that arrive
    MaxMessages,  \* bound on the messages of one response
    MaxTries,     \* tries per message, 10 in the code
    WarnAttempts, \* refused attempts before a warning, 3 in the code
    Prefetch,     \* basicQos of the consumers, 100 in the code
    Replies,      \* what the chat writer's remote end may answer
    Unreadable,   \* the answers whose JSON the mapper of the bot refuses
    Faults        \* which faults may happen

AllReplies == {"Ok", "Retry", "Timeout", "Unknown", "PingDeath", "Broken"}
AllFaults == {"publish", "ttl", "interrupt", "restart", "earlyExpiry"}

\* Faults after which the Bouncer no longer knows of a request that is still
\* in the pipeline.
Forgetful == {"restart", "earlyExpiry"}

ASSUME ConstantsAssumption ==
    /\ MaxEvents \in Nat /\ MaxMessages \in Nat \ {0}
    /\ MaxTries \in Nat \ {0} /\ WarnAttempts \in Nat /\ Prefetch \in Nat \ {0}
    /\ Replies \subseteq AllReplies /\ Unreadable \subseteq Replies /\ Faults \subseteq AllFaults

VARIABLES
    events,    \* the events that have arrived, in order
    stage,     \* where each event is
    lock,      \* Bouncer.perUserLock
    recent,    \* whether the entry of a user was accessed within the last hour
    pre,       \* the preprocessor thread
    buffer,    \* events delivered to the scheduler's consumer, not yet taken
    hand,      \* the event the scheduler is submitting to the pool
    worker,    \* the core worker threads
    responses, \* the response queue
    post,      \* the postprocessor thread
    admitted,  \* history: events that tryEnter let in
    warnings   \* history: warnings sent while an event held its user's lock

vars == <<events, stage, lock, recent, pre, buffer, hand, worker, responses,
          post, admitted, warnings>>

Ids == 1..MaxEvents
NoEvent == 0

\* A PrivateMessage or PrivateAction is interactive; Joined and Sighted are not.
Kinds == {"private", "joined", "sighted"}
Event == [nick : Nicks, kind : Kinds]
Nick(id) == events[id].nick
Interactive(id) == events[id].kind = "private"
Priority(id) ==
    CASE events[id].kind = "private" -> 3
      [] events[id].kind = "joined"  -> 2
      [] events[id].kind = "sighted" -> 1

Stages == {"absent", "pre", "queued", "buffered", "dispatch", "visit",
           "responding", "post", "done", "lost"}
Pipeline == Stages \ {"absent", "done", "lost"}

Payload == [eventId : Ids \cup {NoEvent}, attempts : Nat, warningSent : BOOLEAN]
Free == [eventId |-> NoEvent, attempts |-> 0, warningSent |-> FALSE]
PreState == [pc : {"idle", "enter", "peek", "warn", "respond", "enqueue"},
             event : Ids \cup {NoEvent}, holder : Ids \cup {NoEvent},
             messages : 0..1]
WorkerState == [event : Ids \cup {NoEvent}, phase : {"idle", "visit", "register"}]
Response == [event : Ids, messages : 0..MaxMessages]
PostState == [event : Ids \cup {NoEvent}, left : 0..MaxMessages,
              tries : 0..(MaxTries - 1)]

PreIdle == [pc |-> "idle", event |-> NoEvent, holder |-> NoEvent, messages |-> 0]
WorkerIdle == [event |-> NoEvent, phase |-> "idle"]
PostIdle == [event |-> NoEvent, left |-> 0, tries |-> 0]

Init ==
    /\ events = <<>>
    /\ stage = [id \in Ids |-> "absent"]
    /\ lock = [n \in Nicks |-> Free]
    /\ recent = [n \in Nicks |-> FALSE]
    /\ pre = PreIdle
    /\ buffer = <<>>
    /\ hand = NoEvent
    /\ worker = [w \in Workers |-> WorkerIdle]
    /\ responses = <<>>
    /\ post = PostIdle
    /\ admitted = {}
    /\ warnings = [id \in Ids |-> 0]

-----------------------------------------------------------------------------
(* Bouncer: operations on the payload of one user.                         *)

Held(n) == lock[n].eventId # NoEvent
Holds(id) == lock[Nick(id)].eventId = id

\* getSemaphore, the first half of every access to the entry of n: whatever the
\* access then does, the hour until the entry expires starts again.
GetSemaphore(n) == recent' = [recent EXCEPT ![n] = TRUE]

\* Mutant: a refused attempt overwrites the holder.
MutEntered(p, id) == [p EXCEPT !.eventId = id]

\* Bouncer.tryEnter: takes a free lock, else counts the attempt, here as far as
\* the count is asked for.
Entered(p, id) ==
    IF p.eventId = NoEvent
    THEN [Free EXCEPT !.eventId = id]
    ELSE [p EXCEPT !.attempts = IF @ < WarnAttempts THEN @ + 1 ELSE @]

\* Mutants: exit does not compare the event ids; exit returns the old payload.
MutExitedAny(p, id) == Free
MutExitedNever(p, id) == p

\* Bouncer.exit is updateIfPresent with a mapper to null.
Exited(p, id) == IF p.eventId = id THEN Free ELSE p

\* MessagePreprocessor.setWarningSent, through Bouncer.updateIfPresent.
Warned(p, id) ==
    IF p.eventId = id THEN [p EXCEPT !.warningSent = TRUE] ELSE p

-----------------------------------------------------------------------------
(* MessagePreprocessor.  onEvent runs on the consumer thread of the        *)
(* external queue; the Bouncer calls in it are separate atomic steps.      *)

Receive(n, k) ==
    LET id == Len(events) + 1 IN
    /\ pre.pc = "idle"
    /\ id <= MaxEvents
    /\ events' = Append(events, [nick |-> n, kind |-> k])
    /\ stage' = [stage EXCEPT ![id] = "pre"]
    /\ pre' = [PreIdle EXCEPT !.event = id,
                              !.pc = IF k = "private" THEN "enter" ELSE "enqueue"]
    /\ UNCHANGED <<lock, recent, buffer, hand, worker, responses, post,
                   admitted, warnings>>

TryEnter ==
    LET id == pre.event IN
    /\ pre.pc = "enter"
    /\ GetSemaphore(Nick(id))
    /\ lock' = [lock EXCEPT ![Nick(id)] = Entered(@, id)]
    /\ IF Held(Nick(id))
       THEN pre' = [pre EXCEPT !.pc = "peek"] /\ UNCHANGED admitted
       ELSE pre' = [pre EXCEPT !.pc = "enqueue"] /\ admitted' = admitted \cup {id}
    /\ UNCHANGED <<events, stage, buffer, hand, worker, responses, post,
                   warnings>>

\* Mutant: the flag is set but not read.
MutWantsWarning(p, slow) == p.eventId # NoEvent /\ (slow \/ p.attempts >= WarnAttempts)

\* Whether handleSemaphoreInUse tries to send a warning for payload p; slow
\* says that the holder has been processing for more than five seconds.
WantsWarning(p, slow) ==
    /\ p.eventId # NoEvent
    /\ ~p.warningSent
    /\ slow \/ p.attempts >= WarnAttempts

\* The first half of handleSemaphoreInUse: bouncer.get and the decision.
Peek ==
    LET p == lock[Nick(pre.event)] IN
    /\ pre.pc = "peek"
    /\ GetSemaphore(Nick(pre.event))
    /\ \E slow \in BOOLEAN :
        pre' = IF WantsWarning(p, slow)
               THEN [pre EXCEPT !.pc = "warn", !.holder = p.eventId]
               ELSE [pre EXCEPT !.pc = "respond"]
    /\ UNCHANGED <<events, stage, lock, buffer, hand, worker, responses, post,
                   admitted, warnings>>

\* The second half: the warning is sent only if setWarningSent still finds the
\* payload that was looked at.
SetWarningSent ==
    LET n == Nick(pre.event) IN
    /\ pre.pc = "warn"
    /\ GetSemaphore(n)
    /\ lock' = [lock EXCEPT ![n] = Warned(@, pre.holder)]
    /\ IF lock[n].eventId = pre.holder
       THEN /\ pre' = [pre EXCEPT !.pc = "respond", !.messages = 1]
            /\ warnings' = [warnings EXCEPT ![pre.holder] = @ + 1]
       ELSE /\ pre' = [pre EXCEPT !.pc = "respond"]
            /\ UNCHANGED warnings
    /\ UNCHANGED <<events, stage, buffer, hand, worker, responses, post,
                   admitted>>

\* responses.onResponse for a refused event; AbstractRemoteQueue.send drops the
\* message when publishing fails.
RespondRefused ==
    LET id == pre.event IN
    /\ pre.pc = "respond"
    /\ \/ /\ responses' = Append(responses, [event |-> id, messages |-> pre.messages])
          /\ stage' = [stage EXCEPT ![id] = "responding"]
       \/ /\ "publish" \in Faults
          /\ stage' = [stage EXCEPT ![id] = "lost"]
          /\ UNCHANGED responses
    /\ pre' = PreIdle
    /\ UNCHANGED <<events, lock, recent, buffer, hand, worker, post, admitted,
                   warnings>>

\* queue.onEvent for an event that was let in, with the same failure.
Enqueue ==
    LET id == pre.event IN
    /\ pre.pc = "enqueue"
    /\ \/ stage' = [stage EXCEPT ![id] = "queued"]
       \/ /\ "publish" \in Faults
          /\ stage' = [stage EXCEPT ![id] = "lost"]
    /\ pre' = PreIdle
    /\ UNCHANGED <<events, lock, recent, buffer, hand, worker, responses, post,
                   admitted, warnings>>

-----------------------------------------------------------------------------
(* The internal queue.  RabbitMQ keeps at most Prefetch unacknowledged      *)
(* messages with the consumer; the rest wait by priority, then in order of *)
(* publication, and only those are subject to the time to live.            *)

Queued == {id \in Ids : stage[id] = "queued"}
Before(a, b) ==
    \/ Priority(a) > Priority(b)
    \/ Priority(a) = Priority(b) /\ a < b

Deliver(id) ==
    /\ Len(buffer) < Prefetch
    /\ stage[id] = "queued"
    /\ \A other \in Queued \ {id} : Before(id, other)
    /\ stage' = [stage EXCEPT ![id] = "buffered"]
    /\ buffer' = Append(buffer, id)
    /\ UNCHANGED <<events, lock, recent, pre, hand, worker, responses, post,
                   admitted, warnings>>

ExpireEvent(id) ==
    /\ "ttl" \in Faults
    /\ Len(buffer) = Prefetch
    /\ stage[id] = "queued"
    /\ stage' = [stage EXCEPT ![id] = "lost"]
    /\ UNCHANGED <<events, lock, recent, pre, buffer, hand, worker, responses,
                   post, admitted, warnings>>

-----------------------------------------------------------------------------
(* MessageHandlerScheduler: the consumer acknowledges, then blocks until a *)
(* worker takes the event.                                                 *)

Schedule ==
    /\ hand = NoEvent
    /\ buffer # <<>>
    /\ hand' = Head(buffer)
    /\ buffer' = Tail(buffer)
    /\ stage' = [stage EXCEPT ![Head(buffer)] = "dispatch"]
    /\ UNCHANGED <<events, lock, recent, pre, worker, responses, post,
                   admitted, warnings>>

\* submit, or offer once the pool is full: either way an idle worker takes the
\* task.
Submit(w) ==
    /\ hand # NoEvent
    /\ worker[w] = WorkerIdle
    /\ worker' = [worker EXCEPT ![w] = [event |-> hand, phase |-> "visit"]]
    /\ stage' = [stage EXCEPT ![hand] = "visit"]
    /\ hand' = NoEvent
    /\ UNCHANGED <<events, lock, recent, pre, buffer, responses, post,
                   admitted, warnings>>

\* The pool is shutting down, or the thread is interrupted in offer.
SubmitInterrupted ==
    /\ "interrupt" \in Faults
    /\ hand # NoEvent
    /\ stage' = [stage EXCEPT ![hand] = "lost"]
    /\ hand' = NoEvent
    /\ UNCHANGED <<events, lock, recent, pre, buffer, worker, responses, post,
                   admitted, warnings>>

-----------------------------------------------------------------------------
(* IRCBot.onEvent on a worker thread.                                      *)

\* visit returns a response of m messages and sendResponse publishes it; only
\* then is the activity registered.  Sighted events have no response, and the
\* response of no event is null.
Answer(w, m) ==
    LET id == worker[w].event IN
    /\ worker[w].phase = "visit"
    /\ events[id].kind = "sighted" => m = 0
    /\ \/ /\ responses' = Append(responses, [event |-> id, messages |-> m])
          /\ stage' = [stage EXCEPT ![id] = "responding"]
       \/ /\ "publish" \in Faults
          /\ stage' = [stage EXCEPT ![id] = "lost"]
          /\ UNCHANGED responses
    /\ worker' = [worker EXCEPT ![w].phase = "register"]
    /\ UNCHANGED <<events, lock, recent, pre, buffer, hand, post, admitted,
                   warnings>>

\* visit throws InterruptedException, or for a Joined event a RuntimeException:
\* no response is sent.
VisitAborted(w) ==
    LET id == worker[w].event IN
    /\ worker[w].phase = "visit"
    /\ "interrupt" \in Faults \/ events[id].kind = "joined"
    /\ stage' = [stage EXCEPT ![id] = "lost"]
    /\ worker' = [worker EXCEPT ![w] = WorkerIdle]
    /\ UNCHANGED <<events, lock, recent, pre, buffer, hand, responses, post,
                   admitted, warnings>>

RegisterActivity(w) ==
    /\ worker[w].phase = "register"
    /\ worker' = [worker EXCEPT ![w] = WorkerIdle]
    /\ UNCHANGED <<events, stage, lock, recent, pre, buffer, hand, responses,
                   post, admitted, warnings>>

-----------------------------------------------------------------------------
(* The response queue and ResponsePostprocessor.  The first Prefetch        *)
(* entries of responses are with the consumer, the rest wait in the queue  *)
(* and may expire from its head.                                           *)

ExpireResponse ==
    LET next == Prefetch + 1 IN
    /\ "ttl" \in Faults
    /\ Len(responses) >= next
    /\ stage' = [stage EXCEPT ![responses[next].event] = "lost"]
    /\ responses' = SubSeq(responses, 1, next - 1)
                        \o SubSeq(responses, next + 1, Len(responses))
    /\ UNCHANGED <<events, lock, recent, pre, buffer, hand, worker, post,
                   admitted, warnings>>

TakeResponse ==
    LET r == Head(responses) IN
    /\ post = PostIdle
    /\ responses # <<>>
    /\ post' = [event |-> r.event, left |-> r.messages, tries |-> 0]
    /\ responses' = Tail(responses)
    /\ stage' = [stage EXCEPT ![r.event] = "post"]
    /\ UNCHANGED <<events, lock, recent, pre, buffer, hand, worker, admitted,
                   warnings>>

\* What the RPC proxy makes of an answer.  A checked exception of the proxy, of
\* a broken connection or of the mapper, surfaces as an
\* UndeclaredThrowableException.
Received(reply) ==
    IF reply \in Unreadable \cup {"Broken"} THEN "Exception" ELSE reply

\* Mutant: a timeout is raised as an exception.
MutOutcome(reply) ==
    CASE Received(reply) = "Ok" -> "sent"
      [] Received(reply) \in {"Retry", "PingDeath"} -> "again"
      [] Received(reply) = "Unknown" -> "abandon"
      [] Received(reply) \in {"Timeout", "Exception"} -> "throw"

\* What the body of the retry loop does with the result.
Outcome(reply) ==
    CASE Received(reply) = "Ok" -> "sent"
      [] Received(reply) \in {"Retry", "PingDeath"} -> "again"
      [] Received(reply) \in {"Timeout", "Unknown"} -> "abandon"
      [] Received(reply) = "Exception" -> "throw"

\* Mutant: the loop bound is off by one.
MutTriesLeft(tries) == tries < MaxTries

\* Whether the retry loop goes around once more.
TriesLeft(tries) == tries + 1 < MaxTries

\* One call of handleResponse: the message is sent or given up, or tried again.
Write(reply) ==
    /\ post.event # NoEvent
    /\ post.left > 0
    /\ Outcome(reply) # "throw"
    /\ post' = IF Outcome(reply) = "again" /\ TriesLeft(post.tries)
               THEN [post EXCEPT !.tries = @ + 1]
               ELSE [post EXCEPT !.left = @ - 1, !.tries = 0]
    /\ UNCHANGED <<events, stage, lock, recent, pre, buffer, hand, worker,
                   responses, admitted, warnings>>

\* An exception, also that of an interrupted sleep before a retry, leaves
\* onResponse before bouncer.exit; the consumer logs it.
WriteThrows(reply) ==
    /\ post.event # NoEvent
    /\ post.left > 0
    /\ \/ Outcome(reply) = "throw"
       \/ Received(reply) = "Retry" /\ "interrupt" \in Faults
    /\ post' = PostIdle
    /\ stage' = [stage EXCEPT ![post.event] = "lost"]
    /\ UNCHANGED <<events, lock, recent, pre, buffer, hand, worker, responses,
                   admitted, warnings>>

\* The end of onResponse.
Release ==
    LET id == post.event IN
    /\ id # NoEvent
    /\ post.left = 0
    /\ lock' = IF Interactive(id)
               THEN [lock EXCEPT ![Nick(id)] = Exited(@, id)]
               ELSE lock
    /\ IF Interactive(id) THEN GetSemaphore(Nick(id)) ELSE UNCHANGED recent
    /\ stage' = [stage EXCEPT ![id] = "done"]
    /\ post' = PostIdle
    /\ UNCHANGED <<events, pre, buffer, hand, worker, responses, admitted,
                   warnings>>

-----------------------------------------------------------------------------
(* Time and crashes.                                                       *)

\* Unless the fault "earlyExpiry" is allowed, no event stays in the pipeline for
\* as long as it takes its user's entry to expire.
Expirable(id) == "earlyExpiry" \in Faults \/ stage[id] \notin Pipeline

\* The last access to the held entry of n is an hour ago.
HourPasses(n) ==
    /\ recent[n]
    /\ Held(n)
    /\ Expirable(lock[n].eventId)
    /\ recent' = [recent EXCEPT ![n] = FALSE]
    /\ UNCHANGED <<events, stage, lock, pre, buffer, hand, worker, responses,
                   post, admitted, warnings>>

\* Mutant: the cache is built without an expiry.
MutExpired(n) == FALSE

\* expireAfterAccess: an entry that has not been accessed for an hour is gone.
Expired(n) == Held(n) /\ ~recent[n]

\* The next access would find a new, free entry.
ExpireLock(n) ==
    /\ Expired(n)
    /\ Expirable(lock[n].eventId)
    /\ lock' = [lock EXCEPT ![n] = Free]
    /\ UNCHANGED <<events, stage, recent, pre, buffer, hand, worker, responses,
                   post, admitted, warnings>>

\* What a restart leaves of an event: the process forgets what its threads
\* hold, RabbitMQ takes back what was not acknowledged.
AfterRestart(s) ==
    CASE s \in {"pre", "dispatch", "visit", "post"} -> "lost"
      [] s = "buffered" -> "queued"
      [] OTHER -> s

Restart ==
    /\ "restart" \in Faults
    /\ stage' = [id \in Ids |-> AfterRestart(stage[id])]
    /\ lock' = [n \in Nicks |-> Free]
    /\ recent' = [n \in Nicks |-> FALSE]
    /\ pre' = PreIdle
    /\ buffer' = <<>>
    /\ hand' = NoEvent
    /\ worker' = [w \in Workers |-> WorkerIdle]
    /\ post' = PostIdle
    /\ UNCHANGED <<events, responses, admitted, warnings>>

-----------------------------------------------------------------------------
Preprocess == TryEnter \/ Peek \/ SetWarningSent \/ RespondRefused \/ Enqueue
Work(w) ==
    \/ \E m \in 0..MaxMessages : Answer(w, m)
    \/ VisitAborted(w)
    \/ RegisterActivity(w)
Postprocess ==
    \/ TakeResponse
    \/ \E reply \in Replies : Write(reply) \/ WriteThrows(reply)
    \/ Release

Next ==
    \/ \E n \in Nicks, k \in Kinds : Receive(n, k)
    \/ Preprocess
    \/ \E id \in Ids : Deliver(id) \/ ExpireEvent(id)
    \/ Schedule
    \/ \E w \in Workers : Submit(w) \/ Work(w)
    \/ SubmitInterrupted
    \/ ExpireResponse
    \/ Postprocess
    \/ \E n \in Nicks : HourPasses(n) \/ ExpireLock(n)
    \/ Restart

Spec == Init /\ [][Next]_vars

\* Every thread keeps running, a handler returns, a reply or the RPC timeout
\* arrives, and an hour without an access passes: an access takes HourPasses
\* back, so a user who writes at least once an hour keeps ExpireLock disabled.
\* Nothing makes users send events, or stop sending them, or faults happen.
Fairness ==
    /\ WF_vars(Preprocess)
    /\ WF_vars(\E id \in Ids : Deliver(id))
    /\ WF_vars(Schedule)
    /\ WF_vars(\E w \in Workers : Submit(w))
    /\ \A w \in Workers : WF_vars(Work(w))
    /\ WF_vars(Postprocess)
    /\ \A n \in Nicks : WF_vars(HourPasses(n)) /\ WF_vars(ExpireLock(n))

FairSpec == Spec /\ Fairness

-----------------------------------------------------------------------------
TypeOK ==
    /\ events \in Seq(Event) /\ Len(events) <= MaxEvents
    /\ stage \in [Ids -> Stages]
    /\ lock \in [Nicks -> Payload]
    /\ recent \in [Nicks -> BOOLEAN]
    /\ pre \in PreState
    /\ pre.pc # "idle" => pre.event \in 1..Len(events)
    /\ pre.pc = "warn" => pre.holder \in Ids
    /\ buffer \in Seq(Ids) /\ Len(buffer) <= Prefetch
    /\ hand \in Ids \cup {NoEvent}
    /\ worker \in [Workers -> WorkerState]
    /\ \A w \in Workers : worker[w].phase = "visit" => worker[w].event \in Ids
    /\ responses \in Seq(Response)
    /\ post \in PostState
    /\ admitted \subseteq Ids
    /\ warnings \in [Ids -> Nat]

\* A request that was let in and has not been answered or lost.
InFlight(id) == id \in admitted /\ stage[id] \in Pipeline

(* "only a single interactive request from each user is worked on at a     *)
(* time" (Bouncer.java:22): of one user, at most one admitted event is      *)
(* anywhere between the preprocessor and the end of its response.          *)
SingleRequestPerUser ==
    \A a, b \in Ids :
        InFlight(a) /\ InFlight(b) /\ Nick(a) = Nick(b) => a = b

(* A lock is never leaked without a loss: whoever holds the lock of a user *)
(* is an admitted event of that user, and it is either still in flight or  *)
(* one of the failures dropped it.  In particular the answer to a refused  *)
(* or a stale event leaves the lock of the current holder alone.           *)
HolderInFlightOrLost ==
    \A n \in Nicks : Held(n) =>
        LET id == lock[n].eventId IN
        /\ id \in admitted
        /\ Nick(id) = n
        /\ stage[id] \in Pipeline \cup {"lost"}

(* handleSemaphoreInUse warns a user at most once while one request is     *)
(* being processed, however often the user asks.                           *)
WarnedAtMostOnce == \A id \in Ids : warnings[id] <= 1

(* A lock is taken from its holder only when the holder's event has left   *)
(* the pipeline: by the exit at the end of its own response, or by expiry. *)
GivenUpByHolder ==
    [][\A n \in Nicks :
        Held(n) /\ lock'[n].eventId # lock[n].eventId
            => stage'[lock[n].eventId] \notin Pipeline]_vars

(* Whatever locks were lost in between, the exit at the end of a response   *)
(* leaves alone every lock that its event does not hold.                   *)
StaleReleaseHarmless ==
    [][\A n \in Nicks :
        /\ post.event # NoEvent /\ stage'[post.event] = "done"
        /\ lock[n].eventId # post.event
        => lock'[n] = lock[n]]_vars

(* "After a message is responded to, release is called to announce that    *)
(* the machine is now ready" (Bouncer.java:23-24): when the postprocessor  *)
(* is done with an event, that event does not hold the lock.               *)
ReleasedWhenRespondedTo ==
    [][post.event # NoEvent /\ post'.event # post.event
            => lock'[Nick(post.event)].eventId # post.event]_vars

\* A message of user n is with the preprocessor.
Writing(n) == pre.pc # "idle" /\ Nick(pre.event) = n /\ Interactive(pre.event)

(* Whatever is lost, a held lock becomes free unless its user writes again: *)
(* no user is locked out for good who leaves the bot alone for an hour.  One *)
(* who keeps writing may be, since every refused message is an access that  *)
(* starts the hour of expireAfterAccess again (Bouncer.java:48, 74-76).     *)
LockEventuallyFree == \A n \in Nicks : Held(n) ~> ~Held(n) \/ Writing(n)

(* Without faults every request that was let in is answered to its end.    *)
RequestsAnswered ==
    \A id \in Ids : id \in admitted ~> stage[id] = "done"
-----------------------------------------------------------------------------
(* The pipeline implements UserRequests, as long as no fault makes the     *)
(* Bouncer forget a request: Begin is the tryEnter that lets an event in,  *)
(* End is its release or its loss.                                         *)

working == [n \in Nicks |-> {id \in admitted : InFlight(id) /\ Nick(id) = n}]
finished == {id \in admitted : ~InFlight(id)}

Requests == INSTANCE UserRequests WITH working <- working, finished <- finished

(* One request at a time, each begun and ended once.                       *)
ImplementsRequests == Requests!Spec

(* The same, and every request that was begun comes to an end.             *)
ImplementsFairRequests == Requests!FairSpec
=============================================================================
