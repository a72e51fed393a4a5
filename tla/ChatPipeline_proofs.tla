------------------------- MODULE ChatPipeline_proofs -------------------------
(***************************************************************************)
(* Proofs about ChatPipeline, for every number of users, workers, events   *)
(* and messages.                                                           *)
(***************************************************************************)
EXTENDS ChatPipeline, SequenceTheorems, TLAPS

LEMMA AppendSeq ==
    ASSUME NEW S, NEW s \in Seq(S), NEW x \in S
    PROVE  /\ Append(s, x) \in Seq(S)
           /\ Len(Append(s, x)) = Len(s) + 1
           /\ Append(s, x)[Len(s) + 1] = x
           /\ \A i \in 1..Len(s) : Append(s, x)[i] = s[i]
OBVIOUS

LEMMA TailSeq ==
    ASSUME NEW S, NEW s \in Seq(S), s # <<>>
    PROVE  /\ Head(s) \in S /\ Head(s) = s[1] /\ Len(s) >= 1
           /\ Tail(s) \in Seq(S)
           /\ Len(Tail(s)) = Len(s) - 1
           /\ \A i \in 1..Len(Tail(s)) : Tail(s)[i] = s[i + 1]
OBVIOUS

LEMMA SeqEntries ==
    ASSUME NEW S, NEW s \in Seq(S)
    PROVE  \A i \in 1..Len(s) : s[i] \in S
OBVIOUS

LEMMA CutSeq ==
    ASSUME NEW S, NEW s \in Seq(S), NEW k \in 1..Len(s)
    PROVE  LET t == SubSeq(s, 1, k - 1) \o SubSeq(s, k + 1, Len(s)) IN
           /\ t \in Seq(S)
           /\ Len(t) = Len(s) - 1
           /\ \A i \in 1..Len(t) : t[i] = IF i < k THEN s[i] ELSE s[i + 1]
<1> DEFINE a == SubSeq(s, 1, k - 1)
           b == SubSeq(s, k + 1, Len(s))
           t == a \o b
<1>1. /\ a \in Seq(S) /\ Len(a) = k - 1
      /\ \A i \in 1..(k - 1) : a[i] = s[i]
  OBVIOUS
<1>2. /\ b \in Seq(S) /\ Len(b) = Len(s) - k
      /\ \A i \in 1..(Len(s) - k) : b[i] = s[i + k]
  OBVIOUS
<1> HIDE DEF a, b
<1>3. /\ t \in Seq(S) /\ Len(t) = Len(a) + Len(b)
      /\ \A i \in 1..Len(t) : t[i] = IF i <= Len(a) THEN a[i] ELSE b[i - Len(a)]
  <2>1. a \in Seq(S) /\ b \in Seq(S)
    BY <1>1, <1>2
  <2> QED BY ONLY <2>1, ConcatProperties
<1> HIDE DEF t
<1>4. ASSUME NEW i \in 1..Len(t)
      PROVE  t[i] = IF i < k THEN s[i] ELSE s[i + 1]
  <2>1. CASE i < k
    BY <1>1, <1>2, <1>3, <2>1
  <2>2. CASE ~(i < k)
    <3>1. i - Len(a) \in 1..(Len(s) - k) /\ (i - Len(a)) + k = i + 1
      BY <1>1, <1>2, <1>3, <2>2
    <3> QED BY <1>1, <1>2, <1>3, <2>2, <3>1
  <2> QED BY <2>1, <2>2
<1>5. /\ t \in Seq(S)
      /\ Len(t) = Len(s) - 1
      /\ \A i \in 1..Len(t) : t[i] = IF i < k THEN s[i] ELSE s[i + 1]
  BY <1>1, <1>2, <1>3, <1>4
<1> QED BY <1>5 DEF a, b, t
-----------------------------------------------------------------------------
(* Type correctness.                                                       *)

USE ConstantsAssumption DEF Ids, NoEvent

LEMMA BouncerTypes ==
    ASSUME NEW p \in Payload, NEW id \in Ids
    PROVE  /\ Free \in Payload
           /\ Entered(p, id) \in Payload
           /\ Exited(p, id) \in Payload
           /\ Warned(p, id) \in Payload
<1>1. Free \in Payload
  BY DEF Payload, Free
<1>2. [Free EXCEPT !.eventId = id] \in Payload
  BY DEF Payload, Free
<1>3. [p EXCEPT !.attempts = IF @ < WarnAttempts THEN @ + 1 ELSE @] \in Payload
  BY DEF Payload
<1>4. [p EXCEPT !.warningSent = TRUE] \in Payload
  BY DEF Payload
<1> QED BY <1>1, <1>2, <1>3, <1>4 DEF Entered, Exited, Warned

LEMMA KnownHolder ==
    ASSUME lock \in [Nicks -> Payload], NEW n, Held(n), n \in Nicks
    PROVE  lock[n].eventId \in Ids
BY DEF Held, Payload

LEMMA PreFields ==
    ASSUME NEW p \in PreState
    PROVE  p.event \in Ids \cup {NoEvent} /\ p.messages \in 0..1
BY DEF PreState

LEMMA PreStep ==
    ASSUME NEW p \in PreState, NEW c \in {"peek", "enqueue", "respond"}
    PROVE  LET q == [p EXCEPT !.pc = c] IN
           q \in PreState /\ q.event = p.event /\ q.pc = c
BY DEF PreState

LEMMA PreWarn ==
    ASSUME NEW p \in PreState, NEW h \in Ids
    PROVE  LET q == [p EXCEPT !.pc = "warn", !.holder = h] IN
           q \in PreState /\ q.event = p.event /\ q.holder = h /\ q.pc = "warn"
BY DEF PreState

LEMMA PreWarned ==
    ASSUME NEW p \in PreState
    PROVE  LET q == [p EXCEPT !.pc = "respond", !.messages = 1] IN
           q \in PreState /\ q.event = p.event /\ q.pc = "respond"
<1> DEFINE q == [p EXCEPT !.pc = "respond", !.messages = 1]
<1>1. /\ DOMAIN p = {"pc", "event", "holder", "messages"}
      /\ p.event \in Ids \cup {NoEvent} /\ p.holder \in Ids \cup {NoEvent}
      /\ p = [f \in {"pc", "event", "holder", "messages"} |-> p[f]]
  BY DEF PreState
<1>2. /\ q.pc = "respond" /\ q.messages = 1
      /\ q.event = p.event /\ q.holder = p.holder
  BY <1>1
<1>3. q = [f \in {"pc", "event", "holder", "messages"} |-> q[f]]
  BY <1>1
<1> HIDE DEF q
<1>4. q \in PreState
  BY <1>1, <1>2, <1>3 DEF PreState
<1> QED BY <1>2, <1>4 DEF q

LEMMA IdleWorker ==
    WorkerIdle \in WorkerState /\ WorkerIdle.phase = "idle"
    /\ WorkerIdle.event = NoEvent
BY DEF WorkerState, WorkerIdle

LEMMA WorkerTypes ==
    ASSUME NEW k \in WorkerState, NEW id \in Ids
    PROVE  /\ [event |-> id, phase |-> "visit"] \in WorkerState
           /\ [k EXCEPT !.phase = "register"] \in WorkerState
           /\ [k EXCEPT !.phase = "register"].phase = "register"
BY DEF WorkerState, WorkerIdle

LEMMA PostTypes ==
    ASSUME NEW p \in PostState
    PROVE  /\ PostIdle \in PostState /\ p.event \in Ids \cup {NoEvent}
           /\ \A r \in Response :
                [event |-> r.event, left |-> r.messages, tries |-> 0] \in PostState
           /\ p.tries + 1 < MaxTries => [p EXCEPT !.tries = @ + 1] \in PostState
           /\ p.left > 0 => [p EXCEPT !.left = @ - 1, !.tries = 0] \in PostState
<1>1. PostIdle \in PostState /\ p.event \in Ids \cup {NoEvent}
  BY DEF PostState, PostIdle
<1>2. ASSUME NEW r \in Response
      PROVE  [event |-> r.event, left |-> r.messages, tries |-> 0] \in PostState
  BY DEF PostState, Response
<1>3. p.tries + 1 < MaxTries => [p EXCEPT !.tries = @ + 1] \in PostState
  BY DEF PostState
<1>4. p.left > 0 => [p EXCEPT !.left = @ - 1, !.tries = 0] \in PostState
  <2> DEFINE q == [p EXCEPT !.left = @ - 1, !.tries = 0]
  <2>1. /\ DOMAIN p = {"event", "left", "tries"}
        /\ p.event \in Ids \cup {NoEvent} /\ p.left \in 0..MaxMessages
        /\ p = [f \in {"event", "left", "tries"} |-> p[f]]
    BY DEF PostState
  <2>2. q.event = p.event /\ q.left = p.left - 1 /\ q.tries = 0
    BY <2>1
  <2>3. q = [f \in {"event", "left", "tries"} |-> q[f]]
    BY <2>1
  <2> HIDE DEF q
  <2>4. p.left > 0 => q \in PostState
    BY <2>1, <2>2, <2>3 DEF PostState
  <2> QED BY <2>4 DEF q
<1> QED BY <1>1, <1>2, <1>3, <1>4

LEMMA StageType ==
    ASSUME NEW s \in [Ids -> Stages], NEW id, NEW v \in Stages
    PROVE  [s EXCEPT ![id] = v] \in [Ids -> Stages]
OBVIOUS

LEMMA LockType ==
    ASSUME NEW l \in [Nicks -> Payload], NEW n, NEW p \in Payload
    PROVE  [l EXCEPT ![n] = p] \in [Nicks -> Payload]
OBVIOUS

LEMMA AccessType ==
    ASSUME recent \in [Nicks -> BOOLEAN], NEW n, GetSemaphore(n)
    PROVE  recent' \in [Nicks -> BOOLEAN]
BY DEF GetSemaphore

LEMMA TypeInit == Init => TypeOK
<1> SUFFICES ASSUME Init PROVE TypeOK
  OBVIOUS
<1>1. Free \in Payload /\ PreIdle \in PreState /\ WorkerIdle \in WorkerState
      /\ PostIdle \in PostState
  BY DEF Free, Payload, PreIdle, PreState, WorkerIdle, WorkerState, PostIdle, PostState
<1>2. PreIdle.pc = "idle" /\ WorkerIdle.phase = "idle"
  BY DEF PreIdle, WorkerIdle
<1>3. "absent" \in Stages
  BY DEF Stages
<1> QED BY <1>1, <1>2, <1>3 DEF Init, TypeOK

LEMMA TypeNext == TypeOK /\ [Next]_vars => TypeOK'
<1> SUFFICES ASSUME TypeOK, [Next]_vars PROVE TypeOK'
  OBVIOUS
<1>0. /\ PreIdle \in PreState /\ PreIdle.pc = "idle"
      /\ Stages = {"absent", "pre", "queued", "buffered", "dispatch", "visit",
                   "responding", "post", "done", "lost"}
  BY DEF PreIdle, PreState, Stages
<1>s. {"queued", "responding", "lost"} \subseteq Stages
  BY DEF Stages
<1>t. /\ events \in Seq(Event) /\ Len(events) \in 0..MaxEvents
      /\ stage \in [Ids -> Stages] /\ lock \in [Nicks -> Payload]
      /\ pre \in PreState /\ responses \in Seq(Response)
      /\ pre.pc # "idle" => pre.event \in 1..Len(events) /\ pre.event \in Ids
  BY DEF TypeOK
<1>1. ASSUME NEW n \in Nicks, NEW k \in Kinds, Receive(n, k) PROVE TypeOK'
  <2>1. [nick |-> n, kind |-> k] \in Event
    BY DEF Event
  <2>2. events' \in Seq(Event) /\ Len(events') <= MaxEvents
    BY <1>1, <2>1, AppendSeq DEF Receive, TypeOK
  <2>3. stage' \in [Ids -> Stages]
    BY <1>0, <1>1, StageType DEF Receive, TypeOK
  <2>4. Len(events) + 1 \in Ids
    BY <1>1 DEF Receive, TypeOK
  <2>5. pre' = [pc |-> IF k = "private" THEN "enter" ELSE "enqueue",
                event |-> Len(events) + 1, holder |-> 0, messages |-> 0]
    BY <1>1 DEF Receive, PreIdle
  <2>6. pre' \in PreState /\ pre'.event \in 1..Len(events') /\ pre'.pc # "warn"
    <3>1. pre' \in PreState /\ pre'.event = Len(events) + 1 /\ pre'.pc # "warn"
      BY <2>4, <2>5 DEF PreState
    <3>2. Len(events') = Len(events) + 1
      BY <1>1, <1>t, <2>1, AppendSeq DEF Receive
    <3> QED BY <1>t, <3>1, <3>2
  <2> QED BY <1>1, <2>2, <2>3, <2>6 DEF TypeOK, Receive
<1>2. CASE TryEnter
  <2>1. pre.event \in Ids /\ pre.event \in 1..Len(events)
    BY <1>t, <1>2 DEF TryEnter
  <2>2. lock' \in [Nicks -> Payload]
    BY <1>2, <2>1, BouncerTypes, LockType DEF TryEnter, TypeOK
  <2>3. admitted' \subseteq Ids
    BY <1>2, <2>1 DEF TryEnter, TypeOK
  <2>4. pre' = [pre EXCEPT !.pc = "peek"] \/ pre' = [pre EXCEPT !.pc = "enqueue"]
    BY <1>2 DEF TryEnter
  <2>5. pre' \in PreState /\ pre'.event \in 1..Len(events) /\ pre'.pc # "warn"
    BY <1>t, <2>1, <2>4, PreStep
  <2>6. recent' \in [Nicks -> BOOLEAN]
    BY <1>2, AccessType DEF TryEnter, TypeOK
  <2> QED BY <1>2, <2>2, <2>3, <2>5, <2>6 DEF TypeOK, TryEnter
<1>3. CASE Peek
  <2> DEFINE p == lock[Nick(pre.event)]
  <2>1. pre.event \in 1..Len(events) /\ Nick(pre.event) \in Nicks
    <3>1. pre.event \in 1..Len(events)
      BY <1>t, <1>3 DEF Peek
    <3>2. events[pre.event] \in Event
      BY <1>t, <3>1
    <3> QED BY <3>1, <3>2 DEF Nick, Event
  <2>2. \/ pre' = [pre EXCEPT !.pc = "respond"]
        \/ /\ pre' = [pre EXCEPT !.pc = "warn", !.holder = p.eventId]
           /\ Held(Nick(pre.event))
    BY <1>3 DEF Peek, WantsWarning, Held
  <2>3. Held(Nick(pre.event)) => p.eventId \in Ids
    BY <1>t, <2>1, KnownHolder
  <2>4. pre' \in PreState /\ pre'.event \in 1..Len(events) /\ (pre'.pc = "warn" => pre'.holder \in Ids)
    <3>1. CASE pre' = [pre EXCEPT !.pc = "respond"]
      BY <1>t, <2>1, <3>1, PreStep
    <3>2. CASE /\ pre' = [pre EXCEPT !.pc = "warn", !.holder = p.eventId]
               /\ Held(Nick(pre.event))
      <4>1. p.eventId \in Ids
        BY <2>3, <3>2
      <4> HIDE DEF p
      <4> QED BY <1>t, <2>1, <3>2, <4>1, PreWarn
    <3> QED BY <2>2, <3>1, <3>2
  <2>5. recent' \in [Nicks -> BOOLEAN]
    BY <1>3, AccessType DEF Peek, TypeOK
  <2> QED BY <1>3, <2>4, <2>5 DEF TypeOK, Peek
<1>4. CASE SetWarningSent
  <2>1. pre.event \in 1..Len(events) /\ pre.event \in Ids /\ pre.holder \in Ids
    BY <1>t, <1>4 DEF SetWarningSent, TypeOK
  <2>2. lock' \in [Nicks -> Payload]
    BY <1>4, <2>1, BouncerTypes, LockType DEF SetWarningSent, TypeOK
  <2>3. warnings' \in [Ids -> Nat]
    <3>1. warnings \in [Ids -> Nat]
      BY DEF TypeOK
    <3>2. \/ warnings' = [warnings EXCEPT ![pre.holder] = @ + 1]
          \/ warnings' = warnings
      BY <1>4 DEF SetWarningSent
    <3>3. warnings[pre.holder] + 1 \in Nat
      BY <2>1, <3>1
    <3>4. [warnings EXCEPT ![pre.holder] = @ + 1] \in [Ids -> Nat]
      BY <3>1, <3>3
    <3> QED BY <3>1, <3>2, <3>4
  <2>4. /\ \/ pre' = [pre EXCEPT !.pc = "respond", !.messages = 1]
           \/ pre' = [pre EXCEPT !.pc = "respond"]
        /\ UNCHANGED <<events, stage, buffer, hand, worker, responses, post, admitted>>
    BY <1>4 DEF SetWarningSent
  <2>5. pre' \in PreState /\ pre'.event \in 1..Len(events) /\ pre'.pc # "warn"
    BY <1>t, <2>1, <2>4, PreStep, PreWarned
  <2>6. recent' \in [Nicks -> BOOLEAN]
    BY <1>4, AccessType DEF SetWarningSent, TypeOK
  <2> QED BY <2>2, <2>3, <2>4, <2>5, <2>6 DEF TypeOK
<1>5. CASE RespondRefused
  <2>1. stage' \in [Ids -> Stages]
    <3>1. \/ stage' = [stage EXCEPT ![pre.event] = "responding"]
          \/ stage' = [stage EXCEPT ![pre.event] = "lost"]
      BY <1>5 DEF RespondRefused
    <3> QED BY <1>s, <1>t, <3>1, StageType
  <2>2. pre.event \in Ids /\ pre.messages \in 0..MaxMessages
    BY <1>5, <1>t, PreFields DEF RespondRefused
  <2>3. [event |-> pre.event, messages |-> pre.messages] \in Response
    BY <2>2 DEF Response
  <2>4. responses' \in Seq(Response)
    <3> DEFINE r == [event |-> pre.event, messages |-> pre.messages]
    <3>1. responses' = Append(responses, r) \/ responses' = responses
      BY <1>5 DEF RespondRefused
    <3>2. r \in Response
      BY <2>3
    <3> HIDE DEF r
    <3>3. Append(responses, r) \in Seq(Response)
      BY <1>t, <3>2, AppendSeq
    <3> QED BY <1>t, <3>1, <3>3
  <2> QED BY <1>0, <1>5, <2>1, <2>4 DEF TypeOK, RespondRefused
<1>6. CASE Enqueue
  <2>1. stage' \in [Ids -> Stages]
    <3>1. \/ stage' = [stage EXCEPT ![pre.event] = "queued"]
          \/ stage' = [stage EXCEPT ![pre.event] = "lost"]
      BY <1>6 DEF Enqueue
    <3> QED BY <1>s, <1>t, <3>1, StageType
  <2> QED BY <1>0, <1>6, <2>1 DEF TypeOK, Enqueue
<1>7. ASSUME NEW id \in Ids, Deliver(id) PROVE TypeOK'
  <2>1. stage' \in [Ids -> Stages]
    BY <1>0, <1>7, StageType DEF Deliver, TypeOK
  <2>2. buffer' \in Seq(Ids) /\ Len(buffer') <= Prefetch
    BY <1>7, AppendSeq DEF Deliver, TypeOK
  <2> QED BY <1>7, <2>1, <2>2 DEF TypeOK, Deliver
<1>8. ASSUME NEW id \in Ids, ExpireEvent(id) PROVE TypeOK'
  <2>1. stage' \in [Ids -> Stages]
    BY <1>0, <1>8, StageType DEF ExpireEvent, TypeOK
  <2> QED BY <1>8, <2>1 DEF TypeOK, ExpireEvent
<1>9. CASE Schedule
  <2>1. stage' \in [Ids -> Stages]
    BY <1>0, <1>9, StageType DEF Schedule, TypeOK
  <2>2. hand' \in Ids /\ buffer' \in Seq(Ids) /\ Len(buffer') <= Prefetch
    BY <1>9, TailSeq DEF Schedule, TypeOK
  <2> QED BY <1>9, <2>1, <2>2 DEF TypeOK, Schedule
<1>10. ASSUME NEW w \in Workers, Submit(w) PROVE TypeOK'
  <2>1. hand \in Ids
    BY <1>10 DEF Submit, TypeOK
  <2>2. stage' \in [Ids -> Stages]
    BY <1>0, <1>10, StageType DEF Submit, TypeOK
  <2>3. /\ worker' \in [Workers -> WorkerState]
        /\ \A v \in Workers : worker'[v].phase = "visit" => worker'[v].event \in Ids
    BY <1>10, <2>1, WorkerTypes DEF Submit, TypeOK
  <2> QED BY <1>10, <2>2, <2>3 DEF TypeOK, Submit
<1>11. CASE SubmitInterrupted
  <2>1. stage' \in [Ids -> Stages]
    BY <1>0, <1>11, StageType DEF SubmitInterrupted, TypeOK
  <2> QED BY <1>11, <2>1 DEF TypeOK, SubmitInterrupted
<1>12. ASSUME NEW w \in Workers, NEW m \in 0..MaxMessages, Answer(w, m)
       PROVE TypeOK'
  <2>1. stage' \in [Ids -> Stages]
    <3>1. \/ stage' = [stage EXCEPT ![worker[w].event] = "responding"]
          \/ stage' = [stage EXCEPT ![worker[w].event] = "lost"]
      BY <1>12 DEF Answer
    <3> QED BY <1>s, <1>t, <3>1, StageType
  <2>2. worker[w].event \in Ids /\ worker[w] \in WorkerState
    BY <1>12 DEF Answer, TypeOK
  <2>3. [event |-> worker[w].event, messages |-> m] \in Response
    BY <2>2 DEF Response
  <2>4. responses' \in Seq(Response)
    <3> DEFINE r == [event |-> worker[w].event, messages |-> m]
    <3>1. responses' = Append(responses, r) \/ responses' = responses
      BY <1>12 DEF Answer
    <3>2. r \in Response
      BY <2>3
    <3> HIDE DEF r
    <3>3. Append(responses, r) \in Seq(Response)
      BY <1>t, <3>2, AppendSeq
    <3> QED BY <1>t, <3>1, <3>3
  <2>5. worker' = [worker EXCEPT ![w] = [worker[w] EXCEPT !.phase = "register"]]
    BY <1>12 DEF Answer, TypeOK
  <2>6. /\ worker' \in [Workers -> WorkerState]
        /\ \A v \in Workers : worker'[v].phase = "visit" => worker'[v].event \in Ids
    BY <2>2, <2>5, WorkerTypes DEF TypeOK
  <2> QED BY <1>12, <2>1, <2>4, <2>6 DEF TypeOK, Answer
<1>13. ASSUME NEW w \in Workers, VisitAborted(w) PROVE TypeOK'
  <2>1. stage' \in [Ids -> Stages]
    BY <1>0, <1>13, StageType DEF VisitAborted, TypeOK
  <2>2. /\ worker' \in [Workers -> WorkerState]
        /\ \A v \in Workers : worker'[v].phase = "visit" => worker'[v].event \in Ids
    BY <1>13, IdleWorker DEF VisitAborted, TypeOK
  <2> QED BY <1>13, <2>1, <2>2 DEF TypeOK, VisitAborted
<1>14. ASSUME NEW w \in Workers, RegisterActivity(w) PROVE TypeOK'
  <2>1. /\ worker' \in [Workers -> WorkerState]
        /\ \A v \in Workers : worker'[v].phase = "visit" => worker'[v].event \in Ids
    BY <1>14, IdleWorker DEF RegisterActivity, TypeOK
  <2> QED BY <1>14, <2>1 DEF TypeOK, RegisterActivity
<1>15. CASE ExpireResponse
  <2>1. Prefetch + 1 \in 1..Len(responses)
    BY <1>15 DEF ExpireResponse, TypeOK
  <2>2. responses' \in Seq(Response)
    BY <1>15, <2>1, CutSeq DEF ExpireResponse, TypeOK
  <2>3. stage' \in [Ids -> Stages]
    BY <1>0, <1>15, StageType DEF ExpireResponse, TypeOK
  <2> QED BY <1>15, <2>2, <2>3 DEF TypeOK, ExpireResponse
<1>16. CASE TakeResponse
  <2>1. Head(responses) \in Response /\ responses' \in Seq(Response)
    BY <1>16, TailSeq DEF TakeResponse, TypeOK
  <2>2. stage' \in [Ids -> Stages]
    BY <1>0, <1>16, StageType DEF TakeResponse, TypeOK
  <2>3. post' \in PostState
    BY <1>16, <2>1, PostTypes DEF TakeResponse, TypeOK
  <2> QED BY <1>16, <2>1, <2>2, <2>3 DEF TypeOK, TakeResponse
<1>17. ASSUME NEW reply \in Replies, Write(reply) PROVE TypeOK'
  <2>1. \/ post' = [post EXCEPT !.tries = @ + 1] /\ post.tries + 1 < MaxTries
        \/ post' = [post EXCEPT !.left = @ - 1, !.tries = 0] /\ post.left > 0
    BY <1>17 DEF Write, TriesLeft
  <2>2. post' \in PostState
    BY <2>1, PostTypes DEF TypeOK
  <2> QED BY <1>17, <2>2 DEF TypeOK, Write
<1>18. ASSUME NEW reply \in Replies, WriteThrows(reply) PROVE TypeOK'
  <2>1. stage' \in [Ids -> Stages]
    BY <1>0, <1>18, StageType DEF WriteThrows, TypeOK
  <2>2. post' \in PostState
    BY <1>18, PostTypes DEF WriteThrows, TypeOK
  <2> QED BY <1>18, <2>1, <2>2 DEF TypeOK, WriteThrows
<1>19. CASE Release
  <2>1. stage' \in [Ids -> Stages]
    BY <1>0, <1>19, StageType DEF Release, TypeOK
  <2>2. post.event \in Ids
    BY <1>19, PostTypes DEF Release, TypeOK
  <2>3. lock' \in [Nicks -> Payload]
    BY <1>19, <2>2, BouncerTypes, LockType DEF Release, TypeOK
  <2>4. post' \in PostState
    BY <1>19, PostTypes DEF Release, TypeOK
  <2>5. recent' \in [Nicks -> BOOLEAN]
    BY <1>19, AccessType DEF Release, TypeOK
  <2> QED BY <1>19, <2>1, <2>3, <2>4, <2>5 DEF TypeOK, Release
<1>20. ASSUME NEW n \in Nicks, ExpireLock(n) PROVE TypeOK'
  <2>1. Free \in Payload
    BY DEF Free, Payload
  <2>2. lock' \in [Nicks -> Payload]
    BY <1>20, <2>1, LockType DEF ExpireLock, TypeOK
  <2> QED BY <1>20, <2>2 DEF TypeOK, ExpireLock
<1>21. CASE Restart
  <2>1. Free \in Payload /\ lock' \in [Nicks -> Payload]
    BY <1>21 DEF Restart, Free, Payload
  <2>2. stage' \in [Ids -> Stages]
    BY <1>0, <1>21 DEF Restart, AfterRestart, TypeOK
  <2>3. post' \in PostState
    BY <1>21, PostTypes DEF Restart, TypeOK
  <2>4. /\ worker' \in [Workers -> WorkerState]
        /\ \A v \in Workers : worker'[v].phase = "visit" => worker'[v].event \in Ids
    BY <1>21, IdleWorker DEF Restart, TypeOK
  <2>5. buffer' \in Seq(Ids) /\ Len(buffer') <= Prefetch
    BY <1>21 DEF Restart
  <2> QED BY <1>0, <1>21, <2>1, <2>2, <2>3, <2>4, <2>5 DEF TypeOK, Restart
<1>22. CASE UNCHANGED vars
  BY <1>22 DEF vars, TypeOK
<1>23. ASSUME NEW n \in Nicks, HourPasses(n) PROVE TypeOK'
  <2>1. recent' \in [Nicks -> BOOLEAN]
    BY <1>23 DEF HourPasses, TypeOK
  <2> QED BY <1>23, <2>1 DEF TypeOK, HourPasses
<1> QED
  BY <1>1, <1>2, <1>3, <1>4, <1>5, <1>6, <1>7, <1>8, <1>9, <1>10, <1>11, <1>12,
     <1>13, <1>14, <1>15, <1>16, <1>17, <1>18, <1>19, <1>20, <1>21, <1>22, <1>23
  DEF Next, Preprocess, Work, Postprocess

(* Every variable of the pipeline keeps its type, whatever the constants   *)
(* and the faults are.                                                     *)
THEOREM TypeCorrect == Spec => []TypeOK
BY TypeInit, TypeNext, PTL DEF Spec
-----------------------------------------------------------------------------
(* The inductive invariant.  stage says where an event is; these say that  *)
(* each thread and queue holds exactly such events, and each event once.   *)

Arrived == \A id \in Ids : stage[id] # "absent" <=> id <= Len(events)
PrePlaced == pre.pc # "idle" => stage[pre.event] = "pre"
BufferPlaced ==
    /\ \A i \in 1..Len(buffer) : stage[buffer[i]] = "buffered"
    /\ \A i, j \in 1..Len(buffer) : buffer[i] = buffer[j] => i = j
HandPlaced == hand # NoEvent => stage[hand] = "dispatch"
WorkersPlaced ==
    /\ \A w \in Workers :
          worker[w].phase = "visit" => stage[worker[w].event] = "visit"
    /\ \A v, w \in Workers :
          /\ worker[v].phase = "visit" /\ worker[w].phase = "visit"
          /\ worker[v].event = worker[w].event
          => v = w
ResponsesPlaced ==
    /\ \A i \in 1..Len(responses) : stage[responses[i].event] = "responding"
    /\ \A i, j \in 1..Len(responses) :
          responses[i].event = responses[j].event => i = j
PostPlaced == post.event # NoEvent => stage[post.event] = "post"

Placed ==
    /\ Arrived /\ PrePlaced /\ BufferPlaced /\ HandPlaced /\ WorkersPlaced
    /\ ResponsesPlaced /\ PostPlaced

\* Only interactive events are let in, and each asks for the lock once.
Admission ==
    /\ \A id \in admitted : id <= Len(events) /\ Interactive(id)
    /\ pre.pc = "enter" => pre.event \notin admitted /\ Interactive(pre.event)

\* A payload without the flag belongs to an event without a warning, also when
\* handleSemaphoreInUse is about to set the flag.
WarningTracked ==
    /\ \A id \in Ids : warnings[id] > 0 => id \in admitted
    /\ \A n \in Nicks :
          Held(n) /\ ~lock[n].warningSent => warnings[lock[n].eventId] = 0
    /\ LET p == lock[Nick(pre.event)] IN
       pre.pc = "warn" /\ p.eventId = pre.holder => ~p.warningSent
    /\ WarnedAtMostOnce

\* As long as the Bouncer forgets nothing, what is in flight holds its lock.
FlightLocked ==
    Faults \cap Forgetful = {} => \A id \in Ids : InFlight(id) => Holds(id)

Locking == Admission /\ HolderInFlightOrLost /\ WarningTracked /\ FlightLocked

Inductive == TypeOK /\ Placed /\ Locking
-----------------------------------------------------------------------------
(* An event that moves to another stage disturbs only the place it leaves  *)
(* and the place it enters.                                                *)

LEMMA ResponseFields ==
    ASSUME responses \in Seq(Response), NEW i \in 1..Len(responses)
    PROVE  responses[i].event \in Ids
<1>1. responses[i] \in Response
  OBVIOUS
<1> QED BY <1>1 DEF Response

LEMMA PostFields ==
    ASSUME NEW p \in PostState
    PROVE  p.event \in Ids \cup {NoEvent}
BY DEF PostState

LEMMA Moved ==
    ASSUME TypeOK, Placed, events' = events, NEW x \in Ids, NEW v \in Stages,
           v # "absent", stage[x] # "absent", stage' = [stage EXCEPT ![x] = v]
    PROVE  /\ Arrived'
           /\ stage[x] # "pre" /\ pre' = pre => PrePlaced'
           /\ stage[x] # "buffered" /\ buffer' = buffer => BufferPlaced'
           /\ stage[x] # "dispatch" /\ hand' = hand => HandPlaced'
           /\ stage[x] # "visit" /\ worker' = worker => WorkersPlaced'
           /\ stage[x] # "responding" /\ responses' = responses => ResponsesPlaced'
           /\ stage[x] # "post" /\ post' = post => PostPlaced'
<1>1. stage \in [Ids -> Stages] /\ \A id \in Ids : id # x => stage'[id] = stage[id]
  BY DEF TypeOK
<1>2. stage'[x] = v
  BY <1>1
<1>3. Arrived'
  BY <1>1, <1>2 DEF Arrived, Placed
<1>4. ASSUME stage[x] # "pre", pre' = pre PROVE PrePlaced'
  <2>1. pre.pc # "idle" => pre.event \in Ids
    BY DEF TypeOK
  <2> QED BY <1>1, <1>4, <2>1 DEF PrePlaced, Placed
<1>5. ASSUME stage[x] # "buffered", buffer' = buffer PROVE BufferPlaced'
  <2>1. \A i \in 1..Len(buffer) : buffer[i] \in Ids
    <3>1. buffer \in Seq(Ids)
      BY DEF TypeOK
    <3> QED BY <3>1, SeqEntries
  <2> QED BY <1>1, <1>5, <2>1 DEF BufferPlaced, Placed
<1>6. ASSUME stage[x] # "dispatch", hand' = hand PROVE HandPlaced'
  <2>1. hand # NoEvent => hand \in Ids
    BY DEF TypeOK
  <2> QED BY <1>1, <1>6, <2>1 DEF HandPlaced, Placed
<1>7. ASSUME stage[x] # "visit", worker' = worker PROVE WorkersPlaced'
  <2>1. \A w \in Workers : worker[w].phase = "visit" => worker[w].event \in Ids
    BY DEF TypeOK
  <2> QED BY <1>1, <1>7, <2>1 DEF WorkersPlaced, Placed
<1>8. ASSUME stage[x] # "responding", responses' = responses PROVE ResponsesPlaced'
  <2>1. \A i \in 1..Len(responses) : responses[i].event \in Ids
    BY ResponseFields DEF TypeOK
  <2> QED BY <1>1, <1>8, <2>1 DEF ResponsesPlaced, Placed
<1>9. ASSUME stage[x] # "post", post' = post PROVE PostPlaced'
  <2>1. post.event # NoEvent => post.event \in Ids
    BY PostFields DEF TypeOK
  <2> QED BY <1>1, <1>9, <2>1 DEF PostPlaced, Placed
<1> QED BY <1>3, <1>4, <1>5, <1>6, <1>7, <1>8, <1>9

LEMMA Unmoved ==
    ASSUME Placed, events' = events, stage' = stage
    PROVE  /\ Arrived'
           /\ pre' = pre => PrePlaced'
           /\ buffer' = buffer => BufferPlaced'
           /\ hand' = hand => HandPlaced'
           /\ worker' = worker => WorkersPlaced'
           /\ responses' = responses => ResponsesPlaced'
           /\ post' = post => PostPlaced'
BY DEF Placed, Arrived, PrePlaced, BufferPlaced, HandPlaced, WorkersPlaced,
       ResponsesPlaced, PostPlaced

LEMMA AppendedResponse ==
    ASSUME TypeOK, ResponsesPlaced, NEW x \in Ids, NEW m \in 0..MaxMessages,
           stage[x] # "responding",
           stage' = [stage EXCEPT ![x] = "responding"],
           responses' = Append(responses, [event |-> x, messages |-> m])
    PROVE  ResponsesPlaced'
<1> DEFINE r == [event |-> x, messages |-> m]
<1>1. stage \in [Ids -> Stages] /\ responses \in Seq(Response) /\ r \in Response
  BY DEF TypeOK, Response
<1>2. \A i \in 1..Len(responses) : responses[i].event \in Ids /\ responses[i].event # x
  BY <1>1, ResponseFields DEF ResponsesPlaced
<1>3. r.event = x /\ responses' = Append(responses, r)
  OBVIOUS
<1> HIDE DEF r
<1>4. /\ Len(responses') = Len(responses) + 1
      /\ responses'[Len(responses) + 1] = r
      /\ \A i \in 1..Len(responses) : responses'[i] = responses[i]
  BY <1>1, <1>3, AppendSeq
<1>5. \A i \in 1..Len(responses') : stage'[responses'[i].event] = "responding"
  BY <1>1, <1>2, <1>3, <1>4 DEF ResponsesPlaced
<1>6. \A i, j \in 1..Len(responses') :
        responses'[i].event = responses'[j].event => i = j
  BY <1>1, <1>2, <1>3, <1>4 DEF ResponsesPlaced
<1> QED BY <1>5, <1>6 DEF ResponsesPlaced

LEMMA WorkerLeaves ==
    ASSUME TypeOK, WorkersPlaced, NEW w \in Workers, worker[w].phase = "visit",
           NEW k, k.phase # "visit", worker' = [worker EXCEPT ![w] = k],
           NEW s, stage' = [stage EXCEPT ![worker[w].event] = s]
    PROVE  WorkersPlaced'
<1>1. /\ worker'[w].phase # "visit"
      /\ \A v \in Workers : v # w => worker'[v] = worker[v]
  BY DEF TypeOK
<1>2. \A v \in Workers : v # w /\ worker[v].phase = "visit" =>
         worker[v].event \in Ids /\ worker[v].event # worker[w].event
  BY DEF WorkersPlaced, TypeOK
<1>3. \A id \in Ids : id # worker[w].event => stage'[id] = stage[id]
  BY DEF TypeOK
<1> QED BY <1>1, <1>2, <1>3 DEF WorkersPlaced

LEMMA PlacedInit == Init => Placed
BY DEF Init, Placed, Arrived, PrePlaced, BufferPlaced, HandPlaced, WorkersPlaced,
       ResponsesPlaced, PostPlaced, PreIdle, WorkerIdle, PostIdle

LEMMA PlacedNext == TypeOK /\ TypeOK' /\ Placed /\ [Next]_vars => Placed'
<1> SUFFICES ASSUME TypeOK, TypeOK', Placed, [Next]_vars PROVE Placed'
  OBVIOUS
<1>s. Stages = {"absent", "pre", "queued", "buffered", "dispatch", "visit",
                "responding", "post", "done", "lost"}
  BY DEF Stages
<1>t. /\ events \in Seq(Event) /\ stage \in [Ids -> Stages]
      /\ pre \in PreState /\ (pre.pc # "idle" => pre.event \in Ids)
      /\ buffer \in Seq(Ids) /\ hand \in Ids \cup {NoEvent}
      /\ worker \in [Workers -> WorkerState] /\ responses \in Seq(Response)
      /\ post.event \in Ids \cup {NoEvent}
  <2>1. post \in PostState
    BY DEF TypeOK
  <2>2. pre.pc # "idle" => pre.event \in 1..Len(events) /\ Len(events) <= MaxEvents
    BY DEF TypeOK
  <2>3. Len(events) \in Nat
    BY DEF TypeOK
  <2>4. pre.pc # "idle" => pre.event \in Ids
    BY <2>2, <2>3
  <2>5. /\ events \in Seq(Event) /\ stage \in [Ids -> Stages] /\ pre \in PreState
        /\ buffer \in Seq(Ids) /\ hand \in Ids \cup {NoEvent}
        /\ worker \in [Workers -> WorkerState] /\ responses \in Seq(Response)
    BY DEF TypeOK
  <2> QED BY <2>1, <2>4, <2>5, PostFields
<1>p. /\ Arrived /\ PrePlaced /\ BufferPlaced /\ HandPlaced /\ WorkersPlaced
      /\ ResponsesPlaced /\ PostPlaced
  BY DEF Placed
<1>i. PreIdle.pc = "idle" /\ PostIdle.event = NoEvent /\ WorkerIdle.phase = "idle"
  BY DEF PreIdle, PostIdle, WorkerIdle
<1>1. ASSUME NEW n \in Nicks, NEW k \in Kinds, Receive(n, k) PROVE Placed'
  <2> DEFINE x == Len(events) + 1
  <2>1. x \in Ids /\ stage[x] = "absent" /\ stage' = [stage EXCEPT ![x] = "pre"]
    <3>1. /\ x \in Ids /\ x > Len(events)
          /\ stage' = [stage EXCEPT ![x] = "pre"]
      BY <1>1, <1>t DEF Receive
    <3> HIDE DEF x
    <3>2. ~(x <= Len(events))
      BY <1>t, <3>1
    <3> QED BY <1>p, <3>1, <3>2 DEF Arrived
  <2>2. \A id \in Ids : id # x => stage'[id] = stage[id]
    BY <1>t, <2>1
  <2>3. Len(events') = Len(events) + 1
    <3>1. [nick |-> n, kind |-> k] \in Event
      BY DEF Event
    <3> QED BY <1>1, <1>t, <3>1, AppendSeq DEF Receive
  <2>4. pre'.event = x
    BY <1>1 DEF Receive, PreIdle
  <2> HIDE DEF x
  <2>5. UNCHANGED <<buffer, hand, worker, responses, post>>
    BY <1>1 DEF Receive
  <2>6. Arrived'
    <3>1. stage'[x] = "pre" /\ x = Len(events')
      BY <1>t, <2>1, <2>3 DEF x
    <3>2. \A id \in Ids : id # x => (id <= Len(events') <=> id <= Len(events))
      BY <1>t, <2>3, <3>1
    <3> QED BY <1>p, <2>2, <3>1, <3>2 DEF Arrived
  <2>7. PrePlaced'
    BY <1>t, <2>1, <2>4 DEF PrePlaced
  <2>8. BufferPlaced' /\ HandPlaced' /\ PostPlaced'
    BY <1>t, <1>p, <2>1, <2>2, <2>5 DEF BufferPlaced, HandPlaced, PostPlaced
  <2>9. WorkersPlaced'
    <3>1. \A w \in Workers : worker[w].phase = "visit" => worker[w].event \in Ids
      BY DEF TypeOK
    <3> QED BY <1>p, <2>1, <2>2, <2>5, <3>1 DEF WorkersPlaced
  <2>10. ResponsesPlaced'
    <3>1. \A i \in 1..Len(responses) : responses[i].event \in Ids
      BY <1>t, ResponseFields
    <3> QED BY <1>p, <2>1, <2>2, <2>5, <3>1 DEF ResponsesPlaced
  <2> QED BY <2>6, <2>7, <2>8, <2>9, <2>10 DEF Placed
<1>2. CASE TryEnter
  <2>1. pre'.event = pre.event /\ pre.pc # "idle"
    BY <1>t, <1>2, PreStep DEF TryEnter
  <2>2. PrePlaced'
    BY <1>p, <1>2, <2>1 DEF PrePlaced, TryEnter
  <2> QED BY <1>2, <2>2, Unmoved DEF Placed, TryEnter
<1>3. CASE Peek
  <2>1. pre'.event = pre.event /\ pre.pc # "idle"
    BY <1>t, <1>3 DEF Peek, PreState
  <2>2. PrePlaced'
    BY <1>p, <1>3, <2>1 DEF PrePlaced, Peek
  <2> QED BY <1>3, <2>2, Unmoved DEF Placed, Peek
<1>4. CASE SetWarningSent
  <2>1. pre'.event = pre.event /\ pre.pc # "idle"
    BY <1>t, <1>4 DEF SetWarningSent, PreState
  <2>2. PrePlaced'
    BY <1>p, <1>4, <2>1 DEF PrePlaced, SetWarningSent
  <2> QED BY <1>4, <2>2, Unmoved DEF Placed, SetWarningSent
<1>5. CASE RespondRefused
  <2> DEFINE x == pre.event
  <2>1. /\ x \in Ids /\ stage[x] = "pre" /\ pre.messages \in 0..1
        /\ MaxMessages \in Nat \ {0}
    BY <1>t, <1>p, <1>5, PreFields DEF RespondRefused, PrePlaced
  <2>2. UNCHANGED <<events, buffer, hand, worker, post>> /\ pre' = PreIdle
    BY <1>5 DEF RespondRefused
  <2>3. CASE /\ stage' = [stage EXCEPT ![x] = "responding"]
             /\ responses' = Append(responses, [event |-> x, messages |-> pre.messages])
    <3>1. ResponsesPlaced'
      <4> DEFINE m == pre.messages
      <4>1. m \in 0..MaxMessages
        BY <2>1
      <4> HIDE DEF m, x
      <4> QED BY <1>p, <2>1, <2>3, <4>1, AppendedResponse DEF m, x
    <3> QED BY <1>s, <1>i, <2>1, <2>2, <2>3, <3>1, Moved DEF Placed, PrePlaced
  <2>4. CASE stage' = [stage EXCEPT ![x] = "lost"] /\ responses' = responses
    BY <1>s, <1>i, <2>1, <2>2, <2>4, Moved DEF Placed, PrePlaced
  <2> QED BY <1>5, <2>3, <2>4 DEF RespondRefused
<1>6. CASE Enqueue
  <2> DEFINE x == pre.event
  <2>1. x \in Ids /\ stage[x] = "pre"
    BY <1>t, <1>p, <1>6 DEF Enqueue, PrePlaced
  <2>2. UNCHANGED <<events, buffer, hand, worker, responses, post>> /\ pre' = PreIdle
    BY <1>6 DEF Enqueue
  <2>3. \/ stage' = [stage EXCEPT ![x] = "queued"]
        \/ stage' = [stage EXCEPT ![x] = "lost"]
    BY <1>6 DEF Enqueue
  <2> HIDE DEF x
  <2> QED BY <1>s, <1>i, <2>1, <2>2, <2>3, Moved DEF Placed, PrePlaced
<1>7. ASSUME NEW id \in Ids, Deliver(id) PROVE Placed'
  <2>1. stage[id] = "queued" /\ stage' = [stage EXCEPT ![id] = "buffered"]
        /\ buffer' = Append(buffer, id)
        /\ UNCHANGED <<events, pre, hand, worker, responses, post>>
    BY <1>7 DEF Deliver
  <2>2. BufferPlaced'
    <3>1. /\ Len(buffer') = Len(buffer) + 1 /\ buffer'[Len(buffer) + 1] = id
          /\ \A i \in 1..Len(buffer) : buffer'[i] = buffer[i]
      BY <1>t, <2>1, AppendSeq
    <3>2. \A i \in 1..Len(buffer) : buffer[i] \in Ids /\ buffer[i] # id
      BY <1>t, <1>p, <2>1 DEF BufferPlaced
    <3>3. \A i \in 1..Len(buffer') : stage'[buffer'[i]] = "buffered"
      BY <1>t, <1>p, <2>1, <3>1, <3>2 DEF BufferPlaced
    <3>4. \A i, j \in 1..Len(buffer') : buffer'[i] = buffer'[j] => i = j
      <4>1. \A i \in 1..Len(buffer') : i = Len(buffer) + 1 \/ i \in 1..Len(buffer)
        BY <1>t, <3>1
      <4> QED BY <1>p, <3>1, <3>2, <4>1 DEF BufferPlaced
    <3> QED BY <3>3, <3>4 DEF BufferPlaced
  <2> QED BY <1>s, <2>1, <2>2, Moved DEF Placed
<1>8. ASSUME NEW id \in Ids, ExpireEvent(id) PROVE Placed'
  <2>1. stage[id] = "queued" /\ stage' = [stage EXCEPT ![id] = "lost"]
        /\ UNCHANGED <<events, pre, buffer, hand, worker, responses, post>>
    BY <1>8 DEF ExpireEvent
  <2> QED BY <1>s, <2>1, Moved DEF Placed
<1>9. CASE Schedule
  <2> DEFINE x == Head(buffer)
  <2>1. /\ x \in Ids /\ x = buffer[1] /\ Len(buffer) >= 1
        /\ Len(Tail(buffer)) = Len(buffer) - 1
        /\ \A i \in 1..Len(Tail(buffer)) : Tail(buffer)[i] = buffer[i + 1]
    BY <1>9, <1>t, TailSeq DEF Schedule
  <2>2. stage' = [stage EXCEPT ![x] = "dispatch"] /\ hand' = x /\ buffer' = Tail(buffer)
        /\ UNCHANGED <<events, pre, worker, responses, post>>
    BY <1>9 DEF Schedule
  <2> HIDE DEF x
  <2>3. stage[x] = "buffered"
    BY <1>p, <1>t, <2>1 DEF BufferPlaced
  <2>4. HandPlaced'
    BY <1>t, <2>1, <2>2 DEF HandPlaced
  <2>5. \A i \in 1..Len(buffer') :
          i + 1 \in 1..Len(buffer) /\ buffer'[i] = buffer[i + 1]
    BY <1>t, <2>1, <2>2
  <2>6. BufferPlaced'
    <3>1. ASSUME NEW i \in 1..Len(buffer')
          PROVE  buffer'[i] \in Ids /\ buffer'[i] # x
      <4>1. i + 1 \in 1..Len(buffer) /\ 1 \in 1..Len(buffer) /\ i + 1 # 1
        BY <1>t, <2>1, <2>5
      <4>2. buffer[i + 1] \in Ids /\ buffer[i + 1] # buffer[1]
        BY <1>t, <1>p, <4>1 DEF BufferPlaced
      <4> QED BY <2>1, <2>5, <4>2
    <3>2. \A i \in 1..Len(buffer') : stage'[buffer'[i]] = "buffered"
      BY <1>t, <1>p, <2>2, <2>5, <3>1 DEF BufferPlaced
    <3>3. \A i, j \in 1..Len(buffer') : buffer'[i] = buffer'[j] => i = j
      BY <1>t, <1>p, <2>5 DEF BufferPlaced
    <3> QED BY <3>2, <3>3 DEF BufferPlaced
  <2> QED BY <1>s, <2>1, <2>2, <2>3, <2>4, <2>6, Moved DEF Placed
<1>10. ASSUME NEW w \in Workers, Submit(w) PROVE Placed'
  <2>1. hand \in Ids /\ stage[hand] = "dispatch"
    BY <1>10, <1>t, <1>p DEF Submit, HandPlaced
  <2>2. /\ stage' = [stage EXCEPT ![hand] = "visit"] /\ hand' = NoEvent
        /\ worker' = [worker EXCEPT ![w] = [event |-> hand, phase |-> "visit"]]
        /\ UNCHANGED <<events, pre, buffer, responses, post>>
    BY <1>10 DEF Submit
  <2>3. WorkersPlaced'
    <3>1. \A v \in Workers : worker[v].phase = "visit" =>
             worker[v].event \in Ids /\ worker[v].event # hand
      BY <1>p, <2>1 DEF WorkersPlaced, TypeOK
    <3>2. /\ worker'[w].event = hand /\ worker'[w].phase = "visit"
          /\ \A v \in Workers : v # w => worker'[v] = worker[v]
      BY <1>t, <2>2
    <3>3. stage'[hand] = "visit" /\ \A id \in Ids : id # hand => stage'[id] = stage[id]
      BY <1>t, <2>1, <2>2
    <3> QED BY <1>p, <3>1, <3>2, <3>3 DEF WorkersPlaced
  <2>4. HandPlaced'
    BY <2>2 DEF HandPlaced
  <2> QED BY <1>s, <2>1, <2>2, <2>3, <2>4, Moved DEF Placed
<1>11. CASE SubmitInterrupted
  <2>1. hand \in Ids /\ stage[hand] = "dispatch"
    BY <1>11, <1>t, <1>p DEF SubmitInterrupted, HandPlaced
  <2>2. /\ stage' = [stage EXCEPT ![hand] = "lost"] /\ hand' = NoEvent
        /\ UNCHANGED <<events, pre, buffer, worker, responses, post>>
    BY <1>11 DEF SubmitInterrupted
  <2>3. HandPlaced'
    BY <2>2 DEF HandPlaced
  <2> QED BY <1>s, <2>1, <2>2, <2>3, Moved DEF Placed
<1>12. ASSUME NEW w \in Workers, NEW m \in 0..MaxMessages, Answer(w, m)
       PROVE Placed'
  <2> DEFINE x == worker[w].event
  <2>1. x \in Ids /\ stage[x] = "visit"
    BY <1>12, <1>p DEF Answer, WorkersPlaced, TypeOK
  <2>2. /\ UNCHANGED <<events, pre, buffer, hand, post>>
        /\ worker' = [worker EXCEPT ![w].phase = "register"]
    BY <1>12 DEF Answer
  <2>3. \/ /\ stage' = [stage EXCEPT ![x] = "responding"]
           /\ responses' = Append(responses, [event |-> x, messages |-> m])
        \/ stage' = [stage EXCEPT ![x] = "lost"] /\ responses' = responses
    BY <1>12 DEF Answer
  <2>4. WorkersPlaced'
    <3> DEFINE k == [worker[w] EXCEPT !.phase = "register"]
    <3>1. worker[w].phase = "visit" /\ worker[w] \in WorkerState
      BY <1>12, <1>t DEF Answer
    <3>2. k.phase # "visit" /\ worker' = [worker EXCEPT ![w] = k]
      BY <1>t, <2>2, <3>1 DEF WorkerState
    <3>3. PICK s : stage' = [stage EXCEPT ![worker[w].event] = s]
      BY <2>3
    <3> HIDE DEF k
    <3> QED BY <1>p, <3>1, <3>2, <3>3, WorkerLeaves
  <2> HIDE DEF x
  <2>5. CASE /\ stage' = [stage EXCEPT ![x] = "responding"]
             /\ responses' = Append(responses, [event |-> x, messages |-> m])
    <3>1. ResponsesPlaced'
      BY <1>p, <2>1, <2>5, AppendedResponse
    <3> QED BY <1>s, <2>1, <2>2, <2>4, <2>5, <3>1, Moved DEF Placed
  <2>6. CASE stage' = [stage EXCEPT ![x] = "lost"] /\ responses' = responses
    BY <1>s, <2>1, <2>2, <2>4, <2>6, Moved DEF Placed
  <2> QED BY <2>3, <2>5, <2>6
<1>13. ASSUME NEW w \in Workers, VisitAborted(w) PROVE Placed'
  <2> DEFINE x == worker[w].event
  <2>1. x \in Ids /\ stage[x] = "visit"
    BY <1>13, <1>p DEF VisitAborted, WorkersPlaced, TypeOK
  <2>2. /\ UNCHANGED <<events, pre, buffer, hand, responses, post>>
        /\ worker' = [worker EXCEPT ![w] = WorkerIdle]
        /\ stage' = [stage EXCEPT ![x] = "lost"]
    BY <1>13 DEF VisitAborted
  <2>3. WorkersPlaced'
    <3>1. worker[w].phase = "visit"
      BY <1>13 DEF VisitAborted
    <3> QED BY <1>i, <1>p, <2>2, <3>1, WorkerLeaves
  <2> HIDE DEF x
  <2> QED BY <1>s, <2>1, <2>2, <2>3, Moved DEF Placed
<1>14. ASSUME NEW w \in Workers, RegisterActivity(w) PROVE Placed'
  <2>1. /\ UNCHANGED <<events, stage, pre, buffer, hand, responses, post>>
        /\ worker' = [worker EXCEPT ![w] = WorkerIdle]
    BY <1>14 DEF RegisterActivity
  <2>2. worker'[w].phase # "visit" /\ \A v \in Workers : v # w => worker'[v] = worker[v]
    BY <1>t, <1>i, <2>1
  <2>3. WorkersPlaced'
    BY <1>p, <2>1, <2>2 DEF WorkersPlaced
  <2> QED BY <2>1, <2>3, Unmoved DEF Placed
<1>15. CASE ExpireResponse
  <2> DEFINE k == Prefetch + 1
             x == responses[k].event
  <2>1. k \in 1..Len(responses)
    BY <1>15, <1>t DEF ExpireResponse
  <2>2. x \in Ids /\ stage[x] = "responding"
    BY <1>t, <1>p, <2>1, ResponseFields DEF ResponsesPlaced
  <2>3. /\ UNCHANGED <<events, pre, buffer, hand, worker, post>>
        /\ stage' = [stage EXCEPT ![x] = "lost"]
    BY <1>15 DEF ExpireResponse
  <2>4. /\ Len(responses') = Len(responses) - 1
        /\ \A i \in 1..Len(responses') :
              responses'[i] = IF i < k THEN responses[i] ELSE responses[i + 1]
    BY <1>15, <1>t, <2>1, CutSeq DEF ExpireResponse
  <2> HIDE DEF k
  <2>5. ResponsesPlaced'
    <3> DEFINE old(i) == IF i < k THEN i ELSE i + 1
    <3>1. \A i \in 1..Len(responses') :
             /\ old(i) \in 1..Len(responses) /\ old(i) # k
             /\ responses'[i] = responses[old(i)]
      <4>1. Len(responses) \in Nat /\ k \in 1..Len(responses)
        BY <1>t, <2>1
      <4>2. \A i \in 1..Len(responses') : old(i) \in 1..Len(responses) /\ old(i) # k
        BY <2>4, <4>1
      <4>3. \A i \in 1..Len(responses') : responses'[i] = responses[old(i)]
        BY <2>4
      <4> QED BY <4>2, <4>3
    <3>2. \A i, j \in 1..Len(responses') : old(i) = old(j) => i = j
      BY <1>t, <2>1, <2>4
    <3> HIDE DEF old
    <3>3. \A i \in 1..Len(responses') : responses'[i].event \in Ids /\ responses'[i].event # x
      BY <1>t, <1>p, <2>1, <3>1, ResponseFields DEF ResponsesPlaced
    <3>4. \A i \in 1..Len(responses') : stage'[responses'[i].event] = "responding"
      <4>1. \A i \in 1..Len(responses') : stage[responses'[i].event] = "responding"
        BY <1>p, <3>1 DEF ResponsesPlaced
      <4> HIDE DEF x
      <4> QED BY <1>t, <2>3, <3>3, <4>1
    <3>5. \A i, j \in 1..Len(responses') :
             responses'[i].event = responses'[j].event => i = j
      BY <1>p, <3>1, <3>2 DEF ResponsesPlaced
    <3> QED BY <3>4, <3>5 DEF ResponsesPlaced
  <2> HIDE DEF x
  <2> QED BY <1>s, <2>2, <2>3, <2>5, Moved DEF Placed
<1>16. CASE TakeResponse
  <2> DEFINE r == Head(responses)
             x == r.event
  <2>1. /\ r = responses[1] /\ Len(responses) >= 1
        /\ Len(Tail(responses)) = Len(responses) - 1
        /\ \A i \in 1..Len(Tail(responses)) : Tail(responses)[i] = responses[i + 1]
    BY <1>16, <1>t, TailSeq DEF TakeResponse
  <2>2. x \in Ids /\ stage[x] = "responding"
    BY <1>t, <1>p, <2>1, ResponseFields DEF ResponsesPlaced
  <2>3. /\ UNCHANGED <<events, pre, buffer, hand, worker>>
        /\ stage' = [stage EXCEPT ![x] = "post"]
        /\ responses' = Tail(responses) /\ post'.event = x
    BY <1>16 DEF TakeResponse
  <2> HIDE DEF r
  <2>4. \A i \in 1..Len(responses') :
          i + 1 \in 1..Len(responses) /\ responses'[i] = responses[i + 1]
    BY <1>t, <2>1, <2>3
  <2>5. ResponsesPlaced'
    <3>1. ASSUME NEW i \in 1..Len(responses')
          PROVE  responses'[i].event \in Ids /\ responses'[i].event # x
      <4>1. i + 1 \in 1..Len(responses) /\ 1 \in 1..Len(responses) /\ i + 1 # 1
        <5>1. i + 1 \in 1..Len(responses) /\ i \in Int /\ i >= 1
          BY <2>4
        <5>2. Len(responses) \in Nat
          BY <1>t
        <5> QED BY <5>1, <5>2
      <4>2. /\ responses[i + 1].event \in Ids
            /\ responses[i + 1].event # responses[1].event
        BY <1>t, <1>p, <4>1, ResponseFields DEF ResponsesPlaced
      <4> QED BY <2>1, <2>4, <4>2
    <3>2. \A i \in 1..Len(responses') : stage'[responses'[i].event] = "responding"
      <4>1. \A i \in 1..Len(responses') : stage[responses'[i].event] = "responding"
        BY <1>p, <2>4 DEF ResponsesPlaced
      <4> HIDE DEF x
      <4> QED BY <1>t, <2>3, <3>1, <4>1
    <3>3. ASSUME NEW i \in 1..Len(responses'), NEW j \in 1..Len(responses'),
                 responses'[i].event = responses'[j].event
          PROVE  i = j
      <4>1. i + 1 \in 1..Len(responses) /\ j + 1 \in 1..Len(responses)
        BY <2>4
      <4>2. responses[i + 1].event = responses[j + 1].event
        BY <2>4, <3>3
      <4>3. i + 1 = j + 1
        BY <1>p, <4>1, <4>2 DEF ResponsesPlaced
      <4>4. i \in Int /\ j \in Int
        OBVIOUS
      <4> QED BY <4>3, <4>4
    <3> QED BY <3>2, <3>3 DEF ResponsesPlaced
  <2> HIDE DEF x
  <2>6. PostPlaced'
    BY <1>t, <2>2, <2>3 DEF PostPlaced
  <2> QED BY <1>s, <2>2, <2>3, <2>5, <2>6, Moved DEF Placed
<1>17. ASSUME NEW reply \in Replies, Write(reply) PROVE Placed'
  <2>1. /\ UNCHANGED <<events, stage, pre, buffer, hand, worker, responses>>
        /\ post \in PostState
        /\ \/ post' = [post EXCEPT !.tries = @ + 1]
           \/ post' = [post EXCEPT !.left = @ - 1, !.tries = 0]
    BY <1>17 DEF Write, TypeOK
  <2>2. post'.event = post.event
    BY <2>1 DEF PostState
  <2>3. PostPlaced'
    BY <1>p, <2>1, <2>2 DEF PostPlaced
  <2> QED BY <2>1, <2>3, Unmoved DEF Placed
<1>18. ASSUME NEW reply \in Replies, WriteThrows(reply) PROVE Placed'
  <2>1. post.event \in Ids /\ stage[post.event] = "post"
    BY <1>18, <1>t, <1>p DEF WriteThrows, PostPlaced
  <2>2. /\ stage' = [stage EXCEPT ![post.event] = "lost"] /\ post' = PostIdle
        /\ UNCHANGED <<events, pre, buffer, hand, worker, responses>>
    BY <1>18 DEF WriteThrows
  <2> QED BY <1>s, <1>i, <2>1, <2>2, Moved DEF Placed, PostPlaced
<1>19. CASE Release
  <2>1. post.event \in Ids /\ stage[post.event] = "post"
    BY <1>19, <1>t, <1>p DEF Release, PostPlaced
  <2>2. /\ stage' = [stage EXCEPT ![post.event] = "done"] /\ post' = PostIdle
        /\ UNCHANGED <<events, pre, buffer, hand, worker, responses>>
    BY <1>19 DEF Release
  <2> QED BY <1>s, <1>i, <2>1, <2>2, Moved DEF Placed, PostPlaced
<1>20. ASSUME NEW n \in Nicks, ExpireLock(n) PROVE Placed'
  BY <1>20, Unmoved DEF ExpireLock, Placed
<1>21. CASE Restart
  <2>1. /\ pre' = PreIdle /\ buffer' = <<>> /\ hand' = NoEvent
        /\ worker' = [w \in Workers |-> WorkerIdle] /\ post' = PostIdle
        /\ responses' = responses /\ events' = events
    BY <1>21 DEF Restart
  <2>2. \A id \in Ids : stage'[id] = AfterRestart(stage[id])
    BY <1>21 DEF Restart
  <2>3. \A id \in Ids : /\ stage'[id] = "absent" <=> stage[id] = "absent"
                        /\ stage[id] = "responding" => stage'[id] = "responding"
    BY <1>s, <1>t, <2>2 DEF AfterRestart
  <2>4. Arrived'
    BY <1>p, <2>1, <2>3 DEF Arrived
  <2>5. PrePlaced' /\ BufferPlaced' /\ HandPlaced' /\ PostPlaced'
    BY <1>i, <2>1 DEF PrePlaced, BufferPlaced, HandPlaced, PostPlaced
  <2>6. WorkersPlaced'
    BY <1>i, <2>1 DEF WorkersPlaced
  <2>7. ResponsesPlaced'
    <3>1. \A i \in 1..Len(responses) : responses[i].event \in Ids
      BY <1>t, ResponseFields
    <3> QED BY <1>p, <2>1, <2>3, <3>1 DEF ResponsesPlaced
  <2> QED BY <2>4, <2>5, <2>6, <2>7 DEF Placed
<1>22. CASE UNCHANGED vars
  BY <1>22, Unmoved DEF vars, Placed
<1>23. ASSUME NEW n \in Nicks, HourPasses(n) PROVE Placed'
  BY <1>23, Unmoved DEF HourPasses, Placed
<1> QED
  BY <1>1, <1>2, <1>3, <1>4, <1>5, <1>6, <1>7, <1>8, <1>9, <1>10, <1>11, <1>12,
     <1>13, <1>14, <1>15, <1>16, <1>17, <1>18, <1>19, <1>20, <1>21, <1>22, <1>23
  DEF Next, Preprocess, Work, Postprocess
-----------------------------------------------------------------------------
(* Locks, admissions and warnings.  In most steps nobody is let in or      *)
(* warned and locks are at most given up.                                  *)

LEMMA SameEvents ==
    ASSUME events' = events, NEW id
    PROVE  Nick(id)' = Nick(id) /\ Interactive(id)' = Interactive(id)
BY DEF Nick, Interactive

LEMMA KnownNick ==
    ASSUME TypeOK, NEW id \in 1..Len(events)
    PROVE  Nick(id) \in Nicks
<1>1. events[id] \in Event
  BY DEF TypeOK
<1> QED BY <1>1 DEF Nick, Event

Subsiding ==
    /\ events' = events /\ admitted' = admitted /\ warnings' = warnings
    /\ pre' = pre \/ pre'.pc \notin {"enter", "warn"}
    /\ \A n \in Nicks : lock'[n] = lock[n] \/ lock'[n] = Free

\* What a step that moves events without answering or receiving one does.
Moving ==
    \A id \in Ids :
        \/ stage'[id] = stage[id]
        \/ stage[id] \in Pipeline /\ stage'[id] \in Pipeline \cup {"lost"}

LEMMA SubsidingAdmission ==
    ASSUME Admission, Subsiding PROVE Admission'
BY SameEvents DEF Admission, Subsiding

LEMMA SubsidingWarnings ==
    ASSUME TypeOK, WarningTracked, Subsiding PROVE WarningTracked'
<1>1. /\ \A id \in Ids : warnings'[id] > 0 => id \in admitted'
      /\ WarnedAtMostOnce'
  BY DEF WarningTracked, Subsiding, WarnedAtMostOnce
<1>2. ASSUME NEW n \in Nicks, Held(n)', ~lock'[n].warningSent
      PROVE  warnings'[lock'[n].eventId] = 0
  <2>1. lock'[n] = lock[n]
    BY <1>2 DEF Subsiding, Held, Free
  <2> QED BY <1>2, <2>1 DEF WarningTracked, Subsiding, Held
<1>3. ASSUME pre'.pc = "warn", lock'[Nick(pre.event)'].eventId = pre'.holder
      PROVE  ~lock'[Nick(pre.event)'].warningSent
  <2>1. pre' = pre /\ events' = events
    BY <1>3 DEF Subsiding
  <2>2. Nick(pre.event)' = Nick(pre.event)
    BY <2>1 DEF Nick
  <2>3. pre.event \in 1..Len(events)
    BY <1>3, <2>1 DEF TypeOK
  <2>4. Nick(pre.event) \in Nicks
    BY <2>3, KnownNick
  <2>5. \/ lock'[Nick(pre.event)] = lock[Nick(pre.event)]
        \/ lock'[Nick(pre.event)] = Free
    BY <2>4 DEF Subsiding
  <2> QED BY <1>3, <2>1, <2>2, <2>5 DEF WarningTracked, Free
<1> QED BY <1>1, <1>2, <1>3 DEF WarningTracked

LEMMA SubsidingHolders ==
    ASSUME HolderInFlightOrLost, Subsiding,
           \A n \in Nicks : Held(n) /\ lock'[n] = lock[n] =>
               stage'[lock[n].eventId] \in Pipeline \cup {"lost"}
    PROVE  HolderInFlightOrLost'
<1> SUFFICES ASSUME NEW n \in Nicks, Held(n)'
             PROVE  /\ lock'[n].eventId \in admitted'
                    /\ Nick(lock[n].eventId)' = n
                    /\ stage'[lock'[n].eventId] \in Pipeline \cup {"lost"}
  BY DEF HolderInFlightOrLost
<1>1. lock'[n] = lock[n] /\ Held(n)
  BY DEF Subsiding, Held, Free
<1>2. Nick(lock[n].eventId)' = Nick(lock[n].eventId)
  BY <1>1 DEF Subsiding, Nick
<1> QED BY <1>1, <1>2 DEF HolderInFlightOrLost, Subsiding

LEMMA SubsidingFlight ==
    ASSUME TypeOK, Admission, FlightLocked, Subsiding,
           \A id \in admitted : stage'[id] \in Pipeline =>
               /\ stage[id] \in Pipeline
               /\ Faults \cap Forgetful = {} /\ Holds(id) =>
                      lock'[Nick(id)] = lock[Nick(id)]
    PROVE  FlightLocked'
<1> SUFFICES ASSUME Faults \cap Forgetful = {}, NEW id \in Ids, InFlight(id)'
             PROVE  Holds(id)'
  BY DEF FlightLocked
<1>1. id \in admitted /\ stage'[id] \in Pipeline
  BY DEF InFlight, Subsiding, Pipeline, Stages
<1>2. Holds(id)
  BY <1>1 DEF FlightLocked, InFlight
<1>3. lock'[Nick(id)] = lock[Nick(id)] /\ Nick(id)' = Nick(id)
  BY <1>1, <1>2, SameEvents DEF Subsiding
<1> QED BY <1>2, <1>3 DEF Holds

LEMMA QuietStep ==
    ASSUME TypeOK, Locking, Moving, lock' = lock, events' = events,
           admitted' = admitted, warnings' = warnings,
           pre' = pre \/ pre'.pc \notin {"enter", "warn"}
    PROVE  Locking'
<1>1. Subsiding
  BY DEF Subsiding
<1>2. Admission'
  BY <1>1, SubsidingAdmission DEF Locking
<1>3. WarningTracked'
  BY <1>1, SubsidingWarnings DEF Locking
<1>4. HolderInFlightOrLost'
  <2>1. ASSUME NEW n \in Nicks, Held(n), lock'[n] = lock[n]
        PROVE  stage'[lock[n].eventId] \in Pipeline \cup {"lost"}
    <3>1. lock[n].eventId \in Ids
      BY <2>1, KnownHolder DEF TypeOK
    <3>2. stage[lock[n].eventId] \in Pipeline \cup {"lost"}
      BY <2>1 DEF Locking, HolderInFlightOrLost
    <3> QED BY <3>1, <3>2 DEF Moving
  <2> QED BY <1>1, <2>1, SubsidingHolders DEF Locking
<1>5. FlightLocked'
  <2>1. ASSUME NEW id \in admitted, stage'[id] \in Pipeline
        PROVE  stage[id] \in Pipeline
    BY <2>1 DEF Moving, TypeOK
  <2> QED BY <1>1, <2>1, SubsidingFlight DEF Locking
<1> QED BY <1>2, <1>3, <1>4, <1>5 DEF Locking

(* A step of the pipeline receives an event, works on a lock, restarts the  *)
(* process, or moves at most one event on.                                 *)
QuietMove ==
    /\ events' = events /\ lock' = lock
    /\ admitted' = admitted /\ warnings' = warnings
    /\ pre' = pre \/ pre' = PreIdle
    /\ \/ stage' = stage
       \/ \E x \in Ids, v \in Pipeline \cup {"lost"} :
             stage[x] \in Pipeline /\ stage' = [stage EXCEPT ![x] = v]

LEMMA StepKinds ==
    ASSUME TypeOK, Placed, [Next]_vars
    PROVE  \/ \E n \in Nicks, k \in Kinds : Receive(n, k)
           \/ TryEnter \/ Peek \/ SetWarningSent \/ Release \/ Restart
           \/ \E n \in Nicks : ExpireLock(n)
           \/ QuietMove
<1>s. Pipeline = {"pre", "queued", "buffered", "dispatch", "visit", "responding", "post"}
  BY DEF Pipeline, Stages
<1>p. /\ (pre.pc # "idle" => pre.event \in Ids /\ stage[pre.event] = "pre")
      /\ (hand # NoEvent => hand \in Ids /\ stage[hand] = "dispatch")
      /\ (post.event # NoEvent => post.event \in Ids /\ stage[post.event] = "post")
  BY PostFields DEF Placed, PrePlaced, HandPlaced, PostPlaced, TypeOK
<1>1. CASE RespondRefused \/ Enqueue
  <2>1. /\ pre.event \in Ids /\ stage[pre.event] \in Pipeline /\ pre' = PreIdle
        /\ UNCHANGED <<events, lock, admitted, warnings>>
    BY <1>1, <1>p, <1>s DEF RespondRefused, Enqueue
  <2>2. PICK v \in {"responding", "queued", "lost"} : stage' = [stage EXCEPT ![pre.event] = v]
    BY <1>1 DEF RespondRefused, Enqueue
  <2> QED BY <1>s, <2>1, <2>2 DEF QuietMove
<1>2. ASSUME NEW id \in Ids, Deliver(id) \/ ExpireEvent(id) PROVE QuietMove
  <2>1. /\ stage[id] \in Pipeline /\ pre' = pre
        /\ UNCHANGED <<events, lock, admitted, warnings>>
    BY <1>2, <1>s DEF Deliver, ExpireEvent
  <2>2. PICK v \in {"buffered", "lost"} : stage' = [stage EXCEPT ![id] = v]
    BY <1>2 DEF Deliver, ExpireEvent
  <2> QED BY <1>s, <2>1, <2>2 DEF QuietMove
<1>3. CASE Schedule
  <2>1. Head(buffer) \in Ids /\ stage[Head(buffer)] \in Pipeline
    <3>1. Head(buffer) = buffer[1] /\ 1 \in 1..Len(buffer) /\ Head(buffer) \in Ids
      BY <1>3, TailSeq DEF Schedule, TypeOK
    <3> QED BY <1>s, <3>1 DEF Placed, BufferPlaced
  <2>2. /\ stage' = [stage EXCEPT ![Head(buffer)] = "dispatch"] /\ pre' = pre
        /\ UNCHANGED <<events, lock, admitted, warnings>>
    BY <1>3 DEF Schedule
  <2> QED BY <1>s, <2>1, <2>2 DEF QuietMove
<1>4. CASE SubmitInterrupted \/ \E w \in Workers : Submit(w)
  <2>1. /\ hand \in Ids /\ stage[hand] \in Pipeline /\ pre' = pre
        /\ UNCHANGED <<events, lock, admitted, warnings>>
    BY <1>4, <1>p, <1>s DEF Submit, SubmitInterrupted
  <2>2. PICK v \in {"visit", "lost"} : stage' = [stage EXCEPT ![hand] = v]
    BY <1>4 DEF Submit, SubmitInterrupted
  <2> QED BY <1>s, <2>1, <2>2 DEF QuietMove
<1>5. ASSUME NEW w \in Workers,
             VisitAborted(w) \/ \E m \in 0..MaxMessages : Answer(w, m)
      PROVE  QuietMove
  <2> DEFINE x == worker[w].event
  <2>1. x \in Ids /\ stage[x] \in Pipeline
    BY <1>5, <1>s DEF Answer, VisitAborted, Placed, WorkersPlaced, TypeOK
  <2>2. pre' = pre /\ UNCHANGED <<events, lock, admitted, warnings>>
    BY <1>5 DEF Answer, VisitAborted
  <2>3. PICK v \in {"responding", "lost"} : stage' = [stage EXCEPT ![x] = v]
    BY <1>5 DEF Answer, VisitAborted
  <2> HIDE DEF x
  <2> QED BY <1>s, <2>1, <2>2, <2>3 DEF QuietMove
<1>6. ASSUME NEW w \in Workers, RegisterActivity(w) PROVE QuietMove
  BY <1>6 DEF RegisterActivity, QuietMove
<1>7. CASE ExpireResponse \/ TakeResponse
  <2>1. PICK i \in 1..Len(responses), v \in {"post", "lost"} :
          stage' = [stage EXCEPT ![responses[i].event] = v]
    <3>1. CASE ExpireResponse
      <4>1. Prefetch + 1 \in 1..Len(responses)
        BY <3>1 DEF ExpireResponse, TypeOK
      <4> QED BY <3>1, <4>1 DEF ExpireResponse
    <3>2. CASE TakeResponse
      <4>1. Head(responses) = responses[1] /\ 1 \in 1..Len(responses)
        BY <3>2, TailSeq DEF TakeResponse, TypeOK
      <4> QED BY <3>2, <4>1 DEF TakeResponse
    <3> QED BY <1>7, <3>1, <3>2
  <2> DEFINE x == responses[i].event
  <2>2. x \in Ids /\ stage[x] \in Pipeline
    BY <1>s, ResponseFields DEF TypeOK, Placed, ResponsesPlaced
  <2>3. pre' = pre /\ UNCHANGED <<events, lock, admitted, warnings>>
    BY <1>7 DEF ExpireResponse, TakeResponse
  <2>4. stage' = [stage EXCEPT ![x] = v]
    BY <2>1
  <2> HIDE DEF x
  <2> QED BY <1>s, <2>2, <2>3, <2>4 DEF QuietMove
<1>8. ASSUME NEW reply \in Replies, Write(reply) PROVE QuietMove
  BY <1>8 DEF Write, QuietMove
<1>9. ASSUME NEW reply \in Replies, WriteThrows(reply) PROVE QuietMove
  <2>1. /\ post.event \in Ids /\ stage[post.event] \in Pipeline
        /\ stage' = [stage EXCEPT ![post.event] = "lost"] /\ pre' = pre
        /\ UNCHANGED <<events, lock, admitted, warnings>>
    BY <1>9, <1>p, <1>s DEF WriteThrows
  <2> QED BY <2>1 DEF QuietMove
<1>10. CASE UNCHANGED vars
  BY <1>10 DEF vars, QuietMove
<1>11. ASSUME NEW n \in Nicks, HourPasses(n) PROVE QuietMove
  BY <1>11 DEF HourPasses, QuietMove
<1> QED
  BY <1>1, <1>2, <1>3, <1>4, <1>5, <1>6, <1>7, <1>8, <1>9, <1>10, <1>11
  DEF Next, Preprocess, Work, Postprocess

LEMMA OneMoves ==
    ASSUME TypeOK, NEW x \in Ids, stage[x] \in Pipeline,
           NEW v \in Pipeline \cup {"lost"}, stage' = [stage EXCEPT ![x] = v]
    PROVE  Moving
BY DEF TypeOK, Moving

LEMMA LockingInit == Init => Locking
BY DEF Init, Locking, Admission, HolderInFlightOrLost, WarningTracked,
       WarnedAtMostOnce, FlightLocked, Held, InFlight, Free, PreIdle

LEMMA Typed ==
    ASSUME TypeOK
    PROVE  /\ stage \in [Ids -> Stages] /\ lock \in [Nicks -> Payload]
           /\ pre \in PreState /\ warnings \in [Ids -> Nat] /\ admitted \subseteq Ids
           /\ events \in Seq(Event) /\ Len(events) <= MaxEvents
BY DEF TypeOK

LEMMA LockingNext == TypeOK /\ TypeOK' /\ Placed /\ Locking /\ [Next]_vars => Locking'
<1> SUFFICES ASSUME TypeOK, TypeOK', Placed, Locking, [Next]_vars PROVE Locking'
  OBVIOUS
<1>s. /\ Pipeline = {"pre", "queued", "buffered", "dispatch", "visit",
                     "responding", "post"}
      /\ Stages = Pipeline \cup {"absent", "done", "lost"}
  BY DEF Pipeline, Stages
<1>t. /\ stage \in [Ids -> Stages] /\ lock \in [Nicks -> Payload]
      /\ pre \in PreState /\ warnings \in [Ids -> Nat] /\ admitted \subseteq Ids
      /\ events \in Seq(Event) /\ Len(events) <= MaxEvents
      /\ (pre.pc # "idle" => pre.event \in 1..Len(events) /\ pre.event \in Ids
                             /\ Nick(pre.event) \in Nicks)
  <2>1. pre.pc # "idle" => pre.event \in 1..Len(events)
    BY DEF TypeOK
  <2>2. pre.pc # "idle" => Nick(pre.event) \in Nicks
    BY <2>1, KnownNick
  <2>3. /\ stage \in [Ids -> Stages] /\ lock \in [Nicks -> Payload]
        /\ pre \in PreState /\ warnings \in [Ids -> Nat] /\ admitted \subseteq Ids
        /\ events \in Seq(Event) /\ Len(events) <= MaxEvents
    BY Typed
  <2> QED BY <2>1, <2>2, <2>3
<1>p. /\ Arrived /\ (pre.pc # "idle" => stage[pre.event] = "pre")
      /\ (hand # NoEvent => hand \in Ids /\ stage[hand] = "dispatch")
      /\ (post.event # NoEvent => post.event \in Ids /\ stage[post.event] = "post")
  BY PostFields DEF Placed, PrePlaced, HandPlaced, PostPlaced, TypeOK
<1>l. Admission /\ HolderInFlightOrLost /\ WarningTracked /\ FlightLocked
  BY DEF Locking
<1>i. PreIdle.pc = "idle"
  BY DEF PreIdle
<1>1. ASSUME NEW n \in Nicks, NEW k \in Kinds, Receive(n, k) PROVE Locking'
  <2> DEFINE x == Len(events) + 1
  <2>1. /\ x \in Ids /\ x \notin 1..Len(events) /\ x \notin admitted
        /\ stage' = [stage EXCEPT ![x] = "pre"]
    BY <1>1, <1>t, <1>l DEF Receive, Admission
  <2>2. [nick |-> n, kind |-> k] \in Event
    BY DEF Event
  <2>3. /\ Len(events') = Len(events) + 1 /\ events'[x] = [nick |-> n, kind |-> k]
        /\ \A id \in 1..Len(events) : events'[id] = events[id]
    BY <1>1, <1>t, <2>2, AppendSeq DEF Receive
  <2>4. /\ pre'.event = x /\ pre'.pc # "warn" /\ (pre'.pc = "enter" => k = "private")
        /\ UNCHANGED <<lock, admitted, warnings>>
    BY <1>1 DEF Receive, PreIdle
  <2> HIDE DEF x
  <2>5. ASSUME NEW id \in admitted
        PROVE  /\ id \in 1..Len(events) /\ id \in Ids /\ id # x
               /\ Nick(id)' = Nick(id) /\ Interactive(id)' = Interactive(id)
               /\ stage'[id] = stage[id]
    <3>1. id \in 1..Len(events) /\ id \in Ids /\ id # x
      BY <1>t, <1>l, <2>1 DEF Admission
    <3> QED BY <1>t, <2>1, <2>3, <3>1 DEF Nick, Interactive
  <2>6. Admission'
    <3>1. pre'.pc = "enter" => Interactive(pre.event)'
      BY <2>3, <2>4 DEF Interactive
    <3>2. \A id \in admitted : id <= Len(events') /\ Interactive(id)'
      BY <1>t, <1>l, <2>3, <2>5 DEF Admission
    <3> QED BY <2>1, <2>4, <3>1, <3>2 DEF Admission
  <2>7. HolderInFlightOrLost'
    BY <1>l, <2>4, <2>5 DEF HolderInFlightOrLost, Held
  <2>8. WarningTracked'
    BY <1>l, <2>4 DEF WarningTracked, Held, WarnedAtMostOnce
  <2>9. FlightLocked'
    <3>1. ASSUME NEW id \in Ids, InFlight(id)', InFlight(id) => Holds(id)
          PROVE  Holds(id)'
      BY <2>4, <2>5, <3>1 DEF InFlight, Holds
    <3> QED BY <1>l, <3>1 DEF FlightLocked
  <2> QED BY <2>6, <2>7, <2>8, <2>9 DEF Locking
<1>2. CASE TryEnter
  <2> DEFINE id == pre.event
             n == Nick(id)
  <2>1. /\ id \in Ids /\ id \in 1..Len(events) /\ n \in Nicks
        /\ stage[id] = "pre" /\ id \notin admitted /\ Interactive(id)
    BY <1>2, <1>t, <1>p, <1>l DEF TryEnter, Admission
  <2>2. /\ lock' = [lock EXCEPT ![n] = Entered(lock[n], id)]
        /\ UNCHANGED <<events, stage, warnings>>
    BY <1>2, <1>t, <2>1 DEF TryEnter
  <2>3. \A m \in Nicks : m # n => lock'[m] = lock[m]
    BY <1>t, <2>2
  <2>4. \A e : Nick(e)' = Nick(e) /\ Interactive(e)' = Interactive(e)
    BY <2>2, SameEvents
  <2>5. CASE Held(n)
    <3>1. /\ pre'.pc = "peek" /\ admitted' = admitted
          /\ lock'[n].eventId = lock[n].eventId
          /\ lock'[n].warningSent = lock[n].warningSent
      BY <1>2, <1>t, <2>1, <2>2, <2>5 DEF TryEnter, Entered, Held, Payload, PreState
    <3>2. \A m \in Nicks : /\ lock'[m].eventId = lock[m].eventId
                           /\ lock'[m].warningSent = lock[m].warningSent
      BY <2>3, <3>1
    <3> HIDE DEF n, id
    <3>3. Admission'
      BY <1>l, <2>2, <2>4, <3>1 DEF Admission
    <3>4. HolderInFlightOrLost'
      BY <1>l, <2>2, <2>4, <3>1, <3>2 DEF HolderInFlightOrLost, Held
    <3>5. WarningTracked'
      BY <1>l, <2>2, <3>1, <3>2 DEF WarningTracked, Held, WarnedAtMostOnce
    <3>6. FlightLocked'
      <4>1. ASSUME NEW e \in Ids, InFlight(e)', InFlight(e) => Holds(e)
            PROVE  Holds(e)'
        <5>1. InFlight(e) /\ e \in 1..Len(events)
          BY <1>t, <1>l, <2>2, <3>1, <4>1 DEF InFlight, Admission
        <5>2. Nick(e) \in Nicks /\ Nick(e)' = Nick(e)
          BY <5>1, <2>4, KnownNick
        <5> QED BY <3>2, <4>1, <5>1, <5>2 DEF Holds
      <4> QED BY <1>l, <4>1 DEF FlightLocked
    <3> QED BY <3>3, <3>4, <3>5, <3>6 DEF Locking
  <2>6. CASE ~Held(n)
    <3>1. /\ pre'.pc = "enqueue" /\ admitted' = admitted \cup {id}
          /\ lock'[n].eventId = id
      BY <1>2, <1>t, <2>1, <2>2, <2>6 DEF TryEnter, Entered, Held, Free, PreState
    <3> HIDE DEF n
    <3>2. Admission'
      <4> HIDE DEF id
      <4> QED BY <1>l, <1>t, <2>1, <2>2, <2>4, <3>1 DEF Admission
    <3>3. HolderInFlightOrLost'
      <4>1. ASSUME NEW m \in Nicks, Held(m)'
            PROVE  /\ lock'[m].eventId \in admitted'
                   /\ Nick(lock[m].eventId)' = m
                   /\ stage'[lock'[m].eventId] \in Pipeline \cup {"lost"}
        <5>1. CASE m = n
          <6>1. Nick(lock[m].eventId)' = Nick(id)
            BY <2>2, <3>1, <5>1 DEF Nick
          <6> QED BY <1>s, <2>1, <2>2, <3>1, <5>1, <6>1 DEF n
        <5>2. CASE m # n
          <6>1. lock'[m] = lock[m] /\ Held(m)
            BY <2>3, <4>1, <5>2 DEF Held
          <6>2. Nick(lock[m].eventId)' = Nick(lock[m].eventId)
            BY <2>2, <6>1 DEF Nick
          <6> QED BY <1>l, <2>2, <3>1, <6>1, <6>2 DEF HolderInFlightOrLost
        <5> QED BY <5>1, <5>2
      <4> QED BY <4>1 DEF HolderInFlightOrLost
    <3>4. WarningTracked'
      <4>1. warnings[id] = 0
        BY <1>l, <1>t, <2>1 DEF WarningTracked
      <4> HIDE DEF id
      <4>2. ASSUME NEW m \in Nicks, Held(m)', ~lock'[m].warningSent
            PROVE  warnings'[lock'[m].eventId] = 0
        <5>1. CASE m = n
          BY <2>2, <3>1, <4>1, <5>1
        <5>2. CASE m # n
          <6>1. lock'[m] = lock[m] /\ Held(m)
            BY <2>3, <4>2, <5>2 DEF Held
          <6> QED BY <1>l, <2>2, <4>2, <6>1 DEF WarningTracked
        <5> QED BY <5>1, <5>2
      <4>3. \A e \in Ids : warnings'[e] > 0 => e \in admitted'
        BY <1>l, <2>2, <3>1 DEF WarningTracked
      <4>4. WarnedAtMostOnce'
        BY <1>l, <2>2 DEF WarningTracked, WarnedAtMostOnce
      <4> QED BY <3>1, <4>2, <4>3, <4>4 DEF WarningTracked
    <3>5. FlightLocked'
      <4>1. ASSUME NEW e \in Ids, InFlight(e)', InFlight(e) => Holds(e)
            PROVE  Holds(e)'
        <5>1. CASE e = id
          <6>1. lock'[Nick(e)].eventId = e /\ Nick(e)' = Nick(e)
            BY <2>4, <3>1, <5>1 DEF n
          <6> QED BY <6>1 DEF Holds
        <5>2. CASE e # id
          <6>1. InFlight(e) /\ Holds(e)
            BY <2>2, <3>1, <4>1, <5>2 DEF InFlight
          <6>2. Nick(e) \in Nicks
            BY <1>t, <1>l, <6>1, KnownNick DEF InFlight, Admission
          <6>3. Nick(e) # n
            BY <2>6, <6>1 DEF Holds, Held
          <6> QED BY <2>3, <2>4, <6>1, <6>2, <6>3 DEF Holds
        <5> QED BY <5>1, <5>2
      <4> QED BY <1>l, <4>1 DEF FlightLocked
    <3> QED BY <3>2, <3>3, <3>4, <3>5 DEF Locking
  <2> QED BY <2>5, <2>6
<1>3. CASE Peek
  <2> DEFINE p == lock[Nick(pre.event)]
  <2>1. /\ UNCHANGED <<events, stage, lock, admitted, warnings>>
        /\ pre.pc # "idle"
        /\ \/ pre' = [pre EXCEPT !.pc = "respond"]
           \/ /\ pre' = [pre EXCEPT !.pc = "warn", !.holder = p.eventId]
              /\ ~p.warningSent
    BY <1>3 DEF Peek, WantsWarning
  <2>2. CASE pre' = [pre EXCEPT !.pc = "respond"]
    <3>1. pre'.pc = "respond"
      BY <1>t, <2>2 DEF PreState
    <3> QED BY <2>1, <3>1, QuietStep DEF Moving
  <2>3. CASE /\ pre' = [pre EXCEPT !.pc = "warn", !.holder = p.eventId]
             /\ ~p.warningSent
    <3>1. pre'.pc = "warn" /\ pre'.event = pre.event
      BY <1>t, <2>3 DEF PreState
    <3>2. Nick(pre.event)' = Nick(pre.event)
      BY <2>1, <3>1 DEF Nick
    <3>3. \A e : Nick(e)' = Nick(e) /\ Interactive(e)' = Interactive(e)
      BY <2>1, SameEvents
    <3>4. Admission'
      BY <1>l, <2>1, <3>1, <3>3 DEF Admission
    <3>5. HolderInFlightOrLost'
      BY <1>l, <2>1, <3>3 DEF HolderInFlightOrLost, Held
    <3>6. WarningTracked'
      BY <1>l, <2>1, <2>3, <3>2 DEF WarningTracked, Held, WarnedAtMostOnce
    <3>7. FlightLocked'
      BY <1>l, <2>1, <3>3 DEF FlightLocked, InFlight, Holds
    <3> QED BY <3>4, <3>5, <3>6, <3>7 DEF Locking
  <2> QED BY <2>1, <2>2, <2>3
<1>4. CASE SetWarningSent
  <2> DEFINE n == Nick(pre.event)
             h == pre.holder
  <2>1. /\ n \in Nicks /\ h \in Ids /\ pre.pc = "warn"
        /\ UNCHANGED <<events, stage, admitted>>
    BY <1>4, <1>t DEF SetWarningSent, TypeOK
  <2>2. pre'.pc = "respond"
    BY <1>4, <1>t DEF SetWarningSent, PreState
  <2>3. CASE lock[n].eventId # h
    <3>1. lock' = lock /\ warnings' = warnings
      BY <1>4, <1>t, <2>1, <2>3 DEF SetWarningSent, Warned
    <3> QED BY <2>1, <2>2, <3>1, QuietStep DEF Moving
  <2>4. CASE lock[n].eventId = h
    <3>1. /\ lock' = [lock EXCEPT ![n] = [lock[n] EXCEPT !.warningSent = TRUE]]
          /\ warnings' = [warnings EXCEPT ![h] = @ + 1]
      BY <1>4, <1>t, <2>1, <2>4 DEF SetWarningSent, Warned
    <3>2. Held(n) /\ h \in admitted /\ Nick(h) = n /\ warnings[h] = 0
      BY <1>l, <2>1, <2>4 DEF Held, HolderInFlightOrLost, WarningTracked
    <3> HIDE DEF n, h
    <3>3. lock'[n].eventId = lock[n].eventId /\ lock'[n].warningSent
      BY <1>t, <2>1, <3>1 DEF Payload
    <3>4. \A m \in Nicks : m # n => lock'[m] = lock[m]
      BY <1>t, <3>1
    <3>5. \A e : Nick(e)' = Nick(e) /\ Interactive(e)' = Interactive(e)
      BY <2>1, SameEvents
    <3>6. \A m \in Nicks : lock'[m].eventId = lock[m].eventId
      BY <3>3, <3>4
    <3>7. Admission'
      BY <1>l, <2>1, <2>2, <3>5 DEF Admission
    <3>8. HolderInFlightOrLost'
      BY <1>l, <2>1, <3>5, <3>6 DEF HolderInFlightOrLost, Held
    <3>9. WarningTracked'
      <4>1. /\ warnings'[h] = 1
            /\ \A e \in Ids : e # h => warnings'[e] = warnings[e]
        BY <1>t, <2>1, <3>1, <3>2
      <4>2. ASSUME NEW m \in Nicks, Held(m)', ~lock'[m].warningSent
            PROVE  warnings'[lock'[m].eventId] = 0
        <5>1. m # n /\ lock'[m] = lock[m] /\ Held(m)
          BY <3>3, <3>4, <4>2 DEF Held
        <5>2. lock[m].eventId \in Ids /\ lock[m].eventId # h
          BY <1>l, <1>t, <3>2, <5>1 DEF HolderInFlightOrLost
        <5> QED BY <1>l, <4>1, <4>2, <5>1, <5>2 DEF WarningTracked
      <4>3. \A e \in Ids : warnings'[e] > 0 => e \in admitted'
        BY <1>l, <2>1, <3>2, <4>1 DEF WarningTracked
      <4>4. WarnedAtMostOnce'
        BY <1>l, <4>1 DEF WarningTracked, WarnedAtMostOnce
      <4> QED BY <2>2, <4>2, <4>3, <4>4 DEF WarningTracked
    <3>10. FlightLocked'
      <4>1. ASSUME NEW e \in Ids, InFlight(e)', InFlight(e) => Holds(e)
            PROVE  Holds(e)'
        <5>1. InFlight(e) /\ e \in 1..Len(events)
          BY <1>t, <1>l, <2>1, <4>1 DEF InFlight, Admission
        <5>2. Nick(e) \in Nicks /\ Nick(e)' = Nick(e)
          BY <5>1, <3>5, KnownNick
        <5> QED BY <3>6, <4>1, <5>1, <5>2 DEF Holds
      <4> QED BY <1>l, <4>1 DEF FlightLocked
    <3> QED BY <3>7, <3>8, <3>9, <3>10 DEF Locking
  <2> QED BY <2>3, <2>4
<1>5. CASE QuietMove
  <2>1. Moving
    BY <1>5, OneMoves DEF QuietMove, Moving
  <2> QED BY <1>5, <1>i, <2>1, QuietStep DEF QuietMove
<1>6. CASE Release
  <2> DEFINE x == post.event
  <2>1. /\ x \in Ids /\ stage[x] = "post" /\ stage' = [stage EXCEPT ![x] = "done"]
        /\ UNCHANGED <<events, pre, admitted, warnings>>
    BY <1>6, <1>p DEF Release
  <2>2. lock' = IF Interactive(x)
                THEN [lock EXCEPT ![Nick(x)] = Exited(lock[Nick(x)], x)]
                ELSE lock
    BY <1>6 DEF Release
  <2> HIDE DEF x
  <2>3. \A n \in Nicks : /\ lock'[n] = lock[n] \/ lock'[n] = Free
                         /\ lock[n].eventId # x => lock'[n] = lock[n]
    BY <1>t, <2>2 DEF Exited
  <2>4. Subsiding
    BY <2>1, <2>3 DEF Subsiding
  <2>5. ASSUME NEW n \in Nicks, Held(n), lock'[n] = lock[n]
        PROVE  stage'[lock[n].eventId] \in Pipeline \cup {"lost"}
    <3>1. lock[n].eventId \in Ids
      BY <1>t, <2>5, KnownHolder
    <3>2. lock[n].eventId # x
      <4>1. SUFFICES ASSUME lock[n].eventId = x PROVE FALSE
        OBVIOUS
      <4>2. Interactive(x) /\ Nick(x) = n
        BY <1>l, <2>5, <4>1 DEF HolderInFlightOrLost, Admission
      <4>3. lock'[n] = Free
        BY <1>t, <2>2, <4>1, <4>2 DEF Exited
      <4> QED BY <2>5, <4>3 DEF Held, Free
    <3> QED BY <1>t, <1>l, <2>1, <2>5, <3>1, <3>2 DEF HolderInFlightOrLost
  <2>6. ASSUME NEW id \in admitted, stage'[id] \in Pipeline
        PROVE  /\ stage[id] \in Pipeline
               /\ Holds(id) => lock'[Nick(id)] = lock[Nick(id)]
    <3>1. id # x /\ id \in Ids /\ stage'[id] = stage[id]
      BY <1>s, <1>t, <2>1, <2>6
    <3>2. Nick(id) \in Nicks
      BY <1>t, <1>l, KnownNick DEF Admission
    <3> QED BY <2>3, <2>6, <3>1, <3>2 DEF Holds
  <2>7. HolderInFlightOrLost'
    BY <1>l, <2>4, <2>5, SubsidingHolders
  <2>8. FlightLocked'
    BY <1>l, <2>4, <2>6, SubsidingFlight
  <2> QED BY <1>l, <2>4, <2>7, <2>8, SubsidingAdmission, SubsidingWarnings DEF Locking
<1>7. ASSUME NEW n \in Nicks, ExpireLock(n) PROVE Locking'
  <2>1. /\ lock' = [lock EXCEPT ![n] = Free] /\ UNCHANGED <<events, stage, pre, admitted, warnings>>
        /\ Faults \cap Forgetful = {} => stage[lock[n].eventId] \notin Pipeline
    BY <1>7 DEF ExpireLock, Expirable, Forgetful
  <2>2. \A m \in Nicks : /\ lock'[m] = lock[m] \/ lock'[m] = Free
                         /\ m # n => lock'[m] = lock[m]
    BY <1>t, <2>1
  <2>3. Subsiding
    BY <2>1, <2>2 DEF Subsiding
  <2>4. HolderInFlightOrLost'
    <3>1. ASSUME NEW m \in Nicks, Held(m)
          PROVE  stage'[lock[m].eventId] \in Pipeline \cup {"lost"}
      BY <1>l, <2>1, <3>1 DEF HolderInFlightOrLost
    <3> QED BY <1>l, <2>3, <3>1, SubsidingHolders
  <2>5. ASSUME NEW id \in admitted, stage'[id] \in Pipeline
        PROVE  /\ stage[id] \in Pipeline
               /\ Faults \cap Forgetful = {} /\ Holds(id) =>
                      lock'[Nick(id)] = lock[Nick(id)]
    <3>1. Nick(id) \in Nicks
      BY <1>t, <1>l, KnownNick DEF Admission
    <3>2. Faults \cap Forgetful = {} /\ Holds(id) => Nick(id) # n
      BY <2>1, <2>5 DEF Holds
    <3> QED BY <2>1, <2>2, <2>5, <3>1, <3>2
  <2>6. FlightLocked'
    BY <1>l, <2>3, <2>5, SubsidingFlight
  <2> QED BY <1>l, <2>3, <2>4, <2>6, SubsidingAdmission, SubsidingWarnings DEF Locking
<1>8. CASE Restart
  <2>1. /\ lock' = [n \in Nicks |-> Free] /\ pre' = PreIdle
        /\ UNCHANGED <<events, admitted, warnings>> /\ Faults \cap Forgetful # {}
    BY <1>8 DEF Restart, Forgetful
  <2>2. Subsiding
    BY <1>i, <2>1 DEF Subsiding
  <2>3. HolderInFlightOrLost' /\ FlightLocked'
    BY <2>1 DEF HolderInFlightOrLost, FlightLocked, Held, Free
  <2> QED BY <1>l, <2>2, <2>3, SubsidingAdmission, SubsidingWarnings DEF Locking
<1> QED BY <1>1, <1>2, <1>3, <1>4, <1>5, <1>6, <1>7, <1>8, StepKinds
-----------------------------------------------------------------------------
(* The theorems.                                                           *)

LEMMA InductiveInvariant == Spec => []Inductive
<1>1. Init => Inductive
  BY TypeInit, PlacedInit, LockingInit DEF Inductive
<1>2. Inductive /\ [Next]_vars => Inductive'
  BY TypeNext, PlacedNext, LockingNext DEF Inductive
<1> QED BY <1>1, <1>2, PTL DEF Spec

(* Whoever holds the Bouncer's lock of a user is an admitted event of that *)
(* user that is still in flight or was lost: whatever the faults, the      *)
(* answer to an event gives back the lock the event held.                  *)
THEOREM HolderCorrect == Spec => []HolderInFlightOrLost
<1>1. Inductive => HolderInFlightOrLost
  BY DEF Inductive, Locking
<1> QED BY <1>1, InductiveInvariant, PTL

(* Whatever the faults, handleSemaphoreInUse warns about a request once.   *)
THEOREM WarnedOnce == Spec => []WarnedAtMostOnce
<1>1. Inductive => WarnedAtMostOnce
  BY DEF Inductive, Locking, WarningTracked
<1> QED BY <1>1, InductiveInvariant, PTL

(* As long as no fault makes the Bouncer forget its locks, it serialises   *)
(* the requests of every user, however many workers and users there are.   *)
THEOREM Serialised ==
    ASSUME Faults \cap Forgetful = {}
    PROVE  Spec => []SingleRequestPerUser
<1>1. Inductive => SingleRequestPerUser
  <2> SUFFICES ASSUME Inductive, NEW a \in Ids, NEW b \in Ids,
                      InFlight(a), InFlight(b), Nick(a) = Nick(b)
               PROVE  a = b
    BY DEF SingleRequestPerUser
  <2>1. Holds(a) /\ Holds(b)
    BY DEF Inductive, Locking, FlightLocked
  <2> QED BY <2>1 DEF Holds
<1> QED BY <1>1, InductiveInvariant, PTL

(* As long as the Bouncer forgets nothing, a lock is taken from its holder *)
(* only when the holder's event has left the pipeline.                     *)
THEOREM GivenUp ==
    ASSUME Faults \cap Forgetful = {}
    PROVE  Spec => GivenUpByHolder
<1>1. ASSUME Inductive, [Next]_vars, NEW n \in Nicks,
             Held(n), lock'[n].eventId # lock[n].eventId
      PROVE  stage'[lock[n].eventId] \notin Pipeline
  <2>t. lock \in [Nicks -> Payload] /\ stage \in [Ids -> Stages]
    BY <1>1 DEF Inductive, TypeOK
  <2>1. CASE TryEnter
    <3>1. lock' = [lock EXCEPT ![Nick(pre.event)] = Entered(@, pre.event)]
      BY <2>1 DEF TryEnter
    <3>2. \A p \in Payload :
             p.eventId # NoEvent => Entered(p, pre.event).eventId = p.eventId
      BY DEF Entered, Payload
    <3> QED BY <1>1, <2>t, <3>1, <3>2 DEF Held
  <2>2. CASE SetWarningSent
    <3>1. lock' = [lock EXCEPT ![Nick(pre.event)] = Warned(@, pre.holder)]
      BY <2>2 DEF SetWarningSent
    <3>2. \A p \in Payload : Warned(p, pre.holder).eventId = p.eventId
      BY DEF Warned, Payload
    <3> QED BY <1>1, <2>t, <3>1, <3>2
  <2>3. CASE Release
    <3>1. \/ lock' = [lock EXCEPT ![Nick(post.event)] = Exited(@, post.event)]
          \/ lock' = lock
      BY <2>3 DEF Release
    <3>2. lock[n].eventId = post.event
      BY <1>1, <2>t, <3>1 DEF Exited
    <3>3. post.event \in Ids /\ stage' = [stage EXCEPT ![post.event] = "done"]
      BY <1>1, <2>3, PostFields DEF Release, Inductive, TypeOK
    <3> QED BY <2>t, <3>2, <3>3 DEF Pipeline
  <2>4. ASSUME NEW m \in Nicks, ExpireLock(m)
        PROVE  stage'[lock[n].eventId] \notin Pipeline
    BY <1>1, <2>t, <2>4 DEF ExpireLock, Expirable, Forgetful
  <2>5. CASE lock' = lock
    BY <1>1, <2>5
  <2> QED BY <1>1, <2>1, <2>2, <2>3, <2>4, <2>5, StepKinds
      DEF Inductive, Receive, Peek, Restart, Forgetful, QuietMove
<1>2. Inductive /\ [Next]_vars =>
        [\A n \in Nicks : Held(n) /\ lock'[n].eventId # lock[n].eventId
            => stage'[lock[n].eventId] \notin Pipeline]_vars
  BY <1>1
<1> QED BY <1>2, InductiveInvariant, PTL DEF Spec, GivenUpByHolder

(* Whatever the faults, the exit at the end of a response leaves alone     *)
(* every lock that the event does not hold.                                *)
THEOREM StaleRelease == Spec => StaleReleaseHarmless
<1>1. ASSUME Inductive, [Next]_vars, post.event # NoEvent,
             stage'[post.event] = "done", NEW n \in Nicks,
             lock[n].eventId # post.event
      PROVE  lock'[n] = lock[n]
  <2>1. /\ post.event \in Ids /\ stage[post.event] = "post"
        /\ lock \in [Nicks -> Payload] /\ stage \in [Ids -> Stages]
    BY <1>1, PostFields DEF Inductive, Placed, PostPlaced, TypeOK
  <2>2. CASE Release
    BY <1>1, <2>1, <2>2 DEF Release, Exited
  <2>3. CASE lock' = lock
    BY <2>3
  <2>4. CASE stage'[post.event] # "done"
    BY <1>1, <2>4
  <2>5. CASE Restart
    <3>1. stage'[post.event] = AfterRestart(stage[post.event])
      BY <2>1, <2>5 DEF Restart
    <3> QED BY <1>1, <2>1, <3>1 DEF AfterRestart
  <2>6. CASE stage' = stage
    BY <1>1, <2>1, <2>6
  <2> QED BY <1>1, <2>2, <2>3, <2>5, <2>6, StepKinds
      DEF Inductive, Receive, TryEnter, Peek, SetWarningSent, ExpireLock, QuietMove
<1>2. Inductive /\ [Next]_vars =>
        [\A n \in Nicks :
            /\ post.event # NoEvent /\ stage'[post.event] = "done"
            /\ lock[n].eventId # post.event
            => lock'[n] = lock[n]]_vars
  BY <1>1
<1> QED BY <1>2, InductiveInvariant, PTL DEF Spec, StaleReleaseHarmless

\* The postprocessor is done with an event by the end of onResponse, by an
\* exception, or because the process ends.
LEMMA PostMoves ==
    ASSUME TypeOK, [Next]_vars, post.event # NoEvent, post'.event # post.event
    PROVE  Release \/ Restart \/ \E reply \in Replies : WriteThrows(reply)
<1>1. CASE Postprocess
  <2>1. ~TakeResponse
    BY DEF TakeResponse, PostIdle
  <2>2. ASSUME NEW reply \in Replies, Write(reply) PROVE FALSE
    <3>1. \/ post' = [post EXCEPT !.tries = @ + 1]
          \/ post' = [post EXCEPT !.left = @ - 1, !.tries = 0]
      BY <2>2 DEF Write
    <3>2. post'.event = post.event
      BY <3>1 DEF TypeOK, PostState
    <3> QED BY <3>2
  <2> QED BY <1>1, <2>1, <2>2 DEF Postprocess
<1>2. post' # post
  OBVIOUS
<1>3. CASE Preprocess
  BY <1>2, <1>3 DEF Preprocess, TryEnter, Peek, SetWarningSent, RespondRefused, Enqueue
<1>4. ASSUME NEW w \in Workers, Submit(w) \/ Work(w) PROVE FALSE
  BY <1>2, <1>4 DEF Submit, Work, Answer, VisitAborted, RegisterActivity
<1>5. ~Schedule /\ ~SubmitInterrupted /\ ~ExpireResponse
  BY <1>2 DEF Schedule, SubmitInterrupted, ExpireResponse
<1>6. /\ \A id \in Ids : ~Deliver(id) /\ ~ExpireEvent(id)
      /\ \A n \in Nicks : ~HourPasses(n) /\ ~ExpireLock(n)
      /\ \A n \in Nicks, k \in Kinds : ~Receive(n, k)
  BY <1>2 DEF Deliver, ExpireEvent, HourPasses, ExpireLock, Receive
<1> QED BY <1>1, <1>2, <1>3, <1>4, <1>5, <1>6 DEF Next, vars

LEMMA ReleaseFrees ==
    ASSUME Inductive, Release \/ Restart, post.event # NoEvent
    PROVE  lock'[Nick(post.event)].eventId # post.event
<1>1. PICK id \in Ids : id = post.event
  BY PostFields DEF Inductive, TypeOK
<1>2. Nick(id) \in Nicks
  <2>1. stage[id] # "absent"
    BY <1>1 DEF Inductive, Placed, PostPlaced
  <2> QED BY <2>1, KnownNick DEF Inductive, Placed, Arrived, TypeOK
<1>3. Free.eventId = NoEvent
  BY DEF Free
<1>4. CASE Release /\ Interactive(id)
  <2>1. lock' = [lock EXCEPT ![Nick(id)] = Exited(@, id)]
    BY <1>1, <1>4 DEF Release
  <2>2. lock'[Nick(id)] = Exited(lock[Nick(id)], id)
    BY <1>2, <2>1 DEF Inductive, TypeOK
  <2> QED BY <1>1, <1>3, <2>2 DEF Exited
<1>5. CASE Release /\ ~Interactive(id)
  <2>1. id \notin admitted
    BY <1>5 DEF Inductive, Locking, Admission
  <2>2. lock' = lock
    BY <1>1, <1>5 DEF Release
  <2> QED BY <1>1, <1>2, <2>1, <2>2 DEF Inductive, Locking, HolderInFlightOrLost, Held
<1>6. CASE Restart
  <2>1. lock'[Nick(id)] = Free
    BY <1>2, <1>6 DEF Restart
  <2> QED BY <1>1, <1>3, <2>1
<1> QED BY <1>4, <1>5, <1>6

(* Only an exception of the chat writer's remote end leaves a lock behind: *)
(* whenever the postprocessor is done with an event that goes on holding   *)
(* its user's lock, onResponse has not come to its end.                    *)
KeptOnlyByException ==
    [][/\ post.event # NoEvent /\ post'.event # post.event
       /\ lock'[Nick(post.event)].eventId = post.event
       => \E reply \in Replies : WriteThrows(reply)]_vars

THEOREM KeptByException == Spec => KeptOnlyByException
<1>1. Inductive /\ [Next]_vars =>
        [/\ post.event # NoEvent /\ post'.event # post.event
         /\ lock'[Nick(post.event)].eventId = post.event
         => \E reply \in Replies : WriteThrows(reply)]_vars
  BY PostMoves, ReleaseFrees DEF Inductive
<1> QED BY <1>1, InductiveInvariant, PTL DEF Spec, KeptOnlyByException

(* As long as every answer can be read and nothing interrupts the sleep    *)
(* before a retry, an event that was responded to does not hold the lock,  *)
(* also when the process restarts or messages expire.  The code does not   *)
(* meet the first condition: it cannot read PingDeath.                     *)
THEOREM ReleasedWhenReadable ==
    ASSUME Unreadable = {}, "Broken" \notin Replies,
           "Retry" \notin Replies \/ "interrupt" \notin Faults
    PROVE  Spec => ReleasedWhenRespondedTo
<1>1. ASSUME NEW reply \in Replies PROVE ~WriteThrows(reply)
  <2>1. Received(reply) = reply
    BY <1>1 DEF Received
  <2>2. reply \in {"Ok", "Retry", "Timeout", "Unknown", "PingDeath"}
    BY <1>1 DEF AllReplies
  <2>3. Outcome(reply) # "throw"
    BY <2>1, <2>2 DEF Outcome
  <2> QED BY <2>1, <2>3 DEF WriteThrows
<1>2. Inductive /\ [Next]_vars =>
        [post.event # NoEvent /\ post'.event # post.event
            => lock'[Nick(post.event)].eventId # post.event]_vars
  BY <1>1, PostMoves, ReleaseFrees DEF Inductive
<1> QED BY <1>2, InductiveInvariant, PTL DEF Spec, ReleasedWhenRespondedTo
-----------------------------------------------------------------------------
(* Where the events are.  stage is a variable of the model; the process    *)
(* has only its threads and queues.                                        *)
Buffered(id) == \E i \in 1..Len(buffer) : buffer[i] = id
Visited(id) == \E w \in Workers : worker[w] = [event |-> id, phase |-> "visit"]
Answered(id) == \E i \in 1..Len(responses) : responses[i].event = id

\* The event is in the hands of the thread or in the queue its stage names.
Located(id) ==
    /\ stage[id] = "pre" => pre.pc # "idle" /\ pre.event = id
    /\ stage[id] = "buffered" => Buffered(id)
    /\ stage[id] = "dispatch" => hand = id
    /\ stage[id] = "visit" => Visited(id)
    /\ stage[id] = "responding" => Answered(id)
    /\ stage[id] = "post" => post.event = id

EventsLocated == \A id \in Ids : Located(id)

LEMMA StaysLocated ==
    ASSUME NEW x \in Ids, Located(x), stage'[x] = stage[x],
           stage[x] = "pre" /\ pre.pc # "idle" => pre'.pc # "idle" /\ pre'.event = pre.event,
           stage[x] = "buffered" /\ Buffered(x) => Buffered(x)',
           stage[x] = "dispatch" => hand' = hand,
           stage[x] = "visit" /\ Visited(x) => Visited(x)',
           stage[x] = "responding" /\ Answered(x) => Answered(x)',
           stage[x] = "post" => post'.event = post.event
    PROVE  Located(x)'
BY DEF Located

LEMMA SamePlaces ==
    ASSUME NEW x
    PROVE  /\ buffer' = buffer => (Buffered(x)' <=> Buffered(x))
           /\ worker' = worker => (Visited(x)' <=> Visited(x))
           /\ responses' = responses => (Answered(x)' <=> Answered(x))
BY DEF Buffered, Visited, Answered

LEMMA AppendedAnswer ==
    ASSUME responses \in Seq(Response), NEW r \in Response,
           responses' = Append(responses, r)
    PROVE  Answered(r.event)' /\ \A x : Answered(x) => Answered(x)'
<1>1. /\ Len(responses') = Len(responses) + 1 /\ Len(responses) \in Nat
      /\ responses'[Len(responses) + 1] = r
      /\ \A i \in 1..Len(responses) : responses'[i] = responses[i]
  BY AppendSeq
<1>2. Answered(r.event)'
  BY <1>1 DEF Answered
<1>3. ASSUME NEW x, Answered(x) PROVE Answered(x)'
  BY <1>1, <1>3 DEF Answered
<1> QED BY <1>2, <1>3

\* The preprocessor hands an event on to the one or the other queue or drops it.
LEMMA LocatedPreprocess ==
    ASSUME TypeOK, EventsLocated, Preprocess
    PROVE  EventsLocated'
<1> DEFINE id == pre.event
<1>t. /\ stage \in [Ids -> Stages] /\ responses \in Seq(Response) /\ pre \in PreState
      /\ id \in Ids
  <2>1. pre.pc # "idle"
    BY DEF Preprocess, TryEnter, Peek, SetWarningSent, RespondRefused, Enqueue
  <2> QED BY <2>1 DEF TypeOK
<1> SUFFICES ASSUME NEW x \in Ids PROVE Located(x)'
  BY DEF EventsLocated
<1>l. Located(x)
  BY DEF EventsLocated
<1>1. CASE TryEnter \/ Peek \/ SetWarningSent
  <2>1. /\ stage' = stage /\ buffer' = buffer /\ hand' = hand /\ worker' = worker
        /\ responses' = responses /\ post' = post
    BY <1>1 DEF TryEnter, Peek, SetWarningSent
  <2>2. CASE TryEnter
    <3>1. PICK c \in {"peek", "enqueue"} : pre' = [pre EXCEPT !.pc = c]
      BY <2>2 DEF TryEnter
    <3>2. pre'.pc = c /\ pre'.event = pre.event
      BY <1>t, <3>1, PreStep
    <3> QED BY <1>l, <2>1, <3>2, SamePlaces, StaysLocated
  <2>3. CASE Peek
    <3> DEFINE p == lock[Nick(id)]
    <3>1. id \in 1..Len(events)
      BY <2>3 DEF TypeOK, Peek
    <3>2. p \in Payload
      BY <3>1, KnownNick DEF TypeOK
    <3>3. \/ pre' = [pre EXCEPT !.pc = "respond"]
          \/ p.eventId # NoEvent /\ pre' = [pre EXCEPT !.pc = "warn", !.holder = p.eventId]
      BY <2>3 DEF Peek, WantsWarning
    <3>4. p.eventId # NoEvent => p.eventId \in Ids
      BY <3>2 DEF Payload
    <3> HIDE DEF p
    <3>5. CASE pre' = [pre EXCEPT !.pc = "respond"]
      <4>1. pre'.pc = "respond" /\ pre'.event = pre.event
        BY <1>t, <3>5, PreStep
      <4> QED BY <1>l, <2>1, <4>1, SamePlaces, StaysLocated
    <3>6. CASE p.eventId # NoEvent /\ pre' = [pre EXCEPT !.pc = "warn", !.holder = p.eventId]
      <4>h. PICK h \in Ids : pre' = [pre EXCEPT !.pc = "warn", !.holder = h]
        BY <3>4, <3>6
      <4>1. pre'.pc = "warn" /\ pre'.event = pre.event
        BY <1>t, <4>h, PreWarn
      <4> QED BY <1>l, <2>1, <4>1, SamePlaces, StaysLocated
    <3> QED BY <3>3, <3>5, <3>6
  <2>4. CASE SetWarningSent
    <3>1. \/ pre' = [pre EXCEPT !.pc = "respond"]
          \/ pre' = [pre EXCEPT !.pc = "respond", !.messages = 1]
      BY <2>4 DEF SetWarningSent
    <3>2. ASSUME pre' = [pre EXCEPT !.pc = "respond"]
          PROVE  pre'.pc = "respond" /\ pre'.event = pre.event
      BY <1>t, <3>2, PreStep
    <3>3. ASSUME pre' = [pre EXCEPT !.pc = "respond", !.messages = 1]
          PROVE  pre'.pc = "respond" /\ pre'.event = pre.event
      BY <1>t, <3>3, PreWarned
    <3>4. pre'.pc = "respond" /\ pre'.event = pre.event
      BY <3>1, <3>2, <3>3
    <3> QED BY <1>l, <2>1, <3>4, SamePlaces, StaysLocated
  <2> QED BY <1>1, <2>2, <2>3, <2>4
<1>2. CASE RespondRefused
  <2> DEFINE r == [event |-> id, messages |-> pre.messages]
  <2>1. /\ buffer' = buffer /\ hand' = hand /\ worker' = worker /\ post' = post
        /\ pre.pc = "respond"
    BY <1>2 DEF RespondRefused
  <2>2. r \in Response /\ r.event = id
    BY <1>t, PreFields DEF Response
  <2>3. PICK v \in {"responding", "lost"} :
          /\ stage' = [stage EXCEPT ![id] = v]
          /\ v = "responding" => responses' = Append(responses, r)
          /\ v = "lost" => responses' = responses
    BY <1>2 DEF RespondRefused
  <2> HIDE DEF r
  <2>4. CASE x = id
    BY <1>t, <2>2, <2>3, <2>4, AppendedAnswer DEF Located
  <2>5. CASE x # id
    <3>1. stage'[x] = stage[x] /\ stage[x] # "pre"
      BY <1>t, <1>l, <2>3, <2>5 DEF Located
    <3>2. Answered(x) => Answered(x)'
      BY <1>t, <2>2, <2>3, AppendedAnswer, SamePlaces
    <3> QED BY <1>l, <2>1, <3>1, <3>2, SamePlaces, StaysLocated
  <2> QED BY <2>4, <2>5
<1>3. CASE Enqueue
  <2>1. /\ buffer' = buffer /\ hand' = hand /\ worker' = worker /\ post' = post
        /\ responses' = responses
    BY <1>3 DEF Enqueue
  <2>2. PICK v \in {"queued", "lost"} : stage' = [stage EXCEPT ![id] = v]
    BY <1>3 DEF Enqueue
  <2>3. CASE x = id
    BY <1>t, <2>2, <2>3 DEF Located
  <2>4. CASE x # id
    <3>1. stage'[x] = stage[x] /\ stage[x] # "pre"
      BY <1>t, <1>l, <2>2, <2>4 DEF Located
    <3> QED BY <1>l, <2>1, <3>1, SamePlaces, StaysLocated
  <2> QED BY <2>3, <2>4
<1> QED BY <1>1, <1>2, <1>3 DEF Preprocess

\* RabbitMQ and the scheduler.
LEMMA LocatedScheduler ==
    ASSUME TypeOK, EventsLocated,
           \/ \E id \in Ids : Deliver(id) \/ ExpireEvent(id)
           \/ Schedule \/ SubmitInterrupted \/ \E w \in Workers : Submit(w)
    PROVE  EventsLocated'
<1>t. /\ stage \in [Ids -> Stages] /\ buffer \in Seq(Ids) /\ hand \in Ids \cup {NoEvent}
      /\ worker \in [Workers -> WorkerState]
  BY DEF TypeOK
<1> SUFFICES ASSUME NEW x \in Ids PROVE Located(x)'
  BY DEF EventsLocated
<1>l. Located(x)
  BY DEF EventsLocated
<1>p. pre' = pre /\ post' = post /\ responses' = responses
  BY DEF Deliver, ExpireEvent, Schedule, SubmitInterrupted, Submit
<1>1. ASSUME NEW id \in Ids, Deliver(id) PROVE Located(x)'
  <2>1. /\ buffer' = Append(buffer, id) /\ hand' = hand /\ worker' = worker
        /\ stage[id] = "queued" /\ stage' = [stage EXCEPT ![id] = "buffered"]
    BY <1>1 DEF Deliver
  <2>2. /\ Len(buffer') = Len(buffer) + 1 /\ Len(buffer) \in Nat
        /\ buffer'[Len(buffer) + 1] = id
        /\ \A i \in 1..Len(buffer) : buffer'[i] = buffer[i]
    BY <1>t, <2>1, AppendSeq
  <2>3. CASE x = id
    <3>1. Buffered(id)'
      BY <2>2 DEF Buffered
    <3> QED BY <1>t, <2>1, <2>3, <3>1 DEF Located
  <2>4. CASE x # id
    <3>1. Buffered(x) => Buffered(x)'
      BY <2>2 DEF Buffered
    <3> QED BY <1>t, <1>l, <1>p, <2>1, <2>4, <3>1, SamePlaces, StaysLocated
  <2> QED BY <2>3, <2>4
<1>2. ASSUME NEW id \in Ids, ExpireEvent(id) PROVE Located(x)'
  <2>1. /\ buffer' = buffer /\ hand' = hand /\ worker' = worker
        /\ stage' = [stage EXCEPT ![id] = "lost"]
    BY <1>2 DEF ExpireEvent
  <2>2. CASE x = id
    BY <1>t, <2>1, <2>2 DEF Located
  <2>3. CASE x # id
    BY <1>t, <1>l, <1>p, <2>1, <2>3, SamePlaces, StaysLocated
  <2> QED BY <2>2, <2>3
<1>3. CASE Schedule
  <2> DEFINE id == Head(buffer)
  <2>1. /\ buffer # <<>> /\ buffer' = Tail(buffer) /\ hand = NoEvent /\ hand' = id
        /\ worker' = worker /\ stage' = [stage EXCEPT ![id] = "dispatch"]
    BY <1>3 DEF Schedule
  <2>2. /\ id \in Ids /\ id = buffer[1] /\ Len(buffer) \in Nat
        /\ Len(buffer') = Len(buffer) - 1
        /\ \A i \in 1..Len(buffer') : buffer'[i] = buffer[i + 1]
    BY <1>t, <2>1, TailSeq
  <2> HIDE DEF id
  <2>3. CASE x = id
    BY <1>t, <2>1, <2>2, <2>3 DEF Located
  <2>4. CASE x # id
    <3>1. ASSUME Buffered(x) PROVE Buffered(x)'
      <4>1. PICK i \in 1..Len(buffer) : buffer[i] = x
        BY <3>1 DEF Buffered
      <4>2. i # 1
        BY <2>2, <2>4, <4>1
      <4>3. i - 1 \in 1..Len(buffer') /\ (i - 1) + 1 = i
        BY <2>2, <4>2
      <4>4. buffer'[i - 1] = x
        BY <2>2, <4>1, <4>3
      <4> QED BY <4>3, <4>4 DEF Buffered
    <3>2. stage[x] # "dispatch"
      BY <1>l, <2>1 DEF Located
    <3> QED BY <1>t, <1>l, <1>p, <2>1, <2>4, <3>1, <3>2, SamePlaces, StaysLocated
  <2> QED BY <2>3, <2>4
<1>4. CASE SubmitInterrupted
  <2>1. /\ buffer' = buffer /\ worker' = worker /\ hand \in Ids
        /\ stage' = [stage EXCEPT ![hand] = "lost"]
    BY <1>t, <1>4 DEF SubmitInterrupted
  <2>2. CASE x = hand
    BY <1>t, <2>1, <2>2 DEF Located
  <2>3. CASE x # hand
    <3>1. stage'[x] = stage[x] /\ stage[x] # "dispatch"
      BY <1>t, <1>l, <2>1, <2>3 DEF Located
    <3> QED BY <1>l, <1>p, <2>1, <3>1, SamePlaces, StaysLocated
  <2> QED BY <2>2, <2>3
<1>5. ASSUME NEW w \in Workers, Submit(w) PROVE Located(x)'
  <2> DEFINE task == [event |-> hand, phase |-> "visit"]
  <2>1. /\ buffer' = buffer /\ hand \in Ids /\ worker[w] = WorkerIdle
        /\ worker' = [worker EXCEPT ![w] = task]
        /\ stage' = [stage EXCEPT ![hand] = "visit"]
    BY <1>t, <1>5 DEF Submit
  <2>2. CASE x = hand
    <3>1. Visited(x)'
      BY <1>t, <2>1, <2>2 DEF Visited
    <3> QED BY <1>t, <2>1, <2>2, <3>1 DEF Located
  <2>3. CASE x # hand
    <3>1. ASSUME Visited(x) PROVE Visited(x)'
      <4>1. PICK v \in Workers : worker[v] = [event |-> x, phase |-> "visit"]
        BY <3>1 DEF Visited
      <4>2. v # w
        BY <2>1, <4>1 DEF WorkerIdle
      <4>3. worker'[v] = worker[v]
        BY <1>t, <2>1, <4>2
      <4> QED BY <4>1, <4>3 DEF Visited
    <3>2. stage'[x] = stage[x] /\ stage[x] # "dispatch"
      BY <1>t, <1>l, <2>1, <2>3 DEF Located
    <3> QED BY <1>l, <1>p, <2>1, <3>1, <3>2, SamePlaces, StaysLocated
  <2> QED BY <2>2, <2>3
<1> QED BY <1>1, <1>2, <1>3, <1>4, <1>5

\* A worker answers its event or drops it.
LEMMA LocatedWork ==
    ASSUME TypeOK, EventsLocated, NEW w \in Workers, Work(w)
    PROVE  EventsLocated'
<1> DEFINE id == worker[w].event
<1>t. /\ stage \in [Ids -> Stages] /\ responses \in Seq(Response)
      /\ worker \in [Workers -> WorkerState]
      /\ worker[w].phase = "visit" => id \in Ids
  BY DEF TypeOK
<1>p. pre' = pre /\ post' = post /\ buffer' = buffer /\ hand' = hand
  BY DEF Work, Answer, VisitAborted, RegisterActivity
<1>w. PICK u : worker' = [worker EXCEPT ![w] = u] /\ u.phase # "visit"
  <2>1. [worker[w] EXCEPT !.phase = "register"].phase = "register"
    BY <1>t DEF WorkerState
  <2>2. [worker EXCEPT ![w].phase = "register"]
          = [worker EXCEPT ![w] = [worker[w] EXCEPT !.phase = "register"]]
    OBVIOUS
  <2>3. ASSUME NEW m, Answer(w, m)
        PROVE  worker' = [worker EXCEPT ![w] = [worker[w] EXCEPT !.phase = "register"]]
    BY <2>2, <2>3 DEF Answer
  <2>4. ASSUME VisitAborted(w) \/ RegisterActivity(w)
        PROVE  worker' = [worker EXCEPT ![w] = WorkerIdle]
    BY <2>4 DEF VisitAborted, RegisterActivity
  <2>5. WorkerIdle.phase = "idle"
    BY DEF WorkerIdle
  <2> QED BY <2>1, <2>3, <2>4, <2>5 DEF Work
<1> SUFFICES ASSUME NEW x \in Ids PROVE Located(x)'
  BY DEF EventsLocated
<1>l. Located(x)
  BY DEF EventsLocated
\* Workers keep the events of others.
<1>v. ASSUME Visited(x), worker[w].phase = "visit" => x # id PROVE Visited(x)'
  <2>1. PICK v \in Workers : worker[v] = [event |-> x, phase |-> "visit"]
    BY <1>v DEF Visited
  <2>2. v # w
    BY <1>v, <2>1
  <2>3. worker'[v] = worker[v]
    BY <1>t, <1>w, <2>2
  <2> QED BY <2>1, <2>3 DEF Visited
<1>1. CASE RegisterActivity(w)
  <2>1. /\ stage' = stage /\ responses' = responses /\ worker[w].phase = "register"
    BY <1>1 DEF RegisterActivity
  <2>2. Visited(x) => Visited(x)'
    BY <1>v, <2>1
  <2> QED BY <1>l, <1>p, <2>1, <2>2, SamePlaces, StaysLocated
<1>2. ASSUME NEW y \in Ids, y = id, NEW v \in {"responding", "lost"},
             stage' = [stage EXCEPT ![y] = v],
             v = "responding" => Answered(y)', Answered(x) => Answered(x)'
      PROVE  Located(x)'
  <2>1. CASE x = y
    BY <1>t, <1>2, <2>1 DEF Located
  <2>2. CASE x # y
    <3>1. stage'[x] = stage[x] /\ (Visited(x) => Visited(x)')
      BY <1>t, <1>v, <1>2, <2>2
    <3> QED BY <1>l, <1>p, <1>2, <3>1, SamePlaces, StaysLocated
  <2> QED BY <2>1, <2>2
<1>3. CASE VisitAborted(w)
  <2>1. PICK y \in Ids : y = id
    BY <1>t, <1>3 DEF VisitAborted
  <2>2. stage' = [stage EXCEPT ![y] = "lost"] /\ responses' = responses
    BY <1>3, <2>1 DEF VisitAborted
  <2>3. Answered(x) => Answered(x)'
    BY <2>2, SamePlaces
  <2> QED BY <1>2, <2>1, <2>2, <2>3
<1>4. ASSUME NEW m \in 0..MaxMessages, Answer(w, m) PROVE Located(x)'
  <2>1. PICK y \in Ids : y = id
    BY <1>t, <1>4 DEF Answer
  <2> DEFINE r == [event |-> y, messages |-> m]
  <2>2. r \in Response /\ r.event = y
    BY DEF Response
  <2>3. \/ responses' = Append(responses, r) /\ stage' = [stage EXCEPT ![y] = "responding"]
        \/ stage' = [stage EXCEPT ![y] = "lost"] /\ responses' = responses
    BY <1>4, <2>1 DEF Answer
  <2> HIDE DEF r
  <2>4. CASE responses' = Append(responses, r) /\ stage' = [stage EXCEPT ![y] = "responding"]
    <3>1. Answered(y)' /\ (Answered(x) => Answered(x)')
      BY <1>t, <2>2, <2>4, AppendedAnswer
    <3> QED BY <1>2, <2>1, <2>4, <3>1
  <2>5. CASE stage' = [stage EXCEPT ![y] = "lost"] /\ responses' = responses
    <3>1. Answered(x) => Answered(x)'
      BY <2>5, SamePlaces
    <3> QED BY <1>2, <2>1, <2>5, <3>1
  <2> QED BY <2>3, <2>4, <2>5
<1> QED BY <1>1, <1>3, <1>4 DEF Work

\* The response queue and the postprocessor.
LEMMA LocatedPostprocess ==
    ASSUME TypeOK, EventsLocated, ExpireResponse \/ Postprocess
    PROVE  EventsLocated'
<1>t. /\ stage \in [Ids -> Stages] /\ responses \in Seq(Response) /\ post \in PostState
  BY DEF TypeOK
<1>p. pre' = pre /\ worker' = worker /\ buffer' = buffer /\ hand' = hand
  BY DEF ExpireResponse, Postprocess, TakeResponse, Write, WriteThrows, Release
<1> SUFFICES ASSUME NEW x \in Ids PROVE Located(x)'
  BY DEF EventsLocated
<1>l. Located(x)
  BY DEF EventsLocated
<1>1. CASE ExpireResponse
  <2> DEFINE k == Prefetch + 1
             id == responses[k].event
             rest == SubSeq(responses, 1, k - 1) \o SubSeq(responses, k + 1, Len(responses))
  <2>1. /\ k \in 1..Len(responses) /\ post' = post /\ responses' = rest
        /\ stage' = [stage EXCEPT ![id] = "lost"]
    BY <1>t, <1>1 DEF ExpireResponse
  <2>2. /\ Len(rest) = Len(responses) - 1 /\ Len(responses) \in Nat
        /\ \A i \in 1..Len(rest) :
              rest[i] = IF i < k THEN responses[i] ELSE responses[i + 1]
    <3> HIDE DEF k
    <3>1. responses \in Seq(Response) /\ k \in 1..Len(responses)
      BY <1>t, <2>1
    <3>2. Len(responses) \in Nat
      BY <3>1
    <3> QED BY ONLY <3>1, <3>2, CutSeq
  <2> HIDE DEF rest, k
  <2>3. CASE x = id
    BY <1>t, <2>1, <2>3 DEF Located
  <2>4. CASE x # id
    <3>1. ASSUME Answered(x) PROVE Answered(x)'
      <4>1. PICK i \in 1..Len(responses) : responses[i].event = x
        BY <3>1 DEF Answered
      <4>2. i # k /\ i \in Int /\ k \in Int
        BY <2>1, <2>4, <4>1
      <4>3. CASE i < k
        <5>1. i \in 1..Len(rest)
          BY <2>1, <2>2, <4>2, <4>3
        <5>2. rest[i] = responses[i]
          BY <2>2, <4>3, <5>1
        <5> QED BY <2>1, <4>1, <5>1, <5>2 DEF Answered
      <4>4. CASE i > k
        <5>1. i - 1 \in 1..Len(rest) /\ ~(i - 1 < k) /\ (i - 1) + 1 = i
          BY <2>1, <2>2, <4>2, <4>4
        <5>2. rest[i - 1] = responses[i]
          BY <2>2, <5>1
        <5> QED BY <2>1, <4>1, <5>1, <5>2 DEF Answered
      <4> QED BY <4>2, <4>3, <4>4
    <3>2. stage'[x] = stage[x]
      BY <1>t, <2>1, <2>4
    <3> QED BY <1>l, <1>p, <2>1, <3>1, <3>2, SamePlaces, StaysLocated
  <2> QED BY <2>3, <2>4
<1>2. CASE TakeResponse
  <2> DEFINE r == Head(responses)
  <2>1. /\ responses # <<>> /\ responses' = Tail(responses) /\ post.event = NoEvent
        /\ post'.event = r.event /\ stage' = [stage EXCEPT ![r.event] = "post"]
    BY <1>2 DEF TakeResponse, PostIdle
  <2>2. /\ r = responses[1] /\ Len(responses) \in Nat
        /\ Len(responses') = Len(responses) - 1
        /\ \A i \in 1..Len(responses') : responses'[i] = responses[i + 1]
    BY <1>t, <2>1, TailSeq
  <2> HIDE DEF r
  <2>3. CASE x = r.event
    BY <1>t, <2>1, <2>3 DEF Located
  <2>4. CASE x # r.event
    <3>1. ASSUME Answered(x) PROVE Answered(x)'
      <4>1. PICK i \in 1..Len(responses) : responses[i].event = x
        BY <3>1 DEF Answered
      <4>2. i # 1
        BY <2>2, <2>4, <4>1
      <4>3. i - 1 \in 1..Len(responses') /\ (i - 1) + 1 = i
        BY <2>2, <4>2
      <4>4. responses'[i - 1] = responses[i]
        BY <2>2, <4>3
      <4> QED BY <4>1, <4>3, <4>4 DEF Answered
    <3>2. stage'[x] = stage[x] /\ stage[x] # "post"
      BY <1>t, <1>l, <2>1, <2>4 DEF Located
    <3> QED BY <1>l, <1>p, <3>1, <3>2, SamePlaces, StaysLocated
  <2> QED BY <2>3, <2>4
<1>3. ASSUME NEW reply \in Replies, Write(reply) PROVE Located(x)'
  <2>1. stage' = stage /\ responses' = responses
    BY <1>3 DEF Write
  <2>2. post'.event = post.event
    <3>1. \/ post' = [post EXCEPT !.tries = @ + 1]
          \/ post' = [post EXCEPT !.left = @ - 1, !.tries = 0]
      BY <1>3 DEF Write
    <3> QED BY <1>t, <3>1 DEF PostState
  <2> QED BY <1>l, <1>p, <2>1, <2>2, SamePlaces, StaysLocated
<1>4. ASSUME NEW reply \in Replies, WriteThrows(reply) \/ Release PROVE Located(x)'
  <2>1. /\ responses' = responses /\ post.event # NoEvent
        /\ \E v \in {"lost", "done"} : stage' = [stage EXCEPT ![post.event] = v]
    BY <1>4 DEF WriteThrows, Release
  <2>2. CASE x = post.event
    BY <1>t, <2>1, <2>2 DEF Located
  <2>3. CASE x # post.event
    <3>1. stage'[x] = stage[x] /\ stage[x] # "post"
      BY <1>t, <1>l, <2>1, <2>3 DEF Located
    <3> QED BY <1>l, <1>p, <2>1, <3>1, SamePlaces, StaysLocated
  <2> QED BY <2>2, <2>3
<1>5. CASE Release
  <2>1. /\ responses' = responses /\ post.event # NoEvent
        /\ stage' = [stage EXCEPT ![post.event] = "done"]
    BY <1>5 DEF Release
  <2>2. CASE x = post.event
    BY <1>t, <2>1, <2>2 DEF Located
  <2>3. CASE x # post.event
    <3>1. stage'[x] = stage[x] /\ stage[x] # "post"
      BY <1>t, <1>l, <2>1, <2>3 DEF Located
    <3> QED BY <1>l, <1>p, <2>1, <3>1, SamePlaces, StaysLocated
  <2> QED BY <2>2, <2>3
<1> QED BY <1>1, <1>2, <1>3, <1>4, <1>5 DEF Postprocess

LEMMA LocatedNext == TypeOK /\ EventsLocated /\ [Next]_vars => EventsLocated'
<1> SUFFICES ASSUME TypeOK, EventsLocated, [Next]_vars PROVE EventsLocated'
  OBVIOUS
<1>t. stage \in [Ids -> Stages]
  BY DEF TypeOK
<1>1. ASSUME NEW n \in Nicks, NEW k \in Kinds, Receive(n, k) PROVE EventsLocated'
  <2> DEFINE id == Len(events) + 1
  <2>1. /\ stage' = [stage EXCEPT ![id] = "pre"] /\ pre.pc = "idle"
        /\ buffer' = buffer /\ hand' = hand /\ worker' = worker
        /\ responses' = responses /\ post' = post
    BY <1>1 DEF Receive
  <2>2. pre'.event = id /\ pre'.pc # "idle"
    BY <1>1 DEF Receive, PreIdle
  <2> HIDE DEF id
  <2> SUFFICES ASSUME NEW x \in Ids PROVE Located(x)'
    BY DEF EventsLocated
  <2>3. CASE x = id
    BY <1>t, <2>1, <2>2, <2>3 DEF Located
  <2>4. CASE x # id
    <3>1. Located(x) /\ stage'[x] = stage[x] /\ stage[x] # "pre"
      BY <1>t, <2>1, <2>4 DEF EventsLocated, Located
    <3> QED BY <2>1, <3>1, SamePlaces, StaysLocated
  <2> QED BY <2>3, <2>4
<1>2. ASSUME NEW n \in Nicks, ExpireLock(n) PROVE EventsLocated'
  BY <1>2 DEF ExpireLock, EventsLocated, Located, Buffered, Visited, Answered
<1>5. ASSUME NEW n \in Nicks, HourPasses(n) PROVE EventsLocated'
  BY <1>5 DEF HourPasses, EventsLocated, Located, Buffered, Visited, Answered
<1>3. CASE Restart
  <2>1. /\ \A x \in Ids : stage'[x] = AfterRestart(stage[x])
        /\ responses' = responses
    BY <1>3 DEF Restart
  <2>2. \A s : /\ AfterRestart(s) \notin {"pre", "buffered", "dispatch", "visit", "post"}
               /\ AfterRestart(s) = "responding" => s = "responding"
    BY DEF AfterRestart
  <2> QED BY <2>1, <2>2 DEF EventsLocated, Located, Answered
<1>4. CASE UNCHANGED vars
  BY <1>4 DEF vars, EventsLocated, Located, Buffered, Visited, Answered
<1> QED BY <1>1, <1>2, <1>3, <1>4, <1>5, LocatedPreprocess, LocatedScheduler, LocatedWork,
           LocatedPostprocess DEF Next

(* No event is mislaid: whatever fails, an event that has arrived and is   *)
(* neither done nor lost to one of the named failures is with the thread   *)
(* or in the queue from which the next step takes it.                      *)
THEOREM NoEventMislaid == Spec => []EventsLocated
<1>1. Init => EventsLocated
  BY DEF Init, EventsLocated, Located
<1> QED BY <1>1, LocatedNext, TypeCorrect, PTL DEF Spec
-----------------------------------------------------------------------------
(* The refinement: what the working and the finished requests of           *)
(* UserRequests become when an event leaves the pipeline.                  *)

LEMMA NothingHappens ==
    ASSUME \A id \in admitted : (InFlight(id)' <=> InFlight(id)) /\ Nick(id)' = Nick(id),
           admitted' = admitted
    PROVE  UNCHANGED Requests!vars
<1>1. working' = working
  BY DEF working
<1>2. finished' = finished
  BY DEF finished
<1> QED BY <1>1, <1>2 DEF Requests!vars

LEMMA Leaves ==
    ASSUME Inductive, Faults \cap Forgetful = {},
           events' = events, admitted' = admitted, NEW x \in Ids,
           stage[x] \in Pipeline, NEW v \in Stages, stage' = [stage EXCEPT ![x] = v]
    PROVE  [Requests!Next]_(Requests!vars)
<1>1. stage \in [Ids -> Stages] /\ admitted \subseteq Ids
  BY DEF Inductive, TypeOK
<1>2. \A id \in Ids : id # x => (InFlight(id)' <=> InFlight(id))
  BY <1>1 DEF InFlight, Pipeline, Stages
<1>3. InFlight(x)' <=> x \in admitted /\ v \in Pipeline
  BY <1>1 DEF InFlight, Pipeline, Stages
<1>4. \A id : Nick(id)' = Nick(id)
  BY SameEvents
<1>5. CASE x \in admitted /\ v \notin Pipeline
  <2> DEFINE n == Nick(x)
  <2>1. InFlight(x) /\ ~InFlight(x)'
    BY <1>3, <1>5 DEF InFlight
  <2>2. n \in Nicks
    BY <1>5, KnownNick DEF Inductive, Locking, Admission, TypeOK
  <2>3. \A id \in Ids : InFlight(id) /\ Nick(id) = n => id = x
    BY <2>1 DEF Inductive, Locking, FlightLocked, Holds
  <2> HIDE DEF n
  <2>4. working[n] = {x}
    BY <1>1, <1>5, <2>1, <2>2, <2>3 DEF working, n
  <2>5. working' = [working EXCEPT ![n] = {}]
    <3>1. working' = [m \in Nicks |-> {id \in admitted : InFlight(id)' /\ Nick(id) = m}]
      BY <1>4 DEF working
    <3>2. {id \in admitted : InFlight(id)' /\ Nick(id) = n} = {}
      BY <1>1, <1>2, <2>1, <2>3
    <3>3. ASSUME NEW m \in Nicks, m # n
          PROVE  {id \in admitted : InFlight(id)' /\ Nick(id) = m} = working[m]
      BY <1>1, <1>2, <2>1, <3>3 DEF working, n
    <3> QED BY <3>1, <3>2, <3>3 DEF working
  <2>6. finished' = finished \cup {x}
    BY <1>1, <1>2, <1>5, <2>1 DEF finished
  <2> QED BY <2>2, <2>4, <2>5, <2>6 DEF Requests!Next, Requests!End
<1>6. CASE ~(x \in admitted /\ v \notin Pipeline)
  <2>1. \A id \in admitted : InFlight(id)' <=> InFlight(id)
    BY <1>1, <1>2, <1>3, <1>6 DEF InFlight
  <2> QED BY <1>4, <2>1, NothingHappens
<1> QED BY <1>5, <1>6

LEMMA RefinesStep ==
    ASSUME Inductive, Faults \cap Forgetful = {}, [Next]_vars
    PROVE  [Requests!Next]_(Requests!vars)
<1>t. /\ stage \in [Ids -> Stages] /\ admitted \subseteq Ids
      /\ lock \in [Nicks -> Payload] /\ events \in Seq(Event)
  BY DEF Inductive, TypeOK
<1>1. CASE UNCHANGED <<events, stage, admitted>>
  BY <1>1, NothingHappens DEF InFlight, Nick
<1>2. ASSUME NEW n \in Nicks, NEW k \in Kinds, Receive(n, k)
      PROVE  UNCHANGED Requests!vars
  <2> DEFINE x == Len(events) + 1
  <2>1. /\ \A id \in admitted : id \in 1..Len(events) /\ id # x
        /\ admitted' = admitted /\ stage' = [stage EXCEPT ![x] = "pre"]
    BY <1>2, <1>t DEF Receive, Inductive, Locking, Admission
  <2>2. \A id \in 1..Len(events) : events'[id] = events[id]
    <3>1. [nick |-> n, kind |-> k] \in Event
      BY DEF Event
    <3> QED BY <1>2, <1>t, <3>1, AppendSeq DEF Receive
  <2> HIDE DEF x
  <2>3. \A id \in admitted : (InFlight(id)' <=> InFlight(id)) /\ Nick(id)' = Nick(id)
    BY <1>t, <2>1, <2>2 DEF InFlight, Nick
  <2> QED BY <2>1, <2>3, NothingHappens
<1>3. CASE TryEnter /\ ~Held(Nick(pre.event))
  <2>0. PICK id \in Ids : id = pre.event
    BY <1>3 DEF TryEnter, Inductive, TypeOK
  <2> DEFINE n == Nick(id)
  <2>1. /\ id \notin admitted /\ n \in Nicks /\ stage[id] = "pre"
        /\ admitted' = admitted \cup {id} /\ UNCHANGED <<events, stage>>
    BY <1>3, <2>0, KnownNick DEF TryEnter, Inductive, Locking, Admission, TypeOK, Placed, PrePlaced
  <2>2. \A e : Nick(e)' = Nick(e)
    BY <2>1, SameEvents
  <2>3. \A e \in admitted : InFlight(e)' <=> InFlight(e)
    BY <2>1 DEF InFlight
  <2>4. InFlight(id)' /\ ~InFlight(id)
    BY <2>1 DEF InFlight, Pipeline, Stages
  <2>5. \A e \in Ids : InFlight(e) => Nick(e) # n
    BY <1>3, <2>0 DEF Inductive, Locking, FlightLocked, Holds, Held, InFlight
  <2> HIDE DEF n
  <2>6. working[n] = {}
    BY <1>t, <2>1, <2>5 DEF working
  <2>7. id \notin finished /\ \A m \in Nicks : id \notin working[m]
    BY <2>1 DEF finished, working
  <2>8. working' = [working EXCEPT ![n] = {id}]
    <3>1. working' = [m \in Nicks |->
                        {e \in admitted \cup {id} : InFlight(e)' /\ Nick(e) = m}]
      BY <2>1, <2>2 DEF working
    <3>2. {e \in admitted \cup {id} : InFlight(e)' /\ Nick(e) = n} = {id}
      BY <1>t, <2>3, <2>4, <2>5 DEF n
    <3>3. ASSUME NEW m \in Nicks, m # n
          PROVE  {e \in admitted \cup {id} : InFlight(e)' /\ Nick(e) = m} = working[m]
      BY <2>3, <3>3 DEF working, n
    <3> QED BY <3>1, <3>2, <3>3 DEF working
  <2>9. finished' = finished
    BY <2>1, <2>3, <2>4 DEF finished
  <2> QED BY <2>1, <2>6, <2>7, <2>8, <2>9 DEF Requests!Next, Requests!Begin
<1>4. CASE TryEnter /\ Held(Nick(pre.event))
  BY <1>1, <1>4 DEF TryEnter
<1>5. CASE Release
  <2>1. /\ post.event \in Ids /\ stage[post.event] = "post"
        /\ "done" \in Stages /\ "post" \in Pipeline
    BY <1>5, PostFields DEF Release, Inductive, Placed, PostPlaced, TypeOK, Pipeline, Stages
  <2>2. /\ stage' = [stage EXCEPT ![post.event] = "done"]
        /\ events' = events /\ admitted' = admitted
    BY <1>5 DEF Release
  <2> QED BY <2>1, <2>2, Leaves
<1>6. CASE QuietMove
  <2>1. CASE stage' = stage
    BY <1>1, <1>6, <2>1 DEF QuietMove
  <2>2. ASSUME NEW x \in Ids, NEW v \in Pipeline \cup {"lost"},
               stage[x] \in Pipeline, stage' = [stage EXCEPT ![x] = v]
        PROVE  [Requests!Next]_(Requests!vars)
    <3>1. v \in Stages
      BY DEF Pipeline, Stages
    <3> QED BY <1>6, <2>2, <3>1, Leaves DEF QuietMove
  <2> QED BY <1>6, <2>1, <2>2 DEF QuietMove
<1> QED BY <1>1, <1>2, <1>3, <1>4, <1>5, <1>6, StepKinds
    DEF Inductive, Peek, SetWarningSent, ExpireLock, Restart, Forgetful

(* As long as the Bouncer forgets nothing, the pipeline implements         *)
(* UserRequests: requests of a user begin and end one after the other, and *)
(* no request is worked on twice.                                          *)
THEOREM Refinement ==
    ASSUME Faults \cap Forgetful = {}
    PROVE  Spec => ImplementsRequests
<1>1. Init => Requests!Init
  BY DEF Init, Requests!Init, working, finished, InFlight
<1>2. Inductive /\ [Next]_vars => [Requests!Next]_(Requests!vars)
  BY RefinesStep
<1> QED BY <1>1, <1>2, InductiveInvariant, PTL DEF Spec, ImplementsRequests, Requests!Spec
=============================================================================
