-------------------------- MODULE IrcWriter_proofs ---------------------------
(***************************************************************************)
(* Proofs about IrcWriter, for any number of calls and outages, any ping   *)
(* interval and any capacity of the channel for pongs.                     *)
(***************************************************************************)
EXTENDS IrcWriter, FiniteSetTheorems, TLAPS

USE WriterAssumption DEF WriterAssumption, NoCall

-----------------------------------------------------------------------------
(* The calls: a new message gets the next number, a retry keeps it.        *)

CallsOK ==
    /\ calls \in Seq(Call)
    /\ Len(calls) <= MaxCalls
    /\ \A i \in DOMAIN calls : calls[i].message <= i
    /\ \A i, k \in DOMAIN calls : i <= k => calls[i].message <= calls[k].message

\* How a step may change the calls.
CallsStep ==
    \/ calls' = calls
    \/ \E call \in Call :
        /\ Len(calls) < MaxCalls
        /\ calls' = Append(calls, call)
        /\ call.message <= Len(calls) + 1
        /\ \A i \in DOMAIN calls : calls[i].message <= call.message
    \/ \E i \in DOMAIN calls, v \in Verdicts :
        calls' = [calls EXCEPT ![i].verdict = v]

LEMMA CallTypes ==
    ASSUME CallsOK
    PROVE  /\ Len(calls) \in Nat /\ DOMAIN calls = 1..Len(calls)
           /\ \A i \in DOMAIN calls :
                 calls[i] \in Call /\ calls[i].message \in 1..MaxCalls
<1>1. calls \in Seq(Call) /\ Len(calls) \in Nat /\ DOMAIN calls = 1..Len(calls)
  BY DEF CallsOK
<1>2. \A i \in DOMAIN calls : calls[i] \in Call
  BY <1>1
<1>3. \A call \in Call : call.message \in 1..MaxCalls
  BY DEF Call, Ids
<1> QED
  BY <1>1, <1>2, <1>3

LEMMA CallsKept == CallsOK /\ CallsStep => CallsOK'
<1> SUFFICES ASSUME CallsOK, CallsStep PROVE CallsOK'
  OBVIOUS
<1> USE DEF CallsOK, Ids
<1>1. CASE calls' = calls
  BY <1>1
<1>2. ASSUME NEW call \in Call, Len(calls) < MaxCalls, calls' = Append(calls, call),
             call.message <= Len(calls) + 1,
             \A i \in DOMAIN calls : calls[i].message <= call.message
      PROVE  CallsOK'
  <2>1. call.message \in Nat /\ \A i \in DOMAIN calls : calls[i].message \in Nat
    BY CallTypes DEF Call
  <2>2. calls' \in Seq(Call) /\ Len(calls') = Len(calls) + 1
    BY <1>2
  <2>3. \A i \in DOMAIN calls' :
           \/ i \in DOMAIN calls /\ calls'[i] = calls[i]
           \/ i = Len(calls) + 1 /\ calls'[i] = call
    BY <1>2
  <2> QED
    BY <1>2, <2>1, <2>2, <2>3
<1>3. ASSUME NEW i \in DOMAIN calls, NEW v \in Verdicts,
             calls' = [calls EXCEPT ![i].verdict = v]
      PROVE  CallsOK'
  <2> DEFINE call == [calls[i] EXCEPT !.verdict = v]
  <2>1. call \in Call /\ call.message = calls[i].message
    BY CallTypes DEF Call
  <2>2. /\ calls' \in Seq(Call) /\ Len(calls') = Len(calls)
        /\ \A j \in DOMAIN calls : calls'[j] = IF j = i THEN call ELSE calls[j]
    BY <1>3, <2>1
  <2> HIDE DEF call
  <2>3. \A j \in DOMAIN calls : calls'[j].message = calls[j].message
    BY <2>1, <2>2
  <2>4. DOMAIN calls' = DOMAIN calls
    BY <2>2
  <2> QED
    BY <2>2, <2>3, <2>4
<1> QED
  BY <1>1, <1>2, <1>3 DEF CallsStep

LEMMA CallsStepped == CallsOK /\ replies \subseteq [call : Ids, result : Results]
                      /\ [Next]_vars => CallsStep
<1> SUFFICES ASSUME CallsOK, replies \subseteq [call : Ids, result : Results], [Next]_vars
             PROVE  CallsStep
  OBVIOUS
<1> USE DEF CallsStep
<1>1. CASE MakeCall
  <2> DEFINE m == IF calls = <<>> THEN 0 ELSE Last.message
  <2>1. PICK again \in BOOLEAN :
          /\ again => calls # <<>>
          /\ calls' = Append(calls, [message |-> IF again THEN m ELSE m + 1,
                                     verdict |-> "waiting"])
    BY <1>1 DEF MakeCall
  <2> DEFINE call == [message |-> IF again THEN m ELSE m + 1, verdict |-> "waiting"]
  <2>2. /\ m \in 0..Len(calls)
        /\ calls # <<>> => m >= 1
        /\ \A i \in DOMAIN calls : calls[i].message <= m
    BY CallTypes DEF CallsOK, Last
  <2>3. Len(calls) < MaxCalls /\ Len(calls) \in Nat
    BY <1>1 DEF MakeCall, CallsOK
  <2>4. call \in Call /\ call.message <= Len(calls) + 1 /\ call.message >= m
    BY <2>1, <2>2, <2>3 DEF Call, Ids, Verdicts
  <2>5. \A i \in DOMAIN calls : calls[i].message <= call.message
    BY <2>2, <2>4, <2>3, CallTypes
  <2> QED
    BY <2>1, <2>3, <2>4, <2>5
<1>2. ASSUME NEW r \in replies, Receive(r)
      PROVE  CallsStep
  <2>1. calls # <<>> => Len(calls) \in DOMAIN calls
    BY CallTypes DEF CallsOK
  <2>2. r.result \in Verdicts
    BY DEF Verdicts
  <2>3. \/ calls' = calls
        \/ /\ calls # <<>>
           /\ calls' = [calls EXCEPT ![Len(calls)].verdict = r.result]
    BY <1>2 DEF Receive, Waiting
  <2> QED
    BY <2>1, <2>2, <2>3
<1>3. CASE Timeout
  <2>1. calls # <<>> => Len(calls) \in DOMAIN calls
    BY CallTypes DEF CallsOK
  <2>2. "Timeout" \in Verdicts
    BY DEF Verdicts
  <2>3. calls # <<>> /\ calls' = [calls EXCEPT ![Len(calls)].verdict = "Timeout"]
    BY <1>3 DEF Timeout, Waiting
  <2> QED
    BY <2>1, <2>2, <2>3
<1>4. CASE Listen \/ Environment \/ UNCHANGED vars
  <2>1. calls' = calls
    BY <1>4 DEF Listen, TakeCall, TakeCallAndPing, ReadPong, PingTimeout, Respond, Ack,
       Environment, Deliver, Expire, Pong, NoPong, IrcLost, Connect, RabbitLost,
       DropConsumer, botVars, vars
  <2> QED
    BY <2>1
<1> QED
  BY <1>1, <1>2, <1>3, <1>4 DEF Next, Bot

-----------------------------------------------------------------------------
(* Types.                                                                  *)

IInv == TypeOK /\ CallsOK

LEMMA InitIInv == Init => IInv
<1>1. {} \in SUBSET (1..0) /\ Cardinality({}) = 0
  BY FS_EmptySet
<1> QED
  BY <1>1 DEF Init, IInv, TypeOK, CallsOK, Gone, Writer, Results, Ids, Call

\* What is left of TypeOK for the writer.
WriterOK ==
    /\ writer \in Writer
    /\ writer.phase \in {"ping", "respond", "ack"} <=> writer.call # NoCall

\* The writer after an attempt to send, and after a ping.
LEMMA AttemptTypes ==
    ASSUME NEW w \in Writer, NEW c \in Ids, NEW r \in Results,
           writer' = [w EXCEPT !.phase = "respond", !.call = c, !.result = r]
    PROVE  WriterOK' /\ writer'.call = c /\ writer'.result = r /\ writer'.phase = "respond"
<1>1. writer' = [phase |-> "respond", call |-> c, result |-> r, marker |-> w.marker]
  BY DEF Writer
<1>2. w.marker \in Nat /\ c # NoCall /\ c \in Ids \cup {NoCall}
  BY DEF Writer, Ids
<1>3. writer' \in Writer
  BY <1>1, <1>2 DEF Writer
<1> QED
  BY <1>1, <1>2, <1>3 DEF WriterOK

LEMMA PingTypes ==
    ASSUME NEW w \in Writer, NEW c \in Ids, NEW k \in Nat,
           writer' = [w EXCEPT !.phase = "ping", !.call = c, !.marker = k]
    PROVE  WriterOK' /\ writer'.call = c /\ writer'.marker = k /\ writer'.phase = "ping"
<1>1. writer' = [phase |-> "ping", call |-> c, result |-> w.result, marker |-> k]
  BY DEF Writer
<1>2. w.result \in Results /\ c # NoCall /\ c \in Ids \cup {NoCall}
  BY DEF Writer, Ids
<1>3. writer' \in Writer
  BY <1>1, <1>2 DEF Writer
<1> QED
  BY <1>1, <1>2, <1>3 DEF WriterOK

LEMMA SendTypes ==
    ASSUME IInv, NEW c \in Ids, Send(c)
    PROVE  WriterOK' /\ sent' \in Seq(Ids)
<1>1. writer \in Writer /\ sent \in Seq(Ids)
  BY DEF IInv, TypeOK
<1>2. sent' \in Seq(Ids)
  BY <1>1 DEF Send
<1>3. PICK r \in Results :
        writer' = [writer EXCEPT !.phase = "respond", !.call = c, !.result = r]
  BY DEF Send, Failed, Results
<1> QED
  BY <1>1, <1>2, <1>3, AttemptTypes

LEMMA SetTypes ==
    /\ Gone \in Writer /\ Listening \in Writer
    /\ Gone.call = NoCall /\ Gone.phase = "gone"
    /\ Listening.call = NoCall /\ Listening.phase = "next"
    /\ Gone.marker = 0 /\ Listening.marker = 0
BY DEF Gone, Listening, Writer, Results, Ids

\* Steps of a connection.
LEMMA DropTypes ==
    ASSUME IInv, DropConsumer
    PROVE  /\ WriterOK' /\ buffer' \subseteq Ids
           /\ replies' = replies /\ counter' = counter /\ pings' = pings
           /\ wire' = {} /\ pongs' = {} /\ heard' = heard /\ sent' = sent
           /\ Unacknowledged \subseteq Ids
BY SetTypes DEF IInv, TypeOK, DropConsumer, WriterOK, botVars, Unacknowledged, Writer

LEMMA PongsFinite == IInv => IsFiniteSet(pongs)
<1> SUFFICES ASSUME IInv PROVE IsFiniteSet(pongs)
  OBVIOUS
<1>1. pings \in Int /\ pongs \subseteq 1..pings
  BY DEF IInv, TypeOK
<1>2. IsFiniteSet(1..pings)
  BY <1>1, FS_Interval
<1> QED
  BY <1>1, <1>2, FS_Subset

LEMMA StepIInv == IInv /\ [Next]_vars => IInv'
<1> SUFFICES ASSUME IInv, [Next]_vars PROVE IInv'
  OBVIOUS
<1>0. CallsOK'
  BY CallsKept, CallsStepped DEF IInv, TypeOK
<1>1. calls' \in Seq(Call) /\ Len(calls') <= MaxCalls
  BY <1>0 DEF CallsOK
<1>T. WriterOK /\ writer.call \in Ids \cup {NoCall} /\ writer.marker \in Nat
  BY DEF IInv, TypeOK, WriterOK, Writer
<1>C. counter \in Nat /\ (counter + 1) % PingEvery \in 0..(PingEvery - 1)
  BY DEF IInv, TypeOK
<1>2. CASE MakeCall
  <2>1. Len(calls) + 1 \in Ids
    BY <1>2 DEF MakeCall, IInv, CallsOK, Ids
  <2> QED
    BY <1>0, <1>1, <1>2, <2>1 DEF IInv, TypeOK, MakeCall, pingVars
<1>3. ASSUME NEW r \in replies, Receive(r)
      PROVE  IInv'
  BY <1>0, <1>1, <1>3 DEF IInv, TypeOK, Receive, pingVars
<1>4. CASE Timeout
  BY <1>0, <1>1, <1>4 DEF IInv, TypeOK, Timeout, pingVars, rabbitVars
<1>5. ASSUME NEW c \in Ids, TakeCall(c)
      PROVE  IInv'
  BY <1>0, <1>1, <1>5, <1>C, SendTypes
     DEF IInv, TypeOK, TakeCall, WriterOK, botVars, rabbitVars
<1>6. ASSUME NEW c \in Ids, TakeCallAndPing(c)
      PROVE  IInv'
  <2>1. /\ counter' \in 0..(PingEvery - 1) /\ buffer' \subseteq Ids
        /\ queue' \subseteq Ids /\ held' \subseteq Ids
        /\ replies' = replies /\ sent' = sent /\ outages' = outages
        /\ requeued' = requeued /\ pongs' = pongs
    BY <1>6, <1>C DEF IInv, TypeOK, TakeCallAndPing, botVars, rabbitVars
  <2>2. pings' \in Nat /\ pings' >= pings /\ wire' \subseteq 1..pings'
    <3>1. pings \in Nat /\ wire \subseteq 1..pings
      BY DEF IInv, TypeOK
    <3>2. \/ pings' = pings + 1 /\ wire' = wire \cup {pings + 1}
          \/ pings' = pings /\ wire' = wire
      BY <1>6 DEF TakeCallAndPing
    <3>3. CASE pings' = pings + 1 /\ wire' = wire \cup {pings + 1}
      <4>1. \A p \in 1..pings : p \in 1..(pings + 1)
        BY <3>1
      <4>2. pings + 1 \in 1..(pings + 1)
        BY <3>1
      <4> QED
        BY <3>1, <3>3, <4>1, <4>2
    <3>4. CASE pings' = pings /\ wire' = wire
      BY <3>1, <3>4
    <3> QED
      BY <3>2, <3>3, <3>4
  <2>3. pongs' \subseteq 1..pings' /\ Cardinality(pongs') <= PongQueue
    BY <2>1, <2>2 DEF IInv, TypeOK
  <2>5. heard' \subseteq 1..pings'
    <3>1. heard' = {} \/ heard' = heard
      BY <1>6 DEF TakeCallAndPing
    <3>2. heard \subseteq 1..pings /\ pings \in Nat
      BY DEF IInv, TypeOK
    <3>3. \A p \in 1..pings : p \in 1..pings'
      BY <2>2, <3>2
    <3> QED
      BY <3>1, <3>2, <3>3
  <2>4. WriterOK'
    <3>1. writer \in Writer /\ pings + 1 \in Nat /\ Failed \in Results
      BY DEF IInv, TypeOK, Failed, Results
    <3>2. \/ writer' = [writer EXCEPT !.phase = "ping", !.call = c, !.marker = pings + 1]
          \/ writer' = [writer EXCEPT !.phase = "respond", !.call = c, !.result = Failed]
      BY <1>6 DEF TakeCallAndPing
    <3> QED
      BY <3>1, <3>2, AttemptTypes, PingTypes
  <2> QED
    BY <1>0, <1>1, <2>1, <2>2, <2>3, <2>4, <2>5 DEF IInv, TypeOK, WriterOK
<1>7. ASSUME NEW p \in pongs, ReadPong(p)
      PROVE  IInv'
  <2>1. pongs' \subseteq pongs /\ IsFiniteSet(pongs)
    BY <1>7, PongsFinite DEF ReadPong
  <2>2. Cardinality(pongs') <= Cardinality(pongs) /\ Cardinality(pongs') \in Nat
        /\ Cardinality(pongs) \in Nat
    BY <2>1, FS_Subset, FS_CardinalityType
  <2>3. writer.call \in Ids
    BY <1>7, <1>T DEF ReadPong, WriterOK
  <2>4. WriterOK' /\ sent' \in Seq(Ids)
    BY <1>7, <1>T, <2>3, SendTypes DEF ReadPong, WriterOK, IInv, TypeOK
  <2> QED
    BY <1>0, <1>1, <1>7, <2>1, <2>2, <2>4
       DEF IInv, TypeOK, ReadPong, WriterOK, botVars, rabbitVars
<1>8. CASE PingTimeout \/ Ack
  <2>1. WriterOK'
    BY <1>8, <1>T, SetTypes DEF PingTimeout, Ack, WriterOK, Writer, Results
  <2> QED
    BY <1>0, <1>1, <1>8, <2>1
       DEF IInv, TypeOK, PingTimeout, Ack, WriterOK, pingVars, botVars, rabbitVars
<1>9. CASE Respond
  <2>1. WriterOK' /\ replies' \subseteq [call : Ids, result : Results]
    <3>1. writer \in Writer /\ writer.call \in Ids /\ writer.result \in Results
          /\ replies \subseteq [call : Ids, result : Results]
      BY <1>9, <1>T DEF IInv, TypeOK, Respond, WriterOK, Writer
    <3>2. writer' = [writer EXCEPT !.phase = "ack"]
          /\ replies' = replies \cup {[call |-> writer.call, result |-> writer.result]}
      BY <1>9 DEF Respond
    <3>3. writer' \in Writer /\ writer'.phase = "ack" /\ writer'.call # NoCall
      BY <3>1, <3>2 DEF Writer, Ids
    <3> QED
      BY <3>1, <3>2, <3>3 DEF WriterOK
  <2> QED
    BY <1>0, <1>1, <1>9, <2>1 DEF IInv, TypeOK, Respond, WriterOK, pingVars, rabbitVars
<1>10. ASSUME NEW c \in Ids, Deliver(c) \/ Expire(c)
       PROVE  IInv'
  BY <1>0, <1>1, <1>10 DEF IInv, TypeOK, Deliver, Expire, pingVars, botVars
<1>11. ASSUME NEW p \in wire, Pong(p) \/ NoPong(p)
       PROVE  IInv'
  <2>1. p \in 1..pings /\ wire' \subseteq 1..pings /\ pings' = pings
    BY <1>11 DEF Pong, NoPong, IInv, TypeOK
  <2>2. IsFiniteSet(pongs) /\ Cardinality(pongs) \in Nat
    BY PongsFinite, FS_CardinalityType
  <2>3. pongs' \subseteq 1..pings /\ Cardinality(pongs') <= PongQueue
    <3>1. CASE pongs' = pongs
      BY <3>1 DEF IInv, TypeOK
    <3>2. CASE pongs' = pongs \cup {p} /\ Cardinality(pongs) < PongQueue
      <4>1. Cardinality(pongs') <= Cardinality(pongs) + 1
        BY <2>2, <3>2, FS_AddElement
      <4>2. Cardinality(pongs') \in Nat
        BY <2>2, <3>2, FS_AddElement, FS_CardinalityType
      <4> QED
        BY <2>1, <2>2, <3>2, <4>1, <4>2 DEF IInv, TypeOK
    <3> QED
      BY <1>11, <3>1, <3>2 DEF Pong, NoPong, HasSpace
  <2>4. heard' \subseteq 1..pings
    BY <1>11, <2>1 DEF Pong, NoPong, IInv, TypeOK
  <2>5. /\ UNCHANGED <<calls, replies, queue, held, outages, requeued, buffer, writer>>
        /\ UNCHANGED <<counter, pings, sent>>
    BY <1>11 DEF Pong, NoPong, botVars, rabbitVars
  <2> QED
    BY <1>0, <2>1, <2>3, <2>4, <2>5 DEF IInv, TypeOK, CallsOK
<1>12. CASE IrcLost
  <2>1. Cardinality(pongs') <= PongQueue
    <3>1. pongs' = {}
      BY <1>12, DropTypes DEF IrcLost
    <3> QED
      BY <3>1, FS_EmptySet
  <2>2. /\ WriterOK' /\ buffer' \subseteq Ids /\ held' \subseteq Ids
        /\ UNCHANGED <<replies, counter, pings, heard, sent>>
        /\ wire' = {} /\ pongs' = {}
    BY <1>12, DropTypes DEF IrcLost
  <2>3. UNCHANGED <<queue, outages, requeued>>
    BY <1>12 DEF IrcLost
  <2> QED
    BY <1>0, <1>1, <2>1, <2>2, <2>3 DEF IInv, TypeOK, WriterOK
<1>13. CASE Connect
  <2>1. WriterOK' /\ counter' \in 0..(PingEvery - 1)
    BY <1>13, SetTypes DEF Connect, WriterOK
  <2>2. UNCHANGED <<botVars, rabbitVars, buffer, pings, wire, pongs, heard, sent>>
    BY <1>13 DEF Connect
  <2> QED
    BY <1>0, <1>1, <2>1, <2>2 DEF IInv, TypeOK, WriterOK, botVars, rabbitVars
<1>14. CASE RabbitLost
  <2> DEFINE back == {c \in Unacknowledged : calls[c].verdict # "Timeout"}
             returned(m) == {c \in back : Message(c) = m}
  <2>1. Unacknowledged \subseteq Ids /\ IsFiniteSet(Ids)
    BY <1>14, DropTypes, FS_Interval DEF RabbitLost, Ids
  <2>2. \A m \in Ids : Cardinality(returned(m)) \in Nat
    BY <2>1, FS_Subset, FS_CardinalityType
  <2>3. requeued' = [m \in Ids |-> requeued[m] + Cardinality(returned(m))]
    BY <1>14 DEF RabbitLost
  <2>4. requeued' \in [Ids -> Nat]
    <3>1. requeued \in [Ids -> Nat]
      BY DEF IInv, TypeOK
    <3> HIDE DEF returned
    <3>2. \A m \in Ids : requeued[m] + Cardinality(returned(m)) \in Nat
      BY <2>2, <3>1
    <3> QED
      BY <2>3, <3>2
  <2>5. queue' \subseteq Ids /\ held' \subseteq Ids /\ outages' \in 0..MaxOutages
    <3>1. queue \subseteq Ids /\ outages \in 0..MaxOutages
      BY DEF IInv, TypeOK
    <3> QED
      BY <1>14, <2>1, <3>1 DEF RabbitLost
  <2>6. Cardinality(pongs') <= PongQueue
    <3>1. pongs' = {}
      BY <1>14, DropTypes DEF RabbitLost
    <3> QED
      BY <3>1, FS_EmptySet
  <2>7. /\ WriterOK' /\ buffer' \subseteq Ids
        /\ UNCHANGED <<replies, counter, pings, heard, sent>>
        /\ wire' = {} /\ pongs' = {}
    BY <1>14, DropTypes DEF RabbitLost
  <2> QED
    BY <1>0, <1>1, <2>4, <2>5, <2>6, <2>7 DEF IInv, TypeOK, WriterOK
<1>15. CASE UNCHANGED vars
  BY <1>0, <1>15 DEF IInv, TypeOK, vars, pingVars, rabbitVars, botVars
<1> QED
  BY <1>2, <1>3, <1>4, <1>5, <1>6, <1>7, <1>8, <1>9, <1>10, <1>11, <1>12, <1>13, <1>14, <1>15
     DEF Next, Bot, Listen, Environment

LEMMA Invariant == Spec => []IInv
<1>1. Init => IInv
  BY InitIInv
<1>2. IInv /\ [Next]_vars => IInv'
  BY StepIInv
<1> QED
  BY <1>1, <1>2, PTL DEF Spec

(* TypeCorrect: no queue or channel exceeds its bound, and the task that   *)
(* writes holds a call exactly while it works on one.                      *)
THEOREM TypeCorrect == Spec => []TypeOK
<1>1. IInv => TypeOK
  BY DEF IInv
<1> QED
  BY <1>1, Invariant, PTL

-----------------------------------------------------------------------------
(* What the bot is told.                                                   *)

WasSent(c) == \E k \in DOMAIN sent : sent[k] = c

\* An "Ok" is told of calls that were sent only, from the writer to the verdict.
Truthful ==
    /\ writer.phase = "respond" /\ writer.result = "Ok" => WasSent(writer.call)
    /\ \A r \in replies : r.result = "Ok" => WasSent(r.call)
    /\ OkMeansSent

LEMMA SentKept ==
    ASSUME IInv, NEW c \in Ids, sent' = Append(sent, c)
    PROVE  WasSent(c)' /\ \A d \in Ids : WasSent(d) => WasSent(d)'
<1>1. sent \in Seq(Ids) /\ Len(sent) \in Nat /\ DOMAIN sent = 1..Len(sent)
  BY DEF IInv, TypeOK
<1>2. DOMAIN sent' = 1..(Len(sent) + 1) /\ sent'[Len(sent) + 1] = c
      /\ \A k \in DOMAIN sent : k \in DOMAIN sent' /\ sent'[k] = sent[k]
  BY <1>1
<1> QED
  BY <1>1, <1>2 DEF WasSent

\* Steps that hand nothing to the IRC client.
LEMMA SentSame == ASSUME sent' = sent PROVE \A c \in Ids : WasSent(c)' <=> WasSent(c)
BY DEF WasSent

\* An attempt to send a call keeps everything truthful.
LEMMA SendTruthful ==
    ASSUME IInv, Truthful, NEW c \in Ids, Send(c), UNCHANGED botVars
    PROVE  Truthful'
<1>1. /\ calls' = calls /\ replies' = replies
      /\ \A r \in replies : r.call \in Ids
      /\ \A d \in DOMAIN calls : d \in Ids
  BY CallTypes DEF botVars, IInv, TypeOK, Ids
<1>2. writer \in Writer /\ Failed \in Results /\ "Ok" \in Results /\ Failed # "Ok"
  BY DEF IInv, TypeOK, Failed, Results
<1>3. CASE sent' = Append(sent, c)
           /\ writer' = [writer EXCEPT !.phase = "respond", !.call = c, !.result = "Ok"]
  <2>1. writer'.call = c
    BY <1>2, <1>3, AttemptTypes
  <2>2. WasSent(c)' /\ \A d \in Ids : WasSent(d) => WasSent(d)'
    BY <1>3, SentKept
  <2> QED
    BY <1>1, <2>1, <2>2 DEF Truthful, OkMeansSent, WasSent
<1>4. CASE sent' = sent
           /\ writer' = [writer EXCEPT !.phase = "respond", !.call = c, !.result = Failed]
  <2>1. writer'.result # "Ok"
    BY <1>2, <1>4, AttemptTypes
  <2> QED
    BY <1>1, <1>4, <2>1, SentSame DEF Truthful, OkMeansSent, WasSent
<1> QED
  BY <1>3, <1>4 DEF Send

LEMMA StepTruthful == IInv /\ Truthful /\ [Next]_vars => Truthful'
<1> SUFFICES ASSUME IInv, Truthful, [Next]_vars PROVE Truthful'
  OBVIOUS
<1>T. /\ calls \in Seq(Call) /\ Len(calls) \in Nat /\ DOMAIN calls = 1..Len(calls)
      /\ writer \in Writer
  BY CallTypes DEF IInv, TypeOK
<1>1. CASE MakeCall
  <2>1. PICK call \in [message : Int, verdict : {"waiting"}] : calls' = Append(calls, call)
    <3>1. calls # <<>> => Last.message \in Int
      BY CallTypes DEF IInv, CallsOK, Last
    <3> QED
      BY <1>1, <3>1 DEF MakeCall
  <2>2. DOMAIN calls' = 1..(Len(calls) + 1) /\ calls'[Len(calls) + 1].verdict = "waiting"
        /\ \A c \in DOMAIN calls : calls'[c] = calls[c]
    BY <1>T, <2>1
  <2>3. writer' = writer /\ replies' = replies /\ sent' = sent
    BY <1>1 DEF MakeCall
  <2> QED
    BY <1>T, <2>2, <2>3 DEF Truthful, OkMeansSent, WasSent
<1>2. ASSUME NEW r \in replies, Receive(r)
      PROVE  Truthful'
  <2>1. writer' = writer /\ replies' \subseteq replies /\ sent' = sent
    BY <1>2 DEF Receive
  <2>2. DOMAIN calls' = DOMAIN calls
        /\ \A c \in DOMAIN calls :
              \/ calls'[c].verdict = calls[c].verdict
              \/ c = r.call /\ calls'[c].verdict = r.result
    BY <1>2, <1>T DEF Receive, Waiting, Call
  <2> QED
    BY <2>1, <2>2 DEF Truthful, OkMeansSent, WasSent
<1>3. CASE Timeout
  <2>1. writer' = writer /\ replies' = replies /\ sent' = sent
    BY <1>3 DEF Timeout
  <2>2. DOMAIN calls' = DOMAIN calls
        /\ \A c \in DOMAIN calls :
              \/ calls'[c].verdict = calls[c].verdict
              \/ calls'[c].verdict = "Timeout"
    BY <1>3, <1>T DEF Timeout, Call
  <2> QED
    BY <2>1, <2>2 DEF Truthful, OkMeansSent, WasSent
<1>4. ASSUME NEW c \in Ids, TakeCall(c)
      PROVE  Truthful'
  BY <1>4, SendTruthful DEF TakeCall
<1>5. ASSUME NEW c \in Ids, TakeCallAndPing(c)
      PROVE  Truthful'
  <2>1. calls' = calls /\ replies' = replies /\ sent' = sent
    BY <1>5 DEF TakeCallAndPing, botVars
  <2>2. writer'.phase = "ping" \/ writer'.result # "Ok"
    <3>1. pings + 1 \in Nat /\ Failed \in Results /\ Failed # "Ok"
      BY DEF IInv, TypeOK, Failed, Results
    <3>2. \/ writer' = [writer EXCEPT !.phase = "ping", !.call = c, !.marker = pings + 1]
          \/ writer' = [writer EXCEPT !.phase = "respond", !.call = c, !.result = Failed]
      BY <1>5 DEF TakeCallAndPing
    <3> QED
      BY <1>T, <3>1, <3>2, AttemptTypes, PingTypes
  <2> QED
    BY <2>1, <2>2 DEF Truthful, OkMeansSent, WasSent
<1>6. ASSUME NEW p \in pongs, ReadPong(p)
      PROVE  Truthful'
  <2>1. UNCHANGED botVars
    BY <1>6 DEF ReadPong
  <2>2. CASE Send(writer.call)
    <3>1. writer.call \in Ids
      BY <1>6 DEF ReadPong, IInv, TypeOK, Writer
    <3> QED
      BY <2>1, <2>2, <3>1, SendTruthful
  <2>3. CASE UNCHANGED <<writer, sent>>
    BY <2>1, <2>3 DEF Truthful, OkMeansSent, WasSent, botVars
  <2> QED
    BY <1>6, <2>2, <2>3 DEF ReadPong
<1>7. CASE PingTimeout
  <2>0. writer' = [writer EXCEPT !.phase = "respond", !.result = "PingDeath"]
        /\ calls' = calls /\ replies' = replies /\ sent' = sent
    BY <1>7 DEF PingTimeout, botVars
  <2>1. writer'.result = "PingDeath"
    BY <1>T, <2>0 DEF Writer
  <2> QED
    BY <2>0, <2>1 DEF Truthful, OkMeansSent, WasSent
<1>8. CASE Respond
  <2>1. writer'.phase = "ack" /\ calls' = calls /\ sent' = sent
        /\ replies' = replies \cup {[call |-> writer.call, result |-> writer.result]}
        /\ writer.phase = "respond"
    BY <1>8, <1>T DEF Respond, Writer
  <2> QED
    BY <2>1 DEF Truthful, OkMeansSent, WasSent
<1>9. CASE Ack \/ Connect \/ IrcLost \/ RabbitLost
  <2>1. writer'.phase \in {"next", "gone"}
    BY <1>9, SetTypes DEF Ack, Connect, IrcLost, RabbitLost, DropConsumer
  <2>2. calls' = calls /\ replies' = replies /\ sent' = sent
    BY <1>9 DEF Ack, Connect, IrcLost, RabbitLost, DropConsumer, botVars
  <2> QED
    BY <2>1, <2>2 DEF Truthful, OkMeansSent, WasSent
<1>10. CASE \/ \E c \in Ids : Deliver(c) \/ Expire(c)
            \/ \E p \in wire : Pong(p) \/ NoPong(p)
            \/ UNCHANGED vars
  <2>1. calls' = calls /\ replies' = replies /\ sent' = sent /\ writer' = writer
    BY <1>10 DEF Deliver, Expire, Pong, NoPong, vars, botVars
  <2> QED
    BY <2>1 DEF Truthful, OkMeansSent, WasSent
<1> QED
  BY <1>1, <1>2, <1>3, <1>4, <1>5, <1>6, <1>7, <1>8, <1>9, <1>10
     DEF Next, Bot, Listen, Environment

(* OkIsTrue: the bot records only such messages as sent that were handed   *)
(* to the IRC client, whatever connections are lost.                       *)
THEOREM OkIsTrue == Spec => []OkMeansSent
<1>1. Init => Truthful
  BY DEF Init, Truthful, OkMeansSent, Gone
<1>2. IInv /\ Truthful /\ [Next]_vars => Truthful'
  BY StepTruthful
<1>3. Truthful => OkMeansSent
  BY DEF Truthful
<1> QED
  BY <1>1, <1>2, <1>3, Invariant, PTL DEF Spec

-----------------------------------------------------------------------------
(* Pings.                                                                  *)

\* A pong in the channel that the writer waits for has entered it since the ping:
\* markers are not used twice.
PongsHeard == writer.phase = "ping" /\ writer.marker \in pongs => writer.marker \in heard

LEMMA StepHeard == IInv /\ PongsHeard /\ [Next]_vars => PongsHeard'
<1> SUFFICES ASSUME IInv, PongsHeard, [Next]_vars PROVE PongsHeard'
  OBVIOUS
<1> USE DEF PongsHeard
<1>T. pings \in Nat /\ wire \subseteq 1..pings /\ pongs \subseteq 1..pings /\ writer \in Writer
  BY DEF IInv, TypeOK
<1>1. CASE Bot
  <2>1. UNCHANGED <<writer, pongs, heard>>
    BY <1>1 DEF Bot, MakeCall, Receive, Timeout, pingVars
  <2> QED
    BY <2>1
<1>2. ASSUME NEW c \in Ids, TakeCall(c)
      PROVE  PongsHeard'
  <2>1. writer'.phase = "respond"
    BY <1>2, <1>T, SendTypes DEF TakeCall, Send, Writer
  <2> QED
    BY <2>1
<1>3. ASSUME NEW c \in Ids, TakeCallAndPing(c)
      PROVE  PongsHeard'
  <2>1. CASE writer' = [writer EXCEPT !.phase = "respond", !.call = c, !.result = Failed]
    <3>1. writer'.phase = "respond"
      BY <1>T, <2>1 DEF Writer
    <3> QED
      BY <3>1
  <2>2. CASE writer' = [writer EXCEPT !.phase = "ping", !.call = c, !.marker = pings + 1]
    <3>1. writer'.marker = pings + 1 /\ pongs' = pongs
      BY <1>3, <1>T, <2>2 DEF TakeCallAndPing, Writer
    <3>2. pings + 1 \notin pongs
      BY <1>T
    <3> QED
      BY <3>1, <3>2
  <2> QED
    BY <1>3, <2>1, <2>2 DEF TakeCallAndPing
<1>4. ASSUME NEW p \in pongs, ReadPong(p)
      PROVE  PongsHeard'
  <2>1. CASE writer' = writer
    BY <1>4, <2>1 DEF ReadPong
  <2>2. CASE writer'.phase = "respond"
    BY <2>2
  <2> QED
    BY <1>4, <1>T, <2>1, <2>2 DEF ReadPong, Send, Writer
<1>5. CASE PingTimeout \/ Respond \/ Ack \/ Connect
  <2>1. writer'.phase # "ping"
    BY <1>5, <1>T, SetTypes DEF PingTimeout, Respond, Ack, Connect, Writer
  <2> QED
    BY <2>1
<1>9. CASE UNCHANGED vars
  BY <1>9 DEF vars
<1>6. ASSUME NEW c \in Ids, Deliver(c) \/ Expire(c)
      PROVE  PongsHeard'
  BY <1>6 DEF Deliver, Expire, pingVars
<1>7. ASSUME NEW p \in wire, Pong(p) \/ NoPong(p)
      PROVE  PongsHeard'
  BY <1>7 DEF Pong, NoPong
<1>8. CASE IrcLost \/ RabbitLost
  BY <1>8 DEF IrcLost, RabbitLost, DropConsumer
<1> QED
  BY <1>1, <1>2, <1>3, <1>4, <1>5, <1>6, <1>7, <1>8, <1>9 DEF Next, Listen, Environment

\* How the wait for a pong ends.
WaitEnds ==
    writer.phase = "ping" /\ writer'.phase # "ping"
        => \/ writer.marker \in heard
           \/ /\ sent' = sent
              /\ writer'.phase = "gone" \/ writer'.result = "PingDeath"

LEMMA StepWait == IInv /\ PongsHeard /\ [Next]_vars => WaitEnds
<1> SUFFICES ASSUME IInv, PongsHeard, [Next]_vars,
                    writer.phase = "ping", writer'.phase # "ping"
             PROVE  \/ writer.marker \in heard
                    \/ /\ sent' = sent
                       /\ writer'.phase = "gone" \/ writer'.result = "PingDeath"
  BY DEF WaitEnds
<1>1. CASE PingTimeout
  BY <1>1 DEF PingTimeout, IInv, TypeOK, Writer
<1>2. CASE IrcLost \/ RabbitLost
  BY <1>2 DEF IrcLost, RabbitLost, DropConsumer, Gone
<1>3. ASSUME NEW p \in pongs, ReadPong(p)
      PROVE  writer.marker \in heard
  BY <1>3 DEF ReadPong, Matches, PongsHeard
<1> QED
  BY <1>1, <1>2, <1>3
     DEF Next, Bot, MakeCall, Receive, Timeout, Listen, TakeCall, TakeCallAndPing,
         Respond, Ack, Environment, Deliver, Expire, Pong, NoPong, Connect, vars

(* PingsAreAnswered: a call for which a ping is due is sent only after the *)
(* server has answered this very ping and the answer has entered the       *)
(* channel; without it the wait ends in a PingDeath or with the connection. *)
THEOREM PingsAreAnswered == Spec => PingAnswered
<1>1. Init => PongsHeard
  BY DEF Init, PongsHeard
<1>2. IInv /\ PongsHeard /\ [Next]_vars => PongsHeard'
  BY StepHeard
<1>3. IInv /\ PongsHeard /\ [Next]_vars
        => [writer.phase = "ping" /\ writer'.phase # "ping"
                => \/ writer.marker \in heard
                   \/ /\ sent' = sent
                      /\ writer'.phase = "gone" \/ writer'.result = "PingDeath"]_vars
  BY StepWait DEF WaitEnds
<1> QED
  BY <1>1, <1>2, <1>3, Invariant, PTL DEF Spec, PingAnswered

-----------------------------------------------------------------------------
(* Order.  A call moves from the queue to the buffer, to the writer and to *)
(* the IRC client, and everything behind it came later.                    *)

AtWriter(c) == writer.phase = "ping" /\ c = writer.call
Behind(c) == c \in queue \/ c \in buffer
Ordered ==
    /\ \A k \in DOMAIN sent : sent[k] \in DOMAIN calls
    /\ \A c \in Ids : AtWriter(c) \/ Behind(c) =>
          c \in DOMAIN calls /\ \A k \in DOMAIN sent : sent[k] < c
    /\ \A c \in buffer, d \in queue : c < d
    /\ \A c, d \in Ids : AtWriter(c) /\ Behind(d) => c < d
    /\ \A i, k \in DOMAIN sent : i <= k => sent[i] <= sent[k]

LEMMA OrderedInit == Init => Ordered
BY DEF Init, Ordered, AtWriter, Behind, Gone

\* A call that is next is sent, or given up.
LEMMA SendOrdered ==
    ASSUME IInv, Ordered, NEW c \in Ids, Send(c), UNCHANGED calls,
           c \in DOMAIN calls, \A k \in DOMAIN sent : sent[k] < c,
           queue' = queue, buffer' \subseteq buffer,
           \A d \in Ids : d \in queue' \/ d \in buffer' => c < d
    PROVE  Ordered'
<1>1. /\ sent \in Seq(Ids) /\ Len(sent) \in Nat /\ DOMAIN sent = 1..Len(sent)
      /\ writer \in Writer /\ Failed \in Results /\ "Ok" \in Results
      /\ buffer \subseteq Ids /\ queue \subseteq Ids
  BY DEF IInv, TypeOK, Failed, Results
<1>2. writer'.phase = "respond"
  BY <1>1, AttemptTypes DEF Send
<1>3. \A d \in Ids : ~AtWriter(d)' /\ (Behind(d)' => Behind(d))
  BY <1>2 DEF AtWriter, Behind
<1>4. CASE sent' = sent
  BY <1>3, <1>4 DEF Ordered
<1>5. CASE sent' = Append(sent, c)
  <2>1. DOMAIN sent' = 1..(Len(sent) + 1) /\ sent'[Len(sent) + 1] = c
        /\ \A k \in DOMAIN sent : sent'[k] = sent[k] /\ sent[k] \in Ids
    BY <1>1, <1>5
  <2>2. \A k \in DOMAIN sent' :
           \/ k \in DOMAIN sent /\ sent'[k] = sent[k]
           \/ k = Len(sent) + 1 /\ sent'[k] = c
    BY <1>1, <2>1
  <2>3. \A k \in DOMAIN sent' : sent'[k] \in DOMAIN calls'
    BY <2>2 DEF Ordered
  <2>4. \A d \in Ids : AtWriter(d)' \/ Behind(d)' =>
           d \in DOMAIN calls' /\ \A k \in DOMAIN sent' : sent'[k] < d
    BY <1>3, <2>2 DEF Ordered, Behind
  <2>5. \A i, k \in DOMAIN sent' : i <= k => sent'[i] <= sent'[k]
    <3>1. ASSUME NEW i \in DOMAIN sent', NEW k \in DOMAIN sent', i <= k
          PROVE  sent'[i] <= sent'[k]
      <4>1. CASE k \in DOMAIN sent
        BY <1>1, <2>1, <3>1, <4>1 DEF Ordered
      <4>2. CASE k = Len(sent) + 1 /\ sent'[k] = c
        BY <1>1, <2>1, <2>2, <3>1, <4>2 DEF Ordered, Ids
      <4> QED
        BY <2>2, <4>1, <4>2
    <3> QED
      BY <3>1
  <2>6. \A d \in buffer', e \in queue' : d < e
    BY DEF Ordered
  <2> QED
    BY <1>3, <2>3, <2>4, <2>5, <2>6 DEF Ordered
<1> QED
  BY <1>4, <1>5 DEF Send

LEMMA StepOutages ==
    IInv /\ [Next]_vars /\ outages' = 0 => outages = 0 /\ ~RabbitLost
<1> SUFFICES ASSUME IInv, [Next]_vars PROVE outages' = 0 => outages = 0 /\ ~RabbitLost
  OBVIOUS
<1>1. outages \in Nat
  BY DEF IInv, TypeOK
<1>2. CASE RabbitLost
  BY <1>1, <1>2 DEF RabbitLost
<1>3. CASE ~RabbitLost
  BY <1>3 DEF Next, Bot, MakeCall, Receive, Timeout, Listen, TakeCall, TakeCallAndPing,
     ReadPong, PingTimeout, Respond, Ack, Environment, Deliver, Expire, Pong, NoPong,
     IrcLost, Connect, vars, rabbitVars
<1> QED
  BY <1>2, <1>3

LEMMA StepOrdered ==
    IInv /\ (outages = 0 => Ordered) /\ [Next]_vars => (outages' = 0 => Ordered')
<1> SUFFICES ASSUME IInv, Ordered, [Next]_vars, ~RabbitLost
             PROVE  Ordered'
  BY StepOutages
<1>T. /\ Len(calls) \in Nat /\ DOMAIN calls = 1..Len(calls) /\ writer \in Writer
      /\ sent \in Seq(Ids) /\ DOMAIN sent = 1..Len(sent)
      /\ buffer \subseteq Ids /\ queue \subseteq Ids /\ Ids = 1..MaxCalls
  BY CallTypes DEF IInv, TypeOK, Ids
<1>1. CASE MakeCall
  <2>1. /\ DOMAIN calls' = 1..(Len(calls) + 1)
        /\ queue' = queue \cup {Len(calls) + 1}
        /\ buffer' = buffer /\ writer' = writer /\ sent' = sent
    BY <1>1, <1>T DEF MakeCall, IInv, CallsOK
  <2>2. \A c \in Ids : AtWriter(c)' <=> AtWriter(c)
    BY <2>1 DEF AtWriter
  <2>3. \A c \in Ids : Behind(c)' => Behind(c) \/ c = Len(calls) + 1
    BY <2>1 DEF Behind
  <2>4. \A c \in Ids : AtWriter(c) \/ Behind(c) => c \in 1..Len(calls)
    BY <1>T DEF Ordered
  <2>5. \A c \in buffer' : c \in 1..Len(calls)
    BY <1>T, <2>1, <2>4 DEF Behind
  <2>6. \A c \in buffer', d \in queue' : c < d
    BY <1>T, <2>1, <2>5 DEF Ordered
  <2>7. \A k \in DOMAIN sent : sent[k] \in 1..Len(calls)
    BY <1>T DEF Ordered
  <2>8. \A c \in Ids : AtWriter(c)' \/ Behind(c)' =>
           c \in DOMAIN calls' /\ \A k \in DOMAIN sent' : sent'[k] < c
    BY <1>T, <2>1, <2>2, <2>3, <2>4, <2>7 DEF Ordered
  <2>9. \A c, d \in Ids : AtWriter(c)' /\ Behind(d)' => c < d
    BY <1>T, <2>2, <2>3, <2>4 DEF Ordered
  <2> QED
    BY <1>T, <2>1, <2>6, <2>7, <2>8, <2>9 DEF Ordered
<1>2. ASSUME NEW c \in Ids, TakeCall(c)
      PROVE  Ordered'
  <2>1. /\ c \in buffer /\ buffer' = buffer \ {c} /\ queue' = queue
        /\ calls' = calls /\ Send(c)
        /\ \A d \in buffer : c <= d
    BY <1>2 DEF TakeCall, Taken, First, botVars, rabbitVars
  <2>2. \A d \in Ids : d \in queue' \/ d \in buffer' => c < d
    BY <1>T, <2>1 DEF Ordered
  <2>3. c \in DOMAIN calls /\ \A k \in DOMAIN sent : sent[k] < c
    BY <2>1 DEF Ordered, Behind
  <2> QED
    BY <2>1, <2>2, <2>3, SendOrdered
<1>3. ASSUME NEW c \in Ids, TakeCallAndPing(c)
      PROVE  Ordered'
  <2>1. /\ c \in buffer /\ buffer' = buffer \ {c} /\ queue' = queue
        /\ calls' = calls /\ sent' = sent
        /\ \A d \in buffer : c <= d
    BY <1>3 DEF TakeCallAndPing, Taken, First, botVars, rabbitVars
  <2>2. \A d \in Ids : Behind(d)' => c < d /\ Behind(d)
    BY <1>T, <2>1 DEF Ordered, Behind
  <2>3. \A d \in Ids : AtWriter(d)' => d = c
    <3>1. pings + 1 \in Nat /\ Failed \in Results
      BY DEF IInv, TypeOK, Failed, Results
    <3>2. \/ writer' = [writer EXCEPT !.phase = "ping", !.call = c, !.marker = pings + 1]
          \/ writer' = [writer EXCEPT !.phase = "respond", !.call = c, !.result = Failed]
      BY <1>3 DEF TakeCallAndPing
    <3> QED
      BY <1>T, <3>1, <3>2, AttemptTypes, PingTypes DEF AtWriter
  <2>4. Behind(c)
    BY <2>1 DEF Behind
  <2> QED
    BY <2>1, <2>2, <2>3, <2>4 DEF Ordered
<1>4. ASSUME NEW p \in pongs, ReadPong(p)
      PROVE  Ordered'
  <2>1. /\ writer.phase = "ping" /\ writer.call \in Ids
        /\ calls' = calls /\ queue' = queue /\ buffer' = buffer
    BY <1>4 DEF ReadPong, botVars, rabbitVars, IInv, TypeOK, Writer
  <2>2. AtWriter(writer.call)
    BY <2>1 DEF AtWriter
  <2>3. CASE Send(writer.call)
    BY <2>1, <2>2, <2>3, SendOrdered DEF Ordered, Behind
  <2>4. CASE UNCHANGED <<writer, sent>>
    BY <2>1, <2>4 DEF Ordered, AtWriter, Behind
  <2> QED
    BY <1>4, <2>3, <2>4 DEF ReadPong
<1>5. CASE PingTimeout \/ Respond \/ Ack \/ Connect
  <2>1. writer'.phase \in {"respond", "ack", "next"}
    <3>1. CASE PingTimeout
      <4>1. writer' = [writer EXCEPT !.phase = "respond", !.result = "PingDeath"]
        BY <3>1 DEF PingTimeout
      <4> QED
        BY <4>1, <1>T DEF Writer
    <3>2. CASE Respond
      BY <1>T, <3>2 DEF Respond, Writer
    <3>3. CASE Ack \/ Connect
      BY <3>3, SetTypes DEF Ack, Connect
    <3> QED
      BY <1>5, <3>1, <3>2, <3>3
  <2>2. calls' = calls /\ queue' = queue /\ buffer' = buffer /\ sent' = sent
    BY <1>5 DEF PingTimeout, Respond, Ack, Connect, botVars, rabbitVars
  <2> QED
    BY <2>1, <2>2 DEF Ordered, AtWriter, Behind
<1>6. ASSUME NEW c \in Ids, Deliver(c)
      PROVE  Ordered'
  <2>1. /\ c \in queue /\ \A d \in queue : c <= d
        /\ queue' = queue \ {c} /\ buffer' = buffer \cup {c}
        /\ calls' = calls /\ writer' = writer /\ sent' = sent
    BY <1>6 DEF Deliver, First, botVars
  <2>2. \A d \in Ids : (Behind(d)' <=> Behind(d)) /\ (AtWriter(d)' <=> AtWriter(d))
    BY <2>1 DEF Behind, AtWriter
  <2>3. \A d \in buffer', e \in queue' : d < e
    BY <1>T, <2>1 DEF Ordered
  <2> QED
    BY <2>1, <2>2, <2>3 DEF Ordered
<1>7. ASSUME NEW c \in Ids, Expire(c)
      PROVE  Ordered'
  <2>1. /\ queue' \subseteq queue /\ buffer' = buffer
        /\ calls' = calls /\ writer' = writer /\ sent' = sent
    BY <1>7 DEF Expire, botVars
  <2>2. \A d \in Ids : (Behind(d)' => Behind(d)) /\ (AtWriter(d)' <=> AtWriter(d))
    BY <2>1 DEF Behind, AtWriter
  <2> QED
    BY <2>1, <2>2 DEF Ordered
<1>8. CASE IrcLost
  <2>1. /\ writer'.phase = "gone" /\ buffer' = {} /\ queue' = queue
        /\ calls' = calls /\ sent' = sent
    BY <1>8, SetTypes DEF IrcLost, DropConsumer, botVars
  <2>2. \A d \in Ids : ~AtWriter(d)' /\ (Behind(d)' => Behind(d))
    BY <2>1 DEF AtWriter, Behind
  <2> QED
    BY <2>1, <2>2 DEF Ordered
<1>9. CASE \/ \E r \in replies : Receive(r)
           \/ Timeout
           \/ \E p \in wire : Pong(p) \/ NoPong(p)
           \/ UNCHANGED vars
  <2>1. /\ queue' = queue /\ buffer' = buffer /\ sent' = sent /\ writer' = writer
        /\ DOMAIN calls' = DOMAIN calls
    <3>1. ASSUME NEW r \in replies, Receive(r)
          PROVE  DOMAIN calls' = DOMAIN calls
      BY <1>T, <3>1 DEF Receive
    <3>2. ASSUME Timeout
          PROVE  DOMAIN calls' = DOMAIN calls
      BY <1>T, <3>2 DEF Timeout
    <3> QED
      BY <1>9, <3>1, <3>2 DEF Receive, Timeout, Pong, NoPong, vars, rabbitVars, botVars
  <2> QED
    BY <2>1 DEF Ordered, AtWriter, Behind
<1> QED
  BY <1>1, <1>2, <1>3, <1>4, <1>5, <1>6, <1>7, <1>8, <1>9
     DEF Next, Bot, Listen, Environment

LEMMA OrderedMessages == IInv /\ (outages = 0 => Ordered) => SentInOrder
BY DEF IInv, CallsOK, Ordered, SentInOrder, Message

(* MessagesInOrder: until the RabbitMQ connection is lost, messages reach  *)
(* the IRC client in the order in which the bot wrote them.                *)
THEOREM MessagesInOrder == Spec => []SentInOrder
<1>1. Init => (outages = 0 => Ordered)
  BY OrderedInit
<1>2. IInv /\ (outages = 0 => Ordered) /\ [Next]_vars => (outages = 0 => Ordered)'
  BY StepOrdered
<1>3. IInv /\ (outages = 0 => Ordered) => SentInOrder
  BY OrderedMessages
<1> QED
  BY <1>1, <1>2, <1>3, Invariant, PTL DEF Spec

-----------------------------------------------------------------------------
(* How often a message is sent.  Every time a message is handed to the IRC *)
(* client it uses up a call that was pending, and the bot makes another    *)
(* call for it only after it was told that the last one failed; so what    *)
(* was sent, what is pending and what may be tried again add up.           *)

InHand == {writer.call} \ {NoCall}

\* Where a call may be, which is in one place of these at a time.
Placed ==
    /\ queue \cup buffer \cup held \cup InHand \subseteq DOMAIN calls
    /\ queue \cap (buffer \cup InHand) = {}
    /\ buffer \cap InHand = {}
    /\ \A k \in DOMAIN sent : sent[k] \in DOMAIN calls
    /\ \A r \in replies : r.call \in DOMAIN calls

\* The calls that may still be handed to the IRC client, without a redelivery.
Pending == queue \cup buffer \cup {c \in InHand : writer.phase = "ping"}

\* The bot has been told, or is about to be told, to try the last call again.
Refused ==
    /\ calls # <<>>
    /\ \/ MayRetry(Last.verdict)
       \/ /\ Last.verdict = "waiting"
          /\ \/ \E r \in replies : r.call = Len(calls) /\ MayRetry(r.result)
             \/ /\ writer.phase = "respond" /\ writer.call = Len(calls)
                /\ MayRetry(writer.result)

SentOf(m) == {k \in DOMAIN sent : Message(sent[k]) = m}
Alive(m) == {c \in Pending : Message(c) = m}
Credit(m) == IF Refused /\ Last.message = m THEN 1 ELSE 0

Within(m) ==
    Cardinality(SentOf(m)) + Cardinality(Alive(m)) + Credit(m) <= 1 + requeued[m]

Budget == Placed /\ \A m \in Ids : Within(m)

LEMMA InitBudget == Init => Budget
<1> SUFFICES ASSUME Init PROVE Budget
  OBVIOUS
<1>1. Placed /\ Pending = {} /\ ~Refused /\ DOMAIN sent = {}
  BY DEF Init, Placed, InHand, Pending, Refused, Gone
<1>2. ASSUME NEW m \in Ids
      PROVE  Within(m)
  <2>1. SentOf(m) = {} /\ Alive(m) = {} /\ Credit(m) = 0 /\ requeued[m] = 0
    BY <1>1 DEF SentOf, Alive, Credit, Init
  <2> QED
    BY <2>1, FS_EmptySet DEF Within
<1> QED
  BY <1>1, <1>2 DEF Budget

\* A call that was made stays made, and keeps its message.
LEMMA StepMessages ==
    ASSUME CallsOK, CallsStep
    PROVE  /\ DOMAIN calls \subseteq DOMAIN calls'
           /\ \A c \in DOMAIN calls : calls'[c].message = calls[c].message
<1>1. /\ calls \in Seq(Call) /\ DOMAIN calls = 1..Len(calls)
      /\ \A c \in DOMAIN calls : calls[c] \in Call
  BY CallTypes DEF CallsOK
<1>2. CASE calls' = calls
  BY <1>2
<1>3. ASSUME NEW call \in Call, calls' = Append(calls, call)
      PROVE  /\ DOMAIN calls \subseteq DOMAIN calls'
             /\ \A c \in DOMAIN calls : calls'[c].message = calls[c].message
  BY <1>1, <1>3
<1>4. ASSUME NEW i \in DOMAIN calls, NEW v \in Verdicts,
             calls' = [calls EXCEPT ![i].verdict = v]
      PROVE  /\ DOMAIN calls \subseteq DOMAIN calls'
             /\ \A c \in DOMAIN calls : calls'[c].message = calls[c].message
  <2> DEFINE call == [calls[i] EXCEPT !.verdict = v]
  <2>1. call.message = calls[i].message
    BY <1>1 DEF Call
  <2>2. DOMAIN calls' = DOMAIN calls
        /\ \A c \in DOMAIN calls : calls'[c] = IF c = i THEN call ELSE calls[c]
    BY <1>1, <1>4
  <2> HIDE DEF call
  <2> QED
    BY <2>1, <2>2
<1> QED
  BY <1>2, <1>3, <1>4 DEF CallsStep

LEMMA BudgetTypes ==
    ASSUME IInv, Placed, NEW m \in Ids
    PROVE  /\ IsFiniteSet(SentOf(m)) /\ Cardinality(SentOf(m)) \in Nat
           /\ IsFiniteSet(Alive(m)) /\ Cardinality(Alive(m)) \in Nat
           /\ Credit(m) \in {0, 1} /\ requeued[m] \in Nat
           /\ Pending \subseteq Ids /\ Pending \subseteq DOMAIN calls
<1>1. sent \in Seq(Ids) /\ DOMAIN sent = 1..Len(sent) /\ Len(sent) \in Int
  BY DEF IInv, TypeOK
<1>2. IsFiniteSet(1..Len(sent)) /\ SentOf(m) \subseteq 1..Len(sent)
  BY <1>1, FS_Interval DEF SentOf
<1>3. Pending \subseteq DOMAIN calls
  BY DEF Placed, Pending
<1>4. DOMAIN calls \subseteq Ids
  BY CallTypes DEF IInv, CallsOK, Ids
<1>5. IsFiniteSet(Ids) /\ Alive(m) \subseteq Ids
  BY <1>3, <1>4, FS_Interval DEF Alive, Ids
<1>6. requeued[m] \in Nat
  BY DEF IInv, TypeOK
<1> QED
  BY <1>2, <1>3, <1>4, <1>5, <1>6, FS_Subset, FS_CardinalityType DEF Credit

LEMMA StepPlaced ==
    ASSUME IInv, IInv', Placed, [Next]_vars
    PROVE  Placed'
<1>T. /\ writer \in Writer /\ writer.call \in Ids \cup {NoCall}
      /\ sent \in Seq(Ids) /\ DOMAIN sent = 1..Len(sent) /\ Len(sent) \in Nat
      /\ Len(calls) \in Nat /\ DOMAIN calls = 1..Len(calls)
  BY CallTypes DEF IInv, TypeOK, Writer
<1>M. DOMAIN calls \subseteq DOMAIN calls'
  BY CallsStepped, StepMessages DEF IInv, TypeOK
<1>P. /\ queue \subseteq DOMAIN calls /\ buffer \subseteq DOMAIN calls
      /\ held \subseteq DOMAIN calls /\ InHand \subseteq DOMAIN calls
      /\ queue \cap buffer = {} /\ queue \cap InHand = {} /\ buffer \cap InHand = {}
      /\ \A k \in DOMAIN sent : sent[k] \in DOMAIN calls
      /\ \A r \in replies : r.call \in DOMAIN calls
  BY DEF Placed
<1> HIDE DEF Placed
\* The call that is taken from the buffer, or kept, is in the writer's hands.
<1>S. ASSUME NEW c \in Ids, c \in DOMAIN calls, c \notin queue,
             buffer' = buffer \ {c}, InHand' = {c}, queue' = queue, held' = held,
             replies' = replies, sent' = sent \/ sent' = Append(sent, c)
      PROVE  Placed'
  <2>1. ASSUME NEW k \in DOMAIN sent'
        PROVE  sent'[k] \in DOMAIN calls'
    <3>1. CASE sent' = sent
      BY <1>M, <1>P, <3>1
    <3>2. CASE sent' = Append(sent, c)
      <4>1. (k \in DOMAIN sent /\ sent'[k] = sent[k]) \/ sent'[k] = c
        BY <1>T, <3>2
      <4> QED
        BY <1>M, <1>P, <1>S, <4>1
    <3> QED
      BY <1>S, <3>1, <3>2
  <2> QED
    BY <1>M, <1>P, <1>S, <2>1 DEF Placed
<1>H. ASSUME NEW c \in Ids, writer' \in Writer, writer'.call = c
      PROVE  InHand' = {c}
  BY <1>H DEF InHand, Ids
<1>1. CASE MakeCall
  <2>1. /\ queue' = queue \cup {Len(calls) + 1} /\ DOMAIN calls' = 1..(Len(calls) + 1)
        /\ UNCHANGED <<buffer, held, writer, replies, sent>>
    BY <1>1, <1>T DEF MakeCall, IInv, CallsOK
  <2>2. Len(calls) + 1 \notin DOMAIN calls /\ Len(calls) + 1 \in DOMAIN calls'
    BY <1>T, <2>1
  <2> QED
    BY <1>M, <1>P, <2>1, <2>2 DEF Placed, InHand
<1>2. ASSUME NEW c \in Ids, TakeCall(c)
      PROVE  Placed'
  <2>1. /\ c \in buffer /\ buffer' = buffer \ {c} /\ Send(c)
        /\ queue' = queue /\ held' = held /\ replies' = replies
    BY <1>2 DEF TakeCall, Taken, First, botVars, rabbitVars
  <2>2. InHand' = {c} /\ (sent' = sent \/ sent' = Append(sent, c))
    <3>1. PICK r \in Results :
            writer' = [writer EXCEPT !.phase = "respond", !.call = c, !.result = r]
      BY <2>1 DEF Send, Failed, Results
    <3> QED
      BY <1>T, <1>H, <2>1, <3>1, AttemptTypes DEF Send, WriterOK
  <2> QED
    BY <1>P, <1>S, <2>1, <2>2
<1>3. ASSUME NEW c \in Ids, TakeCallAndPing(c)
      PROVE  Placed'
  <2>1. /\ c \in buffer /\ buffer' = buffer \ {c} /\ sent' = sent
        /\ queue' = queue /\ held' = held /\ replies' = replies
    BY <1>3 DEF TakeCallAndPing, Taken, First, botVars, rabbitVars
  <2>2. writer' \in Writer /\ writer'.call = c
    <3>1. pings + 1 \in Nat /\ Failed \in Results
      BY DEF IInv, TypeOK, Failed, Results
    <3>2. \/ writer' = [writer EXCEPT !.phase = "ping", !.call = c, !.marker = pings + 1]
          \/ writer' = [writer EXCEPT !.phase = "respond", !.call = c, !.result = Failed]
      BY <1>3 DEF TakeCallAndPing
    <3> QED
      BY <1>T, <3>1, <3>2, AttemptTypes, PingTypes DEF WriterOK
  <2> QED
    BY <1>H, <1>P, <1>S, <2>1, <2>2
<1>4. ASSUME NEW p \in pongs, ReadPong(p)
      PROVE  Placed'
  <2> DEFINE c == writer.call
  <2>1. /\ c \in Ids /\ InHand = {c} /\ buffer' = buffer
        /\ queue' = queue /\ held' = held /\ replies' = replies
    BY <1>4, <1>T DEF ReadPong, botVars, rabbitVars, IInv, TypeOK, InHand
  <2>2. InHand' = {c} /\ (sent' = sent \/ sent' = Append(sent, c))
    <3>1. CASE Send(c)
      <4>1. PICK r \in Results :
              writer' = [writer EXCEPT !.phase = "respond", !.call = c, !.result = r]
        BY <3>1 DEF Send, Failed, Results
      <4> QED
        BY <1>T, <1>H, <2>1, <3>1, <4>1, AttemptTypes DEF Send, WriterOK
    <3>2. CASE UNCHANGED <<writer, sent>>
      BY <2>1, <3>2 DEF InHand
    <3> QED
      BY <1>4, <3>1, <3>2 DEF ReadPong
  <2>3. c \in DOMAIN calls /\ c \notin queue /\ buffer' = buffer \ {c}
    BY <1>P, <2>1
  <2> HIDE DEF c
  <2> QED
    BY <1>S, <2>1, <2>2, <2>3
<1>5. CASE PingTimeout
  <2>1. writer' = [writer EXCEPT !.phase = "respond", !.result = "PingDeath"]
        /\ UNCHANGED <<queue, buffer, held, replies, sent>>
    BY <1>5 DEF PingTimeout, botVars, rabbitVars
  <2>2. writer'.call = writer.call
    BY <1>T, <2>1 DEF Writer
  <2> QED
    BY <1>M, <1>P, <2>1, <2>2 DEF Placed, InHand
<1>6. CASE Respond
  <2>1. /\ writer' = [writer EXCEPT !.phase = "ack"]
        /\ replies' = replies \cup {[call |-> writer.call, result |-> writer.result]}
        /\ UNCHANGED <<queue, buffer, held, sent>>
    BY <1>6 DEF Respond, rabbitVars
  <2>2. writer'.call = writer.call
    BY <1>T, <2>1 DEF Writer
  <2>3. writer.call \in InHand
    BY <1>6 DEF Respond, InHand, IInv, TypeOK
  <2> QED
    BY <1>M, <1>P, <2>1, <2>2, <2>3 DEF Placed, InHand
<1>7. CASE Ack \/ Connect
  <2>1. InHand' = {} /\ UNCHANGED <<queue, buffer, held, replies, sent>>
    BY <1>7, SetTypes DEF Ack, Connect, botVars, rabbitVars, InHand
  <2> QED
    BY <1>M, <1>P, <2>1 DEF Placed
<1>8. ASSUME NEW c \in Ids, Deliver(c) \/ Expire(c)
      PROVE  Placed'
  <2>1. /\ queue' = queue \ {c} /\ c \in queue
        /\ buffer' = buffer \/ buffer' = buffer \cup {c}
        /\ UNCHANGED <<held, writer, replies, sent>>
    BY <1>8 DEF Deliver, Expire, First, botVars
  <2> QED
    BY <1>M, <1>P, <2>1 DEF Placed, InHand
<1>9. CASE IrcLost \/ RabbitLost
  <2>1. /\ InHand' = {} /\ buffer' = {} /\ replies' = replies /\ sent' = sent
        /\ queue' \cup held' \subseteq queue \cup held \cup buffer \cup InHand
    BY <1>9, SetTypes
       DEF IrcLost, RabbitLost, DropConsumer, botVars, InHand, Unacknowledged
  <2> QED
    BY <1>M, <1>P, <2>1 DEF Placed
<1>10. CASE \/ \E r \in replies : Receive(r)
            \/ Timeout
            \/ \E p \in wire : Pong(p) \/ NoPong(p)
            \/ UNCHANGED vars
  <2>1. /\ replies' \subseteq replies
        /\ UNCHANGED <<queue, buffer, held, writer, sent>>
    BY <1>10 DEF Receive, Timeout, Pong, NoPong, vars, botVars, rabbitVars
  <2> QED
    BY <1>M, <1>P, <2>1 DEF Placed, InHand
<1> QED
  BY <1>1, <1>2, <1>3, <1>4, <1>5, <1>6, <1>7, <1>8, <1>9, <1>10
     DEF Next, Bot, Listen, Environment

\* Nothing is gained: of what was pending and might be tried again, some may be lost.
LEMMA NothingGained ==
    ASSUME IInv, IInv', Placed, Placed', NEW m \in Ids, Within(m),
           SentOf(m)' = SentOf(m), Alive(m)' \subseteq Alive(m),
           Credit(m)' <= Credit(m), requeued'[m] = requeued[m]
    PROVE  Within(m)'
<1>1. /\ IsFiniteSet(Alive(m)) /\ Cardinality(Alive(m)) \in Nat /\ Cardinality(SentOf(m)) \in Nat
      /\ Credit(m) \in Nat /\ requeued[m] \in Nat
  BY BudgetTypes
<1>2. Cardinality(Alive(m)') \in Nat /\ Cardinality(Alive(m)') <= Cardinality(Alive(m))
  BY <1>1, FS_Subset, FS_CardinalityType
<1>3. Credit(m)' \in {0, 1}
  BY DEF Credit
<1> HIDE DEF Credit, Alive, SentOf
<1> QED
  BY <1>1, <1>2, <1>3 DEF Within

\* A pending call is used up, for a place in what was sent or for another try.
LEMMA UsedUp ==
    ASSUME IInv, IInv', Placed, Placed', NEW m \in Ids, Within(m),
           NEW c \in Alive(m), Alive(m)' \subseteq Alive(m) \ {c},
           \/ SentOf(m)' = SentOf(m)
           \/ /\ \E k \in Nat : SentOf(m)' = SentOf(m) \cup {k}
              /\ Credit(m)' <= Credit(m),
           requeued'[m] = requeued[m]
    PROVE  Within(m)'
<1>1. /\ IsFiniteSet(Alive(m)) /\ Cardinality(Alive(m)) \in Nat
      /\ IsFiniteSet(SentOf(m)) /\ Cardinality(SentOf(m)) \in Nat
      /\ Credit(m) \in {0, 1} /\ requeued[m] \in Nat
  BY BudgetTypes
<1>2. /\ Cardinality(Alive(m)') \in Nat
      /\ Cardinality(Alive(m)') + 1 <= Cardinality(Alive(m))
  <2> DEFINE rest == Alive(m) \ {c}
  <2>1. IsFiniteSet(rest) /\ Cardinality(rest) = Cardinality(Alive(m)) - 1
    BY <1>1, FS_RemoveElement
  <2>2. Cardinality(Alive(m)') <= Cardinality(rest) /\ Cardinality(Alive(m)') \in Nat
    BY <2>1, FS_Subset, FS_CardinalityType
  <2> HIDE DEF rest
  <2> QED
    BY <1>1, <2>1, <2>2
<1>3. Credit(m)' \in {0, 1}
  BY DEF Credit
<1>4. CASE SentOf(m)' = SentOf(m)
  BY <1>1, <1>2, <1>3, <1>4 DEF Within
<1>5. CASE (\E k \in Nat : SentOf(m)' = SentOf(m) \cup {k}) /\ Credit(m)' <= Credit(m)
  <2>1. PICK k \in Nat : SentOf(m)' = SentOf(m) \cup {k}
    BY <1>5
  <2>2. \/ Cardinality(SentOf(m) \cup {k}) = Cardinality(SentOf(m))
        \/ Cardinality(SentOf(m) \cup {k}) = Cardinality(SentOf(m)) + 1
    BY <1>1, FS_AddElement
  <2>3. /\ Cardinality(SentOf(m)') \in Nat
        /\ Cardinality(SentOf(m)') <= Cardinality(SentOf(m)) + 1
    BY <1>1, <2>1, <2>2
  <2> QED
    BY <1>1, <1>2, <1>3, <1>5, <2>3 DEF Within
<1> QED
  BY <1>4, <1>5

\* The calls and what was sent keep their messages.
LEMMA KeptMessages ==
    ASSUME IInv, Placed, [Next]_vars
    PROVE  /\ \A c \in DOMAIN calls : calls'[c].message = calls[c].message
           /\ \A k \in DOMAIN sent : calls'[sent[k]].message = calls[sent[k]].message
           /\ Pending \subseteq DOMAIN calls
<1>1. \A c \in DOMAIN calls : calls'[c].message = calls[c].message
  BY CallsStepped, StepMessages DEF IInv, TypeOK
<1>2. \A k \in DOMAIN sent : sent[k] \in DOMAIN calls
  BY DEF Placed
<1>3. Pending \subseteq DOMAIN calls
  BY DEF Pending, Placed
<1> QED
  BY <1>1, <1>2, <1>3

\* A step that sends nothing, makes no call pending and refuses none.
LEMMA LostBudget ==
    ASSUME IInv, IInv', Budget, Placed', [Next]_vars,
           sent' = sent, requeued' = requeued, Pending' \subseteq Pending,
           Len(calls') = Len(calls), Refused' => Refused
    PROVE  Budget'
<1>1. SUFFICES ASSUME NEW m \in Ids
               PROVE  Within(m)'
  BY DEF Budget
<1>2. /\ Within(m) /\ Placed
      /\ \A c \in DOMAIN calls : calls'[c].message = calls[c].message
      /\ \A k \in DOMAIN sent : calls'[sent[k]].message = calls[sent[k]].message
      /\ Pending \subseteq DOMAIN calls
  BY KeptMessages DEF Budget
<1>3. SentOf(m)' = SentOf(m)
  BY <1>2 DEF SentOf, Message
<1>4. Alive(m)' \subseteq Alive(m)
  BY <1>2 DEF Alive, Message
<1>5. Credit(m)' <= Credit(m)
  <2>1. Len(calls) \in Nat /\ DOMAIN calls = 1..Len(calls)
    BY CallTypes DEF IInv
  <2>2. calls # <<>> => Len(calls) \in DOMAIN calls
    BY <2>1 DEF IInv, CallsOK
  <2>3. Refused => calls # <<>>
    BY DEF Refused
  <2> HIDE DEF Refused
  <2>4. Refused' => Refused /\ Last.message' = Last.message
    BY <1>2, <2>2, <2>3 DEF Last
  <2> QED
    BY <2>4 DEF Credit
<1> QED
  BY <1>2, <1>3, <1>4, <1>5, NothingGained

LEMMA SentOneMore ==
    ASSUME sent \in Seq(Ids), NEW c \in Ids, sent' = Append(sent, c)
    PROVE  /\ DOMAIN sent' = DOMAIN sent \cup {Len(sent) + 1} /\ sent'[Len(sent) + 1] = c
           /\ \A k \in DOMAIN sent : sent'[k] = sent[k]
<1>1. DOMAIN sent = 1..Len(sent) /\ Len(sent) \in Nat
  OBVIOUS
<1>2. DOMAIN sent' = 1..(Len(sent) + 1) /\ sent'[Len(sent) + 1] = c
  OBVIOUS
<1>3. \A k \in DOMAIN sent : sent'[k] = sent[k]
  OBVIOUS
<1> QED
  BY <1>1, <1>2, <1>3

\* A pending call is given up, or handed to the IRC client.
LEMMA AttemptBudget ==
    ASSUME IInv, IInv', Budget, Placed', [Next]_vars, NEW c \in Pending,
           Pending' \subseteq Pending \ {c},
           calls' = calls, replies' = replies, requeued' = requeued,
           writer'.call = c,
           \/ sent' = sent
           \/ sent' = Append(sent, c) /\ writer'.result = "Ok",
           writer.phase # "respond"
    PROVE  Budget'
<1>1. SUFFICES ASSUME NEW m \in Ids
               PROVE  Within(m)'
  BY DEF Budget
<1>2. /\ Within(m) /\ Placed
      /\ \A k \in DOMAIN sent : sent[k] \in DOMAIN calls
      /\ Pending \subseteq DOMAIN calls
      /\ requeued'[m] = requeued[m]
  BY KeptMessages DEF Budget, Placed
<1>3. sent \in Seq(Ids) /\ DOMAIN sent = 1..Len(sent) /\ Len(sent) \in Nat /\ c \in Ids
  BY <1>2, BudgetTypes DEF IInv, TypeOK
<1>4. Alive(m)' \subseteq Alive(m) \ {c}
  BY DEF Alive, Message
<1>5. Credit(m) \in {0, 1} /\ Credit(m)' \in {0, 1}
  BY DEF Credit
<1>s. /\ SentOf(m) = {k \in DOMAIN sent : calls[sent[k]].message = m}
      /\ SentOf(m)' = {k \in DOMAIN sent' : calls[sent'[k]].message = m}
  BY DEF SentOf, Message
<1>a. sent' = Append(sent, c) =>
         /\ DOMAIN sent' = DOMAIN sent \cup {Len(sent) + 1} /\ sent'[Len(sent) + 1] = c
         /\ \A k \in DOMAIN sent : sent'[k] = sent[k]
  BY <1>3, SentOneMore, Zenon
\* Another attempt at this call is the only one that the bot may gain.
<1>6. Refused' /\ ~Refused => c = Len(calls) /\ writer'.result # "Ok"
  BY DEF Refused, Last, MayRetry
<1>7. Refused' /\ ~Refused => Last.message = Message(c)
  BY <1>6 DEF Last, Message
<1>8. CASE Message(c) = m
  <2>1. c \in Alive(m)
    BY <1>8 DEF Alive
  <2>2. CASE sent' = sent
    <3>1. SentOf(m)' = SentOf(m)
      BY <2>2 DEF SentOf, Message
    <3> QED
      BY <1>2, <1>4, <2>1, <3>1, UsedUp
  <2>3. CASE sent' = Append(sent, c) /\ writer'.result = "Ok"
    <3>1. \E k \in Nat : SentOf(m)' = SentOf(m) \cup {k}
      <4>2. calls[c].message = m
        BY <1>8 DEF Message
      <4>3. SentOf(m)' = SentOf(m) \cup {Len(sent) + 1}
        BY <1>s, <1>a, <2>3, <4>2
      <4> QED
        BY <1>3, <4>3
    <3>2. Credit(m)' <= Credit(m)
      <4>1. Last.message' = Last.message
        BY DEF Last
      <4>2. Refused' => Refused /\ Last.message' = Last.message
        BY <1>6, <2>3, <4>1
      <4> QED
        BY <4>2 DEF Credit
    <3> QED
      BY <1>2, <1>4, <2>1, <3>1, <3>2, UsedUp
  <2> QED
    BY <2>2, <2>3
<1>9. CASE Message(c) # m
  <2>1. SentOf(m)' = SentOf(m)
    <3>1. CASE sent' = sent
      BY <3>1 DEF SentOf, Message
    <3>2. CASE sent' = Append(sent, c)
      <4>2. calls[c].message # m
        BY <1>9 DEF Message
      <4> QED
        BY <1>s, <1>a, <3>2, <4>2
    <3> QED
      BY <3>1, <3>2
  <2>2. Credit(m)' <= Credit(m)
    <3>1. Last.message' = Last.message
      BY DEF Last
    <3> QED
      BY <1>7, <1>9, <3>1 DEF Credit
  <2> QED
    BY <1>2, <1>4, <2>1, <2>2, NothingGained
<1> QED
  BY <1>8, <1>9

\* Send for a call that is pending and leaves the buffer, or the writer, by it.
LEMMA SendBudget ==
    ASSUME IInv, IInv', Budget, Placed', [Next]_vars, NEW c \in Pending,
           Send(c), queue' = queue, buffer' = buffer \ {c}, c \notin queue,
           calls' = calls, replies' = replies, requeued' = requeued,
           writer.phase # "respond", InHand \subseteq {c}
    PROVE  Budget'
<1>1. writer \in Writer /\ c \in Ids
  <2>1. c \in DOMAIN calls
    BY KeptMessages DEF Budget
  <2> QED
    BY <2>1, CallTypes DEF IInv, TypeOK, CallsOK, Ids
<1>2. PICK r \in Results :
        /\ writer' = [writer EXCEPT !.phase = "respond", !.call = c, !.result = r]
        /\ \/ sent' = sent
           \/ sent' = Append(sent, c) /\ r = "Ok"
  BY DEF Send, Failed, Results
<1>3. writer'.call = c /\ writer'.result = r /\ writer'.phase = "respond"
  BY <1>1, <1>2, AttemptTypes
<1>4. Pending' \subseteq Pending \ {c}
  BY <1>3 DEF Pending
<1> QED
  BY <1>2, <1>3, <1>4, AttemptBudget

\* A call uses up what the bot gained when it was refused, or is for a new message.
LEMMA MakeCallBudget ==
    ASSUME IInv, IInv', Budget, Placed', MakeCall
    PROVE  Budget'
<1> DEFINE n == Len(calls) + 1
           before == IF calls = <<>> THEN 0 ELSE Last.message
<1>1. PICK again \in BOOLEAN :
        /\ again => calls # <<>> /\ MayRetry(Last.verdict)
        /\ calls' = Append(calls, [message |-> IF again THEN before ELSE before + 1,
                                   verdict |-> "waiting"])
  BY DEF MakeCall
<1> DEFINE call == [message |-> IF again THEN before ELSE before + 1, verdict |-> "waiting"]
<1>2. /\ Placed /\ ~Waiting /\ queue' = queue \cup {n}
      /\ UNCHANGED <<buffer, writer, replies, sent, requeued>>
  BY DEF MakeCall, Budget
<1>3. /\ calls \in Seq(Call) /\ Len(calls) \in Nat /\ DOMAIN calls = 1..Len(calls)
      /\ \A i \in DOMAIN calls : calls[i].message \in 1..MaxCalls
      /\ calls' \in Seq(Call)
  BY CallTypes DEF IInv, CallsOK
<1>4. \A i \in DOMAIN calls : calls[i].message <= before
  BY <1>3 DEF IInv, CallsOK, Last
<1>5. before \in Nat /\ (calls # <<>> => before = Last.message)
  BY <1>3 DEF Last
<1>6. /\ call.message = IF again THEN before ELSE before + 1
      /\ call.verdict = "waiting"
  OBVIOUS
<1> HIDE DEF before, call
<1>7. /\ Len(calls') = n /\ calls'[n] = call /\ calls' # <<>> /\ n \notin DOMAIN calls
      /\ \A i \in DOMAIN calls : calls'[i] = calls[i]
  BY <1>1, <1>3 DEF call
<1>8. Pending' = Pending \cup {n} /\ Pending \subseteq DOMAIN calls
  BY <1>2 DEF Pending, InHand, Placed
\* Nobody has answered the new call.
<1>9. ~Refused'
  <2>1. Last' = call /\ ~MayRetry(call.verdict)
    BY <1>6, <1>7 DEF Last, MayRetry
  <2>2. (\A r \in replies' : r.call # n) /\ writer'.call # n
    BY <1>2, <1>3, <1>7 DEF Placed, InHand
  <2> QED
    BY <1>7, <2>1, <2>2 DEF Refused
<1> HIDE DEF n
<1>10. ASSUME NEW m \in Ids
       PROVE  Within(m)'
  <2>0. /\ Within(m) /\ requeued'[m] = requeued[m] /\ Credit(m)' = 0
        /\ IsFiniteSet(Alive(m)) /\ Cardinality(Alive(m)) \in Nat
        /\ Cardinality(SentOf(m)) \in Nat /\ Credit(m) \in {0, 1} /\ requeued[m] \in Nat
    BY <1>2, <1>9, BudgetTypes DEF Budget, Credit
  <2>1. SentOf(m)' = SentOf(m)
    BY <1>2, <1>7 DEF SentOf, Message, Placed
  <2>2. CASE call.message # m
    <3>1. Alive(m)' = Alive(m)
      BY <1>7, <1>8, <2>2 DEF Alive, Message
    <3> QED
      BY <2>0, <2>1, <3>1 DEF Within
  <2>3. CASE call.message = m /\ again
    <3>1. Alive(m)' = Alive(m) \cup {n}
      BY <1>7, <1>8, <2>3 DEF Alive, Message
    <3>2. n \notin Alive(m)
      BY <1>7, <1>8 DEF Alive
    <3>3. Cardinality(Alive(m)') = Cardinality(Alive(m)) + 1
      <4>1. IsFiniteSet(Alive(m))
        BY <2>0
      <4> QED
        BY <3>1, <3>2, <4>1, FS_AddElement
    <3>4. Credit(m) = 1
      BY <1>1, <1>5, <1>6, <2>3 DEF Credit, Refused
    <3> QED
      BY <2>0, <2>1, <3>3, <3>4 DEF Within
  <2>4. CASE call.message = m /\ ~again
    <3>1. m = before + 1
      BY <1>6, <2>4
    <3>2. \A i \in DOMAIN calls : calls[i].message # m
      BY <1>3, <1>4, <1>5, <3>1
    <3>3. SentOf(m) = {} /\ Alive(m) = {}
      BY <1>2, <1>8, <3>2 DEF SentOf, Alive, Message, Placed
    <3>4. Alive(m)' = {n}
      BY <1>7, <1>8, <2>4, <3>3 DEF Alive, Message
    <3>5. Cardinality(SentOf(m)') = 0
      BY <2>1, <3>3, FS_EmptySet
    <3>6. Cardinality(Alive(m)') = 1
      BY <3>4, FS_Singleton
    <3> QED
      BY <2>0, <3>5, <3>6 DEF Within
  <2> QED
    BY <2>2, <2>3, <2>4
<1> QED
  BY <1>10 DEF Budget

\* RabbitMQ makes calls pending again, and each counts as a redelivery.
LEMMA RabbitLostBudget ==
    ASSUME IInv, IInv', Budget, Placed', [Next]_vars, RabbitLost
    PROVE  Budget'
<1> DEFINE back == {c \in Unacknowledged : calls[c].verdict # "Timeout"}
           returned(m) == {c \in back : Message(c) = m}
<1>1. /\ queue' = queue \cup back
      /\ requeued' = [m \in Ids |-> requeued[m] + Cardinality(returned(m))]
      /\ UNCHANGED <<calls, replies, sent>>
      /\ writer' = Gone /\ buffer' = {}
  BY DEF RabbitLost, DropConsumer, botVars
<1>2. Pending' = queue \cup back
  BY <1>1, SetTypes DEF Pending, InHand
<1>3. Unacknowledged \subseteq Ids
  BY DropTypes DEF RabbitLost
<1>4. IsFiniteSet(Unacknowledged)
  <2>1. IsFiniteSet(Ids)
    BY FS_Interval DEF Ids
  <2> QED
    BY <1>3, <2>1, FS_Subset
<1>5. Refused' => Refused
  BY <1>1, SetTypes DEF Refused, Last
<1> HIDE DEF back
<1>6. ASSUME NEW m \in Ids
      PROVE  Within(m)'
  <2>0. /\ Within(m) /\ Placed
        /\ IsFiniteSet(Alive(m)) /\ Cardinality(Alive(m)) \in Nat
        /\ Cardinality(SentOf(m)) \in Nat /\ Credit(m) \in {0, 1} /\ requeued[m] \in Nat
    BY BudgetTypes DEF Budget
  <2>1. SentOf(m)' = SentOf(m)
    BY <1>1 DEF SentOf, Message
  <2>2. Credit(m)' <= Credit(m) /\ Credit(m)' \in {0, 1}
    BY <1>1, <1>5 DEF Credit, Last
  <2>3. Alive(m)' \subseteq Alive(m) \cup returned(m)
    BY <1>1, <1>2 DEF Alive, Pending, Message
  <2>4. IsFiniteSet(returned(m)) /\ Cardinality(returned(m)) \in Nat
    BY <1>4, FS_Subset, FS_CardinalityType DEF back
  <2>5. /\ IsFiniteSet(Alive(m) \cup returned(m))
        /\ Cardinality(Alive(m) \cup returned(m)) \in Nat
        /\ Cardinality(Alive(m) \cup returned(m))
              <= Cardinality(Alive(m)) + Cardinality(returned(m))
    <3> DEFINE back_m == returned(m)
    <3>1. IsFiniteSet(back_m) /\ Cardinality(back_m) \in Nat
      BY <2>4
    <3> HIDE DEF back_m
    <3>2. /\ IsFiniteSet(Alive(m) \cup back_m)
          /\ Cardinality(Alive(m) \cup back_m)
                = Cardinality(Alive(m)) + Cardinality(back_m) - Cardinality(Alive(m) \cap back_m)
      BY <2>0, <3>1, FS_Union
    <3>3. Cardinality(Alive(m) \cap back_m) \in Nat
      BY <2>0, FS_Intersection, FS_CardinalityType
    <3>4. Cardinality(Alive(m) \cup back_m) \in Nat
      BY <3>2, FS_CardinalityType
    <3> QED
      BY <2>0, <3>1, <3>2, <3>3, <3>4 DEF back_m
  <2>6. /\ Cardinality(Alive(m)') \in Nat
        /\ Cardinality(Alive(m)') <= Cardinality(Alive(m)) + Cardinality(returned(m))
    <3>1. /\ Cardinality(Alive(m)') <= Cardinality(Alive(m) \cup returned(m))
          /\ Cardinality(Alive(m)') \in Nat
      BY <2>3, <2>5, FS_Subset, FS_CardinalityType
    <3> QED
      BY <2>0, <2>4, <2>5, <3>1
  <2>7. requeued'[m] = requeued[m] + Cardinality(returned(m))
    BY <1>1
  <2> HIDE DEF returned
  <2> QED
    BY <2>0, <2>1, <2>2, <2>4, <2>6, <2>7 DEF Within
<1> QED
  BY <1>6 DEF Budget

LEMMA StepBudget ==
    ASSUME IInv, IInv', Budget, [Next]_vars
    PROVE  Budget'
<1>0. Placed' /\ Placed
  BY StepPlaced DEF Budget
<1>T. /\ writer \in Writer /\ writer.call \in Ids \cup {NoCall}
      /\ queue \cap buffer = {} /\ queue \cap InHand = {} /\ buffer \cap InHand = {}
  BY <1>0 DEF IInv, TypeOK, Writer, Placed
<1>I. /\ writer.phase \in {"ping", "respond", "ack"} => InHand = {writer.call}
      /\ writer.phase \in {"next", "gone"} => InHand = {}
  BY <1>T DEF InHand, IInv, TypeOK
<1>1. CASE MakeCall
  BY <1>0, <1>1, MakeCallBudget
<1>2. ASSUME NEW r \in replies, Receive(r)
      PROVE  Budget'
  <2>1. /\ replies' = replies \ {r} /\ Pending' = Pending
        /\ UNCHANGED <<writer, sent, requeued>>
    BY <1>2 DEF Receive, Pending, InHand
  <2>2. calls \in Seq(Call) /\ Len(calls) \in Nat /\ DOMAIN calls = 1..Len(calls)
    BY CallTypes DEF IInv, CallsOK
  <2>3. CASE Waiting /\ r.call = Len(calls)
    <3>1. calls' = [calls EXCEPT ![r.call].verdict = r.result] /\ calls # <<>>
      BY <1>2, <2>3 DEF Receive, Waiting
    <3>2. Len(calls) \in DOMAIN calls /\ calls[Len(calls)] \in Call
      BY <2>2, <3>1
    <3> DEFINE call == [calls[Len(calls)] EXCEPT !.verdict = r.result]
    <3>3. call.verdict = r.result
      BY <3>2 DEF Call
    <3>4. Len(calls') = Len(calls) /\ calls'[Len(calls)] = call
      BY <2>2, <2>3, <3>1, <3>2
    <3> HIDE DEF call
    <3>5. r.result # "waiting"
      BY DEF IInv, TypeOK, Results
    <3>6. Last'.verdict = r.result /\ Last.verdict = "waiting"
      BY <2>3, <3>3, <3>4 DEF Last, Waiting
    <3>7. Refused' => MayRetry(r.result)
      BY <3>5, <3>6 DEF Refused
    <3>8. Refused' => Refused
      BY <2>3, <3>1, <3>6, <3>7 DEF Refused
    <3> QED
      BY <1>0, <2>1, <3>4, <3>8, LostBudget
  <2>4. CASE ~(Waiting /\ r.call = Len(calls))
    <3>1. calls' = calls
      BY <1>2, <2>4 DEF Receive
    <3>2. Refused' => Refused
      BY <2>1, <3>1 DEF Refused, Last
    <3> QED
      BY <1>0, <2>1, <3>1, <3>2, LostBudget
  <2> QED
    BY <2>3, <2>4
<1>3. CASE Timeout
  <2>1. /\ calls # <<>> /\ calls' = [calls EXCEPT ![Len(calls)].verdict = "Timeout"]
        /\ Pending' = Pending /\ UNCHANGED <<sent, requeued>>
    BY <1>3 DEF Timeout, Waiting, Pending, InHand, rabbitVars
  <2>2. calls \in Seq(Call) /\ Len(calls) \in Nat /\ DOMAIN calls = 1..Len(calls)
    BY CallTypes DEF IInv, CallsOK
  <2>3. Len(calls) \in DOMAIN calls /\ calls[Len(calls)] \in Call
    BY <2>1, <2>2
  <2> DEFINE call == [calls[Len(calls)] EXCEPT !.verdict = "Timeout"]
  <2>4. call.verdict = "Timeout"
    BY <2>3 DEF Call
  <2>5. Len(calls') = Len(calls) /\ calls'[Len(calls)] = call
    BY <2>1, <2>2, <2>3
  <2> HIDE DEF call
  <2>6. Last'.verdict = "Timeout"
    BY <2>4, <2>5 DEF Last
  <2>7. ~Refused'
    BY <2>6 DEF Refused, MayRetry
  <2> QED
    BY <1>0, <2>1, <2>5, <2>7, LostBudget
<1>4. ASSUME NEW c \in Ids, TakeCall(c)
      PROVE  Budget'
  <2>1. /\ c \in buffer /\ buffer' = buffer \ {c} /\ queue' = queue /\ Send(c)
        /\ writer.phase = "next" /\ UNCHANGED <<calls, replies, requeued>>
    BY <1>4 DEF TakeCall, Taken, First, botVars, rabbitVars
  <2>2. c \in Pending /\ c \notin queue /\ InHand = {}
    BY <1>T, <1>I, <2>1 DEF Pending
  <2> QED
    BY <1>0, <2>1, <2>2, SendBudget
<1>5. ASSUME NEW c \in Ids, TakeCallAndPing(c)
      PROVE  Budget'
  <2>1. /\ c \in buffer /\ buffer' = buffer \ {c} /\ queue' = queue
        /\ writer.phase = "next" /\ UNCHANGED <<calls, replies, requeued, sent>>
    BY <1>5 DEF TakeCallAndPing, Taken, First, botVars, rabbitVars
  <2>2. c \in Pending /\ c \notin queue /\ InHand = {}
    BY <1>T, <1>I, <2>1 DEF Pending
  <2>3. writer'.call = c /\ writer'.phase \in {"ping", "respond"}
    <3>1. pings + 1 \in Nat /\ Failed \in Results
      BY DEF IInv, TypeOK, Failed, Results
    <3>2. \/ writer' = [writer EXCEPT !.phase = "ping", !.call = c, !.marker = pings + 1]
          \/ writer' = [writer EXCEPT !.phase = "respond", !.call = c, !.result = Failed]
      BY <1>5 DEF TakeCallAndPing
    <3> QED
      BY <1>T, <3>1, <3>2, AttemptTypes, PingTypes
  <2>4. CASE writer'.phase = "ping"
    <3>1. Pending' \subseteq Pending
      BY <2>1, <2>2, <2>3 DEF Pending, InHand
    <3>2. Refused' => Refused
      BY <2>1, <2>4 DEF Refused, Last
    <3> QED
      BY <1>0, <2>1, <3>1, <3>2, LostBudget
  <2>5. CASE writer'.phase = "respond"
    <3>1. Pending' \subseteq Pending \ {c}
      BY <2>1, <2>2, <2>5 DEF Pending
    <3> QED
      BY <1>0, <2>1, <2>2, <2>3, <3>1, AttemptBudget
  <2> QED
    BY <2>3, <2>4, <2>5
<1>6. ASSUME NEW p \in pongs, ReadPong(p)
      PROVE  Budget'
  <2> DEFINE c == writer.call
  <2>1. /\ writer.phase = "ping" /\ UNCHANGED <<calls, replies, requeued, queue, buffer>>
        /\ InHand = {c} /\ c \in Pending /\ c \notin queue /\ buffer \ {c} = buffer
    BY <1>6, <1>T, <1>I DEF ReadPong, botVars, rabbitVars, Pending
  <2>2. CASE Send(c)
    BY <1>0, <2>1, <2>2, SendBudget
  <2>3. CASE UNCHANGED <<writer, sent>>
    <3>1. Pending' = Pending /\ (Refused' => Refused)
      BY <2>1, <2>3 DEF Pending, InHand, Refused, Last
    <3> QED
      BY <1>0, <2>1, <2>3, <3>1, LostBudget
  <2> QED
    BY <1>6, <2>2, <2>3 DEF ReadPong
<1>7. CASE PingTimeout
  <2> DEFINE c == writer.call
  <2>1. /\ writer' = [writer EXCEPT !.phase = "respond", !.result = "PingDeath"]
        /\ writer.phase = "ping"
        /\ UNCHANGED <<calls, replies, requeued, queue, buffer, sent>>
    BY <1>7 DEF PingTimeout, botVars, rabbitVars
  <2>2. writer'.call = c /\ writer'.phase = "respond"
    BY <1>T, <2>1 DEF Writer
  <2>3. c \in Pending /\ Pending' \subseteq Pending \ {c}
    BY <1>T, <1>I, <2>1, <2>2 DEF Pending
  <2> QED
    BY <1>0, <2>1, <2>2, <2>3, AttemptBudget
<1>8. CASE Respond
  <2>1. /\ writer.phase = "respond" /\ writer' = [writer EXCEPT !.phase = "ack"]
        /\ replies' = replies \cup {[call |-> writer.call, result |-> writer.result]}
        /\ UNCHANGED <<calls, requeued, queue, buffer, sent>>
    BY <1>8 DEF Respond, rabbitVars
  <2>2. writer'.phase = "ack"
    BY <1>T, <2>1 DEF Writer
  <2>3. Pending' \subseteq Pending
    BY <2>1, <2>2 DEF Pending
  <2>4. Refused' => Refused
    BY <2>1, <2>2 DEF Refused, Last
  <2> QED
    BY <1>0, <2>1, <2>3, <2>4, LostBudget
<1>9. CASE Ack \/ Connect
  <2>1. writer'.phase = "next" /\ UNCHANGED <<calls, replies, requeued, queue, buffer, sent>>
    BY <1>9, SetTypes DEF Ack, Connect, botVars, rabbitVars
  <2>2. Pending' \subseteq Pending /\ (Refused' => Refused)
    BY <2>1 DEF Pending, Refused, Last
  <2> QED
    BY <1>0, <2>1, <2>2, LostBudget
<1>10. ASSUME NEW c \in Ids, Deliver(c) \/ Expire(c)
       PROVE  Budget'
  <2>1. /\ queue' \cup buffer' \subseteq queue \cup buffer
        /\ UNCHANGED <<calls, replies, requeued, writer, sent>>
    BY <1>10 DEF Deliver, Expire, First, botVars
  <2>2. Pending' \subseteq Pending /\ (Refused' => Refused)
    BY <2>1 DEF Pending, InHand, Refused, Last
  <2> QED
    BY <1>0, <2>1, <2>2, LostBudget
<1>11. CASE IrcLost
  <2>1. /\ writer'.phase = "gone" /\ buffer' = {}
        /\ UNCHANGED <<calls, replies, requeued, queue, sent>>
    BY <1>11, SetTypes DEF IrcLost, DropConsumer, botVars
  <2>2. Pending' \subseteq Pending /\ (Refused' => Refused)
    BY <2>1 DEF Pending, Refused, Last
  <2> QED
    BY <1>0, <2>1, <2>2, LostBudget
<1>12. CASE RabbitLost
  BY <1>0, <1>12, RabbitLostBudget
<1>13. CASE (\E p \in wire : Pong(p) \/ NoPong(p)) \/ UNCHANGED vars
  <2>1. UNCHANGED <<calls, replies, requeued, writer, queue, buffer, sent>>
    BY <1>13 DEF Pong, NoPong, vars, botVars, rabbitVars
  <2>2. Pending' \subseteq Pending /\ (Refused' => Refused)
    BY <2>1 DEF Pending, InHand, Refused, Last
  <2> QED
    BY <1>0, <2>1, <2>2, LostBudget
<1> QED
  BY <1>1, <1>2, <1>3, <1>4, <1>5, <1>6, <1>7, <1>8, <1>9, <1>10, <1>11, <1>12, <1>13
     DEF Next, Bot, Listen, Environment

(* SentOnce: retries do not repeat a message.  It is handed to the IRC     *)
(* client at most once, and once more for every redelivery by RabbitMQ.    *)
THEOREM SentOnce == Spec => []SentOncePerDelivery
<1>1. Init => Budget
  BY InitBudget
<1>2. IInv /\ IInv' /\ Budget /\ [Next]_vars => Budget'
  BY StepBudget
<1>3. IInv /\ Budget => SentOncePerDelivery
  <2> SUFFICES ASSUME IInv, Budget, NEW m \in Ids
               PROVE  Cardinality(SentOf(m)) <= 1 + requeued[m]
    BY DEF SentOncePerDelivery, SentOf
  <2> QED
    BY BudgetTypes DEF Budget, Within
<1> QED
  BY <1>1, <1>2, <1>3, Invariant, PTL DEF Spec

\* Until the RabbitMQ connection is lost, nothing is redelivered.
NoRedelivery == outages = 0 => \A m \in Ids : requeued[m] = 0

LEMMA StepRedelivery == IInv /\ NoRedelivery /\ [Next]_vars => NoRedelivery'
<1> SUFFICES ASSUME IInv, NoRedelivery, [Next]_vars, outages' = 0, ~RabbitLost
             PROVE  \A m \in Ids : requeued'[m] = 0
  BY StepOutages DEF NoRedelivery
<1>1. requeued' = requeued /\ outages' = outages
  BY DEF Next, Bot, MakeCall, Receive, Timeout, Listen, TakeCall, TakeCallAndPing,
         ReadPong, PingTimeout, Respond, Ack, Environment, Deliver, Expire, Pong, NoPong,
         IrcLost, Connect, DropConsumer, vars, rabbitVars
<1> QED
  BY <1>1 DEF NoRedelivery

(* What users read until the RabbitMQ connection is lost.                  *)
OnceAndInOrder ==
    outages = 0 =>
        \A i, k \in DOMAIN sent : i < k => Message(sent[i]) < Message(sent[k])

LEMMA OnceInOrder ==
    ASSUME IInv, Budget, NoRedelivery, SentInOrder
    PROVE  OnceAndInOrder
<1> SUFFICES ASSUME outages = 0, NEW i \in DOMAIN sent, NEW k \in DOMAIN sent, i < k
             PROVE  Message(sent[i]) < Message(sent[k])
  BY DEF OnceAndInOrder
<1> DEFINE m == Message(sent[i])
           pair == {i, k}
<1>1. /\ sent \in Seq(Ids) /\ DOMAIN sent = 1..Len(sent) /\ Len(sent) \in Nat
      /\ i \in Int /\ k \in Int
  BY DEF IInv, TypeOK
<1>2. sent[i] \in DOMAIN calls /\ sent[k] \in DOMAIN calls
  BY DEF Budget, Placed
<1>3. m \in Ids /\ Message(sent[k]) \in Ids
  BY <1>2, CallTypes DEF IInv, Message, Ids
<1>4. m <= Message(sent[k])
  BY <1>1 DEF SentInOrder
<1>5. ASSUME Message(sent[k]) = m
      PROVE  FALSE
  <2>1. pair \subseteq SentOf(m)
    BY <1>5 DEF SentOf
  <2>2. IsFiniteSet(pair) /\ Cardinality(pair) = 2
    <3> DEFINE one == {i}
    <3>1. IsFiniteSet(one) /\ Cardinality(one) = 1
      BY FS_Singleton
    <3>2. k \notin one /\ pair = one \cup {k}
      BY <1>1
    <3> HIDE DEF one, pair
    <3>3. /\ IsFiniteSet(one \cup {k})
          /\ Cardinality(one \cup {k}) = Cardinality(one) + 1
      BY <3>1, <3>2, FS_AddElement
    <3> QED
      BY <3>1, <3>2, <3>3
  <2> HIDE DEF m, pair
  <2>3. /\ IsFiniteSet(SentOf(m)) /\ Cardinality(SentOf(m)) \in Nat
        /\ Cardinality(Alive(m)) \in Nat /\ Credit(m) \in {0, 1}
    BY <1>3, BudgetTypes DEF Budget
  <2>4. Cardinality(pair) <= Cardinality(SentOf(m))
    BY <2>1, <2>3, FS_Subset
  <2>5. Within(m) /\ requeued[m] = 0
    BY <1>3 DEF Budget, NoRedelivery
  <2> QED
    BY <2>2, <2>3, <2>4, <2>5 DEF Within
<1> HIDE DEF m
<1>6. m \in Int /\ Message(sent[k]) \in Int
  BY <1>3 DEF Ids
<1> QED
  BY <1>4, <1>5, <1>6 DEF m

(* MessagesOnceInOrder: until the RabbitMQ connection is lost, each        *)
(* message reaches the IRC client at most once and in the order in which   *)
(* the bot wrote them, whatever times out and however often the IRC        *)
(* connection is lost.                                                     *)
THEOREM MessagesOnceInOrder == Spec => []OnceAndInOrder
<1>1. Init => Budget /\ NoRedelivery
  BY InitBudget DEF Init, NoRedelivery
<1>2. IInv /\ IInv' /\ Budget /\ [Next]_vars => Budget'
  BY StepBudget
<1>3. IInv /\ NoRedelivery /\ [Next]_vars => NoRedelivery'
  BY StepRedelivery
<1>4. IInv /\ Budget /\ NoRedelivery /\ SentInOrder => OnceAndInOrder
  BY OnceInOrder
<1> QED
  BY <1>1, <1>2, <1>3, <1>4, Invariant, MessagesInOrder, PTL DEF Spec
=============================================================================
