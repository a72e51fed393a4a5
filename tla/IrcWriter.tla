------------------------------ MODULE IrcWriter ------------------------------
(***************************************************************************)
(* The path of a chat message from the bot to the IRC server.  The bot     *)
(* calls the RPC queue "irc_writer", one call at a time (RabbitRpc, called *)
(* by ResponsePostprocessor).  The IRC process (Rust) consumes the calls   *)
(* one after the other, pings the server before every PingEvery-th one,    *)
(* hands the message to the IRC client, answers, and only then             *)
(* acknowledges.  When the IRC connection is lost the consumer is dropped  *)
(* at its await point; its unacknowledged calls stay with the channel      *)
(* until the RabbitMQ connection is lost, too, and are then redelivered.   *)
(*                                                                         *)
(* A call is its number in the order of publication, which is the order in *)
(* which RabbitMQ delivers and redelivers; likewise a marker is its number *)
(* in the order in which the pings are sent.                               *)
(***************************************************************************)
EXTENDS Integers, Sequences, FiniteSets

CONSTANTS
    MaxCalls,   \* bound on the calls of the bot
    MaxOutages, \* bound on the losses of the RabbitMQ connection
    PingEvery,  \* calls per ping, 10 in the code
    PongQueue,  \* capacity of the channel from Ponger to Pinger, 100 in the code
    Faults      \* which faults may happen

AllFaults == {"ircLost", "ircError", "noPong", "rabbitLost"}

ASSUME WriterAssumption ==
    /\ MaxCalls \in Nat /\ MaxOutages \in Nat
    /\ PingEvery \in Nat \ {0} /\ PongQueue \in Nat \ {0}
    /\ Faults \subseteq AllFaults

VARIABLES
    calls,    \* the calls the bot has made: which message, and what came of it
    queue,    \* calls waiting in irc_writer
    buffer,   \* calls delivered to the consumer, not yet taken
    held,     \* unacknowledged calls of consumers that are gone
    writer,   \* the task listen_for_calls
    replies,  \* answers on their way to the bot
    counter,  \* Pinger.counter modulo PingEvery
    pings,    \* the number of pings sent, which names the markers
    wire,     \* markers between the Pinger and the server, either way
    pongs,    \* markers in the channel from Ponger to Pinger
    sent,     \* the calls whose message was handed to the IRC client, in order
    heard,    \* history: markers whose pongs entered the channel since the last ping
    outages,  \* losses of the RabbitMQ connection so far
    requeued  \* history: redeliveries per message

vars == <<calls, queue, buffer, held, writer, replies, counter, pings, wire,
          pongs, sent, heard, outages, requeued>>
botVars == <<calls, replies>>
rabbitVars == <<queue, held, outages, requeued>>
pingVars == <<counter, pings, wire, pongs, heard>>

Ids == 1..MaxCalls
NoCall == 0
Results == {"Ok", "Retry", "PingDeath"}
Verdicts == Results \cup {"waiting", "Timeout"}
Call == [message : Ids, verdict : Verdicts]
Writer == [phase : {"gone", "next", "ping", "respond", "ack"},
           call : Ids \cup {NoCall}, result : Results, marker : Nat]

Message(c) == calls[c].message
First(S, c) == c \in S /\ \A other \in S : c <= other

Gone == [phase |-> "gone", call |-> NoCall, result |-> "Ok", marker |-> 0]
Listening == [Gone EXCEPT !.phase = "next"]

Init ==
    /\ calls = <<>>
    /\ queue = {} /\ buffer = {} /\ held = {}
    /\ writer = Gone
    /\ replies = {}
    /\ counter = 0 /\ pings = 0 /\ wire = {} /\ pongs = {} /\ heard = {}
    /\ sent = <<>>
    /\ outages = 0
    /\ requeued = [m \in Ids |-> 0]

-----------------------------------------------------------------------------
(* The bot: ResponsePostprocessor calls through the proxy of RabbitRpc.    *)

Last == calls[Len(calls)]
Waiting == calls # <<>> /\ Last.verdict = "waiting"

\* Mutant: the bot tries again after a timeout.
MutMayRetry(verdict) == verdict \in {"Retry", "PingDeath", "Timeout"}
MayRetry(verdict) == verdict \in {"Retry", "PingDeath"}

\* The next try of a message, or the first one of the next message: the bot goes
\* on when a message was sent, timed out, ran out of tries or failed with an
\* exception.
MakeCall ==
    /\ ~Waiting
    /\ Len(calls) < MaxCalls
    /\ LET m == IF calls = <<>> THEN 0 ELSE Last.message IN
       \E again \in BOOLEAN :
        /\ again => calls # <<>> /\ MayRetry(Last.verdict)
        /\ calls' = Append(calls, [message |-> IF again THEN m ELSE m + 1,
                                   verdict |-> "waiting"])
    /\ queue' = queue \cup {Len(calls) + 1}
    /\ UNCHANGED <<buffer, held, writer, replies, pingVars, sent, outages, requeued>>

\* An answer is matched to its call by the correlation id; others are dropped.
Receive(r) ==
    /\ r \in replies
    /\ replies' = replies \ {r}
    /\ calls' = IF Waiting /\ r.call = Len(calls)
                THEN [calls EXCEPT ![r.call].verdict = r.result]
                ELSE calls
    /\ UNCHANGED <<queue, buffer, held, writer, pingVars, sent, outages, requeued>>

Timeout ==
    /\ Waiting
    /\ calls' = [calls EXCEPT ![Len(calls)].verdict = "Timeout"]
    /\ UNCHANGED <<rabbitVars, buffer, writer, replies, pingVars, sent>>

-----------------------------------------------------------------------------
(* RabbitMQ.  The consumer has no prefetch limit.                          *)

Deliver(c) ==
    /\ writer.phase # "gone"
    /\ First(queue, c)
    /\ queue' = queue \ {c}
    /\ buffer' = buffer \cup {c}
    /\ UNCHANGED <<botVars, held, writer, pingVars, sent, outages, requeued>>

\* The time to live of a call ends when the bot stops to wait for it.
Expire(c) ==
    /\ c \in queue
    /\ calls[c].verdict = "Timeout"
    /\ queue' = queue \ {c}
    /\ UNCHANGED <<botVars, buffer, held, writer, pingVars, sent, outages, requeued>>

-----------------------------------------------------------------------------
(* listen_for_calls.  Between its await points, which are the next         *)
(* delivery, the pong, the publication of the answer and the               *)
(* acknowledgement, nothing interferes.                                    *)

\* Mutant: a failed send is reported as a success.
MutFailed == "Ok"
Failed == "Retry"

\* send_privmsg or send_action for call c.
Send(c) ==
    \/ /\ sent' = Append(sent, c)
       /\ writer' = [writer EXCEPT !.phase = "respond", !.call = c, !.result = "Ok"]
    \/ /\ "ircError" \in Faults
       /\ writer' = [writer EXCEPT !.phase = "respond", !.call = c, !.result = Failed]
       /\ UNCHANGED sent

PingDue == (counter + 1) % PingEvery = 0

\* Mutant: the delivery that was received last is handled first.
MutTaken(c) == c \in buffer /\ \A other \in buffer : other <= c
Taken(c) == First(buffer, c)

\* The call is taken and, when no ping is due, sent at once.
TakeCall(c) ==
    /\ writer.phase = "next"
    /\ Taken(c)
    /\ buffer' = buffer \ {c}
    /\ ~PingDue
    /\ counter' = (counter + 1) % PingEvery
    /\ Send(c)
    /\ UNCHANGED <<botVars, rabbitVars, pings, wire, pongs, heard>>

TakeCallAndPing(c) ==
    /\ writer.phase = "next"
    /\ Taken(c)
    /\ buffer' = buffer \ {c}
    /\ PingDue
    /\ counter' = (counter + 1) % PingEvery
    /\ \/ /\ pings' = pings + 1
          /\ wire' = wire \cup {pings + 1}
          /\ heard' = {}
          /\ writer' = [writer EXCEPT !.phase = "ping", !.call = c, !.marker = pings + 1]
       \/ /\ "ircError" \in Faults
          /\ writer' = [writer EXCEPT !.phase = "respond", !.call = c, !.result = Failed]
          /\ UNCHANGED <<pings, wire, heard>>
    /\ UNCHANGED <<botVars, rabbitVars, pongs, sent>>

\* Mutant: any pong will do.
MutMatches(p) == TRUE
Matches(p) == p = writer.marker

\* A pong for an earlier ping is skipped.
ReadPong(p) ==
    /\ writer.phase = "ping"
    /\ First(pongs, p)
    /\ pongs' = pongs \ {p}
    /\ IF Matches(p) THEN Send(writer.call) ELSE UNCHANGED <<writer, sent>>
    /\ UNCHANGED <<botVars, rabbitVars, buffer, counter, pings, wire, heard>>

PingTimeout ==
    /\ writer.phase = "ping"
    /\ writer' = [writer EXCEPT !.phase = "respond", !.result = "PingDeath"]
    /\ UNCHANGED <<botVars, rabbitVars, buffer, pingVars, sent>>

Respond ==
    /\ writer.phase = "respond"
    /\ replies' = replies \cup {[call |-> writer.call, result |-> writer.result]}
    /\ writer' = [writer EXCEPT !.phase = "ack"]
    /\ UNCHANGED <<calls, rabbitVars, buffer, pingVars, sent>>

Ack ==
    /\ writer.phase = "ack"
    /\ writer' = Listening
    /\ UNCHANGED <<botVars, rabbitVars, buffer, pingVars, sent>>

\* Mutant: Ponger accepts one pong too many.
MutHasSpace == Cardinality(pongs) <= PongQueue
HasSpace == Cardinality(pongs) < PongQueue

\* The server answers the pings in order; Ponger drops a pong when its channel
\* is full.
Pong(p) ==
    /\ First(wire, p)
    /\ wire' = wire \ {p}
    /\ IF HasSpace
       THEN pongs' = pongs \cup {p} /\ heard' = heard \cup {p}
       ELSE UNCHANGED <<pongs, heard>>
    /\ UNCHANGED <<botVars, rabbitVars, buffer, writer, counter, pings, sent>>

NoPong(p) ==
    /\ "noPong" \in Faults
    /\ p \in wire
    /\ wire' = wire \ {p}
    /\ UNCHANGED <<botVars, rabbitVars, buffer, writer, counter, pings, pongs, heard,
                   sent>>

-----------------------------------------------------------------------------
(* Connections.                                                            *)

Unacknowledged == held \cup buffer \cup ({writer.call} \ {NoCall})

\* The select of connect_irc_once ends and drops consumer, pinger and ponger.
DropConsumer ==
    /\ writer' = Gone
    /\ buffer' = {}
    /\ wire' = {} /\ pongs' = {}
    /\ UNCHANGED <<botVars, counter, pings, heard, sent>>

IrcLost ==
    /\ "ircLost" \in Faults
    /\ writer.phase # "gone"
    /\ held' = Unacknowledged
    /\ DropConsumer
    /\ UNCHANGED <<queue, outages, requeued>>

\* connect_irc_once: a new pinger and a new consumer on the same channel.
Connect ==
    /\ writer.phase = "gone"
    /\ writer' = Listening
    /\ counter' = 0
    /\ UNCHANGED <<botVars, rabbitVars, buffer, pings, wire, pongs, heard, sent>>

\* The channel is closed: RabbitMQ takes back what is unacknowledged, unless its
\* time to live is over.
RabbitLost ==
    LET back == {c \in Unacknowledged : calls[c].verdict # "Timeout"} IN
    /\ "rabbitLost" \in Faults
    /\ outages < MaxOutages
    /\ outages' = outages + 1
    /\ queue' = queue \cup back
    /\ held' = {}
    /\ requeued' = [m \in Ids |->
                       requeued[m] + Cardinality({c \in back : Message(c) = m})]
    /\ DropConsumer

-----------------------------------------------------------------------------
Bot == MakeCall \/ (\E r \in replies : Receive(r)) \/ Timeout
Listen ==
    \/ \E c \in Ids : TakeCall(c) \/ TakeCallAndPing(c)
    \/ \E p \in pongs : ReadPong(p)
    \/ PingTimeout
    \/ Respond
    \/ Ack
Environment ==
    \/ \E c \in Ids : Deliver(c) \/ Expire(c)
    \/ \E p \in wire : Pong(p) \/ NoPong(p)
    \/ IrcLost \/ Connect \/ RabbitLost

Next == Bot \/ Listen \/ Environment

Spec == Init /\ [][Next]_vars

-----------------------------------------------------------------------------
TypeOK ==
    /\ calls \in Seq(Call) /\ Len(calls) <= MaxCalls
    /\ queue \subseteq Ids /\ buffer \subseteq Ids /\ held \subseteq Ids
    /\ writer \in Writer
    /\ writer.phase \in {"ping", "respond", "ack"} <=> writer.call # NoCall
    /\ replies \subseteq [call : Ids, result : Results]
    /\ counter \in 0..(PingEvery - 1)
    /\ pings \in Nat /\ wire \subseteq 1..pings /\ pongs \subseteq 1..pings
    /\ heard \subseteq 1..pings
    /\ Cardinality(pongs) <= PongQueue
    /\ sent \in Seq(Ids)
    /\ outages \in 0..MaxOutages
    /\ requeued \in [Ids -> Nat]

(* The bot records a message as sent (ResponsePostprocessor.message) only  *)
(* when it was handed to the IRC client, whatever connections were lost in *)
(* between.                                                                *)
OkMeansSent ==
    \A c \in DOMAIN calls :
        calls[c].verdict = "Ok" => \E k \in DOMAIN sent : sent[k] = c

(* Retries do not repeat a message: it is handed to the IRC client at most *)
(* once, and once more for every redelivery by RabbitMQ.                   *)
SentOncePerDelivery ==
    \A m \in Ids :
        Cardinality({k \in DOMAIN sent : Message(sent[k]) = m}) <= 1 + requeued[m]

(* Until the RabbitMQ connection is lost, users read the messages in the   *)
(* order in which the bot wrote them, also when calls timed out and when   *)
(* the IRC connection was lost in between.                                 *)
SentInOrder ==
    outages = 0 =>
        \A i, k \in DOMAIN sent : i <= k => Message(sent[i]) <= Message(sent[k])

(* A call for which a ping is due goes on to be sent only when the server   *)
(* has answered this very ping and Ponger had room for the answer.  A ping *)
(* whose pong is missing, late or dropped ends in a PingDeath or with the   *)
(* connection, and nothing is sent, whatever pongs of earlier pings arrive. *)
PingAnswered ==
    [][writer.phase = "ping" /\ writer'.phase # "ping"
        => \/ writer.marker \in heard
           \/ /\ sent' = sent
              /\ writer'.phase = "gone" \/ writer'.result = "PingDeath"]_vars
=============================================================================
