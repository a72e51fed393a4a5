----------------------------- MODULE MCIrcWriter -----------------------------
(***************************************************************************)
(* An instance of IrcWriter for TLC.                                       *)
(***************************************************************************)
EXTENDS IrcWriter

\* Bound: MaxCalls calls, or one less when the RabbitMQ connection is lost.
FewCalls == Len(calls) + outages <= MaxCalls

BoundedSpec == Init /\ [][Next /\ FewCalls']_vars
=============================================================================
