--------------------------- MODULE MCChatPipeline ---------------------------
(***************************************************************************)
(* Instances of ChatPipeline for TLC.                                      *)
(***************************************************************************)
EXTENDS ChatPipeline

\* One reply for each outcome of a readable one: a PingDeath is tried again like
\* a Retry, an Unknown is given up like a Timeout.
OneOfEach == {"Ok", "Retry", "Timeout"}
PingDeathReplies == {"Ok", "PingDeath"}

\* Every error is read, or those whose fields the two sides name differently are
\* not.
AllReadable == {}
Misnamed == {"PingDeath"}

NoFaults == {}

\* A user may be refused any number of times: the last event is taken back once
\* it was refused and its response is through, and its id is used again.  No
\* other state refers to the id of an event that never held the lock.
Forget ==
    LET id == Len(events) IN
    /\ id > 0
    /\ Interactive(id) /\ id \notin admitted
    /\ stage[id] \in {"done", "lost"}
    /\ events' = SubSeq(events, 1, id - 1)
    /\ stage' = [stage EXCEPT ![id] = "absent"]
    /\ UNCHANGED <<lock, recent, pre, buffer, hand, worker, responses, post,
                   admitted, warnings>>

\* Bound, by symmetry: of two users and three events one user has sent at most
\* one; which of them it is is fixed.
Main == CHOOSE n \in Nicks : TRUE
Others == {id \in 1..Len(events) : Nick(id) # Main}
OneOfOthers == Cardinality(Others) <= 1

EndlessNext == Next \/ Forget

EndlessFairSpec == Init /\ [][EndlessNext]_vars /\ Fairness
=============================================================================
