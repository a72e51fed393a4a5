------------------------------- MODULE MCFixId --------------------------------
(***************************************************************************)
(* An instance of NameResolver in which nothing fails and no time passes,  *)
(* with what !fixid has told its user.                                     *)
(***************************************************************************)
EXTENDS NameResolver, TLC

VARIABLE announced  \* the id that each name is now resolvable to

mcVars == <<vars, announced>>

MCInit == Init /\ announced = [n \in Names |-> Null]

\* "User ... is now resolvable to user-id ..."
Announces(t) == At(t, "invalidate") /\ thread[t].task = "manual" /\ Invalidate(t)

\* The Bouncer lets in one message of a user at a time; other events are not
\* bounced.
OneMessage ==
    \A s, t \in Threads :
        /\ {"activity", "welcome"} \cap {thread[s].task, thread[t].task} = {}
        /\ thread[s].nick = thread[t].nick /\ thread[s].nick # Null
        => s = t

MCNext ==
    \/ Requests /\ OneMessage' /\ announced' = [n \in Names |-> Null]
    \/ \E t \in Threads :
         /\ Work(t)
         /\ announced' = IF Announces(t)
                         THEN [announced EXCEPT ![thread[t].name] = thread[t].id]
                         ELSE announced

MCSpec == MCInit /\ [][MCNext]_mcVars

(* What has been announced holds at least until another request begins.    *)
AnnouncedHolds ==
    \A n \in Names : announced[n] # Null =>
        /\ usernames[n].id = announced[n]
        /\ resolvedIRCNames[n] \in {Null, announced[n]}
=============================================================================
