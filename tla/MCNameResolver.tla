---------------------------- MODULE MCNameResolver ----------------------------
(***************************************************************************)
(* Instances of NameResolver for TLC: whoever has the name a keeps writing *)
(* and time passes; the rest happens a limited number of times.            *)
(***************************************************************************)
EXTENDS NameResolver, Naturals

CONSTANTS
    a,           \* a name
    u,           \* the user who has it in the beginning
    MaxRenames,  \* bound on the changes of names
    MaxOther     \* bound on other requests and on what goes wrong

VARIABLES renames, other

mcVars == <<vars, renames, other>>

MCInit == Init /\ bearer[a] = u /\ renames = 0 /\ other = 0

\* The Bouncer lets in one message of a user at a time.
Writes ==
    /\ bearer[a] # NoUser
    /\ \A t \in Threads : thread[t].task # "message"
    /\ \E t \in Threads : Message(t, a)

MCNext ==
    \/ /\ renames < MaxRenames
       /\ \E v \in Users, n \in Names : Rename(v, n)
       /\ renames' = renames + 1 /\ UNCHANGED other
    \/ /\ other < MaxOther
       /\ Requests \/ Trouble \/ \E n \in Names \ {a} : Age(n)
       /\ other' = other + 1 /\ UNCHANGED renames
    \/ /\ Writes \/ Age(a) \/ (\E v \in Users : Hour(v)) \/ \E t \in Threads : Work(t)
       /\ UNCHANGED <<renames, other>>

MCSpec ==
    /\ MCInit /\ [][MCNext]_mcVars
    /\ \A t \in Threads : WF_vars(Work(t))
    /\ SF_vars(Writes) /\ WF_vars(Age(a))
    /\ \A v \in Users : SF_vars(Hour(v))

(* What is believed of a name comes to agree with osu!, although the cache *)
(* never expires and requests that are under way store what they found     *)
(* before: a message of the new bearer finds the old one under another     *)
(* name and has the mapping replaced (IRCBot.getUserOrThrow).  Only a      *)
(* former bearer who has no name any more, being banned, may stay.         *)
NameHeals ==
    <>[](bearer[a] \in Users =>
           Believed(a) \in {Null, bearer[a]} \cup {v \in Users : Named(v) = {}})
=============================================================================
