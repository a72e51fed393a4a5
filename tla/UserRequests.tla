---------------------------- MODULE UserRequests ----------------------------
(***************************************************************************)
(* What the Bouncer and the pipeline around it promise a user: requests    *)
(* are worked on one at a time, each at most once, and every request that  *)
(* was begun comes to an end.                                              *)
(***************************************************************************)
CONSTANTS Nicks, Ids

VARIABLES
    working, \* the requests of each user that are being worked on
    finished \* the requests that came to an end, answered or not

vars == <<working, finished>>

Init ==
    /\ working = [n \in Nicks |-> {}]
    /\ finished = {}

Begin(n, id) ==
    /\ working[n] = {}
    /\ id \notin finished
    /\ \A other \in Nicks : id \notin working[other]
    /\ working' = [working EXCEPT ![n] = {id}]
    /\ UNCHANGED finished

End(n, id) ==
    /\ working[n] = {id}
    /\ working' = [working EXCEPT ![n] = {}]
    /\ finished' = finished \cup {id}

Next == \E n \in Nicks, id \in Ids : Begin(n, id) \/ End(n, id)

Spec == Init /\ [][Next]_vars

EndsFairly == \A n \in Nicks : WF_vars(\E id \in Ids : End(n, id))

FairSpec == Spec /\ EndsFairly
=============================================================================
