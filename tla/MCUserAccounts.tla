---------------------------- MODULE MCUserAccounts ----------------------------
(***************************************************************************)
(* Instances of UserAccounts for TLC: an account of osu! itself and another *)
(* one, which may be linked to the same osu! user or to a second one.      *)
(***************************************************************************)
EXTENDS UserAccounts, Naturals, TLC

CONSTANTS oauth, other, x, y,
          MaxRequests  \* bound on the number of requests

Owner == oauth :> x

VARIABLE requests

mcVars == <<vars, requests>>

MCInit == Init /\ requests = 0

Begins == \E t \in Threads : thread[t].pc = "idle" /\ thread'[t].pc # "idle"

MCNext ==
    /\ Next
    /\ requests' = IF Begins THEN requests + 1 ELSE requests
    /\ requests' <= MaxRequests

MCSpec == MCInit /\ [][MCNext]_mcVars

Symmetry == Permutations(Threads)
=============================================================================
