---------------------------- MODULE MCRateLimiter ----------------------------
(***************************************************************************)
(* An instance of RateLimiter for TLC.                                     *)
(***************************************************************************)
EXTENDS RateLimiter

\* Room for two permits in the lower queues, and for more than one per thread in
\* the upper ones.
Stepped == [l \in Levels |-> IF l = MAINTENANCE THEN 2 ELSE 3]
=============================================================================
