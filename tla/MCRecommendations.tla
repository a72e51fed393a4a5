-------------------------- MODULE MCRecommendations --------------------------
(***************************************************************************)
(* Instances of Recommendations for TLC: two beatmaps, one of which may be *)
(* recommended with mods, and settings that share an item.                 *)
(***************************************************************************)
EXTENDS Recommendations

CONSTANTS a, b, c, plain, hidden

Arguments == {plain, hidden}
Allowed == (plain :> {a, b}) @@ (hidden :> {b, c})
Maps == (a :> 1) @@ (b :> 1) @@ (c :> 2)
Chances == (a :> 4) @@ (b :> 2) @@ (c :> 1)
Symmetry == Permutations(Threads)
=============================================================================
