----------------------------- MODULE MCService -----------------------------
(* A small instance of Service: two pages, and texts of two sizes.           *)
EXTENDS Service, TLC

CONSTANTS short, long, junk, s1, s2, tab1, tab2

SmallSize == (short :> 1) @@ (long :> 2) @@ (junk :> 2)

ServiceSymmetry == Permutations({s1, s2}) \cup Permutations({tab1, tab2})

=============================================================================
