---------------------------- MODULE MCRateLimit -----------------------------
(* RateLimit for TLC: two replicas, one with two worker goroutines. *)
EXTENDS RateLimit, TLC

CONSTANTS r1, r2, c1, c2, c3

HomeOf  == [c \in {c1, c2, c3} |-> IF c = c3 THEN r2 ELSE r1]
SkewOf  == [r \in {r1, r2} |-> IF r = r1 THEN 1 ELSE 0]

(* Nothing tells the two goroutines of r1 apart. *)
Symmetry == Permutations({c1, c2})
=============================================================================
