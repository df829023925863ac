------------------------------- MODULE MCAuth -------------------------------
(* Auth for TLC: requests are interchangeable, and so are key ids. *)
EXTENDS Auth, TLC

Symmetry == Permutations(Requests) \cup Permutations(Keys)
=============================================================================
