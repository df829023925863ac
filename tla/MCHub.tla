------------------------------- MODULE MCHub --------------------------------
(* Hub for TLC: a connection of one API key, and one of an administrator. *)
EXTENDS Hub

CONSTANTS c1, c2, o1, o2

SubjectOf == [c \in {c1, c2} |-> IF c = c1 THEN o1 ELSE Admin]
=============================================================================
