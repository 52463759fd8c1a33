------------------------------ MODULE MCBreaker ------------------------------
(* Breaker on small instances. *)
EXTENDS Breaker, TLC

CONSTANTS c1, c2, c3

MCCallers == {c1, c2, c3}

\* Callers are interchangeable and no checked property is a liveness one.
CallerSymmetry == Permutations(MCCallers)
==============================================================================
