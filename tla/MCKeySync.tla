----------------------------- MODULE MCKeySync -----------------------------
(* KeySync on a small instance, its keys and flights interchangeable.      *)
EXTENDS KeySync, TLC

Symmetry == Permutations(Keys) \cup Permutations(Flights)
=============================================================================
