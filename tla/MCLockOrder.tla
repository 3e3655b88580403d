---------------------------- MODULE MCLockOrder ----------------------------
(* LockOrder on a small instance, its goroutines interchangeable.          *)
EXTENDS LockOrder, TLC

Symmetry == Permutations(Requests) \cup Permutations(Flights)
=============================================================================
