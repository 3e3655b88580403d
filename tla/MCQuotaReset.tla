---------------------------- MODULE MCQuotaReset ----------------------------
(* QuotaReset on a small instance, its identifiers interchangeable.        *)
EXTENDS QuotaReset, TLC

Symmetry ==
  Permutations(Users) \cup Permutations(Keys) \cup Permutations(Jobs)
    \cup Permutations(Workers) \cup Permutations(Handlers)
=============================================================================
