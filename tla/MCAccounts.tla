---------------------------- MODULE MCAccounts ----------------------------
(* Accounts on a small instance, its requests interchangeable.             *)
EXTENDS Accounts, TLC

Symmetry == Permutations(Clients) \cup Permutations(SetupTokens)
=============================================================================
