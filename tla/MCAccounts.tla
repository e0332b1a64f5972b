------------------------------- MODULE MCAccounts -------------------------------
(* A small instance of Accounts for TLC.                                   *)
EXTENDS Accounts, TLC

CONSTANTS x1, x2, x3, r1, r2

ThreeIds == {x1, x2, x3}
TwoNames == SeedNames
TwoRequests == {r1, r2}

Symmetry == Permutations(Ids) \cup Permutations(Requests)
================================================================================
