-------------------------- MODULE MCPlayerRegistry --------------------------
(* A few connections that log in, list the users and leave again and again.    *)
EXTENDS PlayerRegistry, TLC

Symmetric == Permutations(Threads) \cup Permutations(Names) \cup Permutations(Objects)
=============================================================================
