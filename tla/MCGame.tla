------------------------------- MODULE MCGame -------------------------------
(* The whole 3 by 3 board.  The threads play the same part in every property, *)
(* none of which is a liveness property: permuting them is sound.             *)
EXTENDS Game, TLC

MCPlayers == Players
ThreadSymmetry == Permutations(Threads)
=============================================================================
