------------------------------ MODULE MCRating ------------------------------
(* Games among three players.  In OrderedGames the first player of a result   *)
(* always comes earlier in the alphabet; in CrossedGames two players play two *)
(* games at a time, each the first mover of one of them.                      *)
EXTENDS Rating

Game(i, p, q, r) == [id |-> i, player1 |-> p, player2 |-> q, result |-> r]

OrderedGames == {Game(1, "a", "b", 1), Game(2, "b", "c", 2),
                 Game(3, "a", "c", 0), Game(4, "a", "b", 1)}
CrossedGames == {Game(1, "a", "b", 1), Game(2, "b", "a", 2)}
=============================================================================
