------------------------------ MODULE GameSpec ------------------------------
(***************************************************************************)
(* What a GAME of the Jeux server promises to the rest of the server,      *)
(* whatever the game is: two roles that alternate, an end that is final,   *)
(* and a winner that is known exactly when the game has one.  The board is *)
(* not visible here.  Module Game (hw5/src/game.c) implements this module; *)
(* module Match (invitations) is built on it.                              *)
(***************************************************************************)
EXTENDS Integers

NULL_ROLE == 0
FIRST_PLAYER_ROLE == 1
SECOND_PLAYER_ROLE == 2

Players == {FIRST_PLAYER_ROLE, SECOND_PLAYER_ROLE}
Roles == Players \cup {NULL_ROLE}

Opponent(role) ==
    IF role = FIRST_PLAYER_ROLE THEN SECOND_PLAYER_ROLE ELSE FIRST_PLAYER_ROLE

VARIABLES
    over,      \* the game has ended
    winner,    \* the role that has won; NULL_ROLE while in play and after a draw
    turn       \* the role on the move; NULL_ROLE once the game is over

gameVars == <<over, winner, turn>>

Init ==
    /\ over = FALSE
    /\ winner = NULL_ROLE
    /\ turn = FIRST_PLAYER_ROLE

\* The player on the move plays and the game goes on with the opponent.
PlayOn ==
    /\ ~over
    /\ turn' = Opponent(turn)
    /\ UNCHANGED <<over, winner>>

\* The player on the move plays the last move: it wins or draws, never loses.
LastMove ==
    /\ ~over
    /\ over' = TRUE
    /\ winner' \in {turn, NULL_ROLE}
    /\ turn' = NULL_ROLE

\* A player gives up, on its own turn or not: the opponent has won.
GiveUp(role) ==
    /\ ~over
    /\ over' = TRUE
    /\ winner' = Opponent(role)
    /\ turn' = NULL_ROLE

Next == PlayOn \/ LastMove \/ \E role \in Players : GiveUp(role)

Spec == Init /\ [][Next]_gameVars
=============================================================================
