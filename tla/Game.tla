-------------------------------- MODULE Game --------------------------------
(***************************************************************************)
(* The GAME object of the Jeux server: tic-tac-toe (hw5/src/game.c).       *)
(*                                                                         *)
(* A move takes two calls, game_parse_move and game_apply_move, and the    *)
(* game's mutex is released in between: what the first call has checked    *)
(* may have changed when the second one runs.  Each call holds the mutex   *)
(* for its whole body, so each is one action.                              *)
(***************************************************************************)
EXTENDS Integers, FiniteSets

CONSTANTS
    Threads,     \* the threads that call the game's operations
    MoveRoles    \* the roles they parse moves for

\* GAME_ROLE (include/game.h)
NULL_ROLE == 0
FIRST_PLAYER_ROLE == 1
SECOND_PLAYER_ROLE == 2

Players == {FIRST_PLAYER_ROLE, SECOND_PLAYER_ROLE}
Roles == Players \cup {NULL_ROLE}

\* A caller passes its own role; NULL_ROLE is legal and means "whoever".
ASSUME MoveRolesAssumption == MoveRoles \subseteq Roles

Boxes == 1..9

\* The rows, columns and diagonals in the order game_apply_move looks at them.
Lines == << <<1, 2, 3>>, <<4, 5, 6>>, <<7, 8, 9>>,
            <<1, 4, 7>>, <<2, 5, 8>>, <<3, 6, 9>>,
            <<1, 5, 9>>, <<3, 5, 7>> >>

VARIABLES
    game_board,        \* [Boxes -> -1..1]: -1 is FIRST's X, 1 SECOND's O
    current_player,    \* the role on the move, NULL_ROLE once the game is over
    winner,            \* NULL_ROLE while in play and after a draw
    game_terminated,
    move               \* move[t]: the GAME_MOVE t has parsed and not applied yet

vars == <<game_board, current_player, winner, game_terminated, move>>
game == <<game_board, current_player, winner, game_terminated>>

GameMoves == [moveBox : Boxes, player : Roles]
NoMove == [moveBox |-> 0, player |-> NULL_ROLE]

-----------------------------------------------------------------------------
\* What one role leaves on the board.
Mark(role) == IF role = FIRST_PLAYER_ROLE THEN -1 ELSE 1

\* Faulty variant: the role is counted up without going back to the first.
NextPlayerUp(role) == role + 1

NextPlayer(role) ==
    IF role = FIRST_PLAYER_ROLE THEN SECOND_PLAYER_ROLE ELSE FIRST_PLAYER_ROLE

LineSum(board, i) ==
    board[Lines[i][1]] + board[Lines[i][2]] + board[Lines[i][3]]

\* Faulty variant: the last diagonal is not looked at.
WonLinesButOne(board) == {i \in 1..7 : LineSum(board, i) \in {-3, 3}}

WonLines(board) == {i \in 1..8 : LineSum(board, i) \in {-3, 3}}

\* Every won line overwrites the winner field: the last one looked at decides.
LineWinner(board, before) ==
    IF WonLines(board) = {} THEN before
    ELSE LET last == CHOOSE i \in WonLines(board) :
                        \A j \in WonLines(board) : j <= i
         IN  IF LineSum(board, last) = 3 THEN SECOND_PLAYER_ROLE
                                         ELSE FIRST_PLAYER_ROLE

Full(board) == \A b \in Boxes : board[b] # 0

-----------------------------------------------------------------------------
Init ==
    /\ game_board = [b \in Boxes |-> 0]
    /\ current_player = FIRST_PLAYER_ROLE
    /\ winner = NULL_ROLE
    /\ game_terminated = FALSE
    /\ move = [t \in Threads |-> NoMove]

\* A role other than NULL_ROLE must be on the move when the string is parsed.
\* A string that is not one digit between 1 and 9 changes nothing.
ParseMove(t, role, box) ==
    /\ move[t] = NoMove
    /\ role # NULL_ROLE => role = current_player
    /\ move' = [move EXCEPT ![t] = [moveBox |-> box, player |-> role]]
    /\ UNCHANGED game

\* Faulty variant: the turn was checked by game_parse_move only.
LegalAnyTurn(m) == game_board[m.moveBox] = 0 /\ m.player # NULL_ROLE

Legal(m) ==
    /\ current_player = m.player
    /\ game_board[m.moveBox] = 0
    /\ m.player # NULL_ROLE

\* Faulty variant: the other player is on the move also after the end.
SettleKeepsTurn(board, role) ==
    /\ winner' = LineWinner(board, winner)
    /\ current_player' = NextPlayer(role)
    /\ game_terminated' = (winner' # NULL_ROLE \/ Full(board))

\* The end of game_apply_move: winner, draw, and the end of the game.  There is
\* no test of game_terminated: the NULL_ROLE of current_player has to do.
Settle(board, role) ==
    /\ winner' = LineWinner(board, winner)
    /\ IF winner' # NULL_ROLE \/ Full(board)
       THEN current_player' = NULL_ROLE /\ game_terminated' = TRUE
       ELSE current_player' = NextPlayer(role) /\ UNCHANGED game_terminated

ApplyMove(t) ==
    LET m == move[t] IN
    /\ m # NoMove
    /\ Legal(m)
    /\ game_board' = [game_board EXCEPT ![m.moveBox] = Mark(m.player)]
    /\ Settle(game_board', m.player)
    /\ move' = [move EXCEPT ![t] = NoMove]

\* Out of turn, occupied box or NULL_ROLE: -1, and the caller drops the move.
RejectMove(t) ==
    /\ move[t] # NoMove
    /\ ~Legal(move[t])
    /\ move' = [move EXCEPT ![t] = NoMove]
    /\ UNCHANGED game

\* Faulty variant: no test of game_terminated.
ResignAnytime(role) ==
    /\ current_player' = NULL_ROLE
    /\ winner' = NextPlayer(role)
    /\ game_terminated' = TRUE
    /\ UNCHANGED <<game_board, move>>

\* An error if the game has already terminated.
Resign(role) ==
    /\ ~game_terminated
    /\ current_player' = NULL_ROLE
    /\ winner' = IF role = FIRST_PLAYER_ROLE THEN SECOND_PLAYER_ROLE
                                             ELSE FIRST_PLAYER_ROLE
    /\ game_terminated' = TRUE
    /\ UNCHANGED <<game_board, move>>

Next ==
    \/ \E t \in Threads :
          \/ \E role \in MoveRoles, box \in Boxes : ParseMove(t, role, box)
          \/ ApplyMove(t)
          \/ RejectMove(t)
    \/ \E role \in Players : Resign(role)

Spec == Init /\ [][Next]_vars

-----------------------------------------------------------------------------
\* The fields of the GAME and the pending moves have their types.
TypeOK ==
    /\ game_board \in [Boxes -> -1..1]
    /\ current_player \in Roles
    /\ winner \in Roles
    /\ game_terminated \in BOOLEAN
    /\ move \in [Threads -> GameMoves \cup {NoMove}]

Marks(board, role) == {b \in Boxes : board[b] = Mark(role)}

\* Strict alternation, seen on the board: whatever moves were parsed early,
\* applied late or refused, FIRST has made as many moves as SECOND when FIRST is
\* on the move and one more when SECOND is.
TurnsAlternate ==
    LET x == Cardinality(Marks(game_board, FIRST_PLAYER_ROLE))
        o == Cardinality(Marks(game_board, SECOND_PLAYER_ROLE))
    IN  /\ current_player = FIRST_PLAYER_ROLE => x = o
        /\ current_player = SECOND_PLAYER_ROLE => x = o + 1
        /\ x - o \in {0, 1}

HasLine(board, role) ==
    \E i \in 1..8 : \A k \in 1..3 : board[Lines[i][k]] = Mark(role)

\* The verdict agrees with the board: a role that owns a line has won and its
\* opponent owns none, a game without a winner is over exactly when the board is
\* full, and nobody is on the move exactly when the game is over.
VerdictMatchesBoard ==
    /\ \A role \in Players : HasLine(game_board, role) => winner = role
    /\ winner = NULL_ROLE => (game_terminated <=> Full(game_board))
    /\ winner # NULL_ROLE => game_terminated
    /\ current_player = NULL_ROLE <=> game_terminated

\* A finished game is final: no pending move, no resignation and no later call
\* changes its board, its winner or the player on the move.
FinishedIsFinal == [][game_terminated => UNCHANGED game]_vars

\* A game of the detailed model is a game of the abstract one.
Abstract == INSTANCE GameSpec
    WITH over <- game_terminated, winner <- winner, turn <- current_player

\* What the players see is GameSpec: alternating turns, a last move that wins or
\* draws for the player who made it, a resignation that wins for the other.
ImplementsGameSpec == Abstract!Spec
=============================================================================
