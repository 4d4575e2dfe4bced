----------------------------- MODULE Game_proofs -----------------------------
(* Theorems about Game, for every set of threads and every MoveRoles.        *)
EXTENDS Game, FiniteSetTheorems, TLAPS

\* The lines of the board are made of its boxes.
LEMMA LinesInBoxes ==
    \A i \in 1..8 : \A k \in 1..3 : Lines[i][k] \in Boxes
  BY DEF Lines, Boxes

\* A line adds up to 3 only when SECOND owns all of it, to -3 only when FIRST does.
LEMMA LineSumOwner ==
    ASSUME NEW board \in [Boxes -> -1..1], NEW i \in 1..8
    PROVE  /\ LineSum(board, i) \in Int
           /\ LineSum(board, i) = 3 <=> \A k \in 1..3 : board[Lines[i][k]] = 1
           /\ LineSum(board, i) = -3 <=> \A k \in 1..3 : board[Lines[i][k]] = -1
<1> DEFINE cell(k) == board[Lines[i][k]]
<1>1. /\ cell(1) \in -1..1
      /\ cell(2) \in -1..1
      /\ cell(3) \in -1..1
  BY LinesInBoxes
<1>2. LineSum(board, i) = cell(1) + cell(2) + cell(3)
  BY DEF LineSum
<1>3. \A c : (\A k \in 1..3 : cell(k) = c) <=> (cell(1) = c /\ cell(2) = c /\ cell(3) = c)
  OBVIOUS
<1> HIDE DEF cell
<1>4. /\ LineSum(board, i) \in Int
      /\ LineSum(board, i) = 3 <=> \A k \in 1..3 : cell(k) = 1
      /\ LineSum(board, i) = -3 <=> \A k \in 1..3 : cell(k) = -1
  BY <1>1, <1>2, <1>3
<1> QED BY <1>4 DEF cell

\* The won lines of a board are the lines some role owns.
LEMMA WonLinesOwned ==
    ASSUME NEW board \in [Boxes -> -1..1]
    PROVE  WonLines(board) = {} <=> \A role \in Players : ~HasLine(board, role)
  BY LineSumOwner DEF WonLines, HasLine, Mark, Players, FIRST_PLAYER_ROLE, SECOND_PLAYER_ROLE

\* A set of lines that is not empty has a last one.
LEMMA LastLineExists ==
    ASSUME NEW S \in SUBSET (1..8), S # {}
    PROVE  \E i \in S : \A j \in S : j <= i
<1> SUFFICES ASSUME \A i \in S : \E j \in S : ~(j <= i) PROVE FALSE
  OBVIOUS
<1>1. \A i \in S : i \in 1..8
  OBVIOUS
<1>2. 8 \notin S BY <1>1
<1>3. 7 \notin S BY <1>1, <1>2
<1>4. 6 \notin S BY <1>1, <1>2, <1>3
<1>5. 5 \notin S BY <1>1, <1>2, <1>3, <1>4
<1>6. 4 \notin S BY <1>1, <1>2, <1>3, <1>4, <1>5
<1>7. 3 \notin S BY <1>1, <1>2, <1>3, <1>4, <1>5, <1>6
<1>8. 2 \notin S BY <1>1, <1>2, <1>3, <1>4, <1>5, <1>6, <1>7
<1>9. 1 \notin S BY <1>1, <1>2, <1>3, <1>4, <1>5, <1>6, <1>7, <1>8
<1>10. PICK x \in S : TRUE
  OBVIOUS
<1> QED BY <1>1, <1>2, <1>3, <1>4, <1>5, <1>6, <1>7, <1>8, <1>9, <1>10

\* On a board where nobody owned a line, the only role a new mark can give a
\* line to is the role that made the mark, and LineWinner names that role.
LEMMA OnlyMoverWins ==
    ASSUME NEW board \in [Boxes -> -1..1], NEW box \in Boxes, NEW role \in Players,
           board[box] = 0, WonLines(board) = {},
           NEW after \in [Boxes -> -1..1],
           after[box] = Mark(role), \A b \in Boxes \ {box} : after[b] = board[b]
    PROVE  /\ ~HasLine(after, NextPlayer(role))
           /\ LineWinner(after, NULL_ROLE) = IF HasLine(after, role) THEN role ELSE NULL_ROLE
<1>1. ~HasLine(after, NextPlayer(role))
  <2> SUFFICES ASSUME HasLine(after, NextPlayer(role)) PROVE FALSE
    OBVIOUS
  <2>1. PICK i \in 1..8 : \A k \in 1..3 : after[Lines[i][k]] = Mark(NextPlayer(role))
    BY DEF HasLine
  <2>2. \A k \in 1..3 : board[Lines[i][k]] = Mark(NextPlayer(role))
    BY <2>1, LinesInBoxes
       DEF Mark, NextPlayer, Players, FIRST_PLAYER_ROLE, SECOND_PLAYER_ROLE
  <2>3. HasLine(board, NextPlayer(role)) /\ NextPlayer(role) \in Players
    BY <2>2 DEF HasLine, NextPlayer, Players
  <2> QED BY <2>3, WonLinesOwned
<1>2. CASE HasLine(after, role)
  <2>1. WonLines(after) # {}
    BY <1>2, WonLinesOwned
  <2>2. PICK last \in WonLines(after) :
            LineWinner(after, NULL_ROLE) =
                IF LineSum(after, last) = 3 THEN SECOND_PLAYER_ROLE ELSE FIRST_PLAYER_ROLE
    <3>1. \E i \in WonLines(after) : \A j \in WonLines(after) : j <= i
      BY <2>1, LastLineExists DEF WonLines
    <3> QED BY <2>1, <3>1 DEF LineWinner
  <2>3. /\ last \in 1..8
        /\ LineSum(after, last) \in {-3, 3}
    BY DEF WonLines
  <2>4. ASSUME NEW i \in 1..8
        PROVE  /\ LineSum(after, i) = 3 => \A k \in 1..3 : after[Lines[i][k]] = 1
               /\ LineSum(after, i) = -3 => \A k \in 1..3 : after[Lines[i][k]] = -1
    BY LineSumOwner
  <2>5. /\ LineSum(after, last) = 3 => \A k \in 1..3 : after[Lines[last][k]] = 1
        /\ LineSum(after, last) = -3 => \A k \in 1..3 : after[Lines[last][k]] = -1
    BY <2>3, <2>4
  <2>6. /\ Mark(FIRST_PLAYER_ROLE) = -1
        /\ Mark(SECOND_PLAYER_ROLE) = 1
    BY DEF Mark, FIRST_PLAYER_ROLE, SECOND_PLAYER_ROLE
  <2>7. /\ LineSum(after, last) = 3 => HasLine(after, SECOND_PLAYER_ROLE)
        /\ LineSum(after, last) = -3 => HasLine(after, FIRST_PLAYER_ROLE)
    BY <2>3, <2>5, <2>6 DEF HasLine
  <2>8. LineWinner(after, NULL_ROLE) = role
    BY <1>1, <2>2, <2>3, <2>7
       DEF NextPlayer, Players, FIRST_PLAYER_ROLE, SECOND_PLAYER_ROLE
  <2> QED BY <1>1, <1>2, <2>8
<1>3. CASE ~HasLine(after, role)
  <2>1. WonLines(after) = {}
    BY <1>1, <1>3, WonLinesOwned DEF NextPlayer, Players
  <2>2. LineWinner(after, NULL_ROLE) = NULL_ROLE
    BY <2>1 DEF LineWinner
  <2> QED BY <1>1, <1>3, <2>2
<1> QED BY <1>1, <1>2, <1>3

-----------------------------------------------------------------------------
IInv == TypeOK /\ VerdictMatchesBoard

USE DEF NULL_ROLE, FIRST_PLAYER_ROLE, SECOND_PLAYER_ROLE, Players, Roles

\* The initial state has the invariant.
LEMMA InitIInv == Init => IInv
<1> SUFFICES ASSUME Init PROVE IInv
  OBVIOUS
<1>1. TypeOK
  <2>1. game_board \in [Boxes -> -1..1]
    BY DEF Init
  <2>2. move \in [Threads -> GameMoves \cup {NoMove}]
    BY DEF Init
  <2> QED BY <2>1, <2>2 DEF Init, TypeOK
<1>2. \A i \in 1..8 : game_board[Lines[i][1]] = 0
  BY LinesInBoxes DEF Init
<1>3. \A role \in Players : ~HasLine(game_board, role)
  BY <1>2 DEF HasLine, Mark
<1>4. VerdictMatchesBoard
  BY <1>3 DEF Init, VerdictMatchesBoard, Full, Boxes
<1> QED BY <1>1, <1>4 DEF IInv

\* What a legal move does to the game, from the invariant of the state before it.
LEMMA ApplyMoveEffect ==
    ASSUME IInv, NEW t \in Threads, ApplyMove(t)
    PROVE  /\ IInv'
           /\ ~game_terminated
           /\ current_player \in Players
           /\ winner = NULL_ROLE
           /\ winner' \in {current_player, NULL_ROLE}
           /\ IF game_terminated' THEN current_player' = NULL_ROLE
              ELSE winner' = NULL_ROLE /\ current_player' = NextPlayer(current_player)
<1> DEFINE m == move[t]
<1>1. /\ m \in GameMoves
      /\ m.moveBox \in Boxes
      /\ m.player \in Players
      /\ m.player = current_player
      /\ game_board[m.moveBox] = 0
  BY DEF IInv, TypeOK, ApplyMove, Legal, GameMoves
<1>2. /\ ~game_terminated
      /\ winner = NULL_ROLE
  BY <1>1 DEF IInv, VerdictMatchesBoard
<1>3. WonLines(game_board) = {}
  <2>1. \A role \in Players : ~HasLine(game_board, role)
    BY <1>2 DEF IInv, VerdictMatchesBoard
  <2> QED BY <2>1, WonLinesOwned DEF IInv, TypeOK
<1>4. /\ game_board' = [game_board EXCEPT ![m.moveBox] = Mark(m.player)]
      /\ move' = [move EXCEPT ![t] = NoMove]
      /\ Settle(game_board', m.player)
  BY DEF ApplyMove
<1> HIDE DEF m
<1>5. /\ game_board' \in [Boxes -> -1..1]
      /\ ~HasLine(game_board', NextPlayer(m.player))
      /\ LineWinner(game_board', NULL_ROLE) =
            IF HasLine(game_board', m.player) THEN m.player ELSE NULL_ROLE
  <2>1. game_board \in [Boxes -> -1..1]
    BY DEF IInv, TypeOK
  <2>2. game_board' \in [Boxes -> -1..1]
    <3>1. Mark(m.player) \in -1..1
      BY DEF Mark
    <3> QED BY <1>4, <2>1, <3>1
  <2>3. /\ game_board'[m.moveBox] = Mark(m.player)
        /\ \A b \in Boxes \ {m.moveBox} : game_board'[b] = game_board[b]
    BY <1>1, <1>4, <2>1
  <2> QED BY <1>1, <1>3, <2>1, <2>2, <2>3, OnlyMoverWins
<1>6. winner' = IF HasLine(game_board', m.player) THEN m.player ELSE NULL_ROLE
  BY <1>2, <1>4, <1>5 DEF Settle
<1>7. /\ winner' # NULL_ROLE \/ Full(game_board') =>
            current_player' = NULL_ROLE /\ game_terminated' = TRUE
      /\ ~(winner' # NULL_ROLE \/ Full(game_board')) =>
            current_player' = NextPlayer(m.player) /\ game_terminated' = FALSE
  BY <1>2, <1>4 DEF Settle, IInv, TypeOK
<1>8. TypeOK'
  <2>1. move' \in [Threads -> GameMoves \cup {NoMove}]
    BY <1>4 DEF IInv, TypeOK
  <2>2. winner' \in Roles /\ current_player' \in Roles /\ game_terminated' \in BOOLEAN
    BY <1>1, <1>6, <1>7 DEF NextPlayer
  <2> QED BY <1>5, <2>1, <2>2 DEF TypeOK
<1>9. VerdictMatchesBoard'
  <2>1. \A role \in Players : HasLine(game_board', role) => winner' = role
    BY <1>1, <1>5, <1>6 DEF NextPlayer
  <2>2. /\ winner' = NULL_ROLE => (game_terminated' <=> Full(game_board'))
        /\ winner' # NULL_ROLE => game_terminated'
        /\ current_player' = NULL_ROLE <=> game_terminated'
    BY <1>7 DEF NextPlayer
  <2> QED BY <2>1, <2>2 DEF VerdictMatchesBoard, HasLine, Full
<1> QED BY <1>1, <1>2, <1>6, <1>7, <1>8, <1>9 DEF IInv

\* Every step keeps the invariant.
LEMMA NextIInv == IInv /\ [Next]_vars => IInv'
<1> SUFFICES ASSUME IInv, [Next]_vars PROVE IInv'
  OBVIOUS
<1>1. ASSUME NEW t \in Threads, NEW role \in MoveRoles, NEW box \in Boxes,
             ParseMove(t, role, box)
      PROVE  IInv'
  <2>1. [moveBox |-> box, player |-> role] \in GameMoves
    BY MoveRolesAssumption DEF GameMoves
  <2>2. TypeOK'
    BY <1>1, <2>1 DEF IInv, TypeOK, ParseMove, game
  <2>3. VerdictMatchesBoard'
    BY <1>1 DEF IInv, VerdictMatchesBoard, ParseMove, game, HasLine, Full
  <2> QED BY <2>2, <2>3 DEF IInv
<1>2. ASSUME NEW t \in Threads, ApplyMove(t) PROVE IInv'
  BY <1>2, ApplyMoveEffect
<1>3. ASSUME NEW t \in Threads, RejectMove(t) PROVE IInv'
  <2>1. TypeOK'
    BY <1>3 DEF IInv, TypeOK, RejectMove, game
  <2>2. VerdictMatchesBoard'
    BY <1>3 DEF IInv, VerdictMatchesBoard, RejectMove, game, HasLine, Full
  <2> QED BY <2>1, <2>2 DEF IInv
<1>4. ASSUME NEW role \in Players, Resign(role) PROVE IInv'
  <2>1. TypeOK'
    BY <1>4 DEF IInv, TypeOK, Resign
  <2>2. winner = NULL_ROLE
    BY <1>4 DEF IInv, VerdictMatchesBoard, Resign
  <2>3. \A r \in Players : ~HasLine(game_board, r)
    BY <2>2 DEF IInv, VerdictMatchesBoard
  <2>4. VerdictMatchesBoard'
    BY <1>4, <2>3 DEF VerdictMatchesBoard, Resign, HasLine, Full
  <2> QED BY <2>1, <2>4 DEF IInv
<1>5. CASE UNCHANGED vars
  BY <1>5 DEF IInv, TypeOK, VerdictMatchesBoard, vars, HasLine, Full
<1> QED BY <1>1, <1>2, <1>3, <1>4, <1>5 DEF Next

\* Type correctness of the game, whatever the threads do.
THEOREM TypeCorrect == Spec => []TypeOK
<1>1. IInv => TypeOK
  BY DEF IInv
<1> QED BY InitIInv, NextIInv, <1>1, PTL DEF Spec

\* game_apply_move's scan of the lines is right on every reachable board: the
\* winner owns a line or was resigned to, and the end of the game is never missed.
THEOREM VerdictCorrect == Spec => []VerdictMatchesBoard
<1>1. IInv => VerdictMatchesBoard
  BY DEF IInv
<1> QED BY InitIInv, NextIInv, <1>1, PTL DEF Spec

-----------------------------------------------------------------------------
\* The marks of a role can be counted.
LEMMA MarksFinite ==
    ASSUME NEW board, NEW role \in Players
    PROVE  /\ IsFiniteSet(Marks(board, role))
           /\ Cardinality(Marks(board, role)) \in Nat
<1>1. IsFiniteSet(Boxes)
  <2>1. 1 \in Int /\ 9 \in Int
    OBVIOUS
  <2>2. IsFiniteSet(1..9)
    BY <2>1, FS_Interval
  <2> QED BY <2>2 DEF Boxes
<1>2. Marks(board, role) \in SUBSET Boxes
  BY DEF Marks
<1>3. IsFiniteSet(Marks(board, role))
  BY <1>1, <1>2, FS_Subset
<1> QED BY <1>3, FS_CardinalityType

\* A mark in a free box is one more for the role that makes it, and none for the other.
LEMMA OneMoreMark ==
    ASSUME TypeOK, NEW box \in Boxes, NEW role \in Players, game_board[box] = 0,
           game_board' = [game_board EXCEPT ![box] = Mark(role)]
    PROVE  \A r \in Players :
               Cardinality(Marks(game_board, r)') =
                   Cardinality(Marks(game_board, r)) + (IF r = role THEN 1 ELSE 0)
<1> TAKE r \in Players
<1>1. Mark(r) # 0 /\ (Mark(r) = Mark(role) <=> r = role)
  BY DEF Mark
<1>2. \A b \in Boxes : game_board'[b] = IF b = box THEN Mark(role) ELSE game_board[b]
  BY DEF TypeOK
<1>3. CASE r = role
  <2>1. /\ Marks(game_board, r)' = Marks(game_board, r) \cup {box}
        /\ box \notin Marks(game_board, r)
    BY <1>1, <1>2, <1>3 DEF Marks
  <2>2. /\ IsFiniteSet(Marks(game_board, r))
        /\ Cardinality(Marks(game_board, r)) \in Nat
    BY MarksFinite
  <2>3. Cardinality(Marks(game_board, r) \cup {box}) = Cardinality(Marks(game_board, r)) + 1
    BY <2>1, <2>2, FS_AddElement
  <2> QED BY <1>3, <2>1, <2>3
<1>4. CASE r # role
  <2>1. Marks(game_board, r)' = Marks(game_board, r)
    BY <1>1, <1>2, <1>4 DEF Marks
  <2> QED BY <1>4, <2>1, MarksFinite
<1> QED BY <1>3, <1>4

\* Every step keeps the alternation of the turns, given the invariant.
LEMMA NextTurnsAlternate == IInv /\ TurnsAlternate /\ [Next]_vars => TurnsAlternate'
<1> SUFFICES ASSUME IInv, TurnsAlternate, [Next]_vars PROVE TurnsAlternate'
  OBVIOUS
<1> DEFINE x == Cardinality(Marks(game_board, FIRST_PLAYER_ROLE))
           o == Cardinality(Marks(game_board, SECOND_PLAYER_ROLE))
<1>1. /\ x \in Nat
      /\ o \in Nat
      /\ current_player = FIRST_PLAYER_ROLE => x = o
      /\ current_player = SECOND_PLAYER_ROLE => x = o + 1
      /\ x - o \in {0, 1}
  BY MarksFinite DEF TurnsAlternate
<1>2. ASSUME NEW t \in Threads, ApplyMove(t) PROVE TurnsAlternate'
  <2>1. PICK box \in Boxes, role \in Players :
            /\ role = current_player
            /\ game_board[box] = 0
            /\ game_board' = [game_board EXCEPT ![box] = Mark(role)]
    BY <1>2 DEF IInv, TypeOK, ApplyMove, Legal, GameMoves
  <2>2. /\ x' = x + (IF FIRST_PLAYER_ROLE = role THEN 1 ELSE 0)
        /\ o' = o + (IF SECOND_PLAYER_ROLE = role THEN 1 ELSE 0)
    BY <2>1, OneMoreMark DEF IInv
  <2>3. current_player' \in {NULL_ROLE, NextPlayer(current_player)}
    BY <1>2, ApplyMoveEffect
  <2>4. CASE current_player = FIRST_PLAYER_ROLE
    <3>1. x' = x + 1 /\ o' = o
      BY <1>1, <2>1, <2>2, <2>4
    <3> QED BY <1>1, <2>3, <2>4, <3>1 DEF TurnsAlternate, NextPlayer
  <2>5. CASE current_player = SECOND_PLAYER_ROLE
    <3>1. x' = x /\ o' = o + 1
      BY <1>1, <2>1, <2>2, <2>5
    <3> QED BY <1>1, <2>3, <2>5, <3>1 DEF TurnsAlternate, NextPlayer
  <2> QED BY <2>1, <2>4, <2>5
<1>3. ASSUME NEW role \in Players, Resign(role) PROVE TurnsAlternate'
  <2>1. x' = x /\ o' = o /\ current_player' = NULL_ROLE
    BY <1>3 DEF Resign
  <2> QED BY <1>1, <2>1 DEF TurnsAlternate
<1>4. CASE UNCHANGED game
  BY <1>4 DEF TurnsAlternate, game
<1> QED BY <1>2, <1>3, <1>4 DEF Next, ParseMove, RejectMove, vars, game

\* FIRST and SECOND move in turn: no move that was parsed early or by another thread
\* puts one role's marks ahead of the other's.
THEOREM TurnsAlwaysAlternate == Spec => []TurnsAlternate
<1>1. Init => TurnsAlternate
  <2> SUFFICES ASSUME Init PROVE TurnsAlternate
    OBVIOUS
  <2>1. \A role \in Players : Marks(game_board, role) = {}
    BY DEF Init, Marks, Mark
  <2>2. Cardinality(Marks(game_board, FIRST_PLAYER_ROLE)) = 0
    BY <2>1, FS_EmptySet
  <2>3. Cardinality(Marks(game_board, SECOND_PLAYER_ROLE)) = 0
    BY <2>1, FS_EmptySet
  <2> QED BY <2>2, <2>3 DEF Init, TurnsAlternate
<1> QED BY InitIInv, NextIInv, NextTurnsAlternate, <1>1, PTL DEF Spec

\* The missing test of game_terminated in game_apply_move is never needed.
THEOREM FinishedStaysFinal == Spec => FinishedIsFinal
<1>1. IInv /\ [Next]_vars => [game_terminated => UNCHANGED game]_vars
  <2> SUFFICES ASSUME IInv, Next, game_terminated PROVE UNCHANGED game
    BY DEF vars, game
  <2>1. ASSUME NEW t \in Threads, ApplyMove(t) PROVE FALSE
    BY <2>1, ApplyMoveEffect
  <2> QED BY <2>1 DEF Next, ParseMove, RejectMove, Resign, game
<1> QED BY InitIInv, NextIInv, <1>1, PTL DEF Spec, FinishedIsFinal

\* The game of game.c is a game as the rest of the server understands it.
THEOREM GameImplementsGameSpec == Spec => ImplementsGameSpec
<1> USE DEF Abstract!NULL_ROLE, Abstract!FIRST_PLAYER_ROLE, Abstract!SECOND_PLAYER_ROLE,
            Abstract!Players
<1>1. Init => Abstract!Init
  BY DEF Init, Abstract!Init
<1>2. IInv /\ [Next]_vars => [Abstract!Next]_Abstract!gameVars
  <2> SUFFICES ASSUME IInv, [Next]_vars PROVE [Abstract!Next]_Abstract!gameVars
    OBVIOUS
  <2>1. ASSUME NEW t \in Threads, ApplyMove(t) PROVE Abstract!PlayOn \/ Abstract!LastMove
    <3>1. CASE game_terminated'
      BY <2>1, <3>1, ApplyMoveEffect DEF Abstract!LastMove, IInv, TypeOK
    <3>2. CASE ~game_terminated'
      BY <2>1, <3>2, ApplyMoveEffect
         DEF Abstract!PlayOn, Abstract!Opponent, NextPlayer, IInv, TypeOK
    <3> QED BY <3>1, <3>2
  <2>2. ASSUME NEW role \in Players, Resign(role) PROVE Abstract!GiveUp(role)
    BY <2>2 DEF Resign, Abstract!GiveUp, Abstract!Opponent
  <2> QED BY <2>1, <2>2
          DEF Next, ParseMove, RejectMove, vars, game, Abstract!Next, Abstract!gameVars
<1> QED BY InitIInv, NextIInv, <1>1, <1>2, PTL DEF Spec, ImplementsGameSpec, Abstract!Spec
=============================================================================
