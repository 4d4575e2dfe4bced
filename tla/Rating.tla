------------------------------- MODULE Rating -------------------------------
(***************************************************************************)
(* player_post_result (hw5/src/player.c): the Elo update of two players at *)
(* the end of a game, called by the service threads of whichever clients   *)
(* end a game, under the mutexes of both players.                          *)
(***************************************************************************)
EXTENDS Integers, FiniteSets, FiniteSetsExt, SequencesExt

CONSTANTS
    Threads,
    Players,
    NULL,
    Results     \* the calls to make: records [id, player1, player2, result]

PLAYER_INITIAL_RATING == 1500

ASSUME NullAssumption == NULL \notin Threads
ASSUME PlayersAssumption == IsFiniteSet(Players)
ASSUME ResultsAssumption ==
    \A r \in Results : r.player1 \in Players /\ r.player2 \in Players /\ r.result \in 0..2

VARIABLES
    rating,
    mutex,      \* mutex[p]: the thread that holds the player's mutex, or NULL
    pc,         \* where a thread is in player_post_result
    call,       \* the call it is making
    R1, R2,     \* the ratings it has read
    posted      \* the calls that have been taken up

vars == <<rating, mutex, pc, call, R1, R2, posted>>

-----------------------------------------------------------------------------
\* (int)(32 * (1 - 1/(1 + 10^(-d/400)))): the gain of a winner rated d points above
\* the loser is at least k exactly when d is at most the k-th entry.
Cutoffs == << 596, 470, 394, 338, 292, 254, 221, 190, 162, 136, 112, 88, 65, 43, 21,
              0, -22, -44, -66, -89, -113, -137, -163, -191, -222, -255, -293, -339,
              -395, -471, -597 >>

Gain(d) == Cardinality({k \in 1..31 : d <= Cutoffs[k]})

\* (int)(32 * (S - E)) of a player rated d points above the other, for its score S
\* of 0, 1/2 or 1 (halves: 0, 1, 2).  The cast drops the fraction towards zero.
Change(d, halves) ==
    CASE halves = 2 -> Gain(d)
      [] halves = 0 -> -Gain(-d)
      [] halves = 1 -> IF d = 0 THEN 0 ELSE IF d > 0 THEN Gain(d) - 15 ELSE Gain(d) - 16

\* result is 0 for a draw, 1 if player1 has won, 2 if player2 has.
Halves1(result) == CASE result = 0 -> 1 [] result = 1 -> 2 [] result = 2 -> 0
\* Faulty variant: both players get the score of the first.
HalvesSame(result) == Halves1(result)

Halves2(result) == 2 - Halves1(result)

-----------------------------------------------------------------------------
Init ==
    /\ rating = [p \in Players |-> PLAYER_INITIAL_RATING]
    /\ mutex = [p \in Players |-> NULL]
    /\ pc = [t \in Threads |-> "idle"]
    /\ call = [t \in Threads |-> NULL]
    /\ R1 = [t \in Threads |-> 0]
    /\ R2 = [t \in Threads |-> 0]
    /\ posted = {}

Goto(t, from, to) == pc[t] = from /\ pc' = [pc EXCEPT ![t] = to]

\* Faulty variant: no mutual exclusion.
AcquireAtOnce(t, p) == mutex' = [mutex EXCEPT ![p] = t]

Acquire(t, p) == mutex[p] = NULL /\ mutex' = [mutex EXCEPT ![p] = t]
\* Faulty variant: a forgotten unlock.
ReleaseForgotten(p) == UNCHANGED mutex

Release(p) == mutex' = [mutex EXCEPT ![p] = NULL]

Call(t, r) ==
    /\ r \notin posted
    /\ Goto(t, "idle", "lock1")
    /\ call' = [call EXCEPT ![t] = r]
    /\ posted' = posted \cup {r}
    /\ UNCHANGED <<rating, mutex, R1, R2>>

Lock1(t) ==
    /\ Goto(t, "lock1", "lock2")
    /\ Acquire(t, call[t].player1)
    /\ UNCHANGED <<rating, call, R1, R2, posted>>

Lock2(t) ==
    /\ Goto(t, "lock2", "read")
    /\ Acquire(t, call[t].player2)
    /\ UNCHANGED <<rating, call, R1, R2, posted>>

Read(t) ==
    /\ Goto(t, "read", "update1")
    /\ R1' = [R1 EXCEPT ![t] = rating[call[t].player1]]
    /\ R2' = [R2 EXCEPT ![t] = rating[call[t].player2]]
    /\ UNCHANGED <<rating, mutex, call, posted>>

\* The changes are added to the rating fields, not to the values that were read.
Update1(t) ==
    /\ Goto(t, "update1", "update2")
    /\ rating' = [rating EXCEPT ![call[t].player1] =
                     @ + Change(R1[t] - R2[t], Halves1(call[t].result))]
    /\ UNCHANGED <<mutex, call, R1, R2, posted>>

Update2(t) ==
    /\ Goto(t, "update2", "unlock1")
    /\ rating' = [rating EXCEPT ![call[t].player2] =
                     @ + Change(R2[t] - R1[t], Halves2(call[t].result))]
    /\ UNCHANGED <<mutex, call, R1, R2, posted>>

Unlock1(t) ==
    /\ Goto(t, "unlock1", "unlock2")
    /\ Release(call[t].player1)
    /\ UNCHANGED <<rating, call, R1, R2, posted>>

Unlock2(t) ==
    /\ Goto(t, "unlock2", "idle")
    /\ Release(call[t].player2)
    /\ UNCHANGED <<rating, call, R1, R2, posted>>

Step(t) ==
    \/ Lock1(t) \/ Lock2(t) \/ Read(t) \/ Update1(t) \/ Update2(t)
    \/ Unlock1(t) \/ Unlock2(t)

Next == \E t \in Threads : Step(t) \/ \E r \in Results : Call(t, r)

\* A thread inside the function keeps running; nobody has to end a game.
Spec == Init /\ [][Next]_vars /\ \A t \in Threads : WF_vars(Step(t))

-----------------------------------------------------------------------------
\* Threads, mutexes, ratings and calls have their types.
TypeOK ==
    /\ rating \in [Players -> Int]
    /\ mutex \in [Players -> Threads \cup {NULL}]
    /\ pc \in [Threads -> {"idle", "lock1", "lock2", "read", "update1", "update2",
                           "unlock1", "unlock2"}]
    /\ \A t \in Threads : pc[t] # "idle" => call[t] \in posted
    /\ R1 \in [Threads -> Int] /\ R2 \in [Threads -> Int]
    /\ posted \subseteq Results

\* What one player gains the other loses, so the ratings of all players together
\* never change, except inside one call, between its two updates: no update of
\* another game gets lost in between and the two truncations cancel.  And whatever
\* the code does, the variables keep their types.
RatingsConserved ==
    /\ TypeOK
    /\ (\A t \in Threads : pc[t] # "update2") =>
          MapThenSumSet(LAMBDA p : rating[p], Players)
              = PLAYER_INITIAL_RATING * Cardinality(Players)

\* The ratings after one more game, read and written in one go.
PostOn(ratings, r) ==
    LET d == ratings[r.player1] - ratings[r.player2]
    IN  [ratings EXCEPT ![r.player1] = @ + Change(d, Halves1(r.result)),
                        ![r.player2] = @ + Change(-d, Halves2(r.result))]

\* Whatever the interleaving, the ratings at rest are those of the posted games
\* played one after the other in some order: no game is rated from ratings that
\* were already stale.
PostsSerialize ==
    (\A t \in Threads : pc[t] = "idle") =>
        \E order \in SetToSeqs(posted) :
            rating = FoldLeft(PostOn, [p \in Players |-> PLAYER_INITIAL_RATING], order)

\* Every call returns.  It does when the calls agree on an order of the players;
\* player_post_result itself imposes none.
PostsComplete == \A t \in Threads : pc[t] = "lock1" ~> pc[t] = "idle"

Awaits(t) == CASE pc[t] = "lock1" -> {call[t].player1}
               [] pc[t] = "lock2" -> {call[t].player2}
               [] OTHER -> {}

\* "Be sure that all the operations that might be called concurrently are
\* thread-safe" (include/player.h:31-32): no two threads wait for each other.
NoCircularWait ==
    ~ \E t, u \in Threads :
        /\ \E p \in Awaits(t) : mutex[p] = u
        /\ \E q \in Awaits(u) : mutex[q] = t
=============================================================================
