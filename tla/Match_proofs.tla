---------------------------- MODULE Match_proofs ----------------------------
(* Theorems about Match: the references to the invitation, the results that   *)
(* are posted, and what the two connections leave behind, for all that the    *)
(* two service threads may do in between.                                     *)
EXTENDS Match, FiniteSetTheorems, TLAPS

(***************************************************************************)
(* The inductive invariant.                                                *)
(***************************************************************************)
Places == {"idle", "inviting", "held", "resigning", "parsed", "moved", "end",
           "remove source", "remove target", "post", "unref", "leaving", "gone"}

Functions == {"move", "resign", "revoke", "accept", "decline"}

States == {"none", "open", "accepted", "closed", "freed"}

Types ==
    /\ state \in States
    /\ source_role \in G!Players
    /\ has_game \in BOOLEAN
    /\ reference_count \in Int
    /\ mutex \in Clients \cup {NULL}
    /\ over \in BOOLEAN
    /\ winner \in G!Roles
    /\ turn \in G!Roles
    /\ listed \subseteq Clients
    /\ pc \in [Clients -> Places]
    /\ op \in [Clients -> Functions \cup {"none", "invite"}]
    /\ leaving \in [Clients -> {"no", "first", "second", "third", "last"}]
    /\ ack \in [Clients -> BOOLEAN]
    /\ verdict \in [Clients -> G!Roles]
    /\ posted \in Seq(G!Roles)

Listed(c) == IF c \in listed THEN 1 ELSE 0

\* The references, counted one client at a time; a crash leaves them as they are.
Exact ==
    reference_count = Listed(source) + Listed(target) + Held(source) + Held(target)

FreedOK == reference_count = 0 <=> state \in {"none", "freed"}

\* Before the invitation is made, nothing has happened that could concern it.
NoneOK ==
    state = "none" =>
        /\ ~has_game
        /\ listed = {}
        /\ posted = << >>
        /\ \A c \in Clients : leaving[c] = "no" /\ pc[c] \in {"idle", "gone"}

\* Which function, and which part of a logout, each place of a thread belongs to.
PlaceOK(c) ==
    /\ pc[c] = "idle" => leaving[c] = "no" /\ op[c] = "none"
    /\ pc[c] = "leaving" => leaving[c] \in {"first", "second", "third"} /\ op[c] = "none"
    /\ pc[c] = "gone" => leaving[c] \in {"no", "last"} /\ op[c] = "none"
    /\ leaving[c] = "last" =>
         /\ pc[c] \in {"remove source", "remove target", "unref", "gone"}
         /\ op[c] = "none"
    /\ pc[c] = "inviting" => op[c] = "invite" /\ leaving[c] = "no" /\ c = source
    /\ pc[c] \in {"parsed", "moved"} => op[c] = "move"
    /\ pc[c] = "resigning" => op[c] = "resign"
    /\ pc[c] = "held" => op[c] \in Functions
    /\ pc[c] \in {"end", "post"} => op[c] \in {"move", "resign"}
    /\ op[c] \in {"invite", "move", "accept"} => leaving[c] = "no"

\* The mutex is held from the test that a game is in progress to the resignation, and
\* the invitation stays as it is meanwhile.
MutexOK ==
    /\ \A c \in Clients : pc[c] = "resigning" <=> mutex = c
    /\ mutex # NULL => state \in {"open", "accepted"} /\ has_game

\* The source's entry is removed first, and whoever removes it goes on to the target's.
\* A thread that is done with removing, or whose logout has closed the invitation, has
\* removed the source's entry.
ListOK ==
    /\ target \notin listed => source \notin listed
    /\ source \notin listed /\ target \in listed =>
         \E c \in Clients : pc[c] = "remove target"
    /\ pc[source] = "gone" => source \notin listed

RemovedOK(c) ==
    /\ pc[c] = "remove target" => source \notin listed
    /\ pc[c] = "post" => listed = {}
    /\ leaving[c] = "last" /\ pc[c] \in {"unref", "gone"} => source \notin listed
    /\ leaving[c] # "no" /\ ack[c] /\ pc[c] \in {"unref", "leaving"} =>
         source \notin listed

\* A thread that ends a game does so after its end, with the final verdict; the only
\* other way to reach the end is to resign from an invitation that has no game.
GameOK ==
    /\ over => has_game
    /\ over <=> turn = G!NULL_ROLE
    /\ has_game => state \notin {"none", "open"}

ThreadOK(c) ==
    /\ pc[c] = "end" => over \/ (~has_game /\ state \in {"closed", "freed"})
    /\ pc[c] \in {"remove source", "remove target", "post"}
       /\ op[c] \in {"move", "resign"} => over /\ verdict[c] = winner
    /\ pc[c] \in {"parsed", "moved"} => has_game

\* A client that may still post: it can look the invitation up, or is on its way.
Posts(c) == c \in listed \/ (op[c] \in {"move", "resign"} /\ pc[c] # "unref")

\* Each result that has been posted has used up one of the clients.
PostedOK ==
    /\ \A i \in 1..Len(posted) : over /\ posted[i] = winner
    /\ state # "none" =>
         Len(posted) <= (IF Posts(source) THEN 0 ELSE 1) + (IF Posts(target) THEN 0 ELSE 1)

IInv == /\ Types
        /\ Exact
        /\ FreedOK
        /\ NoneOK
        /\ \A c \in Clients : PlaceOK(c)
        /\ MutexOK
        /\ ListOK /\ \A c \in Clients : RemovedOK(c)
        /\ GameOK /\ \A c \in Clients : ThreadOK(c)
        /\ ClosedOnce
        /\ PostedOK

-----------------------------------------------------------------------------
(***************************************************************************)
(* The initial state and every step keep the invariant.                    *)
(***************************************************************************)

\* One thread goes on to a place, the other stays where it is.
Moves(c, to) == pc'[c] = to /\ \A e \in Clients : e # c => pc'[e] = pc[e]

\* What Goto does to the places.
LEMMA GotoMoves ==
    ASSUME Types, NEW c \in Clients, NEW from, NEW to \in Places, Goto(c, from, to)
    PROVE  ~crashed /\ pc[c] = from /\ Moves(c, to) /\ pc' \in [Clients -> Places]
BY DEF Types, Goto, Moves

\* A thread that is in a function holds a reference.
LEMMA HeldBounds ==
    ASSUME NEW c \in Clients
    PROVE  /\ Held(c) \in 0..2
           /\ pc[c] \notin {"idle", "gone", "leaving"} => Held(c) >= 1
<1>1. CASE pc[c] \in {"idle", "gone", "leaving"}
  BY <1>1 DEF Held
<1>2. CASE pc[c] \notin {"idle", "gone", "leaving"} /\ leaving[c] = "last"
  BY <1>2 DEF Held
<1>3. CASE pc[c] \notin {"idle", "gone", "leaving"} /\ leaving[c] # "last"
  BY <1>3 DEF Held
<1>4. QED
  BY <1>1, <1>2, <1>3

\* The same in the next state.
LEMMA HeldBoundsNext ==
    ASSUME NEW c \in Clients
    PROVE  /\ Held(c)' \in 0..2
           /\ pc'[c] \notin {"idle", "gone", "leaving"} => Held(c)' >= 1
<1>1. CASE pc'[c] \in {"idle", "gone", "leaving"}
  BY <1>1 DEF Held
<1>2. CASE pc'[c] \notin {"idle", "gone", "leaving"} /\ leaving'[c] = "last"
  BY <1>2 DEF Held
<1>3. CASE pc'[c] \notin {"idle", "gone", "leaving"} /\ leaving'[c] # "last"
  BY <1>3 DEF Held
<1>4. QED
  BY <1>1, <1>2, <1>3

\* While a thread is in a function, the invitation has been made and is not freed.
LEMMA HolderKeepsAlive ==
    ASSUME IInv, NEW c \in Clients, pc[c] \notin {"idle", "gone", "leaving"}
    PROVE  reference_count >= 1 /\ state \notin {"none", "freed"}
<1>1. Held(source) \in 0..2 /\ Held(target) \in 0..2 /\ Held(c) >= 1
  BY HeldBounds DEF Clients
<1>2. Listed(source) \in 0..1 /\ Listed(target) \in 0..1
  BY DEF Listed
<1>3. reference_count >= 1
  BY <1>1, <1>2 DEF IInv, Exact, Clients
<1>4. QED
  BY <1>3 DEF IInv, FreedOK

\* Removing an entry drops the reference that goes with it, if the entry is there.
LEMMA RemoveEffect ==
    ASSUME Types, NEW c \in Clients, Remove(c)
    PROVE  /\ listed' = listed \ {c}
           /\ reference_count' = reference_count - Listed(c)
           /\ reference_count' \in Int
           /\ state' = IF reference_count' = 0 THEN "freed" ELSE state
           /\ source_role' = source_role /\ has_game' = has_game
<1>1. CASE c \in listed
  BY <1>1 DEF Types, Remove, UnrefTo, Listed
<1>2. CASE c \notin listed
  BY <1>2 DEF Types, Remove, UnrefTo, Listed
<1>3. QED
  BY <1>1, <1>2

\* The references stay exact when one entry goes and the threads hold what they held.
LEMMA RemoveKeepsExact ==
    ASSUME IInv, NEW c \in Clients, Remove(c),
           Held(source)' = Held(source), Held(target)' = Held(target)
    PROVE  Exact'
<1>1. /\ listed' = listed \ {c}
      /\ reference_count' = reference_count - Listed(c)
  BY RemoveEffect DEF IInv
<1>2. Held(source) \in 0..2 /\ Held(target) \in 0..2
  BY HeldBounds DEF Clients
<1>3. Listed(source) \in 0..1 /\ Listed(target) \in 0..1
  BY DEF Listed
<1>4. CASE c = source
  <2>1. Listed(source)' = 0 /\ Listed(target)' = Listed(target)
    BY <1>1, <1>4 DEF Listed, source, target
  <2>2. QED
    BY <1>1, <1>2, <1>3, <1>4, <2>1 DEF IInv, Exact
<1>5. CASE c = target
  <2>1. Listed(target)' = 0 /\ Listed(source)' = Listed(source)
    BY <1>1, <1>5 DEF Listed, source, target
  <2>2. QED
    BY <1>1, <1>2, <1>3, <1>5, <2>1 DEF IInv, Exact
<1>6. QED
  BY <1>4, <1>5 DEF Clients

\* Dropping a reference does not disturb a thread that holds the mutex: that thread
\* has a reference too, so the invitation is not freed under it.
LEMMA DropKeepsMutex ==
    ASSUME IInv, Types', Exact', NEW c \in Clients, pc[c] # "resigning",
           NEW to, to # "resigning", Moves(c, to),
           mutex' = mutex, has_game' = has_game,
           state' = IF reference_count' = 0 THEN "freed" ELSE state
    PROVE  MutexOK'
<1>1. \A e \in Clients : pc'[e] = "resigning" <=> mutex' = e
  BY DEF IInv, MutexOK, Moves
<1>2. ASSUME mutex' # NULL
      PROVE  state' \in {"open", "accepted"} /\ has_game'
  <2>1. PICK e \in Clients : pc'[e] = "resigning"
    BY <1>1, <1>2 DEF IInv, Types
  <2>2. Held(e)' >= 1 /\ Held(source)' \in 0..2 /\ Held(target)' \in 0..2
    BY <2>1, HeldBoundsNext DEF Clients
  <2>3. Listed(source)' \in 0..1 /\ Listed(target)' \in 0..1
    BY DEF Listed
  <2>4. e = source \/ e = target
    BY DEF Clients
  <2>5. reference_count' >= 1
    BY <2>2, <2>3, <2>4 DEF Exact
  <2>6. state' = state
    BY <2>5
  <2>7. QED
    BY <1>2, <2>6 DEF IInv, MutexOK
<1>3. QED
  BY <1>1, <1>2 DEF MutexOK

\* What has been posted stays right when no client gains the right to post and a game
\* that is over stays as it is.
LEMMA PostedStays ==
    ASSUME IInv, state' = "none" \/ state # "none", posted' = posted,
           over => over' /\ winner' = winner,
           \A e \in Clients : Posts(e)' => Posts(e)
    PROVE  PostedOK'
<1>1. \A i \in 1..Len(posted') : over' /\ posted'[i] = winner'
  BY DEF IInv, PostedOK
<1>2. Len(posted) \in Nat
  BY DEF IInv, Types
<1>3. state # "none" =>
        Len(posted) <= (IF Posts(source) THEN 0 ELSE 1) + (IF Posts(target) THEN 0 ELSE 1)
  BY DEF IInv, PostedOK
<1>4. (Posts(source)' => Posts(source)) /\ (Posts(target)' => Posts(target))
  BY DEF Clients
<1>5. state # "none" =>
        Len(posted') <= (IF Posts(source)' THEN 0 ELSE 1) + (IF Posts(target)' THEN 0 ELSE 1)
  BY <1>2, <1>3, <1>4
<1>6. QED
  BY <1>1, <1>5 DEF PostedOK

\* What the abstract game guarantees of each of its steps.
LEMMA GameSteps ==
    ASSUME Types, GameOK, NEW role \in G!Players, G!PlayOn \/ G!LastMove \/ G!GiveUp(role)
    PROVE  /\ ~over /\ over' \in BOOLEAN /\ winner' \in G!Roles /\ turn' \in G!Roles
           /\ over' <=> turn' = G!NULL_ROLE
<1>1. CASE G!PlayOn
  BY <1>1 DEF Types, GameOK, G!PlayOn, G!Opponent, G!Roles, G!Players, G!NULL_ROLE,
              G!FIRST_PLAYER_ROLE, G!SECOND_PLAYER_ROLE
<1>2. CASE G!LastMove
  BY <1>2 DEF Types, GameOK, G!LastMove, G!Roles, G!Players, G!NULL_ROLE,
              G!FIRST_PLAYER_ROLE, G!SECOND_PLAYER_ROLE
<1>3. CASE G!GiveUp(role)
  BY <1>3 DEF Types, GameOK, G!GiveUp, G!Opponent, G!Roles, G!Players, G!NULL_ROLE,
              G!FIRST_PLAYER_ROLE, G!SECOND_PLAYER_ROLE
<1>4. QED
  BY <1>1, <1>2, <1>3

\* A client has one of the two roles.
LEMMA RoleIsPlayer ==
    ASSUME Types, NEW c \in Clients
    PROVE  Role(c) \in G!Players
BY DEF Types, Role, G!Opponent, G!Players, G!FIRST_PLAYER_ROLE, G!SECOND_PLAYER_ROLE

\* An entry in a list keeps the invitation.
LEMMA ListedKeepsAlive ==
    ASSUME IInv, NEW c \in Clients, c \in listed
    PROVE  reference_count >= 1 /\ state \notin {"none", "freed"}
<1>1. Held(source) \in 0..2 /\ Held(target) \in 0..2
  BY HeldBounds DEF Clients
<1>2. Listed(source) \in 0..1 /\ Listed(target) \in 0..1 /\ Listed(c) = 1
  BY DEF Listed
<1>3. reference_count >= 1
  BY <1>1, <1>2 DEF IInv, Exact, Clients
<1>4. QED
  BY <1>3 DEF IInv, FreedOK

\* A thread that is at work has an invitation to work on.
LEMMA WorkingAfterInvite ==
    ASSUME IInv, NEW c \in Clients, pc[c] \notin {"idle", "gone"}
    PROVE  state # "none"
BY DEF IInv, NoneOK

\* The references while one thread takes a reference with the function it enters.
LEMMA TakeHeld ==
    ASSUME IInv, NEW c \in Clients, pc[c] \in {"idle", "leaving"}, Moves(c, "held"),
           leaving'[c] = "no" <=> leaving[c] = "no", leaving'[c] # "last",
           \A e \in Clients : e # c => leaving'[e] = leaving[e]
    PROVE  Held(c)' = Held(c) + 1 /\ \A e \in Clients : e # c => Held(e)' = Held(e)
<1>1. \A e \in Clients : e # c => Held(e)' = Held(e)
  BY DEF Held, Moves
<1>2. pc'[c] = "held"
  BY DEF Moves
<1>3. CASE leaving[c] = "no"
  <2>1. Held(c) = 0
    BY <1>3 DEF Held
  <2>2. Held(c)' = 1
    BY <1>2, <1>3 DEF Held
  <2>3. QED
    BY <1>1, <2>1, <2>2
<1>4. CASE leaving[c] # "no"
  <2>1. pc[c] = "leaving"
    BY <1>4 DEF IInv, PlaceOK
  <2>2. Held(c) = 1
    BY <1>4, <2>1 DEF Held
  <2>3. Held(c)' = 2
    BY <1>2, <1>4 DEF Held
  <2>4. QED
    BY <1>1, <2>2, <2>3
<1>5. QED
  BY <1>3, <1>4

\* What a change of one client's entry does to a function on the clients.
LEMMA OneEntry ==
    ASSUME NEW S, NEW f \in [Clients -> S], NEW c \in Clients, NEW v \in S
    PROVE  /\ [f EXCEPT ![c] = v] \in [Clients -> S]
           /\ [f EXCEPT ![c] = v][c] = v
           /\ \A e \in Clients : e # c => [f EXCEPT ![c] = v][e] = f[e]
OBVIOUS

\* Closing an invitation that is open or accepted is the first time it is closed.
LEMMA FirstClose ==
    ASSUME IInv, state \in {"open", "accepted"}, state' = "closed",
           NEW x, closed_by' = closed_by \cup {x}
    PROVE  ClosedOnce'
<1>1. closed_by' = {x}
  BY DEF IInv, ClosedOnce
<1>2. Cardinality({x}) = 1
  BY FS_Singleton
<1>3. QED
  BY <1>1, <1>2 DEF ClosedOnce

\* The result is posted: the thread cannot post again, and both entries are gone.
LEMMA PostKeeps ==
    ASSUME IInv, NEW c \in Clients, Post(c)
    PROVE  IInv'
<1>1. pc[c] = "post" /\ Moves(c, "unref") /\ pc' \in [Clients -> Places]
  BY GotoMoves DEF Post, IInv, Places
<1>2. Types'
  <2>1. verdict[c] \in G!Roles
    BY DEF IInv, Types
  <2>2. posted' \in Seq(G!Roles)
    BY <2>1 DEF IInv, Types, Post
  <2> QED BY <1>1, <2>2 DEF IInv, Types, Post, invitation, game, record
<1>3. Held(c)' = Held(c) /\ \A e \in Clients : e # c => Held(e)' = Held(e)
  BY <1>1 DEF IInv, Held, Types, PlaceOK, Post, invitation, game, record, Moves
<1>4. Exact'
  <2>1. Held(source) \in 0..2 /\ Held(target) \in 0..2
    BY DEF Held
  <2> QED BY <1>1, <1>3, <2>1 DEF IInv, Exact, Listed, Types, Clients, source, target,
             Post, invitation, game, record
<1>5. FreedOK'
  BY <1>1 DEF IInv, FreedOK, Types, Post, invitation, game, record, Moves
<1>6. NoneOK'
  BY <1>1 DEF IInv, NoneOK, Types, PlaceOK, Post, invitation, game, record, Moves
<1>7. ASSUME NEW e \in Clients PROVE PlaceOK(e)'
  <2>1. PlaceOK(e)
    BY DEF IInv
  <2>2. CASE e = c
    BY <1>1, <2>2 DEF IInv, PlaceOK, Types, Post, invitation, game, record, Moves
  <2>3. CASE e # c
    BY <1>1, <2>1, <2>3 DEF IInv, Types, PlaceOK, Post, invitation, game, record, Moves
  <2> QED BY <2>2, <2>3
<1>8. MutexOK'
  BY <1>1, NullAssumption DEF IInv, MutexOK, Types, Post, invitation, game, record, Moves
<1>9. ListOK'
  BY <1>1 DEF IInv, ListOK, Types, PlaceOK, RemovedOK, Clients, source, target, Post,
     invitation, game, record, Moves
<1>10. ASSUME NEW e \in Clients PROVE RemovedOK(e)'
  <2>1. RemovedOK(e)
    BY DEF IInv
  <2>2. CASE e = c
    BY <1>1, <2>2 DEF IInv, RemovedOK, Types, PlaceOK, Post, invitation, game, record, Moves
  <2>3. CASE e # c
    BY <1>1, <2>1, <2>3 DEF IInv, Types, RemovedOK, Post, invitation, game, record, Moves
  <2> QED BY <2>2, <2>3
<1>11. GameOK'
  BY <1>1 DEF IInv, GameOK, Types, Post, invitation, game, record, Moves
<1>12. ASSUME NEW e \in Clients PROVE ThreadOK(e)'
  <2>1. ThreadOK(e)
    BY DEF IInv
  <2>2. CASE e = c
    BY <1>1, <2>2 DEF IInv, ThreadOK, Types, PlaceOK, GameOK, Post, invitation, game,
       record, Moves
  <2>3. CASE e # c
    BY <1>1, <2>1, <2>3 DEF IInv, Types, ThreadOK, Post, invitation, game, record, Moves
  <2> QED BY <2>2, <2>3
<1>13. ClosedOnce'
  BY <1>1 DEF IInv, ClosedOnce, Types, Post, invitation, game, record, Moves
<1>14. PostedOK'
  <2>1. over /\ verdict[c] = winner /\ listed = {} /\ op[c] \in {"move", "resign"}
    BY <1>1 DEF IInv, PlaceOK, RemovedOK, ThreadOK
  <2>2. /\ posted \in Seq(G!Roles) /\ Len(posted') = Len(posted) + 1 /\ Len(posted) \in Nat
        /\ \A i \in 1..Len(posted') : posted'[i] =
              IF i = Len(posted) + 1 THEN verdict[c] ELSE posted[i]
    BY DEF IInv, Types, Post
  <2>3. \A i \in 1..Len(posted') : over' /\ posted'[i] = winner'
    BY <2>1, <2>2 DEF IInv, PostedOK, Post, game
  <2>4. Posts(c) /\ ~Posts(c)' /\ \A e \in Clients : e # c => Posts(e)' = Posts(e)
    BY <1>1, <2>1 DEF Posts, Post, Moves
  <2>5. state # "none" /\ state' = state
    BY <1>1 DEF IInv, NoneOK, Post, invitation
  <2>6. Len(posted') <= (IF Posts(source)' THEN 0 ELSE 1) + (IF Posts(target)' THEN 0 ELSE 1)
    BY <2>2, <2>4, <2>5 DEF IInv, PostedOK, Clients, source, target
  <2> QED BY <2>3, <2>6 DEF PostedOK
<1> QED BY <1>2, <1>4, <1>5, <1>6, <1>7, <1>8, <1>9, <1>10, <1>11, <1>12, <1>13,
           <1>14 DEF IInv

\* A function ends.
LEMMA UnrefKeeps ==
    ASSUME IInv, NEW c \in Clients, Unref(c)
    PROVE  IInv'
<1>1. /\ pc[c] = "unref" /\ pc' \in [Clients -> Places]
      /\ Moves(c, IF leaving[c] = "no" THEN "idle"
                  ELSE IF leaving[c] = "last" THEN "gone" ELSE "leaving")
  BY GotoMoves DEF Unref, IInv, Places
<1>2. reference_count >= 1 /\ state \notin {"none", "freed"}
  BY <1>1, HolderKeepsAlive
<1>3. Types'
  BY <1>1, <1>2 DEF IInv, Types, Functions, States, Clients, source, target, Unref,
     invitation, game, record, UnrefTo, Moves
<1>4. Held(c)' = Held(c) - 1 /\ \A e \in Clients : e # c => Held(e)' = Held(e)
  <2>1. /\ leaving' = leaving
        /\ pc'[c] = IF leaving[c] = "no" THEN "idle"
                    ELSE IF leaving[c] = "last" THEN "gone" ELSE "leaving"
        /\ \A e \in Clients : e # c => pc'[e] = pc[e]
    BY <1>1 DEF Moves, Unref
  <2>2. CASE leaving[c] = "no"
    BY <1>1, <2>1, <2>2 DEF Held
  <2>3. CASE leaving[c] = "last"
    BY <1>1, <2>1, <2>3 DEF Held
  <2>4. CASE leaving[c] \notin {"no", "last"}
    BY <1>1, <2>1, <2>4 DEF Held
  <2> QED BY <2>2, <2>3, <2>4
<1>5. Exact'
  <2>1. Held(source) \in 0..2 /\ Held(target) \in 0..2
    BY DEF Held
  <2> QED BY <1>1, <1>2, <1>4, <2>1 DEF IInv, Exact, Listed, Types, Clients, source,
             target, Unref, invitation, game, record, UnrefTo
<1>6. FreedOK'
  BY <1>1, <1>2 DEF IInv, FreedOK, Types, Unref, invitation, game, record, UnrefTo, Moves
<1>7. NoneOK'
  BY <1>1, <1>2 DEF IInv, NoneOK, Types, PlaceOK, Unref, invitation, game, record,
     UnrefTo, Moves
<1>8. ASSUME NEW e \in Clients PROVE PlaceOK(e)'
  <2>1. PlaceOK(e)
    BY DEF IInv
  <2>2. CASE e = c
    BY <1>1, <1>2, <2>2 DEF IInv, PlaceOK, Types, Unref, invitation, game, record,
       UnrefTo, Moves
  <2>3. CASE e # c
    BY <1>1, <1>2, <2>1, <2>3 DEF IInv, Types, PlaceOK, Unref, invitation, game, record,
       UnrefTo, Moves
  <2> QED BY <2>2, <2>3
<1>9. MutexOK'
  <2>1. state' = IF reference_count' = 0 THEN "freed" ELSE state
    BY RemoveEffect DEF Unref, IInv, UnrefTo, Clients
  <2> QED BY <1>1, <1>3, <1>5, <2>1, DropKeepsMutex DEF Unref, invitation
<1>10. ListOK'
  BY <1>1, <1>2 DEF IInv, ListOK, Types, PlaceOK, RemovedOK, Clients, source, target,
     Unref, invitation, game, record, UnrefTo, Moves
<1>11. ASSUME NEW e \in Clients PROVE RemovedOK(e)'
  <2>1. RemovedOK(e)
    BY DEF IInv
  <2>2. CASE e = c
    BY <1>1, <1>2, <2>2 DEF IInv, RemovedOK, Types, PlaceOK, Unref, invitation, game,
       record, UnrefTo, Moves
  <2>3. CASE e # c
    BY <1>1, <1>2, <2>1, <2>3 DEF IInv, Types, RemovedOK, Unref, invitation, game, record,
       UnrefTo, Moves
  <2> QED BY <2>2, <2>3
<1>12. GameOK'
  BY <1>1, <1>2 DEF IInv, GameOK, Types, Unref, invitation, game, record, UnrefTo, Moves
<1>13. ASSUME NEW e \in Clients PROVE ThreadOK(e)'
  <2>1. ThreadOK(e)
    BY DEF IInv
  <2>2. CASE e = c
    BY <1>1, <1>2, <2>2 DEF IInv, ThreadOK, Types, PlaceOK, GameOK, Unref, invitation,
       game, record, UnrefTo, Moves
  <2>3. CASE e # c
    BY <1>1, <1>2, <2>1, <2>3 DEF IInv, Types, ThreadOK, Unref, invitation, game, record,
       UnrefTo, Moves
  <2> QED BY <2>2, <2>3
<1>14. ClosedOnce'
  BY <1>1, <1>2 DEF IInv, ClosedOnce, Types, Unref, invitation, game, record, UnrefTo, Moves
<1>15. PostedOK'
  <2>1. ASSUME NEW e \in Clients PROVE Posts(e)' => Posts(e)
    <3>1. CASE e = c
      BY <1>1, <1>2, <3>1 DEF IInv, Posts, Types, PlaceOK, Unref, invitation, game,
         record, UnrefTo, Moves
    <3>2. CASE e # c
      BY <1>1, <1>2, <3>2 DEF IInv, Posts, Types, Unref, invitation, game, record,
         UnrefTo, Moves
    <3> QED BY <3>1, <3>2
  <2>2. state # "none"
    BY <1>1, WorkingAfterInvite
  <2> QED BY <1>1, <1>2, <2>1, <2>2, PostedStays DEF Unref, invitation, game, record,
             UnrefTo
<1> QED BY <1>3, <1>5, <1>6, <1>7, <1>8, <1>9, <1>10, <1>11, <1>12, <1>13, <1>14,
           <1>15 DEF IInv

\* The entry of the source goes.
LEMMA RemoveSourceKeeps ==
    ASSUME IInv, NEW c \in Clients, RemoveSource(c)
    PROVE  IInv'
<1>1. pc[c] = "remove source" /\ Moves(c, "remove target") /\ pc' \in [Clients -> Places]
  BY GotoMoves DEF RemoveSource, IInv, Places
<1>2. reference_count >= 1 /\ state \notin {"none", "freed"}
  BY <1>1, HolderKeepsAlive
<1>3. /\ listed' = listed \ {source}
      /\ reference_count' = reference_count - Listed(source)
      /\ reference_count' \in Int
      /\ state' = IF reference_count' = 0 THEN "freed" ELSE state
      /\ source_role' = source_role /\ has_game' = has_game
  BY RemoveEffect DEF IInv, RemoveSource, Clients
<1>4. Types'
  BY <1>1, <1>2, <1>3 DEF IInv, Types, Functions, States, Clients, source, target,
     RemoveSource, invitation, game, record, Moves
<1>5. Held(c)' = Held(c) /\ \A e \in Clients : e # c => Held(e)' = Held(e)
  BY <1>1, <1>2, <1>3 DEF IInv, Held, Types, PlaceOK, RemoveSource, invitation, game,
     record, Moves
<1>6. Exact'
  <2>1. Held(source)' = Held(source) /\ Held(target)' = Held(target)
    BY <1>5 DEF Clients
  <2> QED BY <2>1, RemoveKeepsExact DEF RemoveSource, Clients
<1>7. FreedOK'
  BY <1>1, <1>2, <1>3 DEF IInv, FreedOK, Types, RemoveSource, invitation, game, record,
     Moves
<1>8. NoneOK'
  BY <1>1, <1>2, <1>3 DEF IInv, NoneOK, Types, PlaceOK, RemoveSource, invitation, game,
     record, Moves
<1>9. ASSUME NEW e \in Clients PROVE PlaceOK(e)'
  <2>1. PlaceOK(e)
    BY DEF IInv
  <2>2. CASE e = c
    BY <1>1, <1>2, <1>3, <2>2 DEF IInv, PlaceOK, Types, RemoveSource, invitation, game,
       record, Moves
  <2>3. CASE e # c
    BY <1>1, <1>2, <1>3, <2>1, <2>3 DEF IInv, Types, PlaceOK, RemoveSource, invitation,
       game, record, Moves
  <2> QED BY <2>2, <2>3
<1>10. MutexOK'
  BY <1>1, <1>4, <1>6, <1>3, DropKeepsMutex DEF RemoveSource
<1>11. ListOK'
  BY <1>1, <1>2, <1>3 DEF IInv, ListOK, Types, PlaceOK, RemovedOK, Clients, source,
     target, RemoveSource, invitation, game, record, Moves
<1>12. ASSUME NEW e \in Clients PROVE RemovedOK(e)'
  <2>1. RemovedOK(e)
    BY DEF IInv
  <2>2. CASE e = c
    BY <1>1, <1>2, <1>3, <2>2 DEF IInv, RemovedOK, Types, PlaceOK, RemoveSource,
       invitation, game, record, Moves
  <2>3. CASE e # c
    BY <1>1, <1>2, <1>3, <2>1, <2>3 DEF IInv, Types, RemovedOK, RemoveSource, invitation,
       game, record, Moves
  <2> QED BY <2>2, <2>3
<1>13. GameOK'
  BY <1>1, <1>2, <1>3 DEF IInv, GameOK, Types, RemoveSource, invitation, game, record, Moves
<1>14. ASSUME NEW e \in Clients PROVE ThreadOK(e)'
  <2>1. ThreadOK(e)
    BY DEF IInv
  <2>2. CASE e = c
    BY <1>1, <1>2, <1>3, <2>2 DEF IInv, ThreadOK, Types, PlaceOK, GameOK, RemoveSource,
       invitation, game, record, Moves
  <2>3. CASE e # c
    BY <1>1, <1>2, <1>3, <2>1, <2>3 DEF IInv, Types, ThreadOK, RemoveSource, invitation,
       game, record, Moves
  <2> QED BY <2>2, <2>3
<1>15. ClosedOnce'
  BY <1>1, <1>2, <1>3 DEF IInv, ClosedOnce, Types, RemoveSource, invitation, game, record,
     Moves
<1>16. PostedOK'
  <2>1. ASSUME NEW e \in Clients PROVE Posts(e)' => Posts(e)
    <3>1. CASE e = c
      BY <1>1, <1>2, <1>3, <3>1 DEF IInv, Posts, Types, PlaceOK, RemoveSource, invitation,
         game, record, Moves
    <3>2. CASE e # c
      BY <1>1, <1>2, <1>3, <3>2 DEF IInv, Posts, Types, RemoveSource, invitation, game,
         record, Moves
    <3> QED BY <3>1, <3>2
  <2>2. state # "none"
    BY <1>1, WorkingAfterInvite
  <2> QED BY <1>1, <1>2, <1>3, <2>1, <2>2, PostedStays DEF RemoveSource, invitation, game,
             record
<1> QED BY <1>4, <1>6, <1>7, <1>8, <1>9, <1>10, <1>11, <1>12, <1>13, <1>14, <1>15,
           <1>16 DEF IInv

\* The entry of the target goes.
LEMMA RemoveTargetKeeps ==
    ASSUME IInv, NEW c \in Clients, RemoveTarget(c)
    PROVE  IInv'
<1>1. pc[c] = "remove target"
      /\ Moves(c, IF op[c] \in {"move", "resign"} THEN "post" ELSE "unref")
      /\ pc' \in [Clients -> Places]
  BY GotoMoves DEF RemoveTarget, IInv, Places
<1>2. reference_count >= 1 /\ state \notin {"none", "freed"}
  BY <1>1, HolderKeepsAlive
<1>3. /\ listed' = listed \ {target}
      /\ reference_count' = reference_count - Listed(target)
      /\ reference_count' \in Int
      /\ state' = IF reference_count' = 0 THEN "freed" ELSE state
      /\ source_role' = source_role /\ has_game' = has_game
  BY RemoveEffect DEF IInv, RemoveTarget, Clients
<1>4. Types'
  BY <1>1, <1>2, <1>3 DEF IInv, Types, Functions, States, Clients, source, target,
     RemoveTarget, invitation, game, record, Moves
<1>5. Held(c)' = Held(c) /\ \A e \in Clients : e # c => Held(e)' = Held(e)
  BY <1>1, <1>2, <1>3 DEF IInv, Held, Types, PlaceOK, RemoveTarget, invitation, game,
     record, Moves
<1>6. Exact'
  <2>1. Held(source)' = Held(source) /\ Held(target)' = Held(target)
    BY <1>5 DEF Clients
  <2> QED BY <2>1, RemoveKeepsExact DEF RemoveTarget, Clients
<1>7. FreedOK'
  BY <1>1, <1>2, <1>3 DEF IInv, FreedOK, Types, RemoveTarget, invitation, game, record,
     Moves
<1>8. NoneOK'
  BY <1>1, <1>2, <1>3 DEF IInv, NoneOK, Types, PlaceOK, RemoveTarget, invitation, game,
     record, Moves
<1>9. ASSUME NEW e \in Clients PROVE PlaceOK(e)'
  <2>1. PlaceOK(e)
    BY DEF IInv
  <2>2. CASE e = c
    BY <1>1, <1>2, <1>3, <2>2 DEF IInv, PlaceOK, Types, RemoveTarget, invitation, game,
       record, Moves
  <2>3. CASE e # c
    BY <1>1, <1>2, <1>3, <2>1, <2>3 DEF IInv, Types, PlaceOK, RemoveTarget, invitation,
       game, record, Moves
  <2> QED BY <2>2, <2>3
<1>10. MutexOK'
  BY <1>1, <1>4, <1>6, <1>3, DropKeepsMutex DEF RemoveTarget
<1>11. ListOK'
  BY <1>1, <1>2, <1>3 DEF IInv, ListOK, Types, PlaceOK, RemovedOK, Clients, source,
     target, RemoveTarget, invitation, game, record, Moves
<1>12. ASSUME NEW e \in Clients PROVE RemovedOK(e)'
  <2>1. listed' = {}
    <3>1. source \notin listed /\ listed \subseteq {source, target}
      BY <1>1 DEF IInv, RemovedOK, Types, Clients
    <3> QED BY <1>3, <3>1
  <2> QED BY <2>1 DEF RemovedOK
<1>13. GameOK'
  BY <1>1, <1>2, <1>3 DEF IInv, GameOK, Types, RemoveTarget, invitation, game, record, Moves
<1>14. ASSUME NEW e \in Clients PROVE ThreadOK(e)'
  <2>1. ThreadOK(e)
    BY DEF IInv
  <2>2. CASE e = c
    BY <1>1, <1>2, <1>3, <2>2 DEF IInv, ThreadOK, Types, PlaceOK, GameOK, RemoveTarget,
       invitation, game, record, Moves
  <2>3. CASE e # c
    BY <1>1, <1>2, <1>3, <2>1, <2>3 DEF IInv, Types, ThreadOK, RemoveTarget, invitation,
       game, record, Moves
  <2> QED BY <2>2, <2>3
<1>15. ClosedOnce'
  BY <1>1, <1>2, <1>3 DEF IInv, ClosedOnce, Types, RemoveTarget, invitation, game, record,
     Moves
<1>16. PostedOK'
  <2>1. ASSUME NEW e \in Clients PROVE Posts(e)' => Posts(e)
    <3>1. CASE e = c
      BY <1>1, <1>2, <1>3, <3>1 DEF IInv, Posts, Types, PlaceOK, RemoveTarget, invitation,
         game, record, Moves
    <3>2. CASE e # c
      BY <1>1, <1>2, <1>3, <3>2 DEF IInv, Posts, Types, RemoveTarget, invitation, game,
         record, Moves
    <3> QED BY <3>1, <3>2
  <2>2. state # "none"
    BY <1>1, WorkingAfterInvite
  <2> QED BY <1>1, <1>2, <1>3, <2>1, <2>2, PostedStays DEF RemoveTarget, invitation, game,
             record
<1> QED BY <1>4, <1>6, <1>7, <1>8, <1>9, <1>10, <1>11, <1>12, <1>13, <1>14, <1>15,
           <1>16 DEF IInv

\* The winner is read.
LEMMA EndGameKeeps ==
    ASSUME IInv, NEW c \in Clients, EndGame(c)
    PROVE  IInv'
<1>1. pc[c] = "end" /\ Moves(c, IF has_game THEN "remove source" ELSE "end")
      /\ pc' \in [Clients -> Places]
  BY GotoMoves DEF EndGame, IInv, Places
<1>2. Types'
  BY <1>1 DEF IInv, Types, Functions, States, Clients, source, target, EndGame,
     invitation, game, record, Moves
<1>3. Held(c)' = Held(c) /\ \A e \in Clients : e # c => Held(e)' = Held(e)
  BY <1>1 DEF IInv, Held, Types, PlaceOK, EndGame, invitation, game, record, Moves
<1>4. Exact'
  <2>1. Held(source) \in 0..2 /\ Held(target) \in 0..2
    BY DEF Held
  <2> QED BY <1>1, <1>3, <2>1 DEF IInv, Exact, Listed, Types, Clients, source, target,
             EndGame, invitation, game, record
<1>5. FreedOK'
  BY <1>1 DEF IInv, FreedOK, Types, EndGame, invitation, game, record, Moves
<1>6. NoneOK'
  BY <1>1 DEF IInv, NoneOK, Types, PlaceOK, EndGame, invitation, game, record, Moves
<1>7. ASSUME NEW e \in Clients PROVE PlaceOK(e)'
  <2>1. PlaceOK(e)
    BY DEF IInv
  <2>2. CASE e = c
    BY <1>1, <2>2 DEF IInv, PlaceOK, Types, EndGame, invitation, game, record, Moves
  <2>3. CASE e # c
    BY <1>1, <2>1, <2>3 DEF IInv, Types, PlaceOK, EndGame, invitation, game, record, Moves
  <2> QED BY <2>2, <2>3
<1>8. MutexOK'
  BY <1>1, NullAssumption DEF IInv, MutexOK, Types, EndGame, invitation, game, record, Moves
<1>9. ListOK'
  BY <1>1 DEF IInv, ListOK, Types, PlaceOK, RemovedOK, Clients, source, target, EndGame,
     invitation, game, record, Moves
<1>10. ASSUME NEW e \in Clients PROVE RemovedOK(e)'
  <2>1. RemovedOK(e)
    BY DEF IInv
  <2>2. CASE e = c
    BY <1>1, <2>2 DEF IInv, RemovedOK, Types, PlaceOK, EndGame, invitation, game, record,
       Moves
  <2>3. CASE e # c
    BY <1>1, <2>1, <2>3 DEF IInv, Types, RemovedOK, EndGame, invitation, game, record, Moves
  <2> QED BY <2>2, <2>3
<1>11. GameOK'
  BY <1>1 DEF IInv, GameOK, Types, EndGame, invitation, game, record, Moves
<1>12. ASSUME NEW e \in Clients PROVE ThreadOK(e)'
  <2>1. ThreadOK(e)
    BY DEF IInv
  <2>2. CASE e = c
    BY <1>1, <2>2 DEF IInv, ThreadOK, Types, PlaceOK, GameOK, EndGame, invitation, game,
       record, Moves
  <2>3. CASE e # c
    BY <1>1, <2>1, <2>3 DEF IInv, Types, ThreadOK, EndGame, invitation, game, record, Moves
  <2> QED BY <2>2, <2>3
<1>13. ClosedOnce'
  BY <1>1 DEF IInv, ClosedOnce, Types, EndGame, invitation, game, record, Moves
<1>14. PostedOK'
  <2>1. ASSUME NEW e \in Clients PROVE Posts(e)' => Posts(e)
    <3>1. CASE e = c
      BY <1>1, <3>1 DEF IInv, Posts, Types, PlaceOK, EndGame, invitation, game, record,
         Moves
    <3>2. CASE e # c
      BY <1>1, <3>2 DEF IInv, Posts, Types, EndGame, invitation, game, record, Moves
    <3> QED BY <3>1, <3>2
  <2>2. state # "none"
    BY <1>1, WorkingAfterInvite
  <2> QED BY <1>1, <2>1, <2>2, PostedStays DEF EndGame, invitation, game, record
<1> QED BY <1>2, <1>4, <1>5, <1>6, <1>7, <1>8, <1>9, <1>10, <1>11, <1>12, <1>13,
           <1>14 DEF IInv

\* A move is parsed: the game is there and it is the turn of the client, for now.
LEMMA ParseMoveKeeps ==
    ASSUME IInv, NEW c \in Clients, ParseMove(c)
    PROVE  IInv'
<1>1. /\ pc[c] = "held" /\ pc' \in [Clients -> Places]
      /\ Moves(c, "unref") \/ (has_game /\ turn = Role(c) /\ Moves(c, "parsed"))
  <2>1. Types /\ "parsed" \in Places /\ "unref" \in Places
    BY DEF IInv, Places
  <2>2. Goto(c, "held", "unref") \/ (has_game /\ turn = Role(c) /\ Goto(c, "held", "parsed"))
    BY DEF ParseMove
  <2> QED BY <2>1, <2>2, GotoMoves
<1>2. Types'
  BY <1>1 DEF IInv, Types, Functions, States, Clients, source, target, ParseMove,
     invitation, game, record, Return, Moves
<1>3. Held(c)' = Held(c) /\ \A e \in Clients : e # c => Held(e)' = Held(e)
  BY <1>1 DEF IInv, Held, Types, PlaceOK, ParseMove, invitation, game, record, Return, Moves
<1>4. Exact'
  <2>1. Held(source) \in 0..2 /\ Held(target) \in 0..2
    BY DEF Held
  <2> QED BY <1>1, <1>3, <2>1 DEF IInv, Exact, Listed, Types, Clients, source, target,
             ParseMove, invitation, game, record, Return
<1>5. FreedOK'
  BY <1>1 DEF IInv, FreedOK, Types, ParseMove, invitation, game, record, Return, Moves
<1>6. NoneOK'
  BY <1>1 DEF IInv, NoneOK, Types, PlaceOK, ParseMove, invitation, game, record, Return,
     Moves
<1>7. ASSUME NEW e \in Clients PROVE PlaceOK(e)'
  <2>1. PlaceOK(e)
    BY DEF IInv
  <2>2. CASE e = c
    BY <1>1, <2>2 DEF IInv, PlaceOK, Types, ParseMove, invitation, game, record, Return,
       Moves
  <2>3. CASE e # c
    BY <1>1, <2>1, <2>3 DEF IInv, Types, PlaceOK, ParseMove, invitation, game, record,
       Return, Moves
  <2> QED BY <2>2, <2>3
<1>8. MutexOK'
  BY <1>1, NullAssumption DEF IInv, MutexOK, Types, ParseMove, invitation, game, record,
     Return, Moves
<1>9. ListOK'
  BY <1>1 DEF IInv, ListOK, Types, PlaceOK, RemovedOK, Clients, source, target, ParseMove,
     invitation, game, record, Return, Moves
<1>10. ASSUME NEW e \in Clients PROVE RemovedOK(e)'
  <2>1. RemovedOK(e)
    BY DEF IInv
  <2>2. CASE e = c
    BY <1>1, <2>2 DEF IInv, RemovedOK, Types, PlaceOK, ParseMove, invitation, game,
       record, Return, Moves
  <2>3. CASE e # c
    BY <1>1, <2>1, <2>3 DEF IInv, Types, RemovedOK, ParseMove, invitation, game, record,
       Return, Moves
  <2> QED BY <2>2, <2>3
<1>11. GameOK'
  BY <1>1 DEF IInv, GameOK, Types, ParseMove, invitation, game, record, Return, Moves
<1>12. ASSUME NEW e \in Clients PROVE ThreadOK(e)'
  <2>1. ThreadOK(e)
    BY DEF IInv
  <2>2. CASE e = c
    BY <1>1, <2>2 DEF IInv, ThreadOK, Types, PlaceOK, GameOK, ParseMove, invitation, game,
       record, Return, Moves
  <2>3. CASE e # c
    BY <1>1, <2>1, <2>3 DEF IInv, Types, ThreadOK, ParseMove, invitation, game, record,
       Return, Moves
  <2> QED BY <2>2, <2>3
<1>13. ClosedOnce'
  BY <1>1 DEF IInv, ClosedOnce, Types, ParseMove, invitation, game, record, Return, Moves
<1>14. PostedOK'
  <2>1. ASSUME NEW e \in Clients PROVE Posts(e)' => Posts(e)
    <3>1. CASE e = c
      BY <1>1, <3>1 DEF IInv, Posts, Types, PlaceOK, ParseMove, invitation, game, record,
         Return, Moves
    <3>2. CASE e # c
      BY <1>1, <3>2 DEF IInv, Posts, Types, ParseMove, invitation, game, record, Return,
         Moves
    <3> QED BY <3>1, <3>2
  <2>2. state # "none"
    BY <1>1, WorkingAfterInvite
  <2> QED BY <1>1, <2>1, <2>2, PostedStays DEF ParseMove, invitation, game, record, Return
<1> QED BY <1>2, <1>4, <1>5, <1>6, <1>7, <1>8, <1>9, <1>10, <1>11, <1>12, <1>13,
           <1>14 DEF IInv

\* A move is applied, unless it is not the turn of the client any more.
LEMMA ApplyMoveKeeps ==
    ASSUME IInv, NEW c \in Clients, ApplyMove(c)
    PROVE  IInv'
<1>1. /\ pc[c] = "parsed" /\ pc' \in [Clients -> Places]
      /\ Moves(c, "unref") \/ Moves(c, "moved")
  <2>1. Types /\ "moved" \in Places /\ "unref" \in Places
    BY DEF IInv, Places
  <2>2. Goto(c, "parsed", "unref") \/ Goto(c, "parsed", "moved")
    BY DEF ApplyMove
  <2> QED BY <2>1, <2>2, GotoMoves
<1>2. /\ over' \in BOOLEAN /\ winner' \in G!Roles /\ turn' \in G!Roles
      /\ over' <=> turn' = G!NULL_ROLE
      /\ over => over' /\ winner' = winner
      /\ has_game
      /\ ack' \in [Clients -> BOOLEAN] /\ \A e \in Clients : e # c => ack'[e] = ack[e]
      /\ UNCHANGED <<state, source_role, has_game, reference_count, mutex, listed, op,
                     leaving, verdict,
                     posted, closed_by>>
  <2>1. /\ over' \in BOOLEAN /\ winner' \in G!Roles /\ turn' \in G!Roles
        /\ over' <=> turn' = G!NULL_ROLE
        /\ over => over' /\ winner' = winner
    <3>1. CASE UNCHANGED game
      BY <3>1 DEF IInv, Types, GameOK, game
    <3>2. CASE G!PlayOn \/ G!LastMove
      BY <3>2, RoleIsPlayer, GameSteps DEF IInv
    <3> QED BY <3>1, <3>2 DEF ApplyMove
  <2>2. has_game
    BY <1>1 DEF IInv, ThreadOK
  <2>3. ack' \in [Clients -> BOOLEAN] /\ \A e \in Clients : e # c => ack'[e] = ack[e]
    BY DEF ApplyMove, Return, IInv, Types
  <2> QED BY <2>1, <2>2, <2>3 DEF ApplyMove, invitation, record
<1>3. Types'
  BY <1>1, <1>2 DEF IInv, Types, Functions, States, Clients, source, target, Moves
<1>4. Held(c)' = Held(c) /\ \A e \in Clients : e # c => Held(e)' = Held(e)
  BY <1>1, <1>2 DEF IInv, Held, Types, PlaceOK, Moves
<1>5. Exact'
  <2>1. Held(source) \in 0..2 /\ Held(target) \in 0..2
    BY DEF Held
  <2> QED BY <1>1, <1>2, <1>4, <2>1 DEF IInv, Exact, Listed, Types, Clients, source, target
<1>6. FreedOK'
  BY <1>1, <1>2 DEF IInv, FreedOK, Types, Moves
<1>7. NoneOK'
  BY <1>1, <1>2 DEF IInv, NoneOK, Types, PlaceOK, Moves
<1>8. ASSUME NEW e \in Clients PROVE PlaceOK(e)'
  <2>1. PlaceOK(e)
    BY DEF IInv
  <2>2. CASE e = c
    BY <1>1, <1>2, <2>2 DEF IInv, PlaceOK, Types, Moves
  <2>3. CASE e # c
    BY <1>1, <1>2, <2>1, <2>3 DEF PlaceOK, Moves
  <2> QED BY <2>2, <2>3
<1>9. MutexOK'
  BY <1>1, <1>2, NullAssumption DEF IInv, MutexOK, Types, Moves
<1>10. ListOK'
  BY <1>1, <1>2 DEF IInv, ListOK, Types, PlaceOK, RemovedOK, Clients, source, target, Moves
<1>11. ASSUME NEW e \in Clients PROVE RemovedOK(e)'
  <2>1. RemovedOK(e)
    BY DEF IInv
  <2>2. CASE e = c
    BY <1>1, <1>2, <2>2 DEF IInv, RemovedOK, Types, PlaceOK, Moves
  <2>3. CASE e # c
    BY <1>1, <1>2, <2>1, <2>3 DEF RemovedOK, Moves
  <2> QED BY <2>2, <2>3
<1>12. GameOK'
  BY <1>1, <1>2 DEF IInv, GameOK, Types, Moves
<1>13. ASSUME NEW e \in Clients PROVE ThreadOK(e)'
  <2>1. ThreadOK(e)
    BY DEF IInv
  <2>2. CASE e = c
    BY <1>1, <1>2, <2>2 DEF IInv, ThreadOK, Types, PlaceOK, GameOK, Moves
  <2>3. CASE e # c
    BY <1>1, <1>2, <2>1, <2>3 DEF ThreadOK, Moves
  <2> QED BY <2>2, <2>3
<1>14. ClosedOnce'
  BY <1>1, <1>2 DEF IInv, ClosedOnce, Types, Moves
<1>15. PostedOK'
  <2>1. ASSUME NEW e \in Clients PROVE Posts(e)' => Posts(e)
    <3>1. CASE e = c
      BY <1>1, <1>2, <3>1 DEF IInv, Posts, Types, PlaceOK, Moves
    <3>2. CASE e # c
      BY <1>1, <1>2, <3>2 DEF IInv, Posts, Types, Moves
    <3> QED BY <3>1, <3>2
  <2>2. state # "none"
    BY <1>1, WorkingAfterInvite
  <2> QED BY <1>1, <1>2, <2>1, <2>2, PostedStays
<1> QED BY <1>3, <1>5, <1>6, <1>7, <1>8, <1>9, <1>10, <1>11, <1>12, <1>13, <1>14,
           <1>15 DEF IInv

\* The test after a move.
LEMMA IsOverKeeps ==
    ASSUME IInv, NEW c \in Clients, IsOver(c)
    PROVE  IInv'
<1>1. pc[c] = "moved" /\ Moves(c, IF over THEN "end" ELSE "unref")
      /\ pc' \in [Clients -> Places]
  BY GotoMoves DEF IsOver, IInv, Places
<1>2. (over => pc'[c] = "end") /\ (~over => pc'[c] = "unref")
  BY <1>1 DEF Moves
<1>3. Types'
  BY <1>1, <1>2 DEF IInv, Types, Functions, States, Clients, source, target, IsOver,
     invitation, game, record, Moves
<1>4. Held(c)' = Held(c) /\ \A e \in Clients : e # c => Held(e)' = Held(e)
  BY <1>1, <1>2 DEF IInv, Held, Types, PlaceOK, IsOver, invitation, game, record, Moves
<1>5. Exact'
  <2>1. Held(source) \in 0..2 /\ Held(target) \in 0..2
    BY DEF Held
  <2> QED BY <1>1, <1>2, <1>4, <2>1 DEF IInv, Exact, Listed, Types, Clients, source,
             target, IsOver, invitation, game, record
<1>6. FreedOK'
  BY <1>1, <1>2 DEF IInv, FreedOK, Types, IsOver, invitation, game, record, Moves
<1>7. NoneOK'
  BY <1>1, <1>2 DEF IInv, NoneOK, Types, PlaceOK, IsOver, invitation, game, record, Moves
<1>8. ASSUME NEW e \in Clients PROVE PlaceOK(e)'
  <2>1. PlaceOK(e)
    BY DEF IInv
  <2>2. CASE e = c
    BY <1>1, <1>2, <2>2 DEF IInv, PlaceOK, Types, IsOver, invitation, game, record, Moves
  <2>3. CASE e # c
    BY <1>1, <1>2, <2>1, <2>3 DEF IInv, Types, PlaceOK, IsOver, invitation, game, record,
       Moves
  <2> QED BY <2>2, <2>3
<1>9. MutexOK'
  BY <1>1, <1>2, NullAssumption DEF IInv, MutexOK, Types, IsOver, invitation, game,
     record, Moves
<1>10. ListOK'
  BY <1>1, <1>2 DEF IInv, ListOK, Types, PlaceOK, RemovedOK, Clients, source, target,
     IsOver, invitation, game, record, Moves
<1>11. ASSUME NEW e \in Clients PROVE RemovedOK(e)'
  <2>1. RemovedOK(e)
    BY DEF IInv
  <2>2. CASE e = c
    BY <1>1, <1>2, <2>2 DEF IInv, RemovedOK, Types, PlaceOK, IsOver, invitation, game,
       record, Moves
  <2>3. CASE e # c
    BY <1>1, <1>2, <2>1, <2>3 DEF IInv, Types, RemovedOK, IsOver, invitation, game,
       record, Moves
  <2> QED BY <2>2, <2>3
<1>12. GameOK'
  BY <1>1, <1>2 DEF IInv, GameOK, Types, IsOver, invitation, game, record, Moves
<1>13. ASSUME NEW e \in Clients PROVE ThreadOK(e)'
  <2>1. ThreadOK(e)
    BY DEF IInv
  <2>2. CASE e = c
    BY <1>1, <1>2, <2>2 DEF IInv, ThreadOK, Types, PlaceOK, GameOK, IsOver, invitation,
       game, record, Moves
  <2>3. CASE e # c
    BY <1>1, <1>2, <2>1, <2>3 DEF IInv, Types, ThreadOK, IsOver, invitation, game, record,
       Moves
  <2> QED BY <2>2, <2>3
<1>14. ClosedOnce'
  BY <1>1, <1>2 DEF IInv, ClosedOnce, Types, IsOver, invitation, game, record, Moves
<1>15. PostedOK'
  <2>1. ASSUME NEW e \in Clients PROVE Posts(e)' => Posts(e)
    <3>1. CASE e = c
      BY <1>1, <1>2, <3>1 DEF IInv, Posts, Types, PlaceOK, IsOver, invitation, game,
         record, Moves
    <3>2. CASE e # c
      BY <1>1, <1>2, <3>2 DEF IInv, Posts, Types, IsOver, invitation, game, record, Moves
    <3> QED BY <3>1, <3>2
  <2>2. state # "none"
    BY <1>1, WorkingAfterInvite
  <2> QED BY <1>1, <1>2, <2>1, <2>2, PostedStays DEF IsOver, invitation, game, record
<1> QED BY <1>3, <1>5, <1>6, <1>7, <1>8, <1>9, <1>10, <1>11, <1>12, <1>13, <1>14,
           <1>15 DEF IInv

\* A request looks the invitation up.
LEMMA RequestKeeps ==
    ASSUME IInv, NEW c \in Clients, Request(c)
    PROVE  IInv'
<1>1. pc[c] = "idle" /\ Moves(c, "held") /\ pc' \in [Clients -> Places]
  BY GotoMoves DEF Request, IInv, Places
<1>2. reference_count >= 1 /\ state \notin {"none", "freed"} /\ c \in listed
  BY ListedKeepsAlive DEF Request, Lookup
<1>3. /\ op' \in [Clients -> Functions \cup {"none", "invite"}]
      /\ op'[c] \in Functions /\ \A e \in Clients : e # c => op'[e] = op[e]
      /\ reference_count' = reference_count + 1
      /\ UNCHANGED <<state, source_role, has_game, mutex, over, winner, turn, listed,
                     leaving,
                     ack, verdict, posted, closed_by>>
  <2>1. PICK request \in Functions : Lookup(c, request)
    BY DEF Request, Requests, Functions
  <2>2. op' = [op EXCEPT ![c] = request]
        /\ op \in [Clients -> Functions \cup {"none", "invite"}]
    BY <2>1 DEF Lookup, IInv, Types
  <2>3. request \in Functions \cup {"none", "invite"}
    BY <2>1
  <2> QED BY <2>1, <2>2, <2>3, OneEntry DEF Lookup, invitation, game, record
<1>4. Types'
  BY <1>1, <1>2, <1>3 DEF IInv, Types, Functions, States, Clients, source, target, Moves
<1>5. Held(c)' = Held(c) + 1 /\ \A e \in Clients : e # c => Held(e)' = Held(e)
  <2>1. /\ leaving'[c] = "no" <=> leaving[c] = "no"
        /\ leaving'[c] # "last"
        /\ \A e \in Clients : e # c => leaving'[e] = leaving[e]
    BY <1>1, <1>3 DEF IInv, PlaceOK
  <2> QED BY <1>1, <2>1, TakeHeld
<1>6. Exact'
  <2>1. Held(source) \in 0..2 /\ Held(target) \in 0..2
    BY DEF Held
  <2> QED BY <1>1, <1>2, <1>3, <1>5, <2>1 DEF IInv, Exact, Listed, Types, Clients, source,
             target
<1>7. FreedOK'
  BY <1>1, <1>2, <1>3 DEF IInv, FreedOK, Types, Moves
<1>8. NoneOK'
  BY <1>1, <1>2, <1>3 DEF IInv, NoneOK, Types, PlaceOK, Moves
<1>9. ASSUME NEW e \in Clients PROVE PlaceOK(e)'
  <2>1. PlaceOK(e)
    BY DEF IInv
  <2>2. CASE e = c
    BY <1>1, <1>2, <1>3, <2>2 DEF IInv, PlaceOK, Types, Moves
  <2>3. CASE e # c
    BY <1>1, <1>2, <1>3, <2>1, <2>3 DEF PlaceOK, Moves
  <2> QED BY <2>2, <2>3
<1>10. MutexOK'
  BY <1>1, <1>2, <1>3, NullAssumption DEF IInv, MutexOK, Types, Moves
<1>11. ListOK'
  BY <1>1, <1>2, <1>3 DEF IInv, ListOK, Types, PlaceOK, RemovedOK, Clients, source,
     target, Moves
<1>12. ASSUME NEW e \in Clients PROVE RemovedOK(e)'
  <2>1. RemovedOK(e)
    BY DEF IInv
  <2>2. CASE e = c
    BY <1>1, <1>2, <1>3, <2>2 DEF IInv, RemovedOK, Types, PlaceOK, Moves
  <2>3. CASE e # c
    BY <1>1, <1>2, <1>3, <2>1, <2>3 DEF RemovedOK, Moves
  <2> QED BY <2>2, <2>3
<1>13. GameOK'
  BY <1>1, <1>2, <1>3 DEF IInv, GameOK, Types, Moves
<1>14. ASSUME NEW e \in Clients PROVE ThreadOK(e)'
  <2>1. ThreadOK(e)
    BY DEF IInv
  <2>2. CASE e = c
    BY <1>1, <1>2, <1>3, <2>2 DEF IInv, ThreadOK, Types, PlaceOK, GameOK, Moves
  <2>3. CASE e # c
    BY <1>1, <1>2, <1>3, <2>1, <2>3 DEF ThreadOK, Moves
  <2> QED BY <2>2, <2>3
<1>15. ClosedOnce'
  BY <1>1, <1>2, <1>3 DEF IInv, ClosedOnce, Types, Moves
<1>16. PostedOK'
  <2>1. ASSUME NEW e \in Clients PROVE Posts(e)' => Posts(e)
    <3>1. CASE e = c
      BY <1>1, <1>2, <1>3, <3>1 DEF IInv, Posts, Types, PlaceOK, Moves
    <3>2. CASE e # c
      BY <1>1, <1>2, <1>3, <3>2 DEF IInv, Posts, Types, Moves
    <3> QED BY <3>1, <3>2
  <2>2. state # "none"
    BY <1>2
  <2> QED BY <1>1, <1>2, <1>3, <2>1, <2>2, PostedStays
<1> QED BY <1>4, <1>6, <1>7, <1>8, <1>9, <1>10, <1>11, <1>12, <1>13, <1>14, <1>15,
           <1>16 DEF IInv

\* A logout tries to close the invitation or to resign.
LEMMA LeaveTryKeeps ==
    ASSUME IInv, NEW c \in Clients, LeaveTry(c)
    PROVE  IInv'
<1>1. pc[c] = "leaving" /\ Moves(c, "held") /\ pc' \in [Clients -> Places]
  BY GotoMoves DEF LeaveTry, IInv, Places
<1>2. reference_count >= 1 /\ state \notin {"none", "freed"} /\ c \in listed
  BY ListedKeepsAlive DEF LeaveTry
<1>3. /\ op' \in [Clients -> Functions \cup {"none", "invite"}]
      /\ op'[c] \in {"resign", "revoke", "decline"}
      /\ \A e \in Clients : e # c => op'[e] = op[e]
      /\ leaving' \in [Clients -> {"no", "first", "second", "third", "last"}]
      /\ leaving[c] \in {"first", "second"} /\ leaving'[c] \in {"second", "third"}
      /\ \A e \in Clients : e # c => leaving'[e] = leaving[e]
      /\ reference_count' = reference_count + 1 /\ ~ack[c]
      /\ UNCHANGED <<state, source_role, has_game, mutex, over, winner, turn, listed, ack,
                     verdict, posted, closed_by>>
  <2>1. Attempt(c) \in {"resign", "revoke", "decline"}
    BY DEF Attempt
  <2>2. op' \in [Clients -> Functions \cup {"none", "invite"}]
        /\ op'[c] \in {"resign", "revoke", "decline"}
        /\ \A e \in Clients : e # c => op'[e] = op[e]
    <3>1. op' = [op EXCEPT ![c] = Attempt(c)]
          /\ op \in [Clients -> Functions \cup {"none", "invite"}]
      BY DEF LeaveTry, IInv, Types
    <3>2. Attempt(c) \in Functions \cup {"none", "invite"}
      BY <2>1 DEF Functions
    <3> QED BY <2>1, <3>1, <3>2, OneEntry
  <2>3. leaving' \in [Clients -> {"no", "first", "second", "third", "last"}]
        /\ leaving[c] \in {"first", "second"} /\ leaving'[c] \in {"second", "third"}
        /\ \A e \in Clients : e # c => leaving'[e] = leaving[e]
    BY DEF LeaveTry, IInv, Types
  <2> QED BY <2>2, <2>3 DEF LeaveTry, invitation, game, record
<1>4. Types'
  BY <1>1, <1>2, <1>3 DEF IInv, Types, Functions, States, Clients, source, target, Moves
<1>5. Held(c)' = Held(c) + 1 /\ \A e \in Clients : e # c => Held(e)' = Held(e)
  <2>1. /\ leaving'[c] = "no" <=> leaving[c] = "no"
        /\ leaving'[c] # "last"
        /\ \A e \in Clients : e # c => leaving'[e] = leaving[e]
    BY <1>1, <1>3 DEF IInv, PlaceOK
  <2> QED BY <1>1, <2>1, TakeHeld
<1>6. Exact'
  <2>1. Held(source) \in 0..2 /\ Held(target) \in 0..2
    BY DEF Held
  <2> QED BY <1>1, <1>2, <1>3, <1>5, <2>1 DEF IInv, Exact, Listed, Types, Clients, source,
             target
<1>7. FreedOK'
  BY <1>1, <1>2, <1>3 DEF IInv, FreedOK, Types, Moves
<1>8. NoneOK'
  BY <1>1, <1>2, <1>3 DEF IInv, NoneOK, Types, PlaceOK, Moves
<1>9. ASSUME NEW e \in Clients PROVE PlaceOK(e)'
  <2>1. PlaceOK(e)
    BY DEF IInv
  <2>2. CASE e = c
    BY <1>1, <1>2, <1>3, <2>2 DEF IInv, PlaceOK, Types, Moves
  <2>3. CASE e # c
    BY <1>1, <1>2, <1>3, <2>1, <2>3 DEF PlaceOK, Moves
  <2> QED BY <2>2, <2>3
<1>10. MutexOK'
  BY <1>1, <1>2, <1>3, NullAssumption DEF IInv, MutexOK, Types, Moves
<1>11. ListOK'
  BY <1>1, <1>2, <1>3 DEF IInv, ListOK, Types, PlaceOK, RemovedOK, Clients, source,
     target, Moves
<1>12. ASSUME NEW e \in Clients PROVE RemovedOK(e)'
  <2>1. RemovedOK(e)
    BY DEF IInv
  <2>2. CASE e = c
    BY <1>1, <1>2, <1>3, <2>2 DEF IInv, RemovedOK, Types, PlaceOK, Moves
  <2>3. CASE e # c
    BY <1>1, <1>2, <1>3, <2>1, <2>3 DEF RemovedOK, Moves
  <2> QED BY <2>2, <2>3
<1>13. GameOK'
  BY <1>1, <1>2, <1>3 DEF IInv, GameOK, Types, Moves
<1>14. ASSUME NEW e \in Clients PROVE ThreadOK(e)'
  <2>1. ThreadOK(e)
    BY DEF IInv
  <2>2. CASE e = c
    BY <1>1, <1>2, <1>3, <2>2 DEF IInv, ThreadOK, Types, PlaceOK, GameOK, Moves
  <2>3. CASE e # c
    BY <1>1, <1>2, <1>3, <2>1, <2>3 DEF ThreadOK, Moves
  <2> QED BY <2>2, <2>3
<1>15. ClosedOnce'
  BY <1>1, <1>2, <1>3 DEF IInv, ClosedOnce, Types, Moves
<1>16. PostedOK'
  <2>1. ASSUME NEW e \in Clients PROVE Posts(e)' => Posts(e)
    <3>1. CASE e = c
      BY <1>1, <1>2, <1>3, <3>1 DEF IInv, Posts, Types, PlaceOK, Moves
    <3>2. CASE e # c
      BY <1>1, <1>2, <1>3, <3>2 DEF IInv, Posts, Types, Moves
    <3> QED BY <3>1, <3>2
  <2>2. state # "none"
    BY <1>1, WorkingAfterInvite
  <2> QED BY <1>1, <1>2, <1>3, <2>1, <2>2, PostedStays
<1> QED BY <1>4, <1>6, <1>7, <1>8, <1>9, <1>10, <1>11, <1>12, <1>13, <1>14, <1>15,
           <1>16 DEF IInv

\* A logout has closed the invitation, or goes on to remove it.
LEMMA LeaveRestKeeps ==
    ASSUME IInv, NEW c \in Clients, LeaveRest(c)
    PROVE  IInv'
<1>1. pc[c] = "leaving" /\ Moves(c, IF ack[c] THEN "unref" ELSE "remove source")
      /\ pc' \in [Clients -> Places]
  BY GotoMoves DEF LeaveRest, IInv, Places
<1>2. Types'
  BY <1>1 DEF IInv, Types, Functions, States, Clients, source, target, LeaveRest,
     invitation, game, record, Moves
<1>3. Held(c)' = Held(c) /\ \A e \in Clients : e # c => Held(e)' = Held(e)
  BY <1>1 DEF IInv, Held, Types, PlaceOK, LeaveRest, invitation, game, record, Moves
<1>4. Exact'
  <2>1. Held(source) \in 0..2 /\ Held(target) \in 0..2
    BY DEF Held
  <2> QED BY <1>1, <1>3, <2>1 DEF IInv, Exact, Listed, Types, Clients, source, target,
             LeaveRest, invitation, game, record
<1>5. FreedOK'
  BY <1>1 DEF IInv, FreedOK, Types, LeaveRest, invitation, game, record, Moves
<1>6. NoneOK'
  BY <1>1 DEF IInv, NoneOK, Types, PlaceOK, LeaveRest, invitation, game, record, Moves
<1>7. ASSUME NEW e \in Clients PROVE PlaceOK(e)'
  <2>1. PlaceOK(e)
    BY DEF IInv
  <2>2. CASE e = c
    BY <1>1, <2>2 DEF IInv, PlaceOK, Types, LeaveRest, invitation, game, record, Moves
  <2>3. CASE e # c
    BY <1>1, <2>1, <2>3 DEF IInv, Types, PlaceOK, LeaveRest, invitation, game, record, Moves
  <2> QED BY <2>2, <2>3
<1>8. MutexOK'
  BY <1>1, NullAssumption DEF IInv, MutexOK, Types, LeaveRest, invitation, game, record,
     Moves
<1>9. ListOK'
  BY <1>1 DEF IInv, ListOK, Types, PlaceOK, RemovedOK, Clients, source, target, LeaveRest,
     invitation, game, record, Moves
<1>10. ASSUME NEW e \in Clients PROVE RemovedOK(e)'
  <2>1. RemovedOK(e)
    BY DEF IInv
  <2>2. CASE e = c
    BY <1>1, <2>2 DEF IInv, RemovedOK, Types, PlaceOK, LeaveRest, invitation, game,
       record, Moves
  <2>3. CASE e # c
    BY <1>1, <2>1, <2>3 DEF IInv, Types, RemovedOK, LeaveRest, invitation, game, record,
       Moves
  <2> QED BY <2>2, <2>3
<1>11. GameOK'
  BY <1>1 DEF IInv, GameOK, Types, LeaveRest, invitation, game, record, Moves
<1>12. ASSUME NEW e \in Clients PROVE ThreadOK(e)'
  <2>1. ThreadOK(e)
    BY DEF IInv
  <2>2. CASE e = c
    BY <1>1, <2>2 DEF IInv, ThreadOK, Types, PlaceOK, GameOK, LeaveRest, invitation, game,
       record, Moves
  <2>3. CASE e # c
    BY <1>1, <2>1, <2>3 DEF IInv, Types, ThreadOK, LeaveRest, invitation, game, record,
       Moves
  <2> QED BY <2>2, <2>3
<1>13. ClosedOnce'
  BY <1>1 DEF IInv, ClosedOnce, Types, LeaveRest, invitation, game, record, Moves
<1>14. PostedOK'
  <2>1. ASSUME NEW e \in Clients PROVE Posts(e)' => Posts(e)
    <3>1. CASE e = c
      BY <1>1, <3>1 DEF IInv, Posts, Types, PlaceOK, LeaveRest, invitation, game, record,
         Moves
    <3>2. CASE e # c
      BY <1>1, <3>2 DEF IInv, Posts, Types, LeaveRest, invitation, game, record, Moves
    <3> QED BY <3>1, <3>2
  <2>2. state # "none"
    BY <1>1, WorkingAfterInvite
  <2> QED BY <1>1, <2>1, <2>2, PostedStays DEF LeaveRest, invitation, game, record
<1> QED BY <1>2, <1>4, <1>5, <1>6, <1>7, <1>8, <1>9, <1>10, <1>11, <1>12, <1>13,
           <1>14 DEF IInv

\* The invitation is accepted, with or without a game.
LEMMA AcceptKeeps ==
    ASSUME IInv, NEW c \in Clients, Accept(c)
    PROVE  IInv'
<1>1. pc[c] = "held" /\ Moves(c, "unref") /\ pc' \in [Clients -> Places]
  BY GotoMoves DEF Accept, IInv, Places
<1>2. state = "open" => ~has_game /\ ~over
  BY DEF IInv, GameOK
<1>3. \A e \in Clients : state = "open" => pc[e] \notin {"end", "parsed", "moved"}
  BY <1>2 DEF IInv, ThreadOK
<1>4. Types'
  BY <1>1, <1>2, <1>3 DEF IInv, Types, Functions, States, Clients, source, target, Accept,
     invitation, game, record, Return, Moves
<1>5. Held(c)' = Held(c) /\ \A e \in Clients : e # c => Held(e)' = Held(e)
  BY <1>1, <1>2, <1>3 DEF IInv, Held, Types, PlaceOK, Accept, invitation, game, record,
     Return, Moves
<1>6. Exact'
  <2>1. Held(source) \in 0..2 /\ Held(target) \in 0..2
    BY DEF Held
  <2> QED BY <1>1, <1>2, <1>3, <1>5, <2>1 DEF IInv, Exact, Listed, Types, Clients, source,
             target, Accept, invitation, game, record, Return
<1>7. FreedOK'
  BY <1>1, <1>2, <1>3 DEF IInv, FreedOK, Types, Accept, invitation, game, record, Return,
     Moves
<1>8. NoneOK'
  BY <1>1, <1>2, <1>3 DEF IInv, NoneOK, Types, PlaceOK, Accept, invitation, game, record,
     Return, Moves
<1>9. ASSUME NEW e \in Clients PROVE PlaceOK(e)'
  <2>1. PlaceOK(e)
    BY DEF IInv
  <2>2. CASE e = c
    BY <1>1, <1>2, <1>3, <2>2 DEF IInv, PlaceOK, Types, Accept, invitation, game, record,
       Return, Moves
  <2>3. CASE e # c
    BY <1>1, <1>2, <1>3, <2>1, <2>3 DEF IInv, Types, PlaceOK, Accept, invitation, game,
       record, Return, Moves
  <2> QED BY <2>2, <2>3
<1>10. MutexOK'
  BY <1>1, <1>2, <1>3, NullAssumption DEF IInv, MutexOK, Types, Accept, invitation, game,
     record, Return, Moves
<1>11. ListOK'
  BY <1>1, <1>2, <1>3 DEF IInv, ListOK, Types, PlaceOK, RemovedOK, Clients, source,
     target, Accept, invitation, game, record, Return, Moves
<1>12. ASSUME NEW e \in Clients PROVE RemovedOK(e)'
  <2>1. RemovedOK(e)
    BY DEF IInv
  <2>2. CASE e = c
    BY <1>1, <1>2, <1>3, <2>2 DEF IInv, RemovedOK, Types, PlaceOK, Accept, invitation,
       game, record, Return, Moves
  <2>3. CASE e # c
    BY <1>1, <1>2, <1>3, <2>1, <2>3 DEF IInv, Types, RemovedOK, Accept, invitation, game,
       record, Return, Moves
  <2> QED BY <2>2, <2>3
<1>13. GameOK'
  BY <1>1, <1>2, <1>3 DEF IInv, GameOK, Types, Accept, invitation, game, record, Return,
     Moves
<1>14. ASSUME NEW e \in Clients PROVE ThreadOK(e)'
  <2>1. ThreadOK(e)
    BY DEF IInv
  <2>2. CASE e = c
    BY <1>1, <1>2, <1>3, <2>2 DEF IInv, ThreadOK, Types, PlaceOK, GameOK, Accept,
       invitation, game, record, Return, Moves
  <2>3. CASE e # c
    BY <1>1, <1>2, <1>3, <2>1, <2>3 DEF IInv, Types, ThreadOK, Accept, invitation, game,
       record, Return, Moves
  <2> QED BY <2>2, <2>3
<1>15. ClosedOnce'
  BY <1>1, <1>2, <1>3 DEF IInv, ClosedOnce, Types, Accept, invitation, game, record,
     Return, Moves
<1>16. PostedOK'
  <2>1. ASSUME NEW e \in Clients PROVE Posts(e)' => Posts(e)
    <3>1. CASE e = c
      BY <1>1, <1>2, <1>3, <3>1 DEF IInv, Posts, Types, PlaceOK, Accept, invitation, game,
         record, Return, Moves
    <3>2. CASE e # c
      BY <1>1, <1>2, <1>3, <3>2 DEF IInv, Posts, Types, Accept, invitation, game, record,
         Return, Moves
    <3> QED BY <3>1, <3>2
  <2>2. state # "none"
    BY <1>1, WorkingAfterInvite
  <2> QED BY <1>1, <1>2, <1>3, <2>1, <2>2, PostedStays DEF Accept, invitation, game,
             record, Return
<1> QED BY <1>4, <1>6, <1>7, <1>8, <1>9, <1>10, <1>11, <1>12, <1>13, <1>14, <1>15,
           <1>16 DEF IInv

\* A resignation after the end of the game.
LEMMA GameResignTooLateKeeps ==
    ASSUME IInv, NEW c \in Clients, GameResign(c), over
    PROVE  IInv'
<1>1. pc[c] = "resigning" /\ Moves(c, "unref") /\ pc' \in [Clients -> Places]
  BY GotoMoves DEF GameResign, G!GiveUp, IInv, Places
<1>2. /\ mutex = c /\ mutex' = NULL
      /\ ack' \in [Clients -> BOOLEAN] /\ ~ack'[c]
      /\ \A e \in Clients : e # c => ack'[e] = ack[e]
      /\ UNCHANGED <<state, source_role, has_game, over, winner, turn, reference_count,
                     listed,
                     op, leaving, verdict, posted, closed_by>>
  <2>1. mutex = c
    BY <1>1 DEF IInv, MutexOK
  <2>2. ack' = [ack EXCEPT ![c] = FALSE] /\ ack \in [Clients -> BOOLEAN]
    BY DEF GameResign, G!GiveUp, Return, SetClosed, IInv, Types
  <2>3. /\ ack' \in [Clients -> BOOLEAN]
        /\ ~ack'[c] /\ \A e \in Clients : e # c => ack'[e] = ack[e]
    BY <2>2, OneEntry
  <2> QED BY <2>1, <2>3 DEF GameResign, G!GiveUp, SetClosed, invitation, game, record
<1>3. Types'
  BY <1>1, <1>2 DEF IInv, Types, Functions, States, Clients, source, target, Moves
<1>4. Held(c)' = Held(c) /\ \A e \in Clients : e # c => Held(e)' = Held(e)
  BY <1>1, <1>2 DEF IInv, Held, Types, PlaceOK, Moves
<1>5. Exact'
  <2>1. Held(source) \in 0..2 /\ Held(target) \in 0..2
    BY DEF Held
  <2> QED BY <1>1, <1>2, <1>4, <2>1 DEF IInv, Exact, Listed, Types, Clients, source, target
<1>6. FreedOK'
  BY <1>1, <1>2 DEF IInv, FreedOK, Types, Moves
<1>7. NoneOK'
  BY <1>1, <1>2 DEF IInv, NoneOK, Types, PlaceOK, Moves
<1>8. ASSUME NEW e \in Clients PROVE PlaceOK(e)'
  <2>1. PlaceOK(e)
    BY DEF IInv
  <2>2. CASE e = c
    BY <1>1, <1>2, <2>2 DEF IInv, PlaceOK, Types, Moves
  <2>3. CASE e # c
    BY <1>1, <1>2, <2>1, <2>3 DEF PlaceOK, Moves
  <2> QED BY <2>2, <2>3
<1>9. MutexOK'
  BY <1>1, <1>2, NullAssumption DEF IInv, MutexOK, Types, Moves
<1>10. ListOK'
  BY <1>1, <1>2 DEF IInv, ListOK, Types, PlaceOK, RemovedOK, Clients, source, target, Moves
<1>11. ASSUME NEW e \in Clients PROVE RemovedOK(e)'
  <2>1. RemovedOK(e)
    BY DEF IInv
  <2>2. CASE e = c
    BY <1>1, <1>2, <2>2 DEF IInv, RemovedOK, Types, PlaceOK, Moves
  <2>3. CASE e # c
    BY <1>1, <1>2, <2>1, <2>3 DEF RemovedOK, Moves
  <2> QED BY <2>2, <2>3
<1>12. GameOK'
  BY <1>1, <1>2 DEF IInv, GameOK, Types, Moves
<1>13. ASSUME NEW e \in Clients PROVE ThreadOK(e)'
  <2>1. ThreadOK(e)
    BY DEF IInv
  <2>2. CASE e = c
    BY <1>1, <1>2, <2>2 DEF IInv, ThreadOK, Types, PlaceOK, GameOK, Moves
  <2>3. CASE e # c
    BY <1>1, <1>2, <2>1, <2>3 DEF ThreadOK, Moves
  <2> QED BY <2>2, <2>3
<1>14. ClosedOnce'
  BY <1>1, <1>2 DEF IInv, ClosedOnce, Types, Moves
<1>15. PostedOK'
  <2>1. ASSUME NEW e \in Clients PROVE Posts(e)' => Posts(e)
    <3>1. CASE e = c
      BY <1>1, <1>2, <3>1 DEF IInv, Posts, Types, PlaceOK, Moves
    <3>2. CASE e # c
      BY <1>1, <1>2, <3>2 DEF IInv, Posts, Types, Moves
    <3> QED BY <3>1, <3>2
  <2>2. state # "none"
    BY <1>1, WorkingAfterInvite
  <2> QED BY <1>1, <1>2, <2>1, <2>2, PostedStays
<1> QED BY <1>3, <1>5, <1>6, <1>7, <1>8, <1>9, <1>10, <1>11, <1>12, <1>13, <1>14,
           <1>15 DEF IInv

\* A resignation.
LEMMA GameResignsKeeps ==
    ASSUME IInv, NEW c \in Clients, GameResign(c), ~over
    PROVE  IInv'
<1>1. pc[c] = "resigning" /\ Moves(c, "end") /\ pc' \in [Clients -> Places]
  BY GotoMoves DEF GameResign, IInv, Places
<1>2. reference_count >= 1 /\ state \notin {"none", "freed"}
  BY <1>1, HolderKeepsAlive
<1>3. /\ mutex = c /\ mutex' = NULL /\ has_game /\ state \in {"open", "accepted"}
      /\ ack' \in [Clients -> BOOLEAN] /\ \A e \in Clients : e # c => ack'[e] = ack[e]
      /\ closed_by' = closed_by \cup {<<c, op[c], state>>} /\ state' = "closed"
      /\ over' = TRUE /\ winner' \in G!Roles /\ turn' = G!NULL_ROLE /\ turn' \in G!Roles
      /\ UNCHANGED <<source_role, has_game, reference_count, listed, op, leaving, verdict,
                     posted>>
  <2>1. mutex = c /\ has_game /\ state \in {"open", "accepted"}
    BY <1>1, NullAssumption DEF IInv, MutexOK
  <2>2. ack' = [ack EXCEPT ![c] = TRUE] /\ ack \in [Clients -> BOOLEAN]
    BY DEF GameResign, G!GiveUp, Return, SetClosed, IInv, Types
  <2>3. /\ ack' \in [Clients -> BOOLEAN]
        /\ \A e \in Clients : e # c => ack'[e] = ack[e]
    BY <2>2, OneEntry
  <2>4. G!GiveUp(Role(c)) /\ Role(c) \in G!Players
    BY RoleIsPlayer DEF GameResign, IInv
  <2>5. winner' \in G!Roles /\ turn' \in G!Roles
    BY <2>4, GameSteps DEF IInv
  <2> QED BY <2>1, <2>3, <2>5 DEF GameResign, G!GiveUp, SetClosed, invitation, game, record
<1>4. Types'
  BY <1>1, <1>2, <1>3 DEF IInv, Types, Functions, States, Clients, source, target, Moves
<1>5. Held(c)' = Held(c) /\ \A e \in Clients : e # c => Held(e)' = Held(e)
  BY <1>1, <1>2, <1>3 DEF IInv, Held, Types, PlaceOK, Moves
<1>6. Exact'
  <2>1. Held(source) \in 0..2 /\ Held(target) \in 0..2
    BY DEF Held
  <2> QED BY <1>1, <1>2, <1>3, <1>5, <2>1 DEF IInv, Exact, Listed, Types, Clients, source,
             target
<1>7. FreedOK'
  BY <1>1, <1>2, <1>3 DEF IInv, FreedOK, Types, Moves
<1>8. NoneOK'
  BY <1>1, <1>2, <1>3 DEF IInv, NoneOK, Types, PlaceOK, Moves
<1>9. ASSUME NEW e \in Clients PROVE PlaceOK(e)'
  <2>1. PlaceOK(e)
    BY DEF IInv
  <2>2. CASE e = c
    BY <1>1, <1>2, <1>3, <2>2 DEF IInv, PlaceOK, Types, Moves
  <2>3. CASE e # c
    BY <1>1, <1>2, <1>3, <2>1, <2>3 DEF PlaceOK, Moves
  <2> QED BY <2>2, <2>3
<1>10. MutexOK'
  BY <1>1, <1>2, <1>3, NullAssumption DEF IInv, MutexOK, Types, Moves
<1>11. ListOK'
  BY <1>1, <1>2, <1>3 DEF IInv, ListOK, Types, PlaceOK, RemovedOK, Clients, source,
     target, Moves
<1>12. ASSUME NEW e \in Clients PROVE RemovedOK(e)'
  <2>1. RemovedOK(e)
    BY DEF IInv
  <2>2. CASE e = c
    BY <1>1, <1>2, <1>3, <2>2 DEF IInv, RemovedOK, Types, PlaceOK, Moves
  <2>3. CASE e # c
    BY <1>1, <1>2, <1>3, <2>1, <2>3 DEF RemovedOK, Moves
  <2> QED BY <2>2, <2>3
<1>13. GameOK'
  BY <1>1, <1>2, <1>3 DEF IInv, GameOK, Types, Moves
<1>14. ASSUME NEW e \in Clients PROVE ThreadOK(e)'
  <2>1. ThreadOK(e)
    BY DEF IInv
  <2>2. CASE e = c
    BY <1>1, <1>2, <1>3, <2>2 DEF IInv, ThreadOK, Types, PlaceOK, GameOK, Moves
  <2>3. CASE e # c
    BY <1>1, <1>2, <1>3, <2>1, <2>3 DEF ThreadOK, Moves
  <2> QED BY <2>2, <2>3
<1>15. ClosedOnce'
  BY <1>3, FirstClose
<1>16. PostedOK'
  <2>1. ASSUME NEW e \in Clients PROVE Posts(e)' => Posts(e)
    <3>1. CASE e = c
      BY <1>1, <1>2, <1>3, <3>1 DEF IInv, Posts, Types, PlaceOK, Moves
    <3>2. CASE e # c
      BY <1>1, <1>2, <1>3, <3>2 DEF IInv, Posts, Types, Moves
    <3> QED BY <3>1, <3>2
  <2>2. state # "none"
    BY <1>1, WorkingAfterInvite
  <2> QED BY <1>1, <1>2, <1>3, <2>1, <2>2, PostedStays
<1> QED BY <1>4, <1>6, <1>7, <1>8, <1>9, <1>10, <1>11, <1>12, <1>13, <1>14, <1>15,
           <1>16 DEF IInv

\* The connection of a client that has the invitation ends.
LEMMA LeaveListedKeeps ==
    ASSUME IInv, NEW c \in Clients, Leave(c), c \in listed
    PROVE  IInv'
<1>1. pc[c] = "idle" /\ Moves(c, "leaving") /\ pc' \in [Clients -> Places]
  BY GotoMoves DEF Leave, IInv, Places
<1>2. reference_count >= 1 /\ state \notin {"none", "freed"}
  BY ListedKeepsAlive
<1>3. /\ leaving' \in [Clients -> {"no", "first", "second", "third", "last"}]
      /\ leaving[c] = "no" /\ leaving'[c] = "first"
      /\ \A e \in Clients : e # c => leaving'[e] = leaving[e]
      /\ ack' \in [Clients -> BOOLEAN] /\ ~ack'[c]
      /\ \A e \in Clients : e # c => ack'[e] = ack[e]
      /\ reference_count' = reference_count + 1
      /\ UNCHANGED <<state, source_role, has_game, mutex, over, winner, turn, listed, op,
                     verdict, posted, closed_by>>
  <2>1. /\ leaving' \in [Clients -> {"no", "first", "second", "third", "last"}]
        /\ leaving[c] = "no" /\ leaving'[c] = "first"
        /\ \A e \in Clients : e # c => leaving'[e] = leaving[e]
    BY DEF Leave, IInv, Types
  <2>2. ack' \in [Clients -> BOOLEAN] /\ ~ack'[c]
        /\ \A e \in Clients : e # c => ack'[e] = ack[e]
    BY DEF Leave, Return, IInv, Types
  <2> QED BY <2>1, <2>2 DEF Leave, invitation, game, record
<1>4. Types'
  BY <1>1, <1>2, <1>3 DEF IInv, Types, Functions, States, Clients, source, target, Moves
<1>5. Held(c)' = Held(c) + 1 /\ \A e \in Clients : e # c => Held(e)' = Held(e)
  <2>1. Held(c) = 0
    BY <1>1, <1>3 DEF Held
  <2>2. Held(c)' = 1
    BY <1>1, <1>3 DEF Held, Moves
  <2>3. \A e \in Clients : e # c => Held(e)' = Held(e)
    BY <1>1, <1>3 DEF Held, Moves
  <2> QED BY <2>1, <2>2, <2>3
<1>6. Exact'
  <2>1. Held(source) \in 0..2 /\ Held(target) \in 0..2
    BY DEF Held
  <2> QED BY <1>1, <1>2, <1>3, <1>5, <2>1 DEF IInv, Exact, Listed, Types, Clients, source,
             target
<1>7. FreedOK'
  BY <1>1, <1>2, <1>3 DEF IInv, FreedOK, Types, Moves
<1>8. NoneOK'
  BY <1>1, <1>2, <1>3 DEF IInv, NoneOK, Types, PlaceOK, Moves
<1>9. ASSUME NEW e \in Clients PROVE PlaceOK(e)'
  <2>1. PlaceOK(e)
    BY DEF IInv
  <2>2. CASE e = c
    BY <1>1, <1>2, <1>3, <2>2 DEF IInv, PlaceOK, Types, Moves
  <2>3. CASE e # c
    BY <1>1, <1>2, <1>3, <2>1, <2>3 DEF PlaceOK, Moves
  <2> QED BY <2>2, <2>3
<1>10. MutexOK'
  BY <1>1, <1>2, <1>3, NullAssumption DEF IInv, MutexOK, Types, Moves
<1>11. ListOK'
  BY <1>1, <1>2, <1>3 DEF IInv, ListOK, Types, PlaceOK, RemovedOK, Clients, source,
     target, Moves
<1>12. ASSUME NEW e \in Clients PROVE RemovedOK(e)'
  <2>1. RemovedOK(e)
    BY DEF IInv
  <2>2. CASE e = c
    BY <1>1, <1>2, <1>3, <2>2 DEF IInv, RemovedOK, Types, PlaceOK, Moves
  <2>3. CASE e # c
    BY <1>1, <1>2, <1>3, <2>1, <2>3 DEF RemovedOK, Moves
  <2> QED BY <2>2, <2>3
<1>13. GameOK'
  BY <1>1, <1>2, <1>3 DEF IInv, GameOK, Types, Moves
<1>14. ASSUME NEW e \in Clients PROVE ThreadOK(e)'
  <2>1. ThreadOK(e)
    BY DEF IInv
  <2>2. CASE e = c
    BY <1>1, <1>2, <1>3, <2>2 DEF IInv, ThreadOK, Types, PlaceOK, GameOK, Moves
  <2>3. CASE e # c
    BY <1>1, <1>2, <1>3, <2>1, <2>3 DEF ThreadOK, Moves
  <2> QED BY <2>2, <2>3
<1>15. ClosedOnce'
  BY <1>1, <1>2, <1>3 DEF IInv, ClosedOnce, Types, Moves
<1>16. PostedOK'
  <2>1. ASSUME NEW e \in Clients PROVE Posts(e)' => Posts(e)
    <3>1. CASE e = c
      BY <1>1, <1>2, <1>3, <3>1 DEF IInv, Posts, Types, PlaceOK, Moves
    <3>2. CASE e # c
      BY <1>1, <1>2, <1>3, <3>2 DEF IInv, Posts, Types, Moves
    <3> QED BY <3>1, <3>2
  <2>2. state # "none"
    BY <1>2
  <2> QED BY <1>1, <1>2, <1>3, <2>1, <2>2, PostedStays
<1> QED BY <1>4, <1>6, <1>7, <1>8, <1>9, <1>10, <1>11, <1>12, <1>13, <1>14, <1>15,
           <1>16 DEF IInv

\* The connection of a client without invitation ends.
LEMMA LeaveUnlistedKeeps ==
    ASSUME IInv, NEW c \in Clients, Leave(c), c \notin listed
    PROVE  IInv'
<1>1. pc[c] = "idle" /\ Moves(c, "gone") /\ pc' \in [Clients -> Places]
  BY GotoMoves DEF Leave, IInv, Places
<1>2. /\ leaving[c] = "no"
      /\ UNCHANGED <<state, source_role, has_game, mutex, over, winner, turn, listed, op,
                     leaving, ack, reference_count, verdict, posted, closed_by>>
  BY <1>1 DEF Leave, invitation, game, record
<1>3. Types'
  BY <1>1, <1>2 DEF IInv, Types, Functions, States, Clients, source, target, Moves
<1>4. Held(c)' = Held(c) /\ \A e \in Clients : e # c => Held(e)' = Held(e)
  BY <1>1, <1>2 DEF IInv, Held, Types, PlaceOK, Moves
<1>5. Exact'
  <2>1. Held(source) \in 0..2 /\ Held(target) \in 0..2
    BY DEF Held
  <2> QED BY <1>1, <1>2, <1>4, <2>1 DEF IInv, Exact, Listed, Types, Clients, source, target
<1>6. FreedOK'
  BY <1>1, <1>2 DEF IInv, FreedOK, Types, Moves
<1>7. NoneOK'
  BY <1>1, <1>2 DEF IInv, NoneOK, Types, PlaceOK, Moves
<1>8. ASSUME NEW e \in Clients PROVE PlaceOK(e)'
  <2>1. PlaceOK(e)
    BY DEF IInv
  <2>2. CASE e = c
    BY <1>1, <1>2, <2>2 DEF IInv, PlaceOK, Types, Moves
  <2>3. CASE e # c
    BY <1>1, <1>2, <2>1, <2>3 DEF PlaceOK, Moves
  <2> QED BY <2>2, <2>3
<1>9. MutexOK'
  BY <1>1, <1>2, NullAssumption DEF IInv, MutexOK, Types, Moves
<1>10. ListOK'
  BY <1>1, <1>2 DEF IInv, ListOK, Types, PlaceOK, RemovedOK, Clients, source, target, Moves
<1>11. ASSUME NEW e \in Clients PROVE RemovedOK(e)'
  <2>1. RemovedOK(e)
    BY DEF IInv
  <2>2. CASE e = c
    BY <1>1, <1>2, <2>2 DEF IInv, RemovedOK, Types, PlaceOK, Moves
  <2>3. CASE e # c
    BY <1>1, <1>2, <2>1, <2>3 DEF RemovedOK, Moves
  <2> QED BY <2>2, <2>3
<1>12. GameOK'
  BY <1>1, <1>2 DEF IInv, GameOK, Types, Moves
<1>13. ASSUME NEW e \in Clients PROVE ThreadOK(e)'
  <2>1. ThreadOK(e)
    BY DEF IInv
  <2>2. CASE e = c
    BY <1>1, <1>2, <2>2 DEF IInv, ThreadOK, Types, PlaceOK, GameOK, Moves
  <2>3. CASE e # c
    BY <1>1, <1>2, <2>1, <2>3 DEF ThreadOK, Moves
  <2> QED BY <2>2, <2>3
<1>14. ClosedOnce'
  BY <1>1, <1>2 DEF IInv, ClosedOnce, Types, Moves
<1>15. PostedOK'
  <2>1. ASSUME NEW e \in Clients PROVE Posts(e)' => Posts(e)
    <3>1. CASE e = c
      BY <1>1, <1>2, <3>1 DEF IInv, Posts, Types, PlaceOK, Moves
    <3>2. CASE e # c
      BY <1>1, <1>2, <3>2 DEF IInv, Posts, Types, Moves
    <3> QED BY <3>1, <3>2
  <2>2. state' = "none" \/ state # "none"
    BY <1>2
  <2> QED BY <1>1, <1>2, <2>1, <2>2, PostedStays
<1> QED BY <1>3, <1>5, <1>6, <1>7, <1>8, <1>9, <1>10, <1>11, <1>12, <1>13, <1>14,
           <1>15 DEF IInv

\* The target has been told, or not.
LEMMA InvitedKeeps ==
    ASSUME IInv, NEW c \in Clients, c = source, Invited
    PROVE  IInv'
<1>1. /\ pc[c] = "inviting" /\ Moves(c, pc'[c]) /\ pc' \in [Clients -> Places]
      /\ pc'[c] \in {"unref", "remove source"}
  <2>1. CASE Goto(source, "inviting", "unref")
    BY <2>1, GotoMoves DEF IInv, Places, Moves
  <2>2. CASE Goto(source, "inviting", "remove source")
    BY <2>2, GotoMoves DEF IInv, Places, Moves
  <2> QED BY <2>1, <2>2 DEF Invited
<1>2. /\ leaving[c] = "no" /\ op[c] = "invite"
      /\ ack' \in [Clients -> BOOLEAN] /\ \A e \in Clients : e # c => ack'[e] = ack[e]
      /\ UNCHANGED <<state, source_role, has_game, mutex, over, winner, turn, listed, op,
                     leaving, reference_count, verdict, posted, closed_by>>
  <2>1. ack' \in [Clients -> BOOLEAN] /\ \A e \in Clients : e # c => ack'[e] = ack[e]
    BY DEF Invited, Return, IInv, Types
  <2> QED BY <1>1, <2>1 DEF IInv, PlaceOK, Invited, invitation, game, record
<1>3. Types'
  BY <1>1, <1>2 DEF IInv, Types, Functions, States, Clients, source, target, Moves
<1>4. Held(c)' = Held(c) /\ \A e \in Clients : e # c => Held(e)' = Held(e)
  BY <1>1, <1>2 DEF IInv, Held, Types, PlaceOK, Moves
<1>5. Exact'
  <2>1. Held(source) \in 0..2 /\ Held(target) \in 0..2
    BY DEF Held
  <2> QED BY <1>1, <1>2, <1>4, <2>1 DEF IInv, Exact, Listed, Types, Clients, source, target
<1>6. FreedOK'
  BY <1>1, <1>2 DEF IInv, FreedOK, Types, Moves
<1>7. NoneOK'
  BY <1>1, <1>2 DEF IInv, NoneOK, Types, PlaceOK, Moves
<1>8. ASSUME NEW e \in Clients PROVE PlaceOK(e)'
  <2>1. PlaceOK(e)
    BY DEF IInv
  <2>2. CASE e = c
    BY <1>1, <1>2, <2>2 DEF IInv, PlaceOK, Types, Moves
  <2>3. CASE e # c
    BY <1>1, <1>2, <2>1, <2>3 DEF PlaceOK, Moves
  <2> QED BY <2>2, <2>3
<1>9. MutexOK'
  BY <1>1, <1>2, NullAssumption DEF IInv, MutexOK, Types, Moves
<1>10. ListOK'
  BY <1>1, <1>2 DEF IInv, ListOK, Types, PlaceOK, RemovedOK, Clients, source, target, Moves
<1>11. ASSUME NEW e \in Clients PROVE RemovedOK(e)'
  <2>1. RemovedOK(e)
    BY DEF IInv
  <2>2. CASE e = c
    BY <1>1, <1>2, <2>2 DEF IInv, RemovedOK, Types, PlaceOK, Moves
  <2>3. CASE e # c
    BY <1>1, <1>2, <2>1, <2>3 DEF RemovedOK, Moves
  <2> QED BY <2>2, <2>3
<1>12. GameOK'
  BY <1>1, <1>2 DEF IInv, GameOK, Types, Moves
<1>13. ASSUME NEW e \in Clients PROVE ThreadOK(e)'
  <2>1. ThreadOK(e)
    BY DEF IInv
  <2>2. CASE e = c
    BY <1>1, <1>2, <2>2 DEF IInv, ThreadOK, Types, PlaceOK, GameOK, Moves
  <2>3. CASE e # c
    BY <1>1, <1>2, <2>1, <2>3 DEF ThreadOK, Moves
  <2> QED BY <2>2, <2>3
<1>14. ClosedOnce'
  BY <1>1, <1>2 DEF IInv, ClosedOnce, Types, Moves
<1>15. PostedOK'
  <2>1. ASSUME NEW e \in Clients PROVE Posts(e)' => Posts(e)
    <3>1. CASE e = c
      BY <1>1, <1>2, <3>1 DEF IInv, Posts, Types, PlaceOK, Moves
    <3>2. CASE e # c
      BY <1>1, <1>2, <3>2 DEF IInv, Posts, Types, Moves
    <3> QED BY <3>1, <3>2
  <2>2. state # "none"
    BY <1>1, WorkingAfterInvite
  <2> QED BY <1>1, <1>2, <2>1, <2>2, PostedStays
<1> QED BY <1>3, <1>5, <1>6, <1>7, <1>8, <1>9, <1>10, <1>11, <1>12, <1>13, <1>14,
           <1>15 DEF IInv

\* The invitation is made and listed for both clients.
LEMMA InviteKeeps ==
    ASSUME IInv, NEW c \in Clients, c = source, Invite
    PROVE  IInv'
<1>1. pc[c] = "idle" /\ Moves(c, "inviting") /\ pc' \in [Clients -> Places]
  BY GotoMoves DEF Invite, IInv, Places
<1>2. /\ state = "none" /\ state' = "open"
      /\ ~has_game /\ ~over /\ listed = {} /\ listed' = Clients /\ posted = << >>
      /\ mutex = NULL
      /\ reference_count' = 3
      /\ \A e \in Clients : leaving[e] = "no" /\ pc[e] \in {"idle", "gone"}
      /\ op' \in [Clients -> Functions \cup {"none", "invite"}]
      /\ op'[c] = "invite" /\ \A e \in Clients : e # c => op'[e] = op[e]
      /\ UNCHANGED <<source_role, has_game, mutex, over, winner, turn,
                     leaving, ack, verdict, posted, closed_by>>
  <2>1. /\ state = "none" /\ ~has_game /\ listed = {} /\ posted = << >>
        /\ \A e \in Clients : leaving[e] = "no" /\ pc[e] \in {"idle", "gone"}
    BY DEF Invite, IInv, NoneOK
  <2>2. ~over /\ mutex = NULL
    BY <2>1 DEF IInv, GameOK, MutexOK
  <2>3. /\ op' \in [Clients -> Functions \cup {"none", "invite"}]
        /\ op'[c] = "invite" /\ \A e \in Clients : e # c => op'[e] = op[e]
    BY DEF Invite, IInv, Types
  <2> QED BY <2>1, <2>2, <2>3 DEF Invite, game, record
<1>3. Types'
  BY <1>1, <1>2 DEF IInv, Types, Functions, States, Clients, source, target, Moves
<1>4. Held(source)' = 1 /\ Held(target)' = 0
  <2>1. target \in Clients /\ target # c
    BY DEF Clients, source, target
  <2>2. Held(source)' = 1
    BY <1>1, <1>2 DEF Held, Moves
  <2>3. Held(target)' = 0
    BY <1>1, <1>2, <2>1 DEF Held, Moves
  <2> QED BY <2>2, <2>3
<1>5. Exact'
  <2>1. Listed(source)' = 1 /\ Listed(target)' = 1
    BY <1>2 DEF Listed, Clients
  <2> QED BY <1>4, <1>2, <2>1 DEF Exact
<1>6. FreedOK'
  BY <1>1, <1>2 DEF IInv, FreedOK, Types, Moves
<1>7. NoneOK'
  BY <1>1, <1>2 DEF IInv, NoneOK, Types, PlaceOK, Moves
<1>8. ASSUME NEW e \in Clients PROVE PlaceOK(e)'
  <2>1. PlaceOK(e)
    BY DEF IInv
  <2>2. CASE e = c
    BY <1>1, <1>2, <2>2 DEF IInv, PlaceOK, Types, Moves
  <2>3. CASE e # c
    BY <1>1, <1>2, <2>1, <2>3 DEF PlaceOK, Moves
  <2> QED BY <2>2, <2>3
<1>9. MutexOK'
  BY <1>1, <1>2, NullAssumption DEF IInv, MutexOK, Types, Moves
<1>10. ListOK'
  BY <1>1, <1>2 DEF IInv, ListOK, Types, PlaceOK, RemovedOK, Clients, source, target, Moves
<1>11. ASSUME NEW e \in Clients PROVE RemovedOK(e)'
  <2>1. RemovedOK(e)
    BY DEF IInv
  <2>2. CASE e = c
    BY <1>1, <1>2, <2>2 DEF IInv, RemovedOK, Types, PlaceOK, Moves
  <2>3. CASE e # c
    BY <1>1, <1>2, <2>1, <2>3 DEF RemovedOK, Moves
  <2> QED BY <2>2, <2>3
<1>12. GameOK'
  BY <1>1, <1>2 DEF IInv, GameOK, Types, Moves
<1>13. ASSUME NEW e \in Clients PROVE ThreadOK(e)'
  <2>1. ThreadOK(e)
    BY DEF IInv
  <2>2. CASE e = c
    BY <1>1, <1>2, <2>2 DEF IInv, ThreadOK, Types, PlaceOK, GameOK, Moves
  <2>3. CASE e # c
    BY <1>1, <1>2, <2>1, <2>3 DEF ThreadOK, Moves
  <2> QED BY <2>2, <2>3
<1>14. ClosedOnce'
  BY <1>1, <1>2 DEF IInv, ClosedOnce, Types, Moves
<1>15. PostedOK'
  BY <1>1, <1>2 DEF PostedOK
<1> QED BY <1>3, <1>5, <1>6, <1>7, <1>8, <1>9, <1>10, <1>11, <1>12, <1>13, <1>14,
           <1>15 DEF IInv

\* inv_close fails.
LEMMA CloseRefusedKeeps ==
    ASSUME IInv, NEW c \in Clients, Close(c), ~CanClose(c)
    PROVE  IInv'
<1>1. pc[c] = "held" /\ Moves(c, "unref") /\ pc' \in [Clients -> Places]
  BY GotoMoves DEF Close, IInv, Places
<1>2. /\ ack' \in [Clients -> BOOLEAN] /\ ~ack'[c]
      /\ \A e \in Clients : e # c => ack'[e] = ack[e]
      /\ UNCHANGED <<state, source_role, has_game, mutex, over, winner, turn,
                     reference_count, listed,
                     op, leaving, verdict, posted, closed_by>>
  <2>1. ack' \in [Clients -> BOOLEAN] /\ ~ack'[c]
        /\ \A e \in Clients : e # c => ack'[e] = ack[e]
    BY DEF Close, Return, IInv, Types
  <2> QED BY <2>1 DEF Close, invitation, game, record
<1>3. Types'
  BY <1>1, <1>2 DEF IInv, Types, Functions, States, Clients, source, target, Moves
<1>4. Held(c)' = Held(c) /\ \A e \in Clients : e # c => Held(e)' = Held(e)
  BY <1>1, <1>2 DEF IInv, Held, Types, PlaceOK, Moves
<1>5. Exact'
  <2>1. Held(source) \in 0..2 /\ Held(target) \in 0..2
    BY DEF Held
  <2> QED BY <1>1, <1>2, <1>4, <2>1 DEF IInv, Exact, Listed, Types, Clients, source, target
<1>6. FreedOK'
  BY <1>1, <1>2 DEF IInv, FreedOK, Types, Moves
<1>7. NoneOK'
  BY <1>1, <1>2 DEF IInv, NoneOK, Types, PlaceOK, Moves
<1>8. ASSUME NEW e \in Clients PROVE PlaceOK(e)'
  <2>1. PlaceOK(e)
    BY DEF IInv
  <2>2. CASE e = c
    BY <1>1, <1>2, <2>2 DEF IInv, PlaceOK, Types, Moves
  <2>3. CASE e # c
    BY <1>1, <1>2, <2>1, <2>3 DEF PlaceOK, Moves
  <2> QED BY <2>2, <2>3
<1>9. MutexOK'
  BY <1>1, <1>2, NullAssumption DEF IInv, MutexOK, Types, Moves
<1>10. ListOK'
  BY <1>1, <1>2 DEF IInv, ListOK, Types, PlaceOK, RemovedOK, Clients, source, target, Moves
<1>11. ASSUME NEW e \in Clients PROVE RemovedOK(e)'
  <2>1. RemovedOK(e)
    BY DEF IInv
  <2>2. CASE e = c
    BY <1>1, <1>2, <2>2 DEF IInv, RemovedOK, Types, PlaceOK, Moves
  <2>3. CASE e # c
    BY <1>1, <1>2, <2>1, <2>3 DEF RemovedOK, Moves
  <2> QED BY <2>2, <2>3
<1>12. GameOK'
  BY <1>1, <1>2 DEF IInv, GameOK, Types, Moves
<1>13. ASSUME NEW e \in Clients PROVE ThreadOK(e)'
  <2>1. ThreadOK(e)
    BY DEF IInv
  <2>2. CASE e = c
    BY <1>1, <1>2, <2>2 DEF IInv, ThreadOK, Types, PlaceOK, GameOK, Moves
  <2>3. CASE e # c
    BY <1>1, <1>2, <2>1, <2>3 DEF ThreadOK, Moves
  <2> QED BY <2>2, <2>3
<1>14. ClosedOnce'
  BY <1>1, <1>2 DEF IInv, ClosedOnce, Types, Moves
<1>15. PostedOK'
  <2>1. ASSUME NEW e \in Clients PROVE Posts(e)' => Posts(e)
    <3>1. CASE e = c
      BY <1>1, <1>2, <3>1 DEF IInv, Posts, Types, PlaceOK, Moves
    <3>2. CASE e # c
      BY <1>1, <1>2, <3>2 DEF IInv, Posts, Types, Moves
    <3> QED BY <3>1, <3>2
  <2>2. state # "none"
    BY <1>1, WorkingAfterInvite
  <2> QED BY <1>1, <1>2, <2>1, <2>2, PostedStays
<1> QED BY <1>3, <1>5, <1>6, <1>7, <1>8, <1>9, <1>10, <1>11, <1>12, <1>13, <1>14,
           <1>15 DEF IInv

\* inv_close succeeds without a game in progress.
LEMMA CloseAtOnceKeeps ==
    ASSUME IInv, NEW c \in Clients, Close(c), CanClose(c), ~InProgress
    PROVE  IInv'
<1>1. pc[c] = "held" /\ Moves(c, AfterClose(c)) /\ pc' \in [Clients -> Places]
  <2>1. AfterClose(c) \in Places
    BY DEF AfterClose, Places
  <2> QED BY <2>1, GotoMoves DEF Close, IInv
<1>2. reference_count >= 1 /\ state \notin {"none", "freed"}
  BY <1>1, HolderKeepsAlive
<1>3. /\ AfterClose(c) = IF op[c] = "resign" THEN "end" ELSE "remove source"
      /\ op[c] \in {"revoke", "decline", "resign"}
      /\ ~has_game \/ over
      /\ mutex = NULL /\ mutex' = NULL
      /\ state \in {"open", "accepted"} /\ state' = "closed"
      /\ closed_by' = closed_by \cup {<<c, op[c], state>>}
      /\ ack' \in [Clients -> BOOLEAN] /\ \A e \in Clients : e # c => ack'[e] = ack[e]
      /\ UNCHANGED <<source_role, has_game, over, winner, turn, reference_count, listed, op,
                     leaving, verdict, posted>>
  <2>1. SetClosed(c)
        /\ UNCHANGED <<mutex, reference_count, game, listed, op, leaving, verdict>>
    BY DEF Close
  <2>2. ack' \in [Clients -> BOOLEAN] /\ \A e \in Clients : e # c => ack'[e] = ack[e]
    BY <2>1 DEF SetClosed, Return, IInv, Types
  <2>3. /\ mutex = NULL /\ op[c] \in {"revoke", "decline", "resign"}
        /\ state \in {"open", "accepted"} /\ (~has_game \/ over)
    BY DEF Close, IsClosing, CanClose, InProgress
  <2> QED BY <2>1, <2>2, <2>3 DEF SetClosed, AfterClose, game
<1>4. Types'
  BY <1>1, <1>2, <1>3 DEF IInv, Types, Functions, States, Clients, source, target, Moves
<1>5. Held(c)' = Held(c) /\ \A e \in Clients : e # c => Held(e)' = Held(e)
  BY <1>1, <1>2, <1>3 DEF IInv, Held, Types, PlaceOK, Moves
<1>6. Exact'
  <2>1. Held(source) \in 0..2 /\ Held(target) \in 0..2
    BY DEF Held
  <2> QED BY <1>1, <1>2, <1>3, <1>5, <2>1 DEF IInv, Exact, Listed, Types, Clients, source,
             target
<1>7. FreedOK'
  BY <1>1, <1>2, <1>3 DEF IInv, FreedOK, Types, Moves
<1>8. NoneOK'
  BY <1>1, <1>2, <1>3 DEF IInv, NoneOK, Types, PlaceOK, Moves
<1>9. ASSUME NEW e \in Clients PROVE PlaceOK(e)'
  <2>1. PlaceOK(e)
    BY DEF IInv
  <2>2. CASE e = c
    BY <1>1, <1>2, <1>3, <2>2 DEF IInv, PlaceOK, Types, Moves
  <2>3. CASE e # c
    BY <1>1, <1>2, <1>3, <2>1, <2>3 DEF PlaceOK, Moves
  <2> QED BY <2>2, <2>3
<1>10. MutexOK'
  BY <1>1, <1>2, <1>3, NullAssumption DEF IInv, MutexOK, Types, Moves
<1>11. ListOK'
  BY <1>1, <1>2, <1>3 DEF IInv, ListOK, Types, PlaceOK, RemovedOK, Clients, source,
     target, Moves
<1>12. ASSUME NEW e \in Clients PROVE RemovedOK(e)'
  <2>1. RemovedOK(e)
    BY DEF IInv
  <2>2. CASE e = c
    BY <1>1, <1>2, <1>3, <2>2 DEF IInv, RemovedOK, Types, PlaceOK, Moves
  <2>3. CASE e # c
    BY <1>1, <1>2, <1>3, <2>1, <2>3 DEF RemovedOK, Moves
  <2> QED BY <2>2, <2>3
<1>13. GameOK'
  BY <1>1, <1>2, <1>3 DEF IInv, GameOK, Types, Moves
<1>14. ASSUME NEW e \in Clients PROVE ThreadOK(e)'
  <2>1. ThreadOK(e)
    BY DEF IInv
  <2>2. CASE e = c
    BY <1>1, <1>2, <1>3, <2>2 DEF IInv, ThreadOK, Types, PlaceOK, GameOK, Moves
  <2>3. CASE e # c
    BY <1>1, <1>2, <1>3, <2>1, <2>3 DEF ThreadOK, Moves
  <2> QED BY <2>2, <2>3
<1>15. ClosedOnce'
  BY <1>3, FirstClose
<1>16. PostedOK'
  <2>1. ASSUME NEW e \in Clients PROVE Posts(e)' => Posts(e)
    <3>1. CASE e = c
      BY <1>1, <1>2, <1>3, <3>1 DEF IInv, Posts, Types, PlaceOK, Moves
    <3>2. CASE e # c
      BY <1>1, <1>2, <1>3, <3>2 DEF IInv, Posts, Types, Moves
    <3> QED BY <3>1, <3>2
  <2>2. state # "none"
    BY <1>1, WorkingAfterInvite
  <2> QED BY <1>1, <1>2, <1>3, <2>1, <2>2, PostedStays
<1> QED BY <1>4, <1>6, <1>7, <1>8, <1>9, <1>10, <1>11, <1>12, <1>13, <1>14, <1>15,
           <1>16 DEF IInv

\* inv_close finds a game in progress and takes the mutex to resign.
LEMMA CloseResignsKeeps ==
    ASSUME IInv, NEW c \in Clients, Close(c), CanClose(c), InProgress
    PROVE  IInv'
<1>1. pc[c] = "held" /\ Moves(c, "resigning") /\ pc' \in [Clients -> Places]
  BY GotoMoves DEF Close, IInv, Places
<1>2. /\ op[c] = "resign" /\ has_game /\ state \in {"open", "accepted"}
      /\ mutex = NULL /\ mutex' = c
      /\ UNCHANGED <<state, source_role, has_game, over, winner, turn, reference_count,
                     listed,
                     op, leaving, ack, verdict, posted, closed_by>>
  <2>1. op[c] = "resign"
    BY DEF CanClose, ClosingRole
  <2>2. mutex' = c /\ UNCHANGED <<invitation, ack, record>>
    BY DEF Close
  <2> QED BY <2>1, <2>2 DEF Close, CanClose, InProgress, invitation, game, record
<1>3. Types'
  BY <1>1, <1>2 DEF IInv, Types, Functions, States, Clients, source, target, Moves
<1>4. Held(c)' = Held(c) /\ \A e \in Clients : e # c => Held(e)' = Held(e)
  BY <1>1, <1>2 DEF IInv, Held, Types, PlaceOK, Moves
<1>5. Exact'
  <2>1. Held(source) \in 0..2 /\ Held(target) \in 0..2
    BY DEF Held
  <2> QED BY <1>1, <1>2, <1>4, <2>1 DEF IInv, Exact, Listed, Types, Clients, source, target
<1>6. FreedOK'
  BY <1>1, <1>2 DEF IInv, FreedOK, Types, Moves
<1>7. NoneOK'
  BY <1>1, <1>2 DEF IInv, NoneOK, Types, PlaceOK, Moves
<1>8. ASSUME NEW e \in Clients PROVE PlaceOK(e)'
  <2>1. PlaceOK(e)
    BY DEF IInv
  <2>2. CASE e = c
    BY <1>1, <1>2, <2>2 DEF IInv, PlaceOK, Types, Moves
  <2>3. CASE e # c
    BY <1>1, <1>2, <2>1, <2>3 DEF PlaceOK, Moves
  <2> QED BY <2>2, <2>3
<1>9. MutexOK'
  BY <1>1, <1>2, NullAssumption DEF IInv, MutexOK, Types, Moves
<1>10. ListOK'
  BY <1>1, <1>2 DEF IInv, ListOK, Types, PlaceOK, RemovedOK, Clients, source, target, Moves
<1>11. ASSUME NEW e \in Clients PROVE RemovedOK(e)'
  <2>1. RemovedOK(e)
    BY DEF IInv
  <2>2. CASE e = c
    BY <1>1, <1>2, <2>2 DEF IInv, RemovedOK, Types, PlaceOK, Moves
  <2>3. CASE e # c
    BY <1>1, <1>2, <2>1, <2>3 DEF RemovedOK, Moves
  <2> QED BY <2>2, <2>3
<1>12. GameOK'
  BY <1>1, <1>2 DEF IInv, GameOK, Types, Moves
<1>13. ASSUME NEW e \in Clients PROVE ThreadOK(e)'
  <2>1. ThreadOK(e)
    BY DEF IInv
  <2>2. CASE e = c
    BY <1>1, <1>2, <2>2 DEF IInv, ThreadOK, Types, PlaceOK, GameOK, Moves
  <2>3. CASE e # c
    BY <1>1, <1>2, <2>1, <2>3 DEF ThreadOK, Moves
  <2> QED BY <2>2, <2>3
<1>14. ClosedOnce'
  BY <1>1, <1>2 DEF IInv, ClosedOnce, Types, Moves
<1>15. PostedOK'
  <2>1. ASSUME NEW e \in Clients PROVE Posts(e)' => Posts(e)
    <3>1. CASE e = c
      BY <1>1, <1>2, <3>1 DEF IInv, Posts, Types, PlaceOK, Moves
    <3>2. CASE e # c
      BY <1>1, <1>2, <3>2 DEF IInv, Posts, Types, Moves
    <3> QED BY <3>1, <3>2
  <2>2. state # "none"
    BY <1>1, WorkingAfterInvite
  <2> QED BY <1>1, <1>2, <2>1, <2>2, PostedStays
<1> QED BY <1>3, <1>5, <1>6, <1>7, <1>8, <1>9, <1>10, <1>11, <1>12, <1>13, <1>14,
           <1>15 DEF IInv

\* The initial state.
LEMMA InitIInv == Init => IInv
<1> SUFFICES ASSUME Init
             PROVE  IInv
  OBVIOUS
<1>1. Types
  <2>1. state \in States /\ source_role \in G!Players /\ reference_count \in Int
    BY DEF Init, States
  <2>2. over \in BOOLEAN /\ winner \in G!Roles /\ turn \in G!Roles
    BY DEF Init, G!Init, G!Players, G!Roles, G!NULL_ROLE, G!FIRST_PLAYER_ROLE
  <2>3. "idle" \in Places /\ "none" \in Functions \cup {"none", "invite"}
        /\ G!NULL_ROLE \in G!Roles
    BY DEF Places, G!Roles
  <2>4. /\ pc \in [Clients -> Places]
        /\ op \in [Clients -> Functions \cup {"none", "invite"}]
        /\ leaving \in [Clients -> {"no", "first", "second", "third", "last"}]
        /\ ack \in [Clients -> BOOLEAN]
        /\ verdict \in [Clients -> G!Roles]
    BY <2>3 DEF Init
  <2>5. has_game \in BOOLEAN /\ mutex \in Clients \cup {NULL}
    BY DEF Init
  <2>6. listed \subseteq Clients
    BY DEF Init
  <2>7. posted \in Seq(G!Roles)
    <3>1. << >> \in Seq(G!Roles)
      OBVIOUS
    <3>2. QED
      BY <3>1 DEF Init
  <2>8. QED
    BY <2>1, <2>2, <2>4, <2>5, <2>6, <2>7 DEF Types
<1>2. \A c \in Clients : Listed(c) = 0 /\ Held(c) = 0
  BY DEF Init, Listed, Held
<1>3. Exact /\ FreedOK
  BY <1>2 DEF Init, Exact, FreedOK, Clients
<1>4. NoneOK /\ ListOK /\ \A c \in Clients : PlaceOK(c) /\ RemovedOK(c)
  BY DEF Init, NoneOK, ListOK, PlaceOK, RemovedOK, Clients
<1>5. MutexOK
  BY NullAssumption DEF Init, MutexOK
<1>6. GameOK /\ \A c \in Clients : ThreadOK(c)
  BY DEF Init, G!Init, GameOK, ThreadOK, G!NULL_ROLE, G!FIRST_PLAYER_ROLE
<1>7. ClosedOnce
  BY FS_EmptySet DEF Init, ClosedOnce
<1>8. PostedOK
  BY DEF Init, PostedOK
<1>9. QED
  BY <1>1, <1>3, <1>4, <1>5, <1>6, <1>7, <1>8 DEF IInv

\* No step disturbs the invariant.
LEMMA NextIInv == IInv /\ [Next]_vars => IInv'
<1> SUFFICES ASSUME IInv, [Next]_vars
             PROVE  IInv'
  OBVIOUS
<1>1. CASE Invite
  BY <1>1, InviteKeeps DEF Clients
<1>2. CASE Invited
  BY <1>2, InvitedKeeps DEF Clients
<1>3. ASSUME NEW c \in Clients, Request(c)
      PROVE  IInv'
  BY <1>3, RequestKeeps
<1>4. ASSUME NEW c \in Clients, Step(c)
      PROVE  IInv'
  <2>1. CASE Close(c)
    BY <2>1, CloseRefusedKeeps, CloseAtOnceKeeps, CloseResignsKeeps
  <2>2. CASE GameResign(c)
    BY <2>2, GameResignTooLateKeeps, GameResignsKeeps
  <2>3. CASE Accept(c) \/ ParseMove(c) \/ ApplyMove(c) \/ IsOver(c)
    BY <2>3, AcceptKeeps, ParseMoveKeeps, ApplyMoveKeeps, IsOverKeeps
  <2>4. CASE EndGame(c) \/ RemoveSource(c) \/ RemoveTarget(c) \/ Post(c) \/ Unref(c)
    BY <2>4, EndGameKeeps, RemoveSourceKeeps, RemoveTargetKeeps, PostKeeps, UnrefKeeps
  <2>5. CASE LeaveTry(c) \/ LeaveRest(c)
    BY <2>5, LeaveTryKeeps, LeaveRestKeeps
  <2>6. QED
    BY <1>4, <2>1, <2>2, <2>3, <2>4, <2>5 DEF Step
<1>5. ASSUME NEW c \in Clients, Leave(c)
      PROVE  IInv'
  BY <1>5, LeaveListedKeeps, LeaveUnlistedKeeps
<1>6. CASE UNCHANGED vars
  <2>1. /\ UNCHANGED <<state, source_role, has_game, reference_count, mutex, over, winner,
                       turn, listed, pc, op, leaving, ack, verdict, posted, closed_by>>
    BY <1>6 DEF vars, invitation, game, record
  <2>2. Types' /\ Exact' /\ FreedOK'
    BY <2>1 DEF IInv, Types, Exact, FreedOK, Listed, Held
  <2>3. NoneOK' /\ MutexOK' /\ ListOK' /\ GameOK' /\ ClosedOnce'
    BY <2>1 DEF IInv, NoneOK, MutexOK, ListOK, GameOK, ClosedOnce
  <2>4. \A c \in Clients : PlaceOK(c)' /\ RemovedOK(c)' /\ ThreadOK(c)'
    BY <2>1 DEF IInv, PlaceOK, RemovedOK, ThreadOK
  <2>5. PostedOK'
    BY <2>1 DEF IInv, PostedOK, Posts
  <2>6. QED
    BY <2>2, <2>3, <2>4, <2>5 DEF IInv
<1>7. QED
  BY <1>1, <1>2, <1>3, <1>4, <1>5, <1>6 DEF Next

\* So the invariant holds in every state of every behaviour.
LEMMA Invariance == Spec => []IInv
BY InitIInv, NextIInv, PTL DEF Spec

-----------------------------------------------------------------------------
(***************************************************************************)
(* What follows from it.                                                   *)
(***************************************************************************)

\* There are two clients.
LEMMA TwoClients == Cardinality(Clients) = 2
<1>1. IsFiniteSet({source}) /\ Cardinality({source}) = 1
  BY FS_Singleton
<1>2. target \notin {source} /\ Clients = {source} \cup {target}
  BY DEF Clients, source, target
<1>3. Cardinality({source} \cup {target}) = Cardinality({source}) + 1
  BY <1>1, <1>2, FS_AddElement
<1>4. QED
  BY <1>1, <1>2, <1>3

\* The number of lists that have the invitation.
LEMMA ListedCount ==
    ASSUME Types
    PROVE  Cardinality(listed) = Listed(source) + Listed(target)
<1>1. Cardinality({}) = 0 /\ \A x : Cardinality({x}) = 1
  BY FS_EmptySet, FS_Singleton
<1>2. Cardinality({source, target}) = 2
  BY TwoClients DEF Clients
<1>3. CASE source \in listed /\ target \in listed
  <2>1. listed = {source, target}
    BY <1>3 DEF Types, Clients
  <2>2. QED
    BY <1>2, <1>3, <2>1 DEF Listed
<1>4. CASE source \in listed /\ target \notin listed
  <2>1. listed = {source}
    BY <1>4 DEF Types, Clients
  <2>2. QED
    BY <1>1, <1>4, <2>1 DEF Listed
<1>5. CASE source \notin listed /\ target \in listed
  <2>1. listed = {target}
    BY <1>5 DEF Types, Clients
  <2>2. QED
    BY <1>1, <1>5, <2>1 DEF Listed
<1>6. CASE source \notin listed /\ target \notin listed
  <2>1. listed = {}
    BY <1>6 DEF Types, Clients
  <2>2. QED
    BY <1>1, <1>6, <2>1 DEF Listed
<1>7. QED
  BY <1>3, <1>4, <1>5, <1>6

\* The reference count of the invitation is exact: one reference for each list that has
\* it, one for each function at work on it, one for each logout that has held it.
\* Removing it from the lists of both players, which the ends of both their threads may
\* do at the same time, never drops a reference that is not there.
THEOREM ReferencesStayExact == Spec => []ReferencesExact
<1>1. IInv => ReferencesExact
  <2> SUFFICES ASSUME IInv
               PROVE  ReferencesExact
    OBVIOUS
  <2>1. reference_count = Cardinality(listed) + Held(source) + Held(target)
    BY ListedCount DEF IInv, Exact
  <2>2. Held(source) \in 0..2 /\ Held(target) \in 0..2
    BY HeldBounds DEF Clients
  <2>3. Listed(source) \in 0..1 /\ Listed(target) \in 0..1
    BY DEF Listed
  <2>4. reference_count \in 0..7
    BY <2>2, <2>3 DEF IInv, Exact
  <2>5. \A i \in 1..Len(posted) : posted[i] \in G!Roles
    BY DEF IInv, Types
  <2>6. TypeOK
    BY <2>4, <2>5 DEF IInv, Types, TypeOK, States
  <2>7. QED
    BY <2>1, <2>6 DEF ReferencesExact
<1>2. QED
  BY <1>1, Invariance, PTL

\* Whatever the two threads find and do at the end of a game, each result they post is
\* the final verdict, there are at most two posts, and the invitation is closed once.
THEOREM PostedResultIsVerdict == Spec => []PostedIsVerdict
<1>1. IInv => PostedIsVerdict
  <2> SUFFICES ASSUME IInv
               PROVE  PostedIsVerdict
    OBVIOUS
  <2>1. Cardinality(Clients) = 2
    BY TwoClients
  <2>2. Len(posted) \in Nat
    BY DEF IInv, Types
  <2>3. CASE state = "none"
    BY <2>1, <2>3 DEF IInv, NoneOK, PostedOK, PostedIsVerdict
  <2>4. CASE state # "none"
    <3>1. Len(posted) <= (IF Posts(source) THEN 0 ELSE 1) + (IF Posts(target) THEN 0 ELSE 1)
      BY <2>4 DEF IInv, PostedOK
    <3>2. Len(posted) <= 2
      BY <2>2, <3>1
    <3>3. QED
      BY <2>1, <3>2 DEF IInv, PostedOK, PostedIsVerdict
  <2>5. QED
    BY <2>3, <2>4
<1>2. QED
  BY <1>1, Invariance, PTL

\* When both connections have ended, the invitation is freed (or was never made), with
\* whatever interleaving of the last requests and of the two logouts they ended.
THEOREM NothingIsLeftBehind == Spec => []NothingLeftBehind
<1>1. IInv => NothingLeftBehind
  <2> SUFFICES ASSUME IInv, \A c \in Clients : pc[c] = "gone"
               PROVE  state \in {"none", "freed"}
    BY DEF NothingLeftBehind
  <2>1. Held(source) = 0 /\ Held(target) = 0
    BY DEF Held, Clients
  <2>2. source \notin listed /\ target \notin listed
    BY DEF IInv, ListOK, Clients
  <2>3. reference_count = 0
    BY <2>1, <2>2 DEF IInv, Exact, Listed
  <2>4. QED
    BY <2>3 DEF IInv, FreedOK
<1>2. QED
  BY <1>1, Invariance, PTL

=============================================================================
