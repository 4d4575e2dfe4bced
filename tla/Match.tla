-------------------------------- MODULE Match --------------------------------
(***************************************************************************)
(* One INVITATION of the Jeux server from its creation to its end          *)
(* (hw5/src/invitation.c), with the requests of the two clients that play  *)
(* the match (the INVITE, REVOKE, ACCEPT, DECLINE, MOVE and RESIGN cases   *)
(* and the logout at the end of jeux_client_service, hw5/src/server.c).    *)
(*                                                                         *)
(* The client_* functions between the two are linked from a library; they  *)
(* are modelled from their contract in hw5/include/client.h and from the   *)
(* calls they make to inv_*, game_* and player_post_result.  The GAME is   *)
(* the abstract one of GameSpec, which module Game implements.             *)
(*                                                                         *)
(* Each client has a service thread that works on one request at a time;   *)
(* the two threads interleave between any two calls that take a lock.      *)
(***************************************************************************)
EXTENDS Integers, FiniteSets, Sequences

CONSTANT NULL

source == "source"
target == "target"
Clients == {source, target}

ASSUME NullAssumption == NULL \notin Clients

VARIABLES
    state,             \* of the INVITATION: "none", "open", "accepted", "closed", "freed"
    source_role,
    has_game,          \* the game field is not NULL
    reference_count,
    mutex,             \* the client whose thread holds the invitation's mutex
    over, winner, turn,    \* the GAME
    listed,            \* the clients that have the invitation in their list
    pc,                \* where a service thread is
    op,                \* the client_* function it runs
    leaving,           \* progress of its client_logout
    ack,               \* whether the function has succeeded so far
    verdict,           \* the winner that end_game has read
    posted,            \* the results given to player_post_result
    closed_by,         \* the requests for which inv_close has returned 0
    crashed

G == INSTANCE GameSpec

invitation == <<state, source_role, has_game>>
game == <<over, winner, turn>>
record == <<posted, closed_by, crashed>>
vars == <<invitation, reference_count, mutex, game, listed, pc, op, leaving, ack,
          verdict, record>>

-----------------------------------------------------------------------------
Role(c) == IF c = source THEN source_role ELSE G!Opponent(source_role)

Requests(c) == {"move", "resign"} \cup
               (IF c = source THEN {"revoke"} ELSE {"accept", "decline"})

Init ==
    /\ state = "none"
    /\ source_role \in G!Players
    /\ has_game = FALSE
    /\ reference_count = 0
    /\ mutex = NULL
    /\ G!Init
    /\ listed = {}
    /\ pc = [c \in Clients |-> "idle"]
    /\ op = [c \in Clients |-> "none"]
    /\ leaving = [c \in Clients |-> "no"]
    /\ ack = [c \in Clients |-> FALSE]
    /\ verdict = [c \in Clients |-> G!NULL_ROLE]
    /\ posted = << >>
    /\ closed_by = {}
    /\ crashed = FALSE

\* The thread of c goes on; nothing runs any more after a crash.
Goto(c, from, to) == ~crashed /\ pc[c] = from /\ pc' = [pc EXCEPT ![c] = to]

\* The function returns -1 (FALSE) or 0, after dropping its reference.
Return(c, ok) == ack' = [ack EXCEPT ![c] = ok]

\* inv_unref: the last reference takes the invitation with it.
UnrefTo(n) ==
    /\ reference_count' = n
    /\ state' = IF n = 0 THEN "freed" ELSE state

\* Faulty variant: the entry goes, its reference does not.
RemoveKeepsReference(c) ==
    /\ listed' = listed \ {c}
    /\ UNCHANGED <<invitation, reference_count>>

\* client_remove_invitation: nothing happens if the invitation is not listed.
Remove(c) ==
    /\ listed' = listed \ {c}
    /\ UnrefTo(IF c \in listed THEN reference_count - 1 ELSE reference_count)
    /\ UNCHANGED <<source_role, has_game>>

-----------------------------------------------------------------------------
\* INVITE, client_make_invitation: inv_create and an entry in both lists, whether or
\* not the target's thread is still there.
Invite ==
    /\ Goto(source, "idle", "inviting")
    /\ state = "none" /\ leaving[source] = "no"
    /\ state' = "open"
    /\ reference_count' = 3
    /\ listed' = Clients
    /\ op' = [op EXCEPT ![source] = "invite"]
    /\ UNCHANGED <<source_role, has_game, mutex, game, leaving, ack, verdict, record>>

\* The INVITED packet is sent or, if that fails, the two entries are removed again.
Invited ==
    /\ \/ Goto(source, "inviting", "unref") /\ Return(source, TRUE)
       \/ Goto(source, "inviting", "remove source") /\ Return(source, FALSE)
    /\ UNCHANGED <<invitation, reference_count, mutex, game, listed, op, leaving, verdict,
                   record>>

\* Faulty variant: the function works on an invitation it does not hold.
LookupUncounted(c, request) ==
    /\ c \in listed
    /\ op' = [op EXCEPT ![c] = request]
    /\ UNCHANGED <<invitation, reference_count, mutex, game, listed, leaving, ack, verdict,
                   record>>

\* The other requests look their invitation up in the client's own list.
Lookup(c, request) ==
    /\ c \in listed
    /\ reference_count' = reference_count + 1
    /\ op' = [op EXCEPT ![c] = request]
    /\ UNCHANGED <<invitation, mutex, game, listed, leaving, ack, verdict, record>>

Request(c) ==
    \E request \in Requests(c) :
        /\ Goto(c, "idle", "held")
        /\ Lookup(c, request)

-----------------------------------------------------------------------------
\* inv_close, with the role of a client that resigns and NULL_ROLE otherwise.
ClosingRole(c) == IF op[c] = "resign" THEN Role(c) ELSE G!NULL_ROLE

InProgress == has_game /\ ~over

CanClose(c) ==
    /\ state \in {"open", "accepted"}
    /\ ClosingRole(c) = G!NULL_ROLE => ~InProgress

IsClosing(c) == op[c] \in {"revoke", "decline", "resign"}

SetClosed(c) ==
    /\ state' = "closed"
    /\ closed_by' = closed_by \cup {<<c, op[c], state>>}
    /\ Return(c, TRUE)
    /\ UNCHANGED <<source_role, has_game, posted, crashed>>

AfterClose(c) == IF op[c] = "resign" THEN "end" ELSE "remove source"

Close(c) ==
    /\ mutex = NULL
    /\ IsClosing(c)
    /\ \/ /\ ~CanClose(c)
          /\ Goto(c, "held", "unref") /\ Return(c, FALSE)
          /\ UNCHANGED <<invitation, mutex, record>>
       \/ /\ CanClose(c) /\ ~InProgress
          /\ Goto(c, "held", AfterClose(c))
          /\ SetClosed(c)
          /\ UNCHANGED mutex
       \/ /\ CanClose(c) /\ InProgress
          /\ Goto(c, "held", "resigning")
          /\ mutex' = c
          /\ UNCHANGED <<invitation, ack, record>>
    /\ UNCHANGED <<reference_count, game, listed, op, leaving, verdict>>

\* Faulty variant: a game that has just ended is resigned all the same.
GameResignAnyway(c) ==
    /\ Goto(c, "resigning", "end")
    /\ over' = TRUE /\ winner' = G!Opponent(Role(c)) /\ turn' = G!NULL_ROLE
    /\ SetClosed(c)
    /\ mutex' = NULL
    /\ UNCHANGED <<reference_count, listed, op, leaving, verdict>>

\* Faulty variant: the mutex is kept when the game cannot be resigned.
GameResignLocked(c) ==
    /\ \/ /\ over
          /\ Goto(c, "resigning", "unref") /\ Return(c, FALSE)
          /\ UNCHANGED <<invitation, mutex, game, record>>
       \/ /\ G!GiveUp(Role(c))
          /\ Goto(c, "resigning", "end")
          /\ SetClosed(c)
          /\ mutex' = NULL
    /\ UNCHANGED <<reference_count, listed, op, leaving, verdict>>

\* game_resign, called from inv_close after game_is_over has returned 0: the game may
\* have ended meanwhile, and then the invitation is not closed.
GameResign(c) ==
    /\ \/ /\ over
          /\ Goto(c, "resigning", "unref") /\ Return(c, FALSE)
          /\ UNCHANGED <<invitation, game, record>>
       \/ /\ G!GiveUp(Role(c))
          /\ Goto(c, "resigning", "end")
          /\ SetClosed(c)
    /\ mutex' = NULL
    /\ UNCHANGED <<reference_count, listed, op, leaving, verdict>>

\* inv_accept.  When there is no memory for the game, the state is set already.
Accept(c) ==
    /\ Goto(c, "held", "unref")
    /\ mutex = NULL
    /\ op[c] = "accept"
    /\ IF state # "open"
       THEN Return(c, FALSE) /\ UNCHANGED invitation
       ELSE /\ state' = "accepted"
            /\ has_game' \in BOOLEAN
            /\ Return(c, has_game')
            /\ UNCHANGED source_role
    /\ UNCHANGED <<reference_count, mutex, game, listed, op, leaving, verdict, record>>

-----------------------------------------------------------------------------
\* client_make_move: game_parse_move, then game_apply_move, then game_is_over, each
\* without regard to what the other thread does in between.  A move is refused when
\* there is no game or it is not the client's turn, but also on its turn: when it is
\* not a move, when there is no memory for it, and when the box is taken.
ParseMove(c) ==
    /\ op[c] = "move"
    /\ \/ has_game /\ turn = Role(c) /\ Goto(c, "held", "parsed") /\ UNCHANGED ack
       \/ Goto(c, "held", "unref") /\ Return(c, FALSE)
    /\ UNCHANGED <<invitation, reference_count, mutex, game, listed, op, leaving, verdict,
                   record>>

ApplyMove(c) ==
    /\ \/ /\ turn = Role(c)
          /\ G!PlayOn \/ G!LastMove
          /\ Goto(c, "parsed", "moved") /\ Return(c, TRUE)
       \/ /\ Goto(c, "parsed", "unref") /\ Return(c, FALSE)
          /\ UNCHANGED game
    /\ UNCHANGED <<invitation, reference_count, mutex, listed, op, leaving, verdict, record>>

IsOver(c) ==
    /\ Goto(c, "moved", IF over THEN "end" ELSE "unref")
    /\ UNCHANGED <<invitation, reference_count, mutex, game, listed, op, leaving, ack,
                   verdict, record>>

\* The end of a game, after the last move or a resignation: the winner is read, both
\* clients forget the invitation, the result is posted.  Closing an invitation without
\* a game succeeds for a client that resigns, too; reading the winner of no game then
\* dereferences NULL.
EndGame(c) ==
    /\ \/ has_game /\ Goto(c, "end", "remove source") /\ UNCHANGED crashed
       \/ ~has_game /\ Goto(c, "end", "end") /\ crashed' = TRUE
    /\ verdict' = [verdict EXCEPT ![c] = winner]
    /\ UNCHANGED <<invitation, reference_count, mutex, game, listed, op, leaving, ack,
                   posted, closed_by>>

\* Faulty variant: the source keeps the invitation in its list.
RemoveSourceNot(c) ==
    /\ Goto(c, "remove source", "remove target")
    /\ UNCHANGED <<invitation, reference_count, listed, mutex, game, op, leaving, ack, verdict,
                   record>>

RemoveSource(c) ==
    /\ Goto(c, "remove source", "remove target")
    /\ Remove(source)
    /\ UNCHANGED <<mutex, game, op, leaving, ack, verdict, record>>

RemoveTarget(c) ==
    /\ Goto(c, "remove target", IF op[c] \in {"move", "resign"} THEN "post" ELSE "unref")
    /\ Remove(target)
    /\ UNCHANGED <<mutex, game, op, leaving, ack, verdict, record>>

Post(c) ==
    /\ Goto(c, "post", "unref")
    /\ posted' = Append(posted, verdict[c])
    /\ UNCHANGED <<invitation, reference_count, mutex, game, listed, op, leaving, ack,
                   verdict, closed_by, crashed>>

\* Every function ends by dropping the reference it has taken.
Unref(c) ==
    /\ Goto(c, "unref", IF leaving[c] = "no" THEN "idle"
                        ELSE IF leaving[c] = "last" THEN "gone" ELSE "leaving")
    /\ UnrefTo(reference_count - 1)
    /\ op' = [op EXCEPT ![c] = "none"]
    /\ UNCHANGED <<source_role, has_game, mutex, game, listed, leaving, ack, verdict, record>>

-----------------------------------------------------------------------------
\* client_logout at the end of the connection: it holds the invitation, tries to
\* revoke or decline it, then to resign its game, then removes it from both lists.
Leave(c) ==
    /\ leaving[c] = "no"
    /\ IF c \in listed
       THEN /\ Goto(c, "idle", "leaving")
            /\ leaving' = [leaving EXCEPT ![c] = "first"]
            /\ reference_count' = reference_count + 1
            /\ Return(c, FALSE)
       ELSE /\ Goto(c, "idle", "gone")
            /\ UNCHANGED <<leaving, reference_count, ack>>
    /\ UNCHANGED <<invitation, mutex, game, listed, op, verdict, record>>

Attempt(c) ==
    IF leaving[c] = "second" THEN "resign" ELSE IF c = source THEN "revoke" ELSE "decline"

LeaveTry(c) ==
    /\ ~ack[c]
    /\ leaving[c] \in {"first", "second"}
    /\ Goto(c, "leaving", "held")
    /\ leaving' = [leaving EXCEPT ![c] = IF @ = "first" THEN "second" ELSE "third"]
    /\ c \in listed
    /\ reference_count' = reference_count + 1
    /\ op' = [op EXCEPT ![c] = Attempt(c)]
    /\ UNCHANGED <<invitation, mutex, game, listed, ack, verdict, record>>

LeaveRest(c) ==
    /\ \/ ~ack[c] /\ (leaving[c] = "third" \/ c \notin listed)
          /\ Goto(c, "leaving", "remove source")
       \/ ack[c] /\ Goto(c, "leaving", "unref")
    /\ leaving' = [leaving EXCEPT ![c] = "last"]
    /\ UNCHANGED <<invitation, reference_count, mutex, game, listed, op, ack, verdict, record>>

-----------------------------------------------------------------------------
Step(c) ==
    \/ Close(c) \/ GameResign(c) \/ Accept(c)
    \/ ParseMove(c) \/ ApplyMove(c) \/ IsOver(c) \/ EndGame(c)
    \/ RemoveSource(c) \/ RemoveTarget(c) \/ Post(c) \/ Unref(c)
    \/ LeaveTry(c) \/ LeaveRest(c)

Next ==
    \/ Invite \/ Invited
    \/ \E c \in Clients : Request(c) \/ Step(c) \/ Leave(c)

Spec == Init /\ [][Next]_vars

\* A service thread finishes what it is doing and gets the mutex in turn; no client
\* has to send a request or to leave.
FairSpec == Spec /\ WF_vars(Invited) /\ \A c \in Clients : SF_vars(Step(c))

-----------------------------------------------------------------------------
\* The fields of the invitation and the state of the two threads have their types.
TypeOK ==
    /\ state \in {"none", "open", "accepted", "closed", "freed"}
    /\ reference_count \in 0..7
    /\ mutex \in Clients \cup {NULL}
    /\ listed \subseteq Clients
    /\ winner \in G!Roles /\ turn \in G!Roles
    /\ leaving \in [Clients -> {"no", "first", "second", "third", "last"}]
    /\ verdict \in [Clients -> G!Roles]
    /\ \A i \in 1..Len(posted) : posted[i] \in G!Roles

\* The references a thread holds: one for the function it is in, one for its logout.
Held(c) ==
    (IF pc[c] \in {"idle", "gone", "leaving"} THEN 0
     ELSE IF leaving[c] = "last" THEN 0 ELSE 1)
    + (IF leaving[c] # "no" /\ pc[c] # "gone" THEN 1 ELSE 0)

\* The count is exactly the entries in the two lists plus what the threads hold, so
\* the invitation is not freed while it is used and not kept when it is not: removing
\* it twice, which both threads may do at the end of a game, drops no reference twice.
ReferencesExact ==
    /\ TypeOK
    /\ ~crashed => reference_count = Cardinality(listed) + Held(source) + Held(target)

ClosedOnce == Cardinality(closed_by) <= 1 /\ (closed_by # {} => state \in {"closed", "freed"})

\* Every result that is posted is the final verdict of the game, whichever thread
\* read the winner (without a lock) and whatever the other did meanwhile.  Both may
\* find that the game is over (game_is_over is not locked either), but neither posts
\* it twice.  Revoked, declined and resigned exclude each other, and nothing is
\* accepted afterwards: inv_close succeeds once in the life of an invitation.
PostedIsVerdict == /\ ClosedOnce
                   /\ \A i \in 1..Len(posted) : over /\ posted[i] = winner
                   /\ Len(posted) <= Cardinality(Clients)

\* When both connections have ended, the match has left nothing behind, even if they
\* ended in the middle of an invitation, a game or each other's logout.
NothingLeftBehind ==
    (\A c \in Clients : pc[c] = "gone") => state \in {"none", "freed"}

\* A game that is over is rated, disappears from both lists and is freed, also when
\* the players leave at that very moment.
GameOverSettles == over ~> (posted # << >> /\ listed = {} /\ state = "freed")

\* The end of a connection is never held up by the match, unless the server crashes.
LogoutCompletes == \A c \in Clients : leaving[c] # "no" ~> pc[c] = "gone" \/ crashed
=============================================================================
