--------------------------- MODULE PlayerRegistry ---------------------------
(***************************************************************************)
(* The player registry and the reference counts of its PLAYER objects      *)
(* (hw5/src/player_registry.c, hw5/src/player.c), as the service threads   *)
(* of hw5/src/server.c use them: LOGIN registers a name and logs the       *)
(* client in, USERS lists the players, and the end of the service drops    *)
(* what the thread and its CLIENT still hold.  terminate (hw5/src/main.c)  *)
(* takes the clients out of their registry while the threads still run,    *)
(* waits until the client registry is empty and frees the players.         *)
(*                                                                         *)
(* preg_register holds the registry's mutex for its whole body, and        *)
(* player_ref and player_unref hold the player's: each is one action.      *)
(*                                                                         *)
(* A behaviour ends where the code has no defined next step, as it may end *)
(* anywhere: where a thread uses its CLIENT after creg_shutdown_all has    *)
(* freed it, or a registry after it is finalized; where creg_all_players   *)
(* returns NULL, or a list without an end because no client is registered; *)
(* where USERS has no memory for its first line.  The guards Usable and    *)
(* Open say so.                                                            *)
(***************************************************************************)
EXTENDS Integers, FiniteSets, Sequences

CONSTANTS
    Threads,            \* connections, each served by one thread for one CLIENT
    Names,              \* user names
    Objects,            \* addresses malloc can return for a PLAYER
    NULL,
    MaxPlayerCount,     \* bound on player_count (an int in the code)
    MaxLeaked,          \* bound on the failures: none once a player has lost so many
    AllocFails          \* whether malloc and realloc may fail

ASSUME NullAssumption == NULL \notin Objects /\ NULL \notin Names /\ NULL \notin Threads
ASSUME ThreadsAssumption == IsFiniteSet(Threads)
ASSUME BoundAssumption == MaxPlayerCount \in Nat /\ MaxLeaked \in Nat

\* Where a counted reference to a player can be kept, outside the registry: the
\* local of a service thread, the CLIENT of a connection, and the entry of the
\* players list of thread t that stands for the CLIENT of u.
InThread(t) == <<"thread", t, t>>
InClient(t) == <<"client", t, t>>
InList(t, u) == <<"list", t, u>>
Places == {InThread(t) : t \in Threads} \cup {InClient(t) : t \in Threads}
              \cup {InList(t, u) : t \in Threads, u \in Threads}

VARIABLES
    players,         \* the array of the registry, without its trailing NULL
    player_count,
    max_players,
    username,        \* username[p]: NULL when no PLAYER lives at p
    reference_count,
    holds,           \* holds[x]: the player that place x refers to, or NULL
    leaked,          \* history: the references that nobody is left to give back
    client,          \* client[t]: the CLIENT of connection t, see States
    lister,          \* the thread in creg_all_players, or NULL
    rest,            \* the clients it has yet to look at
    main             \* how far the main thread is

registry == <<players, player_count, max_players>>
threads == <<client, lister, rest>>
vars == <<players, player_count, max_players, username, reference_count,
          holds, leaked, client, lister, rest, main>>

\* "none": no connection; "registered" in the client registry; "leaving": still
\* registered, its thread past client_logout; "unregistered" by creg_shutdown_all while
\* the thread runs, the CLIENT still in use by others; "freed": the thread runs without.
States == {"none", "registered", "leaving", "unregistered", "freed"}

\* The accept loop, creg_shutdown_all and the wait, past the wait, past preg_fini.
Phases == {"accepting", "terminating", "emptied", "finalized"}

Init ==
    /\ players = << >>
    /\ player_count = 0
    /\ max_players = 0
    /\ username = [p \in Objects |-> NULL]
    /\ reference_count = [p \in Objects |-> 0]
    /\ holds = [x \in Places |-> NULL]
    /\ leaked = [p \in Objects |-> 0]
    /\ client = [t \in Threads |-> "none"]
    /\ lister = NULL
    /\ rest = {}
    /\ main = "accepting"

-----------------------------------------------------------------------------
Live(p) == username[p] # NULL

Registered == {players[i] : i \in 1..max_players} \ {NULL}

\* Faulty variant: a new holder is not counted.
RefNotCounted(p) == UNCHANGED reference_count

\* player_ref.
Ref(p) == reference_count' = [reference_count EXCEPT ![p] = @ + 1]

\* Faulty variant: the player goes with the last reference but one.
UnrefTooEarly(p) ==
    /\ reference_count' = [reference_count EXCEPT ![p] = @ - 1]
    /\ username' = IF reference_count[p] = 2
                   THEN [username EXCEPT ![p] = NULL] ELSE username

\* player_unref: the last reference takes the player with it.
Unref(p) ==
    /\ reference_count' = [reference_count EXCEPT ![p] = @ - 1]
    /\ username' = IF reference_count[p] = 1
                   THEN [username EXCEPT ![p] = NULL] ELSE username

\* Faulty variant: the last slot is left out.
ScannedShort == {i \in 1..max_players : player_count # 0 => i < player_count}

\* The slots the search of preg_register looks at: it stops at player_count - 1.
Scanned ==
    {i \in 1..max_players : player_count # 0 => i <= player_count}

Matches(name) ==
    {i \in Scanned : players[i] # NULL /\ username[players[i]] = name}

\* Where a new player goes: a free slot while player_count is below max_players,
\* otherwise one more slot at the end.
Store(p) ==
    IF player_count < max_players
    THEN /\ LET free == {i \in 1..max_players : players[i] = NULL}
            IN  players' = IF free = {} THEN players
                           ELSE [players EXCEPT ![CHOOSE i \in free :
                                                  \A j \in free : i <= j] = p]
         /\ UNCHANGED max_players
    ELSE /\ players' = Append(players, p)
         /\ max_players' = max_players + 1

-----------------------------------------------------------------------------
InRegistry(t) == client[t] \in {"registered", "leaving"}

Usable(t) == client[t] \in {"registered", "unregistered"}

\* The registries are there: neither preg_fini nor creg_fini has run.
Open == main # "finalized"

\* creg_register, by the service thread: a connection that was accepted before SIGHUP
\* may get here at any time.
Connect(t) ==
    /\ Open /\ lister = NULL
    /\ client[t] = "none"
    /\ client' = [client EXCEPT ![t] = "registered"]
    /\ UNCHANGED <<registry, username, reference_count, holds, leaked, lister, rest, main>>

MayFail == \A p \in Objects : leaked[p] < MaxLeaked

\* LOGIN finds the client not logged in.
LoggingIn(t) ==
    /\ Open /\ Usable(t)
    /\ holds[InThread(t)] = NULL /\ holds[InClient(t)] = NULL

\* preg_register finds the name.  That the CLIENT may go after the test of the login
\* and before preg_register is left out: all that follows is undefined.
RegisterExisting(t, name) ==
    /\ LoggingIn(t)
    /\ player_count < MaxPlayerCount
    /\ Matches(name) # {}
    /\ LET first == CHOOSE i \in Matches(name) : \A j \in Matches(name) : i <= j
       IN  /\ Ref(players[first])
           /\ holds' = [holds EXCEPT ![InThread(t)] = players[first]]
    /\ player_count' = player_count + 1
    /\ UNCHANGED <<players, max_players, username, leaked, threads, main>>

\* ... or creates the player, with one count for the registry and one for the
\* caller.  player_count counts calls, not players.
RegisterNew(t, name, p) ==
    /\ LoggingIn(t)
    /\ player_count < MaxPlayerCount
    /\ Matches(name) = {}
    /\ ~Live(p)
    /\ username' = [username EXCEPT ![p] = name]
    /\ reference_count' = [reference_count EXCEPT ![p] = 2]
    /\ Store(p)
    /\ player_count' = player_count + 1
    /\ holds' = [holds EXCEPT ![InThread(t)] = p]
    /\ UNCHANGED <<leaked, threads, main>>

\* The array cannot grow: the new player is neither stored nor freed.
RegisterNoSpace(t, name, p) ==
    /\ LoggingIn(t)
    /\ AllocFails /\ MayFail
    /\ Matches(name) = {}
    /\ ~Live(p)
    /\ player_count >= max_players
    /\ username' = [username EXCEPT ![p] = name]
    /\ reference_count' = [reference_count EXCEPT ![p] = 1]
    /\ leaked' = [leaked EXCEPT ![p] = 1]
    /\ UNCHANGED <<registry, holds, threads, main>>

\* client_login retains a reference of its own.  By its contract (client.h) it fails if
\* another CLIENT is logged in as the player; the library also lets it succeed.
ClientLogin(t) ==
    LET p == holds[InThread(t)] IN
    /\ Open /\ Usable(t)
    /\ p # NULL /\ holds[InClient(t)] = NULL
    /\ Ref(p)
    /\ holds' = [holds EXCEPT ![InClient(t)] = p]
    /\ UNCHANGED <<registry, username, leaked, threads, main>>

\* client_login fails: NACK, and nobody calls player_unref for the reference
\* that preg_register returned.
ClientLoginRefused(t) ==
    /\ Open /\ Usable(t) /\ MayFail
    /\ holds[InThread(t)] # NULL /\ holds[InClient(t)] = NULL
    /\ \E u \in Threads : holds[InClient(u)] = holds[InThread(t)]
    /\ holds' = [holds EXCEPT ![InThread(t)] = NULL]
    /\ leaked' = [leaked EXCEPT ![holds[InThread(t)]] = @ + 1]
    /\ UNCHANGED <<registry, username, reference_count, threads, main>>

LoggedIn(t) == Usable(t) /\ holds[InThread(t)] # NULL /\ holds[InClient(t)] # NULL

ListEmpty(t) == \A u \in Threads : holds[InList(t, u)] = NULL

\* USERS: creg_all_players takes the mutex of the client registry.
AllPlayers(t) ==
    /\ Open /\ LoggedIn(t) /\ ListEmpty(t)
    /\ lister = NULL
    /\ \E u \in Threads : InRegistry(u)
    /\ lister' = t
    /\ rest' = {u \in Threads : InRegistry(u)}
    /\ UNCHANGED <<registry, username, reference_count, holds, leaked, client, main>>

\* It gives the mutex back after the last client.
LookedAt(u) ==
    /\ rest' = rest \ {u}
    /\ lister' = IF rest = {u} THEN NULL ELSE lister

\* One client of the loop.  It logs in and out without that mutex; its player stays
\* between client_get_player and player_ref because it is registered.
ListPlayer(u) ==
    /\ Open /\ u \in rest
    /\ holds[InClient(u)] # NULL
    /\ Ref(holds[InClient(u)])
    /\ holds' = [holds EXCEPT ![InList(lister, u)] = holds[InClient(u)]]
    /\ LookedAt(u)
    /\ UNCHANGED <<registry, username, leaked, client, main>>

SkipClient(u) ==
    /\ Open /\ u \in rest
    /\ holds[InClient(u)] = NULL
    /\ LookedAt(u)
    /\ UNCHANGED <<registry, username, reference_count, holds, leaked, client, main>>

Drop(x) ==
    /\ holds[x] # NULL
    /\ Unref(holds[x])
    /\ holds' = [holds EXCEPT ![x] = NULL]
    /\ UNCHANGED <<registry, leaked, main>>

\* The loop over the list, one entry a step.
ListNext(t) ==
    /\ lister # t
    /\ \E u \in Threads : Drop(InList(t, u))
    /\ UNCHANGED threads

\* No memory for a line: the loop breaks and the rest of the list is forgotten.
ListAbandoned(t) ==
    /\ AllocFails /\ MayFail
    /\ lister # t /\ ~ListEmpty(t)
    /\ holds' = [x \in Places |->
                    IF \E u \in Threads : x = InList(t, u) THEN NULL ELSE holds[x]]
    /\ leaked' = [p \in Objects |->
          leaked[p] + Cardinality({u \in Threads : holds[InList(t, u)] = p})]
    /\ UNCHANGED <<registry, username, reference_count, threads, main>>

\* Faulty variant: the thread forgets its reference.
ThreadForgets(t) ==
    /\ LoggedIn(t)
    /\ lister # t /\ ListEmpty(t)
    /\ holds' = [holds EXCEPT ![InThread(t)] = NULL]
    /\ UNCHANGED <<registry, username, reference_count, leaked, threads, main>>

\* End of the service loop: the thread discards its reference,
ThreadLeaves(t) ==
    /\ LoggedIn(t)
    /\ lister # t /\ ListEmpty(t)
    /\ Drop(InThread(t))
    /\ UNCHANGED threads

\* ... client_logout that of the CLIENT,
ClientLogout(t) ==
    /\ Usable(t)
    /\ holds[InThread(t)] = NULL
    /\ Drop(InClient(t))
    /\ client' = [client EXCEPT ![t] = IF @ = "registered" THEN "leaving" ELSE "none"]
    /\ UNCHANGED <<lister, rest>>

\* ... and creg_unregister takes the CLIENT out, also one that never logged in.
\* creg_shutdown_all may have done it; the thread ends.
Unregister(t) ==
    /\ lister = NULL
    /\ \/ client[t] = "leaving"
       \/ Usable(t) /\ holds[InThread(t)] = NULL /\ holds[InClient(t)] = NULL
    /\ client' = [client EXCEPT ![t] = "none"]
    /\ UNCHANGED <<registry, username, reference_count, holds, leaked, lister, rest, main>>

-----------------------------------------------------------------------------
\* SIGHUP: terminate() begins.
Terminate ==
    /\ main = "accepting"
    /\ main' = "terminating"
    /\ UNCHANGED <<registry, username, reference_count, holds, leaked, threads>>

\* creg_shutdown_all unregisters a client, whatever its thread is doing.
ShutdownOne(t) ==
    /\ main = "terminating" /\ lister = NULL
    /\ InRegistry(t)
    /\ client' = [client EXCEPT ![t] = IF @ = "leaving" THEN "none" ELSE "unregistered"]
    /\ UNCHANGED <<registry, username, reference_count, holds, leaked, lister, rest, main>>

\* The registry's reference to a CLIENT was the last, or whoever had found it in
\* creg_lookup is done with it: client_unref frees it under its running thread.
ClientFreed(t) ==
    /\ client[t] = "unregistered"
    /\ client' = [client EXCEPT ![t] = "freed"]
    /\ \/ Drop(InClient(t))
       \/ /\ holds[InClient(t)] = NULL
          /\ UNCHANGED <<registry, username, reference_count, holds, leaked, main>>
    /\ UNCHANGED <<lister, rest>>

\* creg_wait_for_empty finds the client registry empty, or is woken when it is.
Emptied ==
    /\ main = "terminating"
    /\ \A t \in Threads : ~InRegistry(t)
    /\ main' = "emptied"
    /\ UNCHANGED <<registry, username, reference_count, holds, leaked, threads>>

\* preg_fini gives the references of the registry back, whoever else has some.
Fini ==
    /\ main = "emptied"
    /\ main' = "finalized"
    /\ reference_count' = [p \in Objects |->
          reference_count[p] - Cardinality({i \in 1..max_players : players[i] = p})]
    /\ username' = [p \in Objects |->
          IF p \in Registered /\ reference_count'[p] = 0 THEN NULL ELSE username[p]]
    /\ players' = [i \in 1..max_players |-> NULL]
    /\ UNCHANGED <<player_count, max_players, holds, leaked, threads>>

Step(t) ==
    \/ Connect(t)
    \/ \E name \in Names : RegisterExisting(t, name)
    \/ \E name \in Names, p \in Objects : RegisterNew(t, name, p)
    \/ \E name \in Names, p \in Objects : RegisterNoSpace(t, name, p)
    \/ ClientLogin(t)
    \/ ClientLoginRefused(t)
    \/ AllPlayers(t)
    \/ ListPlayer(t)
    \/ SkipClient(t)
    \/ ListNext(t)
    \/ ListAbandoned(t)
    \/ ThreadLeaves(t)
    \/ ClientLogout(t)
    \/ Unregister(t)
    \/ ShutdownOne(t)
    \/ ClientFreed(t)

Next == Terminate \/ Emptied \/ Fini \/ \E t \in Threads : Step(t)

Spec == Init /\ [][Next]_vars

-----------------------------------------------------------------------------
\* The fields of the registry and of the players have their types.
TypeOK ==
    /\ players \in Seq(Objects \cup {NULL})
    /\ player_count \in 0..MaxPlayerCount
    /\ max_players = Len(players)
    /\ username \in [Objects -> Names \cup {NULL}]
    /\ reference_count \in [Objects -> Nat]
    /\ holds \in [Places -> Objects \cup {NULL}]
    /\ leaked \in [Objects -> Nat]
    /\ client \in [Threads -> States]
    /\ lister \in Threads \cup {NULL}
    /\ rest \subseteq Threads
    /\ main \in Phases

Same(p, q) == p # NULL /\ q # NULL /\ username[p] = username[q]

\* A user name has one PLAYER, so all who log in under it share one rating: however
\* often and by however many clients a name is registered, the array never gets a
\* second entry for it, although the search stops at player_count, which counts
\* calls, and no two references held in the server go to different players of a name.
OnePlayerPerName ==
    /\ \A i, j \in 1..max_players : Same(players[i], players[j]) => i = j
    /\ \A x, y \in Places : Same(holds[x], holds[y]) => holds[x] = holds[y]

Holders(p) == {x \in Places : holds[x] = p}

NoDangling ==
    /\ \A x \in Places : holds[x] # NULL => Live(holds[x])
    /\ \A p \in Registered : Live(p)

\* What a place or the registry refers to is a live PLAYER, and its count is exactly
\* the number of these references and of those that a failure has dropped: too few
\* would free a player in use, too many would never free it.  max_players, which the
\* search trusts, is the length of the array.
CountIsExact ==
    /\ TypeOK
    /\ NoDangling
    /\ \A p \in Objects :
          Live(p) => reference_count[p] =
                         Cardinality(Holders(p)) + (IF p \in Registered THEN 1 ELSE 0)
                             + leaked[p]

\* The registered player of a name.
PlayerOf(name) ==
    LET named == {p \in Registered : username[p] = name}
    IN  IF named = {} THEN NULL ELSE CHOOSE p \in named : TRUE

Promise == INSTANCE Accounts WITH
    Clients <- Threads,
    Players <- Objects,
    open <- Open,
    account <- [n \in Names |-> PlayerOf(n)],
    user <- [t \in Threads |-> IF holds[InThread(t)] # NULL THEN holds[InThread(t)]
                               ELSE holds[InClient(t)]]

\* "Entries persist for as long as the server is running" (player_registry.h:17): a
\* name has the same player, and with it its rating, at every login, although players
\* are counted and freed, and nobody may be logged in meanwhile.
ImplementsAccounts == Promise!Spec

\* Threads that main takes for terminated still refer to players after preg_fini: these
\* players live on and go with the last reference, whoever gives it back, and all others
\* are gone but those that a failure (a refused login, USERS or preg_register without
\* memory) has leaked.
FiniFreesPlayers ==
    ~Open => \A p \in Objects : Live(p) => Holders(p) # {} \/ leaked[p] > 0
=============================================================================
