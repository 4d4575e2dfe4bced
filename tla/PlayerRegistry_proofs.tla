----------------------- MODULE PlayerRegistry_proofs -----------------------
(* Theorems about PlayerRegistry, for every finite set of threads and every  *)
(* set of names and addresses.                                               *)
EXTENDS PlayerRegistry, FiniteSetTheorems, TLAPS

(***************************************************************************)
(* The inductive invariant.                                                *)
(***************************************************************************)

\* While the registry is open every slot of the array is in use, no two slots
\* for one name, and the search of preg_register reaches them all because
\* player_count never falls behind the array.
OpenRegistry ==
    Open =>
        /\ max_players <= player_count
        /\ \A i \in 1..max_players : players[i] # NULL /\ Live(players[i])
        /\ \A i, j \in 1..max_players : username[players[i]] = username[players[j]] => i = j

\* Until preg_fini a player somebody refers to is in the registry: preg_register hands
\* out no other.
HeldIsRegistered == Open => \A x \in Places : holds[x] # NULL => holds[x] \in Registered

\* The players that are held, also after preg_fini, are alive and one to a name.
HeldApart ==
    /\ \A x \in Places : holds[x] # NULL => Live(holds[x])
    /\ \A x, y \in Places : Same(holds[x], holds[y]) => holds[x] = holds[y]

\* preg_fini leaves no entry behind.
ClosedRegistry == ~Open => \A i \in 1..max_players : players[i] = NULL

\* The list that creg_all_players fills has no entry yet for the clients it has not seen.
Listing ==
    /\ lister = NULL => rest = {}
    /\ lister # NULL => \A u \in rest : holds[InList(lister, u)] = NULL

One(p) == IF p \in Registered THEN 1 ELSE 0

Counted ==
    \A p \in Objects :
        IF Live(p)
        THEN /\ reference_count[p] = Cardinality(Holders(p)) + One(p) + leaked[p]
             /\ reference_count[p] > 0
        ELSE leaked[p] = 0

\* A thread and its CLIENT refer to one player.
ThreadMatchesClient ==
    \A t \in Threads : holds[InThread(t)] # NULL /\ holds[InClient(t)] # NULL
                          => holds[InThread(t)] = holds[InClient(t)]

IInv == /\ TypeOK
        /\ OpenRegistry
        /\ HeldIsRegistered
        /\ HeldApart
        /\ ClosedRegistry
        /\ Counted
        /\ ThreadMatchesClient
        /\ Listing

-----------------------------------------------------------------------------
(***************************************************************************)
(* Places and the references they hold.                                    *)
(***************************************************************************)

\* There are finitely many places, so references can be counted.
LEMMA PlacesFinite == IsFiniteSet(Places)
<1> DEFINE Kinds == {"thread", "client", "list"}
           Pairs == (Kinds \X Threads) \X Threads
           Triples == Kinds \X Threads \X Threads
           pair == [x \in Triples |-> <<<<x[1], x[2]>>, x[3]>>]
<1>1. IsFiniteSet(Kinds)
  <2>1. IsFiniteSet({"thread"}) /\ IsFiniteSet({"client"}) /\ IsFiniteSet({"list"})
    BY FS_Singleton
  <2>2. IsFiniteSet({"thread"} \cup {"client"})
    BY <2>1, FS_Union
  <2>3. IsFiniteSet(({"thread"} \cup {"client"}) \cup {"list"})
    BY <2>1, <2>2, FS_Union
  <2>4. Kinds = ({"thread"} \cup {"client"}) \cup {"list"}
    OBVIOUS
  <2> QED BY <2>3, <2>4
<1> HIDE DEF Kinds
<1>2. IsFiniteSet(Kinds \X Threads)
  BY <1>1, ThreadsAssumption, FS_Product
<1>3. IsFiniteSet(Pairs)
  BY <1>2, ThreadsAssumption, FS_Product
<1>4. pair \in Injection(Triples, Pairs)
  <2>1. \A x \in Triples : /\ x[1] \in Kinds /\ x[2] \in Threads /\ x[3] \in Threads
                           /\ x = <<x[1], x[2], x[3]>>
    OBVIOUS
  <2>2. pair \in [Triples -> Pairs]
    BY <2>1
  <2>3. \A x, y \in Triples : pair[x] = pair[y] => x = y
    BY <2>1
  <2> QED BY <2>2, <2>3 DEF Injection, IsInjective
<1>5. Places \in SUBSET Triples
  BY DEF Places, InThread, InClient, InList, Kinds
<1> HIDE DEF Pairs, pair, Triples
<1> QED BY <1>3, <1>4, <1>5, FS_Injection, FS_Subset

\* The places where a thread keeps its references are places, and they are distinct.
LEMMA PlaceOf ==
    ASSUME NEW t \in Threads, NEW u \in Threads
    PROVE  /\ InThread(t) \in Places
           /\ InClient(t) \in Places
           /\ InList(t, u) \in Places
           /\ InThread(t) # InClient(t)
  BY DEF Places, InThread, InClient, InList

\* The holders of a player can be counted.
LEMMA HoldersFinite ==
    ASSUME NEW p
    PROVE  /\ IsFiniteSet(Holders(p))
           /\ Cardinality(Holders(p)) \in Nat
<1>1. Holders(p) \in SUBSET Places
  BY DEF Holders
<1>2. IsFiniteSet(Holders(p))
  BY <1>1, PlacesFinite, FS_Subset
<1> QED BY <1>2, FS_CardinalityType

\* One more place refers to p: p has one more holder.
LEMMA HolderAdded ==
    ASSUME TypeOK, NEW x \in Places, holds[x] = NULL, NEW p \in Objects,
           holds' = [holds EXCEPT ![x] = p], NEW q \in Objects
    PROVE  Cardinality(Holders(q)') = Cardinality(Holders(q)) + (IF q = p THEN 1 ELSE 0)
<1>1. holds \in [Places -> Objects \cup {NULL}]
  BY DEF TypeOK
<1>2. CASE q = p
  <2>1. Holders(q)' = Holders(q) \cup {x}
    BY <1>1, <1>2 DEF Holders
  <2>2. x \notin Holders(q)
    BY NullAssumption DEF Holders
  <2> QED BY <1>2, <2>1, <2>2, HoldersFinite, FS_AddElement
<1>3. CASE q # p
  <2>1. Holders(q)' = Holders(q)
    BY <1>1, <1>3, NullAssumption DEF Holders
  <2> QED BY <1>3, <2>1, HoldersFinite
<1> QED BY <1>2, <1>3

\* A place gives its reference up: the player it referred to has one holder less.
LEMMA HolderRemoved ==
    ASSUME TypeOK, NEW x \in Places, holds[x] # NULL,
           holds' = [holds EXCEPT ![x] = NULL], NEW q \in Objects
    PROVE  Cardinality(Holders(q)') =
               Cardinality(Holders(q)) - (IF q = holds[x] THEN 1 ELSE 0)
<1>1. holds \in [Places -> Objects \cup {NULL}]
  BY DEF TypeOK
<1>2. CASE q = holds[x]
  <2>1. Holders(q)' = Holders(q) \ {x}
    BY <1>1, <1>2, NullAssumption DEF Holders
  <2>2. x \in Holders(q)
    BY <1>2 DEF Holders
  <2> QED BY <1>2, <2>1, <2>2, HoldersFinite, FS_RemoveElement
<1>3. CASE q # holds[x]
  <2>1. Holders(q)' = Holders(q)
    BY <1>1, <1>3, NullAssumption DEF Holders
  <2> QED BY <1>3, <2>1, HoldersFinite
<1> QED BY <1>2, <1>3

\* A player somebody holds has at least one holder.
LEMMA HolderCounted ==
    ASSUME NEW x \in Places, NEW p, holds[x] = p
    PROVE  Cardinality(Holders(p)) > 0
<1>1. x \in Holders(p)
  BY DEF Holders
<1>2. Cardinality(Holders(p)) # 0
  BY <1>1, HoldersFinite, FS_EmptySet
<1> QED BY <1>2, HoldersFinite

\* A player nobody holds has none.
LEMMA NoHolders ==
    ASSUME NEW p, \A x \in Places : holds[x] # p
    PROVE  Cardinality(Holders(p)) = 0
<1>1. Holders(p) = {}
  BY DEF Holders
<1> QED BY <1>1, FS_EmptySet

\* The entries of t's list that refer to q are as many as the threads they stand for.
LEMMA EntriesAsManyAsThreads ==
    ASSUME NEW t \in Threads, NEW U \in SUBSET Threads
    PROVE  LET entries == {InList(t, u) : u \in U}
           IN  /\ IsFiniteSet(entries)
               /\ Cardinality(entries) = Cardinality(U)
               /\ Cardinality(U) \in Nat
<1> DEFINE entries == {InList(t, u) : u \in U}
           entry == [u \in U |-> InList(t, u)]
<1>1. IsFiniteSet(U)
  BY ThreadsAssumption, FS_Subset
<1>2. entry \in Bijection(U, entries)
  <2>1. entry \in [U -> entries]
    OBVIOUS
  <2>2. \A u, v \in U : entry[u] = entry[v] => u = v
    BY DEF InList
  <2>3. \A e \in entries : \E u \in U : entry[u] = e
    OBVIOUS
  <2> QED BY <2>1, <2>2, <2>3 DEF Bijection, Injection, Surjection, IsInjective
<1> HIDE DEF entries, entry
<1>3. IsFiniteSet(entries) /\ Cardinality(entries) = Cardinality(U)
  BY <1>1, <1>2, FS_Bijection DEF ExistsBijection
<1> QED BY <1>1, <1>3, FS_CardinalityType DEF entries

-----------------------------------------------------------------------------
(***************************************************************************)
(* The array of the registry.                                              *)
(***************************************************************************)

\* What is in the registry is a live player, as is what a place refers to.
LEMMA RegisteredIsLive ==
    ASSUME IInv
    PROVE  /\ Registered \subseteq Objects
           /\ \A p \in Registered : Live(p)
           /\ \A x \in Places : holds[x] # NULL => Live(holds[x]) /\ holds[x] \in Objects
           /\ ~Open => Registered = {}
<1>1. \A i \in 1..max_players : players[i] \in Objects \cup {NULL}
  BY DEF IInv, TypeOK
<1>2. ~Open => Registered = {}
  BY DEF IInv, ClosedRegistry, Registered
<1>3. Open => \A p \in Registered : Live(p)
  BY DEF IInv, OpenRegistry, Registered
<1>4. \A x \in Places : holds[x] # NULL => Live(holds[x]) /\ holds[x] \in Objects
  BY DEF IInv, HeldApart, TypeOK
<1> QED BY <1>1, <1>2, <1>3, <1>4 DEF Registered

\* The search of preg_register stops at player_count, and still reaches every slot.
LEMMA SearchIsComplete ==
    ASSUME IInv, Open
    PROVE  /\ Scanned = 1..max_players
           /\ max_players \in Nat
           /\ \A i \in 1..max_players : players[i] \in Registered /\ players[i] \in Objects
<1>1. max_players \in Nat /\ player_count \in Nat /\ max_players <= player_count
  BY BoundAssumption DEF IInv, TypeOK, OpenRegistry
<1>2. Scanned = 1..max_players
  BY <1>1 DEF Scanned
<1>3. \A i \in 1..max_players : players[i] \in Registered
  BY DEF IInv, OpenRegistry, Registered
<1> QED BY <1>1, <1>2, <1>3, RegisteredIsLive

\* The slot the search stops at holds the one registered player of the name.
LEMMA FirstMatch ==
    ASSUME IInv, Open, NEW name \in Names, Matches(name) # {}
    PROVE  LET first == CHOOSE i \in Matches(name) : \A j \in Matches(name) : i <= j
           IN  /\ first \in 1..max_players
               /\ players[first] \in Registered
               /\ players[first] \in Objects
               /\ username[players[first]] = name
<1>1. Matches(name) = {i \in 1..max_players : username[players[i]] = name}
  BY SearchIsComplete, NullAssumption DEF Matches, IInv, OpenRegistry
<1>2. \A i, j \in Matches(name) : i = j /\ i <= j
  BY <1>1, SearchIsComplete DEF IInv, OpenRegistry
<1>3. \E i \in Matches(name) : \A j \in Matches(name) : i <= j
  BY <1>2
<1> DEFINE first == CHOOSE i \in Matches(name) : \A j \in Matches(name) : i <= j
<1>4. first \in Matches(name)
  BY <1>3
<1> HIDE DEF first
<1>5. /\ first \in 1..max_players
      /\ username[players[first]] = name
  BY <1>1, <1>4
<1>6. players[first] \in Registered /\ players[first] \in Objects
  BY <1>5, SearchIsComplete
<1> QED BY <1>5, <1>6 DEF first

\* A name that the search does not find has no registered player.
LEMMA NoMatch ==
    ASSUME IInv, Open, NEW name \in Names, Matches(name) = {}
    PROVE  \A p \in Registered : username[p] # name
<1>1. \A i \in 1..max_players : username[players[i]] # name
  BY SearchIsComplete, NullAssumption DEF Matches, IInv, OpenRegistry
<1> QED BY <1>1 DEF Registered

\* A registered name has one player.
LEMMA RegisteredOncePerName ==
    ASSUME IInv, NEW p \in Registered, NEW q \in Registered, username[p] = username[q]
    PROVE  p = q
<1>1. Open
  BY RegisteredIsLive
<1>2. PICK i \in 1..max_players : p = players[i]
  BY DEF Registered
<1>3. PICK j \in 1..max_players : q = players[j]
  BY DEF Registered
<1> QED BY <1>1, <1>2, <1>3 DEF IInv, OpenRegistry

\* The search finds no free slot to reuse: a new player always goes to the end.
LEMMA StoreAppends ==
    ASSUME IInv, Open, NEW p \in Objects, Store(p), player_count' = player_count + 1
    PROVE  /\ players' = Append(players, p)
           /\ max_players' = max_players + 1
           /\ max_players' = Len(players')
           /\ max_players' <= player_count'
           /\ players' \in Seq(Objects \cup {NULL})
           /\ players'[max_players'] = p
           /\ \A i \in 1..max_players : players'[i] = players[i]
           /\ Registered' = Registered \cup {p}
<1>1. /\ players \in Seq(Objects \cup {NULL})
      /\ max_players = Len(players)
      /\ player_count \in Nat
      /\ max_players \in Nat
      /\ max_players <= player_count
  BY BoundAssumption DEF IInv, TypeOK, OpenRegistry
<1>2. players' = Append(players, p) /\ max_players' = max_players + 1
  BY <1>1 DEF Store
<1>3. /\ players' \in Seq(Objects \cup {NULL})
      /\ max_players' = Len(players')
      /\ players'[max_players'] = p
      /\ \A i \in 1..max_players : players'[i] = players[i]
  BY <1>1, <1>2
<1>4. Registered' = Registered \cup {p}
  <2>1. 1..max_players' = 1..max_players \cup {max_players'}
    BY <1>1, <1>2
  <2>2. {players'[i] : i \in 1..max_players'} = {players[i] : i \in 1..max_players} \cup {p}
    BY <1>3, <2>1
  <2>3. p # NULL
    BY NullAssumption
  <2> QED BY <2>2, <2>3 DEF Registered
<1> QED BY <1>1, <1>2, <1>3, <1>4

-----------------------------------------------------------------------------
(***************************************************************************)
(* Every step keeps the invariant.                                         *)
(***************************************************************************)

\* The names and the registry determine whether the players that are held are apart.
LEMMA OpenHeld ==
    (Open /\ TypeOK /\ OpenRegistry /\ HeldIsRegistered) => HeldApart
<1> SUFFICES ASSUME Open, TypeOK, OpenRegistry, HeldIsRegistered PROVE HeldApart
  OBVIOUS
<1>1. \A x \in Places : holds[x] # NULL =>
          \E i \in 1..max_players : holds[x] = players[i]
  BY DEF HeldIsRegistered, Registered
<1>2. \A x \in Places : holds[x] # NULL => Live(holds[x])
  BY <1>1 DEF OpenRegistry
<1>3. ASSUME NEW x \in Places, NEW y \in Places, Same(holds[x], holds[y])
      PROVE  holds[x] = holds[y]
  <2>1. PICK i \in 1..max_players : holds[x] = players[i]
    BY <1>1, <1>3 DEF Same
  <2>2. PICK j \in 1..max_players : holds[y] = players[j]
    BY <1>1, <1>3 DEF Same
  <2> QED BY <1>3, <2>1, <2>2 DEF OpenRegistry, Same
<1> QED BY <1>2, <1>3 DEF HeldApart

\* ... in the next state too.
LEMMA OpenHeldNext ==
    (Open' /\ TypeOK' /\ OpenRegistry' /\ HeldIsRegistered') => HeldApart'
  BY OpenHeld, PTL

\* A player that is held before preg_fini is registered too, so it has at least two
\* references and player_unref does not free it.
LEMMA HeldHasTwo ==
    ASSUME IInv, Open, NEW x \in Places, holds[x] # NULL
    PROVE  /\ holds[x] \in Registered
           /\ holds[x] \in Objects
           /\ Live(holds[x])
           /\ reference_count[holds[x]] \in Nat
           /\ reference_count[holds[x]] >= 2 + leaked[holds[x]]
           /\ leaked[holds[x]] \in Nat
<1>1. /\ holds[x] \in Registered
      /\ holds[x] \in Objects
      /\ Live(holds[x])
  BY RegisteredIsLive DEF IInv, HeldIsRegistered
<1>2. /\ reference_count[holds[x]] \in Nat
      /\ leaked[holds[x]] \in Nat
  BY <1>1 DEF IInv, TypeOK
<1>3. Cardinality(Holders(holds[x])) > 0 /\ Cardinality(Holders(holds[x])) \in Nat
  BY HolderCounted, HoldersFinite
<1>4. reference_count[holds[x]] = Cardinality(Holders(holds[x])) + 1 + leaked[holds[x]]
  BY <1>1 DEF IInv, Counted, One
<1> QED BY <1>1, <1>2, <1>3, <1>4

\* The last reference to a player is that of a place after preg_fini.
LEMMA LastReference ==
    ASSUME IInv, NEW x \in Places, holds[x] # NULL, reference_count[holds[x]] = 1
    PROVE  /\ ~Open
           /\ leaked[holds[x]] = 0
           /\ \A y \in Places \ {x} : holds[y] # holds[x]
<1> DEFINE p == holds[x]
<1>1. p \in Objects /\ Live(p)
  BY RegisteredIsLive
<1>2. ~Open /\ leaked[p] \in Nat
  BY <1>1, HeldHasTwo DEF IInv, TypeOK
<1>3. One(p) = 0
  BY <1>2, RegisteredIsLive DEF One
<1>4. Cardinality(Holders(p)) \in Nat /\ Cardinality(Holders(p)) > 0
  BY HolderCounted, HoldersFinite
<1>5. Cardinality(Holders(p)) = 1 /\ leaked[p] = 0
  BY <1>1, <1>2, <1>3, <1>4 DEF IInv, Counted
<1>6. ASSUME NEW y \in Places \ {x} PROVE holds[y] # p
  <2> SUFFICES ASSUME holds[y] = p PROVE FALSE
    OBVIOUS
  <2>1. x \in Holders(p) /\ y \in Holders(p) \ {x}
    BY DEF Holders
  <2>2. Cardinality(Holders(p) \ {x}) = 0 /\ IsFiniteSet(Holders(p) \ {x})
    BY <1>5, <2>1, HoldersFinite, FS_RemoveElement
  <2> QED BY <2>1, <2>2, FS_EmptySet
<1> QED BY <1>2, <1>5, <1>6

\* The variables of the client registry have their types.
ThreadsTyped ==
    /\ client \in [Threads -> States]
    /\ lister \in Threads \cup {NULL}
    /\ rest \subseteq Threads

\* What is left to show of a step that leaves the players in the array alone, and may
\* hand one of them out.
LEMMA SamePlayers ==
    ASSUME IInv, Open, UNCHANGED <<players, max_players, username, main>>,
           player_count' \in 0..MaxPlayerCount, player_count <= player_count',
           reference_count' \in [Objects -> Nat], leaked' \in [Objects -> Nat],
           holds' \in [Places -> Registered \cup {NULL}],
           Counted', ThreadMatchesClient', ThreadsTyped', Listing'
    PROVE  IInv'
<1>1. Registered' = Registered /\ Registered \subseteq Objects
  BY RegisteredIsLive DEF Registered
<1>2. holds' \in [Places -> Objects \cup {NULL}]
  BY <1>1
<1>3. TypeOK'
  BY <1>2 DEF IInv, TypeOK, ThreadsTyped
<1>4. OpenRegistry' /\ Open'
  <2>1. max_players \in Nat /\ player_count \in Nat /\ player_count' \in Nat
    BY BoundAssumption DEF IInv, TypeOK
  <2> QED BY <2>1 DEF IInv, OpenRegistry, Live, Open
<1>5. HeldIsRegistered' /\ ClosedRegistry'
  BY <1>1, <1>4 DEF HeldIsRegistered, ClosedRegistry
<1> QED BY <1>3, <1>4, <1>5, OpenHeldNext DEF IInv

\* What is left to show of a step that gives references back, or forgets them.
LEMMA FewerHeld ==
    ASSUME IInv, UNCHANGED <<players, player_count, max_players, main, lister, rest>>,
           client' \in [Threads -> States],
           username' \in [Objects -> Names \cup {NULL}],
           \A q \in Registered : username'[q] = username[q],
           reference_count' \in [Objects -> Nat], leaked' \in [Objects -> Nat],
           holds' = [x \in Places |-> holds'[x]],
           \A x \in Places : holds'[x] = holds[x] \/ holds'[x] = NULL,
           \A x \in Places : holds'[x] # NULL => username'[holds'[x]] = username[holds'[x]],
           Counted'
    PROVE  IInv'
<1>1. Registered' = Registered
  BY DEF Registered
<1>2. TypeOK'
  BY DEF IInv, TypeOK
<1>3. OpenRegistry' /\ ClosedRegistry'
  <2>1. \A i \in 1..max_players : players[i] # NULL => players[i] \in Registered
    BY DEF Registered
  <2> QED BY <2>1 DEF IInv, OpenRegistry, ClosedRegistry, Open, Live
<1>4. HeldIsRegistered'
  BY <1>1 DEF IInv, HeldIsRegistered, Open
<1>5. HeldApart'
  BY DEF IInv, HeldApart, Same, Live
<1>6. ThreadMatchesClient' /\ Listing'
  <2>1. \A t, u \in Threads : InList(t, u) \in Places
    BY PlaceOf
  <2>2. ThreadMatchesClient'
    BY PlaceOf DEF IInv, ThreadMatchesClient
  <2>3. Listing'
    BY <2>1 DEF IInv, TypeOK, Listing
  <2> QED BY <2>2, <2>3
<1> QED BY <1>2, <1>3, <1>4, <1>5, <1>6 DEF IInv

\* ... and of one that touches neither players nor references.
LEMMA OnlyThreads ==
    ASSUME IInv,
           UNCHANGED <<players, player_count, max_players, username, reference_count,
                       holds, leaked>>,
           main' \in Phases, Open' <=> Open, ThreadsTyped', Listing'
    PROVE  IInv'
<1>1. \A q : Holders(q)' = Holders(q) /\ One(q)' = One(q)
  BY DEF Holders, One, Registered
<1>2. Counted'
  BY <1>1 DEF IInv, Counted, Live
<1>3. TypeOK'
  BY DEF IInv, TypeOK, ThreadsTyped
<1>4. OpenRegistry' /\ ClosedRegistry' /\ HeldApart' /\ ThreadMatchesClient'
  BY DEF IInv, OpenRegistry, ClosedRegistry, HeldApart, ThreadMatchesClient, Same, Live
<1>5. HeldIsRegistered'
  BY DEF IInv, HeldIsRegistered, Registered
<1> QED BY <1>2, <1>3, <1>4, <1>5 DEF IInv

\* A reference of a thread or of a CLIENT is no entry of a list.
LEMMA ListingStays ==
    ASSUME IInv, UNCHANGED threads, NEW t \in Threads,
           NEW x \in {InThread(t), InClient(t)}, NEW p, holds' = [holds EXCEPT ![x] = p]
    PROVE  Listing' /\ ThreadsTyped'
<1>1. \A u, v \in Threads : InList(u, v) # InThread(t) /\ InList(u, v) # InClient(t)
  BY DEF InThread, InClient, InList
<1>2. \A u, v \in Threads : holds'[InList(u, v)] = holds[InList(u, v)]
  BY <1>1, PlaceOf DEF IInv, TypeOK
<1> QED BY <1>2 DEF IInv, TypeOK, Listing, threads, ThreadsTyped

\* preg_register of a name that is there hands out one more reference.
LEMMA RegisterExistingIInv ==
    ASSUME IInv, NEW t \in Threads, NEW name \in Names, RegisterExisting(t, name)
    PROVE  IInv'
<1> DEFINE first == CHOOSE i \in Matches(name) : \A j \in Matches(name) : i <= j
           p == players[first]
<1>1. /\ Open
      /\ holds[InThread(t)] = NULL
      /\ holds[InClient(t)] = NULL
      /\ player_count < MaxPlayerCount
      /\ reference_count' = [reference_count EXCEPT ![p] = @ + 1]
      /\ holds' = [holds EXCEPT ![InThread(t)] = p]
      /\ player_count' = player_count + 1
      /\ UNCHANGED <<players, max_players, username, leaked, threads, main>>
  BY DEF RegisterExisting, LoggingIn, Ref
<1>2. p \in Registered /\ p \in Objects
  BY <1>1, FirstMatch DEF RegisterExisting
<1> HIDE DEF first, p
<1>3. player_count' \in 0..MaxPlayerCount /\ player_count <= player_count'
  BY <1>1, BoundAssumption DEF IInv, TypeOK
<1>4. holds' \in [Places -> Registered \cup {NULL}]
  BY <1>1, <1>2, PlaceOf DEF IInv, TypeOK, HeldIsRegistered
<1>5. reference_count' \in [Objects -> Nat] /\ leaked' \in [Objects -> Nat]
  BY <1>1, <1>2 DEF IInv, TypeOK
<1>6. Counted'
  <2> SUFFICES ASSUME NEW q \in Objects
               PROVE  IF Live(q)
                      THEN /\ reference_count'[q] = Cardinality(Holders(q)') + One(q)' + leaked'[q]
                           /\ reference_count'[q] > 0
                      ELSE leaked'[q] = 0
    BY <1>1 DEF Counted, Live
  <2>1. Cardinality(Holders(q)') = Cardinality(Holders(q)) + (IF q = p THEN 1 ELSE 0)
    BY <1>1, <1>2, PlaceOf, HolderAdded DEF IInv
  <2>2. reference_count'[q] = reference_count[q] + (IF q = p THEN 1 ELSE 0)
    BY <1>1, <1>2 DEF IInv, TypeOK
  <2>3. One(q)' = One(q)
    BY <1>1 DEF One, Registered
  <2>4. /\ reference_count[q] \in Nat
        /\ leaked[q] \in Nat
        /\ One(q) \in Nat
        /\ Cardinality(Holders(q)) \in Nat
    BY HoldersFinite DEF IInv, TypeOK, One
  <2> QED BY <1>1, <2>1, <2>2, <2>3, <2>4 DEF IInv, Counted
<1>7. ThreadMatchesClient'
  BY <1>1, PlaceOf DEF IInv, TypeOK, ThreadMatchesClient, InThread, InClient
<1>8. Listing' /\ ThreadsTyped'
  BY <1>1, ListingStays
<1> QED BY <1>1, <1>3, <1>4, <1>5, <1>6, <1>7, <1>8, SamePlayers

\* preg_register of a new name creates the player, with two references.
LEMMA RegisterNewIInv ==
    ASSUME IInv, NEW t \in Threads, NEW name \in Names, NEW p \in Objects,
           RegisterNew(t, name, p)
    PROVE  IInv'
<1>1. /\ Open
      /\ holds[InThread(t)] = NULL
      /\ holds[InClient(t)] = NULL
      /\ player_count < MaxPlayerCount
      /\ Matches(name) = {}
      /\ ~Live(p)
      /\ username' = [username EXCEPT ![p] = name]
      /\ reference_count' = [reference_count EXCEPT ![p] = 2]
      /\ Store(p)
      /\ player_count' = player_count + 1
      /\ holds' = [holds EXCEPT ![InThread(t)] = p]
      /\ UNCHANGED <<leaked, threads, main>>
  BY DEF RegisterNew, LoggingIn
<1>2. /\ max_players' = max_players + 1
      /\ max_players' = Len(players')
      /\ max_players' <= player_count'
      /\ players' \in Seq(Objects \cup {NULL})
      /\ players'[max_players'] = p
      /\ \A i \in 1..max_players : players'[i] = players[i]
      /\ Registered' = Registered \cup {p}
  BY <1>1, StoreAppends
<1>3. p \notin Registered
  BY <1>1, RegisteredIsLive
<1>4. TypeOK'
  <2>1. player_count' \in 0..MaxPlayerCount
    BY <1>1, BoundAssumption DEF IInv, TypeOK
  <2>2. holds' \in [Places -> Objects \cup {NULL}]
    BY <1>1, PlaceOf DEF IInv, TypeOK
  <2>3. /\ username' \in [Objects -> Names \cup {NULL}]
        /\ reference_count' \in [Objects -> Nat]
    BY <1>1 DEF IInv, TypeOK
  <2> QED BY <1>1, <1>2, <2>1, <2>2, <2>3 DEF IInv, TypeOK, threads
<1>5. OpenRegistry'
  <2>1. /\ \A q \in Objects \ {p} : username'[q] = username[q]
        /\ username'[p] = name
        /\ name # NULL
        /\ p # NULL
    BY <1>1, NullAssumption DEF IInv, TypeOK
  <2>2. \A i \in 1..max_players :
            /\ players'[i] \in Registered
            /\ players'[i] \in Objects \ {p}
            /\ username'[players'[i]] = username[players[i]]
    BY <1>1, <1>2, <1>3, <2>1, SearchIsComplete
  <2>3. \A i \in 1..max_players : username'[players'[i]] # name
    BY <1>1, <1>2, <2>2, NoMatch
  <2>4. max_players \in Nat /\ 1..max_players' = 1..max_players \cup {max_players'}
    BY <1>1, <1>2, SearchIsComplete
  <2>5. \A i \in 1..max_players' : players'[i] # NULL /\ username'[players'[i]] # NULL
    BY <1>1, <1>2, <2>1, <2>2, <2>4, NullAssumption DEF IInv, OpenRegistry, Live
  <2>6. \A i, j \in 1..max_players' :
            username'[players'[i]] = username'[players'[j]] => i = j
    BY <1>1, <1>2, <2>1, <2>2, <2>3, <2>4 DEF IInv, OpenRegistry
  <2> QED BY <1>2, <2>5, <2>6 DEF OpenRegistry, Live
<1>6. HeldIsRegistered'
  BY <1>1, <1>2, PlaceOf DEF IInv, TypeOK, HeldIsRegistered
<1>7. ClosedRegistry' /\ HeldApart' /\ Listing'
  BY <1>1, <1>4, <1>5, <1>6, OpenHeldNext, ListingStays DEF ClosedRegistry, Open
<1>8. Counted'
  <2>1. ASSUME NEW q \in Objects
        PROVE  IF username'[q] # NULL
               THEN /\ reference_count'[q] = Cardinality(Holders(q)') + One(q)' + leaked'[q]
                    /\ reference_count'[q] > 0
               ELSE leaked'[q] = 0
    <3>1. Cardinality(Holders(q)') = Cardinality(Holders(q)) + (IF q = p THEN 1 ELSE 0)
      BY <1>1, PlaceOf, HolderAdded DEF IInv
    <3>2. /\ reference_count[q] \in Nat
          /\ leaked[q] \in Nat
          /\ Cardinality(Holders(q)) \in Nat
      BY HoldersFinite DEF IInv, TypeOK
    <3>3. CASE q = p
      <4>1. Cardinality(Holders(q)) = 0
        <5>1. \A x \in Places : holds[x] # p
          BY <1>1, RegisteredIsLive, NullAssumption
        <5> QED BY <3>3, <5>1, NoHolders
      <4>2. leaked'[q] = 0
        BY <1>1, <3>3 DEF IInv, Counted
      <4>3. One(q)' = 1
        BY <1>2, <3>3 DEF One
      <4>4. reference_count'[q] = 2 /\ username'[q] = name
        BY <1>1, <3>3 DEF IInv, TypeOK
      <4> QED BY <3>1, <3>3, <4>1, <4>2, <4>3, <4>4, NullAssumption
    <3>4. CASE q # p
      <4>1. One(q)' = One(q)
        BY <1>2, <3>4 DEF One
      <4>2. reference_count'[q] = reference_count[q] /\ username'[q] = username[q]
        BY <1>1, <3>4 DEF IInv, TypeOK
      <4> QED BY <1>1, <3>1, <3>2, <3>4, <4>1, <4>2 DEF IInv, Counted, Live
    <3> QED BY <3>3, <3>4
  <2> QED BY <2>1 DEF Counted, Live
<1>9. ThreadMatchesClient'
  BY <1>1, PlaceOf DEF IInv, TypeOK, ThreadMatchesClient, InThread, InClient
<1> QED BY <1>4, <1>5, <1>6, <1>7, <1>8, <1>9 DEF IInv

\* preg_register when the array cannot grow: the new player is lost.
LEMMA RegisterNoSpaceIInv ==
    ASSUME IInv, NEW t \in Threads, NEW name \in Names, NEW p \in Objects,
           RegisterNoSpace(t, name, p)
    PROVE  IInv'
<1>1. /\ Open
      /\ ~Live(p)
      /\ username' = [username EXCEPT ![p] = name]
      /\ reference_count' = [reference_count EXCEPT ![p] = 1]
      /\ leaked' = [leaked EXCEPT ![p] = 1]
      /\ UNCHANGED <<players, player_count, max_players, holds, client, lister, rest, main>>
  BY DEF RegisterNoSpace, registry, threads, LoggingIn
<1>2. /\ p \notin Registered
      /\ \A x \in Places : holds[x] # p
      /\ name # NULL
  BY <1>1, RegisteredIsLive, NullAssumption
<1>3. /\ Registered' = Registered
      /\ \A q : Holders(q)' = Holders(q)
  BY <1>1 DEF Registered, Holders
<1>4. TypeOK'
  BY <1>1 DEF IInv, TypeOK
<1>5. OpenRegistry'
  <2>1. \A i \in 1..max_players : username'[players[i]] = username[players[i]]
    BY <1>1, <1>2, SearchIsComplete DEF IInv, TypeOK
  <2> QED BY <1>1, <2>1 DEF IInv, OpenRegistry, Live
<1>6. HeldIsRegistered' /\ ClosedRegistry' /\ ThreadMatchesClient' /\ Listing'
  BY <1>1, <1>3 DEF IInv, HeldIsRegistered, ClosedRegistry, ThreadMatchesClient, Listing, Open
<1>7. Counted'
  <2>1. ASSUME NEW q \in Objects
        PROVE  IF username'[q] # NULL
               THEN /\ reference_count'[q] = Cardinality(Holders(q)') + One(q)' + leaked'[q]
                    /\ reference_count'[q] > 0
               ELSE leaked'[q] = 0
    <3>1. CASE q = p
      <4>1. Cardinality(Holders(q)') = 0 /\ One(q)' = 0
        BY <1>2, <1>3, <3>1, NoHolders DEF One
      <4>2. username'[q] = name /\ reference_count'[q] = 1 /\ leaked'[q] = 1
        BY <1>1, <3>1 DEF IInv, TypeOK
      <4> QED BY <1>2, <4>1, <4>2
    <3>2. CASE q # p
      <4>1. /\ username'[q] = username[q]
            /\ reference_count'[q] = reference_count[q]
            /\ leaked'[q] = leaked[q]
        BY <1>1, <3>2 DEF IInv, TypeOK
      <4> QED BY <1>3, <4>1 DEF IInv, Counted, Live, One
    <3> QED BY <3>1, <3>2
  <2> QED BY <2>1 DEF Counted, Live
<1>8. HeldApart'
  BY <1>1, <1>4, <1>5, <1>6, OpenHeldNext DEF Open
<1> QED BY <1>4, <1>5, <1>6, <1>7, <1>8 DEF IInv

\* client_login takes the reference of the thread over.
LEMMA ClientLoginIInv ==
    ASSUME IInv, NEW t \in Threads, ClientLogin(t)
    PROVE  IInv'
<1> DEFINE p == holds[InThread(t)]
<1>1. /\ p # NULL
      /\ holds[InClient(t)] = NULL
      /\ reference_count' = [reference_count EXCEPT ![p] = @ + 1]
      /\ holds' = [holds EXCEPT ![InClient(t)] = p]
      /\ UNCHANGED <<players, player_count, max_players, username, leaked, threads, main>>
      /\ Open
  BY DEF ClientLogin, Ref, registry
<1>2. p \in Registered /\ p \in Objects
  BY <1>1, PlaceOf, HeldHasTwo
<1>3. holds'[InThread(t)] = p /\ holds'[InClient(t)] = p
  BY <1>1, PlaceOf DEF IInv, TypeOK
<1>4. ThreadMatchesClient'
  BY <1>1, <1>3, PlaceOf DEF IInv, TypeOK, ThreadMatchesClient, InThread, InClient
<1> HIDE DEF p
<1>5. player_count' \in 0..MaxPlayerCount /\ player_count <= player_count'
  BY <1>1, BoundAssumption DEF IInv, TypeOK
<1>6. holds' \in [Places -> Registered \cup {NULL}]
  BY <1>1, <1>2, PlaceOf DEF IInv, TypeOK, HeldIsRegistered
<1>7. reference_count' \in [Objects -> Nat] /\ leaked' \in [Objects -> Nat]
  BY <1>1, <1>2 DEF IInv, TypeOK
<1>8. Counted'
  <2>1. ASSUME NEW q \in Objects
        PROVE  IF username'[q] # NULL
               THEN /\ reference_count'[q] = Cardinality(Holders(q)') + One(q)' + leaked'[q]
                    /\ reference_count'[q] > 0
               ELSE leaked'[q] = 0
    <3>1. Cardinality(Holders(q)') = Cardinality(Holders(q)) + (IF q = p THEN 1 ELSE 0)
      BY <1>1, <1>2, PlaceOf, HolderAdded DEF IInv
    <3>2. reference_count'[q] = reference_count[q] + (IF q = p THEN 1 ELSE 0)
      BY <1>1, <1>2 DEF IInv, TypeOK
    <3>3. One(q)' = One(q)
      BY <1>1 DEF One, Registered
    <3>4. /\ reference_count[q] \in Nat
          /\ leaked[q] \in Nat
          /\ One(q) \in Nat
          /\ Cardinality(Holders(q)) \in Nat
      BY HoldersFinite DEF IInv, TypeOK, One
    <3> QED BY <1>1, <3>1, <3>2, <3>3, <3>4 DEF IInv, Counted, Live
  <2> QED BY <2>1 DEF Counted, Live
<1>9. Listing' /\ ThreadsTyped'
  BY <1>1, ListingStays
<1> QED BY <1>1, <1>2, <1>4, <1>5, <1>6, <1>7, <1>8, <1>9, SamePlayers

\* client_login of a client that is logged in already.
LEMMA ClientLoginRefusedIInv ==
    ASSUME IInv, NEW t \in Threads, ClientLoginRefused(t)
    PROVE  IInv'
<1> DEFINE p == holds[InThread(t)]
<1>1. /\ p # NULL
      /\ holds' = [holds EXCEPT ![InThread(t)] = NULL]
      /\ leaked' = [leaked EXCEPT ![p] = @ + 1]
      /\ UNCHANGED <<players, player_count, max_players, username, reference_count, client,
                     lister, rest, main>>
      /\ Open
  BY DEF ClientLoginRefused, registry, threads
<1>2. /\ p \in Registered
      /\ p \in Objects
      /\ Live(p)
  BY <1>1, PlaceOf, HeldHasTwo
<1>3. /\ \A x \in Places : holds'[x] = holds[x] \/ holds'[x] = NULL
      /\ holds' = [x \in Places |-> holds'[x]]
  BY <1>1, PlaceOf DEF IInv, TypeOK
<1>6. reference_count' \in [Objects -> Nat] /\ leaked' \in [Objects -> Nat]
  BY <1>1, <1>2 DEF IInv, TypeOK
<1>7. Counted'
  <2>1. ASSUME NEW q \in Objects
        PROVE  IF username'[q] # NULL
               THEN /\ reference_count'[q] = Cardinality(Holders(q)') + One(q)' + leaked'[q]
                    /\ reference_count'[q] > 0
               ELSE leaked'[q] = 0
    <3>1. Cardinality(Holders(q)') = Cardinality(Holders(q)) - (IF q = p THEN 1 ELSE 0)
      BY <1>1, PlaceOf, HolderRemoved DEF IInv
    <3>2. leaked'[q] = leaked[q] + (IF q = p THEN 1 ELSE 0)
      BY <1>1, <1>2 DEF IInv, TypeOK
    <3>3. One(q)' = One(q)
      BY <1>1 DEF One, Registered
    <3>4. /\ reference_count[q] \in Nat
          /\ leaked[q] \in Nat
          /\ One(q) \in Nat
          /\ Cardinality(Holders(q)) \in Nat
      BY HoldersFinite DEF IInv, TypeOK, One
    <3> HIDE DEF p
    <3> QED BY <1>1, <1>2, <3>1, <3>2, <3>3, <3>4 DEF IInv, Counted, Live
  <2> QED BY <2>1 DEF Counted, Live
<1> QED BY <1>1, <1>3, <1>6, <1>7, FewerHeld DEF IInv, TypeOK

\* Giving one reference back: player_unref finds the last one only after preg_fini, and
\* then nobody else refers to the player.
LEMMA DropEffect ==
    ASSUME IInv, NEW x \in Places, Drop(x), UNCHANGED <<lister, rest>>,
           client' \in [Threads -> States]
    PROVE  /\ IInv'
           /\ UNCHANGED <<players, max_players>>
           /\ \A q \in Registered : username'[q] = username[q]
<1> DEFINE p == holds[x]
<1>1. /\ p # NULL
      /\ reference_count' = [reference_count EXCEPT ![p] = @ - 1]
      /\ username' = IF reference_count[p] = 1
                     THEN [username EXCEPT ![p] = NULL] ELSE username
      /\ holds' = [holds EXCEPT ![x] = NULL]
      /\ UNCHANGED <<players, player_count, max_players, main, leaked>>
  BY DEF Drop, Unref, registry
<1>2. /\ p \in Objects
      /\ Live(p)
      /\ reference_count[p] \in Nat
      /\ reference_count[p] > 0
      /\ leaked[p] \in Nat
  BY <1>1, RegisteredIsLive DEF IInv, TypeOK, Counted
<1>3. /\ \A y \in Places : holds'[y] = IF y = x THEN NULL ELSE holds[y]
      /\ holds' = [y \in Places |-> holds'[y]]
  BY <1>1 DEF IInv, TypeOK
<1>4. /\ username' \in [Objects -> Names \cup {NULL}]
      /\ reference_count' \in [Objects -> Nat]
      /\ \A q \in Objects \ {p} : username'[q] = username[q]
      /\ username'[p] = IF reference_count[p] = 1 THEN NULL ELSE username[p]
  BY <1>1, <1>2 DEF IInv, TypeOK
<1>5. \A q \in Registered : username'[q] = username[q]
  BY <1>1, <1>4, LastReference, RegisteredIsLive
<1>6. \A y \in Places : holds'[y] # NULL => username'[holds'[y]] = username[holds'[y]]
  BY <1>1, <1>3, <1>4, LastReference, RegisteredIsLive
<1>7. Counted'
  <2>1. ASSUME NEW q \in Objects
        PROVE  IF username'[q] # NULL
               THEN /\ reference_count'[q] = Cardinality(Holders(q)') + One(q)' + leaked'[q]
                    /\ reference_count'[q] > 0
               ELSE leaked'[q] = 0
    <3>1. Cardinality(Holders(q)') = Cardinality(Holders(q)) - (IF q = p THEN 1 ELSE 0)
      BY <1>1, HolderRemoved DEF IInv
    <3>2. reference_count'[q] = reference_count[q] - (IF q = p THEN 1 ELSE 0)
      BY <1>1, <1>2 DEF IInv, TypeOK
    <3>3. One(q)' = One(q)
      BY <1>1 DEF One, Registered
    <3>4. /\ reference_count[q] \in Nat
          /\ leaked[q] \in Nat
          /\ One(q) \in Nat
          /\ Cardinality(Holders(q)) \in Nat
      BY HoldersFinite DEF IInv, TypeOK, One
    <3>5. CASE q # p
      BY <1>1, <1>4, <3>1, <3>2, <3>3, <3>4, <3>5 DEF IInv, Counted, Live
    <3>6. CASE q = p /\ reference_count[p] = 1
      BY <1>1, <1>4, <3>6, LastReference
    <3>7. CASE q = p /\ reference_count[p] # 1
      <4>1. username'[q] # NULL /\ Live(q)
        BY <1>2, <1>4, <3>7 DEF Live
      <4> QED BY <1>1, <1>2, <3>1, <3>2, <3>3, <3>4, <3>7, <4>1 DEF IInv, Counted
    <3> QED BY <3>5, <3>6, <3>7
  <2> QED BY <2>1 DEF Counted, Live
<1> HIDE DEF p
<1>8. IInv'
  BY <1>1, <1>3, <1>4, <1>5, <1>6, <1>7, FewerHeld DEF IInv, TypeOK
<1> QED BY <1>1, <1>5, <1>8

\* creg_all_players takes a reference to the player of a client.
LEMMA ListPlayerIInv ==
    ASSUME IInv, NEW u \in Threads, ListPlayer(u)
    PROVE  IInv'
<1> DEFINE p == holds[InClient(u)]
           x == InList(lister, u)
<1>1. /\ Open
      /\ u \in rest
      /\ p # NULL
      /\ reference_count' = [reference_count EXCEPT ![p] = @ + 1]
      /\ holds' = [holds EXCEPT ![x] = p]
      /\ rest' = rest \ {u}
      /\ lister' = IF rest = {u} THEN NULL ELSE lister
      /\ UNCHANGED <<players, player_count, max_players, username, leaked, client, main>>
  BY DEF ListPlayer, LookedAt, Ref, registry
<1>2. lister \in Threads /\ holds[x] = NULL /\ x \in Places
  BY <1>1, PlaceOf DEF IInv, TypeOK, Listing
<1>3. p \in Registered /\ p \in Objects
  BY <1>1, PlaceOf, HeldHasTwo
<1>4. \A t, v \in Threads : /\ InThread(t) \in Places /\ InThread(t) # x
                            /\ InClient(t) \in Places /\ InClient(t) # x
                            /\ InList(t, v) \in Places /\ (InList(t, v) = x => v = u)
  BY PlaceOf DEF InThread, InClient, InList
<1>5. \A y \in Places : holds'[y] = IF y = x THEN p ELSE holds[y]
  BY <1>1, <1>2 DEF IInv, TypeOK
<1>6. ThreadMatchesClient'
  BY <1>4, <1>5 DEF IInv, ThreadMatchesClient
<1>7. Listing' /\ ThreadsTyped'
  BY <1>1, <1>2, <1>4, <1>5 DEF IInv, TypeOK, Listing, ThreadsTyped
<1> HIDE DEF p, x
<1>8. player_count' \in 0..MaxPlayerCount /\ player_count <= player_count'
  BY <1>1, BoundAssumption DEF IInv, TypeOK
<1>9. holds' \in [Places -> Registered \cup {NULL}]
  BY <1>1, <1>2, <1>3 DEF IInv, TypeOK, HeldIsRegistered
<1>10. reference_count' \in [Objects -> Nat] /\ leaked' \in [Objects -> Nat]
  BY <1>1, <1>3 DEF IInv, TypeOK
<1>11. Counted'
  <2>1. ASSUME NEW q \in Objects
        PROVE  IF username'[q] # NULL
               THEN /\ reference_count'[q] = Cardinality(Holders(q)') + One(q)' + leaked'[q]
                    /\ reference_count'[q] > 0
               ELSE leaked'[q] = 0
    <3>1. Cardinality(Holders(q)') = Cardinality(Holders(q)) + (IF q = p THEN 1 ELSE 0)
      BY <1>1, <1>2, <1>3, HolderAdded DEF IInv
    <3>2. reference_count'[q] = reference_count[q] + (IF q = p THEN 1 ELSE 0)
      BY <1>1, <1>3 DEF IInv, TypeOK
    <3>3. One(q)' = One(q)
      BY <1>1 DEF One, Registered
    <3>4. /\ reference_count[q] \in Nat
          /\ leaked[q] \in Nat
          /\ One(q) \in Nat
          /\ Cardinality(Holders(q)) \in Nat
      BY HoldersFinite DEF IInv, TypeOK, One
    <3>5. q = p => Live(q)
      BY <1>3, RegisteredIsLive
    <3> QED BY <1>1, <3>1, <3>2, <3>3, <3>4, <3>5 DEF IInv, Counted, Live
  <2> QED BY <2>1 DEF Counted, Live
<1> QED BY <1>1, <1>6, <1>7, <1>8, <1>9, <1>10, <1>11, SamePlayers

\* A list that is abandoned keeps its references for ever.
LEMMA ListAbandonedIInv ==
    ASSUME IInv, NEW t \in Threads, ListAbandoned(t)
    PROVE  IInv'
<1> DEFINE U(q) == {u \in Threads : holds[InList(t, u)] = q}
           Entries(q) == {InList(t, u) : u \in U(q)}
<1>1. /\ \E u \in Threads : holds[InList(t, u)] # NULL
      /\ holds' = [x \in Places |-> IF \E u \in Threads : x = InList(t, u)
                                    THEN NULL ELSE holds[x]]
      /\ leaked' = [q \in Objects |-> leaked[q] + Cardinality(U(q))]
      /\ UNCHANGED <<players, player_count, max_players, username, reference_count, client,
                     lister, rest, main>>
  BY DEF ListAbandoned, ListEmpty, registry, threads
<1>3. /\ \A u \in Threads : holds'[InList(t, u)] = NULL
      /\ \A x \in Places : (\A u \in Threads : x # InList(t, u)) => holds'[x] = holds[x]
      /\ \A u \in Threads : holds'[InThread(u)] = holds[InThread(u)]
      /\ \A u \in Threads : holds'[InClient(u)] = holds[InClient(u)]
  <2>1. \A u, v \in Threads : InThread(u) # InList(t, v) /\ InClient(u) # InList(t, v)
    BY DEF InThread, InClient, InList
  <2> QED BY <1>1, <2>1, PlaceOf
<1>5. ASSUME NEW q \in Objects
      PROVE  /\ Cardinality(U(q)) \in Nat
             /\ Cardinality(Holders(q)') = Cardinality(Holders(q)) - Cardinality(U(q))
  <2>1. Holders(q)' = Holders(q) \ Entries(q)
    <3>1. \A x \in Places : holds'[x] = q <=> holds[x] = q /\ x \notin Entries(q)
      <4>1. ASSUME NEW x \in Places, \A u \in Threads : x # InList(t, u)
            PROVE  holds'[x] = q <=> holds[x] = q /\ x \notin Entries(q)
        BY <1>3, <4>1
      <4>2. ASSUME NEW u \in Threads
            PROVE  LET x == InList(t, u)
                   IN  holds'[x] = q <=> holds[x] = q /\ x \notin Entries(q)
        <5>1. InList(t, u) \in Entries(q) <=> u \in U(q)
          BY DEF InList
        <5> QED BY <1>3, <5>1, NullAssumption
      <4> QED BY <4>1, <4>2
    <3> QED BY <3>1 DEF Holders
  <2>2. Entries(q) \subseteq Holders(q)
    BY PlaceOf DEF Holders
  <2>3. /\ IsFiniteSet(Entries(q))
        /\ Cardinality(Entries(q)) = Cardinality(U(q))
        /\ Cardinality(U(q)) \in Nat
    <3>1. U(q) \in SUBSET Threads
      OBVIOUS
    <3> HIDE DEF U
    <3> QED BY <3>1, EntriesAsManyAsThreads
  <2> HIDE DEF U, Entries
  <2>4. Cardinality(Holders(q) \ Entries(q)) =
            Cardinality(Holders(q)) - Cardinality(Holders(q) \cap Entries(q))
    BY HoldersFinite, FS_Difference
  <2>5. Holders(q) \cap Entries(q) = Entries(q)
    BY <2>2
  <2> QED BY <2>1, <2>3, <2>4, <2>5
<1> HIDE DEF U, Entries
<1>6. /\ \A x \in Places : holds'[x] = holds[x] \/ holds'[x] = NULL
      /\ holds' = [x \in Places |-> holds'[x]]
  BY <1>1
<1>7. reference_count' \in [Objects -> Nat] /\ leaked' \in [Objects -> Nat]
  <2>1. \A q \in Objects : leaked[q] + Cardinality(U(q)) \in Nat
    BY <1>5 DEF IInv, TypeOK
  <2> QED BY <1>1, <2>1 DEF IInv, TypeOK
<1>8. Counted'
  <2>1. ASSUME NEW q \in Objects
        PROVE  IF username'[q] # NULL
               THEN /\ reference_count'[q] = Cardinality(Holders(q)') + One(q)' + leaked'[q]
                    /\ reference_count'[q] > 0
               ELSE leaked'[q] = 0
    <3>1. leaked'[q] = leaked[q] + Cardinality(U(q))
      BY <1>1
    <3>2. One(q)' = One(q)
      BY <1>1 DEF One, Registered
    <3>3. /\ reference_count[q] \in Nat
          /\ leaked[q] \in Nat
          /\ One(q) \in Nat
          /\ Cardinality(Holders(q)) \in Nat
      BY HoldersFinite DEF IInv, TypeOK, One
    <3>4. CASE Live(q)
      BY <1>1, <1>5, <3>1, <3>2, <3>3, <3>4 DEF IInv, Counted, Live
    <3>5. CASE ~Live(q)
      <4>1. U(q) = {}
        BY <3>5, PlaceOf, RegisteredIsLive, NullAssumption DEF U
      <4>2. Cardinality(U(q)) = 0
        BY <4>1, FS_EmptySet
      <4> QED BY <1>1, <3>1, <3>5, <4>2 DEF IInv, Counted, Live
    <3> QED BY <3>4, <3>5
  <2> QED BY <2>1 DEF Counted, Live
<1> QED BY <1>1, <1>6, <1>7, <1>8, FewerHeld DEF IInv, TypeOK

\* preg_fini gives back one reference for each registered player.
LEMMA FiniIInv ==
    ASSUME IInv, Fini
    PROVE  IInv' /\ Registered' = {}
<1> DEFINE Slots(q) == {i \in 1..max_players : players[i] = q}
<1>1. /\ Open /\ ~Open' /\ main' \in Phases
      /\ reference_count' = [q \in Objects |-> reference_count[q] - Cardinality(Slots(q))]
      /\ username' = [q \in Objects |->
              IF q \in Registered /\ reference_count'[q] = 0 THEN NULL ELSE username[q]]
      /\ players' = [i \in 1..max_players |-> NULL]
      /\ UNCHANGED <<player_count, max_players, holds, leaked, client, lister, rest>>
  BY DEF Fini, Open, threads, Phases
<1>2. ASSUME NEW q \in Objects
      PROVE  Cardinality(Slots(q)) = One(q)
  <2>1. CASE q \in Registered
    <3>1. PICK k \in 1..max_players : players[k] = q
      BY <2>1 DEF Registered
    <3>2. Slots(q) = {k}
      BY <1>1, <3>1 DEF IInv, OpenRegistry
    <3> QED BY <2>1, <3>2, FS_Singleton DEF One
  <2>2. CASE q \notin Registered
    <3>1. Slots(q) = {}
      BY <2>2, NullAssumption DEF Registered
    <3> QED BY <2>2, <3>1, FS_EmptySet DEF One
  <2> QED BY <2>1, <2>2
<1> HIDE DEF Slots
<1>3. ASSUME NEW q \in Objects
      PROVE  /\ Cardinality(Holders(q)) \in Nat
             /\ One(q) \in Nat
             /\ leaked[q] \in Nat
             /\ reference_count[q] \in Nat
             /\ username[q] \in Names \cup {NULL}
             /\ q \in Registered => One(q) = 1 /\ Live(q)
             /\ q \notin Registered => One(q) = 0
             /\ Holders(q)' = Holders(q)
  BY <1>1, HoldersFinite, RegisteredIsLive DEF One, IInv, TypeOK, Holders
<1>4. ASSUME NEW q \in Objects
      PROVE  /\ reference_count'[q] \in Nat
             /\ username'[q] \in Names \cup {NULL}
             /\ Cardinality(Holders(q)) > 0 => username'[q] = username[q]
             /\ IF username'[q] # NULL
                THEN /\ reference_count'[q] = Cardinality(Holders(q)) + leaked[q]
                     /\ reference_count'[q] > 0
                ELSE leaked[q] = 0
  <2>1. /\ reference_count'[q] = reference_count[q] - One(q)
        /\ username'[q] = IF q \in Registered /\ reference_count'[q] = 0
                          THEN NULL ELSE username[q]
    BY <1>1, <1>2
  <2>2. IF Live(q) THEN /\ reference_count[q] = Cardinality(Holders(q)) + One(q) + leaked[q]
                        /\ reference_count[q] > 0
        ELSE leaked[q] = 0
    BY DEF IInv, Counted
  <2>3. CASE q \in Registered
    BY <1>3, <2>1, <2>2, <2>3, NullAssumption DEF Live
  <2>4. CASE q \notin Registered
    BY <1>3, <2>1, <2>2, <2>4 DEF Live
  <2> QED BY <2>3, <2>4
<1>5. TypeOK'
  <2>1. max_players \in Nat
    BY DEF IInv, TypeOK
  <2>2. players' \in Seq(Objects \cup {NULL}) /\ Len(players') = max_players
    BY <1>1, <2>1
  <2>3. /\ username' \in [Objects -> Names \cup {NULL}]
        /\ reference_count' \in [Objects -> Nat]
    BY <1>1, <1>4
  <2> QED BY <1>1, <2>2, <2>3 DEF IInv, TypeOK
<1>6. Registered' = {}
  BY <1>1 DEF Registered
<1>7. Counted'
  <2>1. ASSUME NEW q \in Objects
        PROVE  One(q)' = 0 /\ leaked'[q] = leaked[q] /\ leaked[q] \in Nat
    BY <1>1, <1>3, <1>6 DEF One
  <2> QED BY <1>3, <1>4, <2>1 DEF Counted, Live
<1>8. HeldApart'
  <2>1. ASSUME NEW x \in Places, holds[x] # NULL
        PROVE  username'[holds[x]] = username[holds[x]]
    BY <1>4, <2>1, HolderCounted, RegisteredIsLive
  <2> QED BY <1>1, <2>1 DEF IInv, HeldApart, Same, Live
<1>9. /\ OpenRegistry' /\ HeldIsRegistered' /\ ClosedRegistry' /\ ThreadMatchesClient'
      /\ Listing'
  BY <1>1
     DEF IInv, OpenRegistry, HeldIsRegistered, ClosedRegistry, ThreadMatchesClient, Listing
<1> QED BY <1>1, <1>5, <1>6, <1>7, <1>8, <1>9 DEF IInv

\* A thread that leaves, registers or is unregistered, and the steps of main before
\* preg_fini, concern no player.
LEMMA OthersIInv ==
    ASSUME IInv,
           \/ Terminate \/ Emptied
           \/ \E t \in Threads : \/ Connect(t) \/ AllPlayers(t) \/ SkipClient(t)
                                \/ Unregister(t) \/ ShutdownOne(t)
    PROVE  /\ IInv'
           /\ UNCHANGED <<players, max_players, username, holds>>
           /\ Open' <=> Open
<1> USE DEF States, Phases, threads, registry
<1>1. CASE Terminate \/ Emptied
  <2>1. /\ UNCHANGED <<players, player_count, max_players, username, reference_count,
                       holds, leaked, client, lister, rest>>
        /\ main' \in Phases
        /\ Open' <=> Open
    BY <1>1 DEF Terminate, Emptied, Open
  <2>2. ThreadsTyped' /\ Listing'
    BY <2>1 DEF IInv, TypeOK, ThreadsTyped, Listing
  <2> QED BY <1>1, <2>1, <2>2, OnlyThreads
<1>2. ASSUME NEW t \in Threads, \/ Connect(t) \/ AllPlayers(t) \/ SkipClient(t)
                                \/ Unregister(t) \/ ShutdownOne(t)
      PROVE  /\ IInv'
             /\ UNCHANGED <<players, max_players, username, holds, main>>
             /\ Open' <=> Open
  <2>1. /\ UNCHANGED <<players, player_count, max_players, username, reference_count,
                       holds, leaked, main>>
        /\ Open' <=> Open
        /\ main' \in Phases
    BY <1>2
       DEF Connect, AllPlayers, SkipClient, Unregister, ShutdownOne, Open, IInv, TypeOK
  <2>2. ThreadsTyped' /\ Listing'
    <3>1. CASE Connect(t) \/ Unregister(t) \/ ShutdownOne(t)
      BY <3>1 DEF Connect, Unregister, ShutdownOne, IInv, TypeOK, ThreadsTyped, Listing
    <3>2. CASE AllPlayers(t)
      BY <3>2, NullAssumption
         DEF AllPlayers, ListEmpty, IInv, TypeOK, ThreadsTyped, Listing
    <3>3. CASE SkipClient(t)
      BY <3>3 DEF SkipClient, LookedAt, IInv, TypeOK, ThreadsTyped, Listing
    <3> QED BY <1>2, <3>1, <3>2, <3>3
  <2> QED BY <2>1, <2>2, OnlyThreads
<1> QED BY <1>1, <1>2

\* One reference of thread t, of its CLIENT or of its list is gone.
GivenBack(t) ==
    /\ UNCHANGED <<players, max_players, main>>
    /\ \A q \in Registered : username'[q] = username[q]
    /\ \/ ThreadLeaves(t) /\ holds' = [holds EXCEPT ![InThread(t)] = NULL]
       \/ holds' = [holds EXCEPT ![InClient(t)] = NULL]
       \/ \E u \in Threads : holds' = [holds EXCEPT ![InList(t, u)] = NULL]

\* The steps that give one reference back.
LEMMA DropStep ==
    ASSUME IInv, NEW t \in Threads,
           \/ ListNext(t) \/ ThreadLeaves(t) \/ ClientLogout(t)
           \/ ClientFreed(t) /\ holds[InClient(t)] # NULL
    PROVE  IInv' /\ GivenBack(t)
<1>1. CASE ListNext(t)
  <2>1. PICK u \in Threads : Drop(InList(t, u)) /\ UNCHANGED threads
    BY <1>1 DEF ListNext
  <2>2. UNCHANGED <<lister, rest>> /\ client' \in [Threads -> States]
    BY <2>1 DEF threads, IInv, TypeOK
  <2> QED BY <2>1, <2>2, PlaceOf, DropEffect DEF Drop, GivenBack
<1>2. CASE ThreadLeaves(t)
  <2>1. UNCHANGED <<lister, rest>> /\ client' \in [Threads -> States] /\ Drop(InThread(t))
    BY <1>2 DEF ThreadLeaves, threads, IInv, TypeOK
  <2>2. /\ holds' = [holds EXCEPT ![InThread(t)] = NULL]
        /\ UNCHANGED main
        /\ InThread(t) \in Places
    BY <2>1, PlaceOf DEF Drop
  <2> QED BY <1>2, <2>1, <2>2, DropEffect DEF GivenBack
<1>3. CASE ClientLogout(t) \/ (ClientFreed(t) /\ holds[InClient(t)] # NULL)
  <2>1. /\ UNCHANGED <<lister, rest>>
        /\ client' \in [Threads -> States]
        /\ Drop(InClient(t))
    BY <1>3 DEF ClientLogout, ClientFreed, IInv, TypeOK, States
  <2>2. /\ holds' = [holds EXCEPT ![InClient(t)] = NULL]
        /\ UNCHANGED main
        /\ InClient(t) \in Places
    BY <2>1, PlaceOf DEF Drop
  <2>3. /\ IInv'
        /\ UNCHANGED <<players, max_players>>
        /\ \A q \in Registered : username'[q] = username[q]
    BY <2>1, <2>2, DropEffect
  <2> QED BY <2>2, <2>3 DEF GivenBack
<1> QED BY <1>1, <1>2, <1>3

\* creg_shutdown_all frees a CLIENT that is not logged in.
LEMMA FreedIInv ==
    ASSUME IInv, NEW t \in Threads, ClientFreed(t), holds[InClient(t)] = NULL
    PROVE  /\ IInv'
           /\ UNCHANGED <<players, max_players, username, holds, main>>
<1>1. /\ UNCHANGED <<players, player_count, max_players, username, reference_count,
                     holds, leaked, lister, rest, main>>
      /\ client' \in [Threads -> States]
      /\ Open' <=> Open
      /\ main' \in Phases
  BY DEF ClientFreed, Drop, registry, Open, IInv, TypeOK, States
<1>2. ThreadsTyped' /\ Listing'
  BY <1>1 DEF IInv, TypeOK, ThreadsTyped, Listing
<1> QED BY <1>1, <1>2, OnlyThreads

\* The initial state has the invariant.
LEMMA InitIInv == Init => IInv
<1> SUFFICES ASSUME Init PROVE IInv
  OBVIOUS
<1>1. TypeOK
  <2>1. players \in Seq(Objects \cup {NULL}) /\ Len(players) = 0
    BY DEF Init
  <2>2. player_count \in 0..MaxPlayerCount
    BY BoundAssumption DEF Init
  <2> QED BY <2>1, <2>2 DEF Init, TypeOK, States, Phases
<1>2. Counted
  BY DEF Init, Counted, Live
<1>3. /\ \A x \in Places : holds[x] = NULL
      /\ 1..max_players = {}
  BY DEF Init
<1>4. /\ OpenRegistry /\ HeldIsRegistered /\ HeldApart /\ ClosedRegistry
      /\ ThreadMatchesClient /\ Listing
  BY <1>3, PlaceOf
     DEF Init, OpenRegistry, HeldIsRegistered, HeldApart, Same, ClosedRegistry,
         ThreadMatchesClient, Listing
<1> QED BY <1>1, <1>2, <1>4 DEF IInv

\* Every step keeps the invariant.
LEMMA NextIInv == IInv /\ [Next]_vars => IInv'
<1> SUFFICES ASSUME IInv, [Next]_vars PROVE IInv'
  OBVIOUS
<1>1. ASSUME NEW t \in Threads, NEW name \in Names, RegisterExisting(t, name) PROVE IInv'
  BY <1>1, RegisterExistingIInv
<1>2. ASSUME NEW t \in Threads, NEW name \in Names, NEW p \in Objects, RegisterNew(t, name, p)
      PROVE  IInv'
  BY <1>2, RegisterNewIInv
<1>3. ASSUME NEW t \in Threads, NEW name \in Names, NEW p \in Objects,
             RegisterNoSpace(t, name, p)
      PROVE  IInv'
  BY <1>3, RegisterNoSpaceIInv
<1>4. ASSUME NEW t \in Threads, ClientLogin(t) PROVE IInv'
  BY <1>4, ClientLoginIInv
<1>5. ASSUME NEW t \in Threads, ClientLoginRefused(t) PROVE IInv'
  BY <1>5, ClientLoginRefusedIInv
<1>6. ASSUME NEW t \in Threads, ListPlayer(t) PROVE IInv'
  BY <1>6, ListPlayerIInv
<1>7. ASSUME NEW t \in Threads, ListAbandoned(t) PROVE IInv'
  BY <1>7, ListAbandonedIInv
<1>8. ASSUME NEW t \in Threads, ListNext(t) \/ ThreadLeaves(t) \/ ClientLogout(t)
      PROVE  IInv'
  BY <1>8, DropStep
<1>9. ASSUME NEW t \in Threads, ClientFreed(t) PROVE IInv'
  BY <1>9, DropStep, FreedIInv
<1>10. ASSUME \/ Terminate \/ Emptied
              \/ \E t \in Threads : \/ Connect(t) \/ AllPlayers(t) \/ SkipClient(t)
                                   \/ Unregister(t) \/ ShutdownOne(t)
       PROVE  IInv'
  BY <1>10, OthersIInv
<1>11. CASE Fini
  BY <1>11, FiniIInv
<1>12. CASE UNCHANGED vars
  <2>1. /\ ThreadsTyped' /\ Listing'
        /\ Open' <=> Open
        /\ main' \in Phases
    BY <1>12 DEF IInv, TypeOK, vars, ThreadsTyped, Listing, Open
  <2> QED BY <1>12, <2>1, OnlyThreads DEF vars
<1> QED
  BY <1>1, <1>2, <1>3, <1>4, <1>5, <1>6, <1>7, <1>8, <1>9, <1>10, <1>11, <1>12 DEF Next, Step

-----------------------------------------------------------------------------
(***************************************************************************)
(* What follows from the invariant.                                        *)
(***************************************************************************)

\* The fields of the registry and of the players keep their types.
THEOREM TypeCorrect == Spec => []TypeOK
<1>1. IInv => TypeOK
  BY DEF IInv
<1> QED BY InitIInv, NextIInv, <1>1, PTL DEF Spec

\* A name never gets a second player, however many clients register it and however
\* often: player_count may run ahead of the array, it never falls behind it.
THEOREM NamesAreUnique == Spec => []OnePlayerPerName
<1>1. IInv => OnePlayerPerName
  <2> SUFFICES ASSUME IInv PROVE OnePlayerPerName
    OBVIOUS
  <2>1. \A i, j \in 1..max_players : Same(players[i], players[j]) => i = j
    <3>1. CASE ~Open
      BY <3>1 DEF IInv, ClosedRegistry, Same
    <3>2. CASE Open
      BY <3>2 DEF IInv, OpenRegistry, Same
    <3> QED BY <3>1, <3>2
  <2>2. \A x, y \in Places : Same(holds[x], holds[y]) => holds[x] = holds[y]
    BY DEF IInv, HeldApart
  <2> QED BY <2>1, <2>2 DEF OnePlayerPerName
<1> QED BY InitIInv, NextIInv, <1>1, PTL DEF Spec

\* Nothing refers to a freed player, and the count of every player is the number of
\* its holders, its entry in the registry and the references that failures lost.
THEOREM CountsAreExact == Spec => []CountIsExact
<1>1. IInv => CountIsExact
  <2> SUFFICES ASSUME IInv PROVE CountIsExact
    OBVIOUS
  <2>1. NoDangling
    BY RegisteredIsLive DEF NoDangling
  <2> QED BY <2>1 DEF IInv, Counted, One, CountIsExact
<1> QED BY InitIInv, NextIInv, <1>1, PTL DEF Spec

\* After preg_fini every player that is left has a holder, who will free it, or a failure
\* has leaked a reference to it.
THEOREM FiniFrees == Spec => []FiniFreesPlayers
<1>1. IInv => FiniFreesPlayers
  <2> SUFFICES ASSUME IInv, ~Open, NEW p \in Objects, Live(p), Holders(p) = {}
               PROVE  leaked[p] > 0
    BY DEF FiniFreesPlayers
  <2>1. Cardinality(Holders(p)) = 0
    BY FS_EmptySet
  <2>2. One(p) = 0
    BY RegisteredIsLive DEF One
  <2>3. leaked[p] \in Nat
    BY DEF IInv, TypeOK
  <2> QED BY <2>1, <2>2, <2>3 DEF IInv, Counted
<1> QED BY InitIInv, NextIInv, <1>1, PTL DEF Spec

-----------------------------------------------------------------------------
(***************************************************************************)
(* The registry keeps what Accounts promises.                              *)
(***************************************************************************)

\* The player of a name is the one registered under it.
PlayersOfNames ==
    \A name \in Names :
        /\ \A p \in Registered : username[p] = name => PlayerOf(name) = p
        /\ (\A p \in Registered : username[p] # name) => PlayerOf(name) = NULL
        /\ PlayerOf(name) # NULL => /\ PlayerOf(name) \in Registered
                                    /\ username[PlayerOf(name)] = name

\* A name stands for the one player registered under it.
LEMMA PlayerOfName == IInv => PlayersOfNames
<1> SUFFICES ASSUME IInv, NEW name \in Names
             PROVE  /\ \A p \in Registered : username[p] = name => PlayerOf(name) = p
                    /\ (\A p \in Registered : username[p] # name) => PlayerOf(name) = NULL
                    /\ PlayerOf(name) # NULL => /\ PlayerOf(name) \in Registered
                                                /\ username[PlayerOf(name)] = name
  BY DEF PlayersOfNames
<1> DEFINE named == {p \in Registered : username[p] = name}
<1>1. \A p, q \in named : p = q
  BY RegisteredOncePerName
<1>2. PlayerOf(name) = IF named = {} THEN NULL ELSE CHOOSE p \in named : TRUE
  BY DEF PlayerOf
<1>3. named # {} => (CHOOSE p \in named : TRUE) \in named
  OBVIOUS
<1> QED BY <1>1, <1>2, <1>3

\* ... in the next state too.
LEMMA PlayerOfNameNext == IInv' => PlayersOfNames'
  BY PlayerOfName, PTL

\* The accounts stay while the registered players and their names do.
LEMMA SameAccounts ==
    ASSUME IInv, IInv', Registered' = Registered,
           \A p \in Registered : username'[p] = username[p]
    PROVE  \A n \in Names : PlayerOf(n)' = PlayerOf(n)
<1> TAKE n \in Names
<1>1. CASE \E p \in Registered : username[p] = n
  BY <1>1, PlayerOfName, PlayerOfNameNext DEF PlayersOfNames
<1>2. CASE \A p \in Registered : username[p] # n
  BY <1>2, PlayerOfName, PlayerOfNameNext DEF PlayersOfNames
<1> QED BY <1>1, <1>2

\* A new player opens the account of its name and no other.
LEMMA AccountOpened ==
    ASSUME IInv, IInv', NEW name \in Names, NEW p \in Objects, p \notin Registered,
           \A q \in Registered : username[q] # name,
           Registered' = Registered \cup {p},
           username' = [username EXCEPT ![p] = name]
    PROVE  /\ PlayerOf(name) = NULL
           /\ \A m \in Names : PlayerOf(m) # p
           /\ \A m \in Names : PlayerOf(m)' = IF m = name THEN p ELSE PlayerOf(m)
<1>1. PlayerOf(name) = NULL
  BY PlayerOfName DEF PlayersOfNames
<1>2. ASSUME NEW m \in Names PROVE PlayerOf(m) # p
  BY PlayerOfName, NullAssumption DEF PlayersOfNames
<1>3. username'[p] = name /\ \A q \in Registered : username'[q] = username[q]
  BY RegisteredIsLive DEF IInv, TypeOK
<1>4. ASSUME NEW m \in Names
      PROVE  PlayerOf(m)' = IF m = name THEN p ELSE PlayerOf(m)
  <2>1. CASE m = name
    BY <1>3, <2>1, PlayerOfNameNext DEF PlayersOfNames
  <2>2. CASE m # name /\ \E q \in Registered : username[q] = m
    BY <1>3, <2>2, PlayerOfName, PlayerOfNameNext DEF PlayersOfNames
  <2>3. CASE m # name /\ \A q \in Registered : username[q] # m
    <3>1. \A q \in Registered' : username'[q] # m
      BY <1>3, <2>3
    <3> QED BY <2>3, <3>1, PlayerOfName, PlayerOfNameNext DEF PlayersOfNames
  <2> QED BY <2>1, <2>2, <2>3
<1> QED BY <1>1, <1>2, <1>4

\* The player a connection plays as: the one its thread holds, or its CLIENT.
UserOf(t) == IF holds[InThread(t)] # NULL THEN holds[InThread(t)] ELSE holds[InClient(t)]

\* A step that changes one thread's places changes the user of no other.
LEMMA OnlyOwnUser ==
    ASSUME TypeOK, NEW t \in Threads, NEW x \in {InThread(t), InClient(t)},
           NEW p, holds' = [holds EXCEPT ![x] = p]
    PROVE  /\ \A u \in Threads \ {t} : UserOf(u)' = UserOf(u)
           /\ x = InThread(t) => holds'[InThread(t)] = p /\ holds'[InClient(t)] = holds[InClient(t)]
           /\ x = InClient(t) => holds'[InClient(t)] = p /\ holds'[InThread(t)] = holds[InThread(t)]
<1>1. \A u \in Threads \ {t} : x # InThread(u) /\ x # InClient(u)
  BY DEF InThread, InClient
<1>2. \A u \in Threads : InThread(u) \in Places /\ InClient(u) \in Places
  BY PlaceOf
<1> QED BY <1>1, <1>2, PlaceOf DEF TypeOK, UserOf

\* A login, a refused login and the end of a connection, as the accounts see them.
LEMMA RegisterMapped ==
    ASSUME NEW t \in Threads, NEW n \in Names, NEW p \in Objects,
           Open, Open',
           UserOf(t) = NULL, UserOf(t)' = p,
           \A u \in Threads \ {t} : UserOf(u)' = UserOf(u),
           PlayerOf(n)' = p,
           \/ \A m \in Names : PlayerOf(m)' = PlayerOf(m)
           \/ /\ PlayerOf(n) = NULL
              /\ \A m \in Names : PlayerOf(m) # p
              /\ \A m \in Names : PlayerOf(m)' = IF m = n THEN p ELSE PlayerOf(m)
    PROVE  Promise!Register(t, n)
<1> DEFINE account == [m \in Names |-> PlayerOf(m)]
           user == [u \in Threads |-> UserOf(u)]
<1>1. /\ user[t] = NULL
      /\ account'[n] = p
      /\ user' = [user EXCEPT ![t] = p]
  OBVIOUS
<1>2. \/ account' = account
      \/ /\ account[n] = NULL
         /\ \A m \in Names : account[m] # p
         /\ account' = [account EXCEPT ![n] = p]
  OBVIOUS
<1>3. p # NULL
  BY NullAssumption
<1> HIDE DEF account, user
<1>4. /\ Open
      /\ Open' = Open
      /\ user[t] = NULL
      /\ \/ UNCHANGED account
         \/ /\ account[n] = NULL
            /\ \E q \in Objects : /\ \A m \in Names : account[m] # q
                                  /\ account' = [account EXCEPT ![n] = q]
      /\ account'[n] # NULL
      /\ user' = [user EXCEPT ![t] = account'[n]]
  BY <1>1, <1>2, <1>3
<1> QED BY <1>4 DEF Promise!Register, account, user, UserOf

\* The end of a login is a Leave of the abstract specification.
LEMMA LeaveMapped ==
    ASSUME NEW t \in Threads, UserOf(t) # NULL, UserOf(t)' = NULL,
           \A u \in Threads \ {t} : UserOf(u)' = UserOf(u),
           \A m \in Names : PlayerOf(m)' = PlayerOf(m), Open' = Open
    PROVE  Promise!Leave(t)
<1> DEFINE account == [m \in Names |-> PlayerOf(m)]
           user == [u \in Threads |-> UserOf(u)]
<1>1. user[t] # NULL
  OBVIOUS
<1>2. user' = [user EXCEPT ![t] = NULL]
  <2>1. \A u \in Threads : user'[u] = IF u = t THEN NULL ELSE user[u]
    OBVIOUS
  <2> QED BY <2>1
<1>3. account' = account
  OBVIOUS
<1> QED BY <1>1, <1>2, <1>3 DEF Promise!Leave, UserOf

\* A step that changes neither accounts nor logins stutters.
LEMMA StutterMapped ==
    ASSUME \A u \in Threads : UserOf(u)' = UserOf(u),
           \A m \in Names : PlayerOf(m)' = PlayerOf(m), Open' = Open
    PROVE  UNCHANGED Promise!vars
  BY DEF Promise!vars, UserOf

\* A user keeps its account from login to login, and the account of a name outlives
\* everybody who uses it: the array, the counts and the search keep Accounts.
THEOREM RegistryImplementsAccounts == Spec => ImplementsAccounts
<1>1. Init => Promise!Init
  <2> SUFFICES ASSUME Init PROVE Promise!Init
    OBVIOUS
  <2>1. \A m \in Names : PlayerOf(m) = NULL
    <3>1. Registered = {}
      BY DEF Init, Registered
    <3> QED BY <3>1 DEF PlayerOf
  <2>2. \A u \in Threads : UserOf(u) = NULL
    BY PlaceOf DEF Init, UserOf
  <2>3. Open
    BY DEF Init, Open
  <2> QED BY <2>1, <2>2, <2>3 DEF Promise!Init, UserOf
<1>2. IInv /\ IInv' /\ [Next]_vars => [Promise!Next]_Promise!vars
  <2> SUFFICES ASSUME IInv, IInv', [Next]_vars PROVE [Promise!Next]_Promise!vars
    OBVIOUS
  <2>1. ASSUME NEW t \in Threads, NEW name \in Names, RegisterExisting(t, name)
        PROVE  Promise!Register(t, name)
    <3> DEFINE first == CHOOSE i \in Matches(name) : \A j \in Matches(name) : i <= j
               p == players[first]
    <3>1. /\ Open /\ Open'
          /\ holds[InThread(t)] = NULL
          /\ holds[InClient(t)] = NULL
          /\ holds' = [holds EXCEPT ![InThread(t)] = p]
          /\ UNCHANGED <<players, max_players, username>>
      BY <2>1 DEF RegisterExisting, LoggingIn, Open
    <3>2. p \in Registered /\ p \in Objects /\ username[p] = name
      BY <2>1, <3>1, FirstMatch DEF RegisterExisting
    <3> HIDE DEF first, p
    <3>3. Registered' = Registered
      BY <3>1 DEF Registered
    <3>4. /\ \A m \in Names : PlayerOf(m)' = PlayerOf(m)
          /\ PlayerOf(name) = p
      BY <3>1, <3>2, <3>3, SameAccounts, PlayerOfName DEF PlayersOfNames
    <3>5. /\ UserOf(t) = NULL
          /\ UserOf(t)' = p
          /\ \A u \in Threads \ {t} : UserOf(u)' = UserOf(u)
      BY <3>1, <3>2, OnlyOwnUser, NullAssumption DEF UserOf, IInv
    <3> QED BY <3>1, <3>2, <3>4, <3>5, RegisterMapped
  <2>2. ASSUME NEW t \in Threads, NEW name \in Names, NEW p \in Objects,
               RegisterNew(t, name, p)
        PROVE  Promise!Register(t, name)
    <3>1. /\ Open /\ Open'
          /\ holds[InThread(t)] = NULL
          /\ holds[InClient(t)] = NULL
          /\ Matches(name) = {}
          /\ ~Live(p)
          /\ username' = [username EXCEPT ![p] = name]
          /\ holds' = [holds EXCEPT ![InThread(t)] = p]
          /\ Store(p)
          /\ player_count' = player_count + 1
      BY <2>2 DEF RegisterNew, LoggingIn, Open
    <3>2. /\ p \notin Registered
          /\ \A q \in Registered : username[q] # name
          /\ Registered' = Registered \cup {p}
      BY <3>1, RegisteredIsLive, NoMatch, StoreAppends
    <3>3. /\ PlayerOf(name) = NULL
          /\ \A m \in Names : PlayerOf(m) # p
          /\ \A m \in Names : PlayerOf(m)' = IF m = name THEN p ELSE PlayerOf(m)
      BY <3>1, <3>2, AccountOpened
    <3>4. /\ UserOf(t) = NULL
          /\ UserOf(t)' = p
          /\ \A u \in Threads \ {t} : UserOf(u)' = UserOf(u)
      BY <3>1, OnlyOwnUser, NullAssumption DEF UserOf, IInv
    <3> QED BY <3>1, <3>3, <3>4, RegisterMapped
  <2>3. ASSUME NEW t \in Threads, NEW name \in Names, NEW p \in Objects,
               RegisterNoSpace(t, name, p)
        PROVE  UNCHANGED Promise!vars
    <3>1. /\ Registered' = Registered
          /\ UNCHANGED holds
          /\ Open' = Open
      BY <2>3 DEF RegisterNoSpace, registry, Registered, Open
    <3>2. \A q \in Registered : username'[q] = username[q]
      BY <2>3, RegisteredIsLive DEF RegisterNoSpace, IInv, TypeOK
    <3>3. \A u \in Threads : UserOf(u)' = UserOf(u)
      BY <3>1 DEF UserOf
    <3> QED BY <3>1, <3>2, <3>3, SameAccounts, StutterMapped
  <2>4. ASSUME UNCHANGED <<players, max_players, username>>
        PROVE  \A m \in Names : PlayerOf(m)' = PlayerOf(m)
    <3>1. Registered' = Registered
      BY <2>4 DEF Registered
    <3> QED BY <2>4, <3>1, SameAccounts
  <2>5. ASSUME NEW t \in Threads, ClientLogin(t)
        PROVE  UNCHANGED Promise!vars
    <3>1. /\ holds[InThread(t)] # NULL
          /\ holds' = [holds EXCEPT ![InClient(t)] = holds[InThread(t)]]
          /\ UNCHANGED <<players, max_players, username>>
          /\ Open' = Open
      BY <2>5 DEF ClientLogin, registry, Open
    <3>2. \A u \in Threads : UserOf(u)' = UserOf(u)
      BY <3>1, OnlyOwnUser DEF UserOf, IInv
    <3> QED BY <2>4, <3>1, <3>2, StutterMapped
  <2>6. ASSUME NEW t \in Threads, ClientLoginRefused(t)
        PROVE  Promise!Leave(t)
    <3>1. /\ holds[InThread(t)] # NULL
          /\ holds[InClient(t)] = NULL
          /\ holds' = [holds EXCEPT ![InThread(t)] = NULL]
          /\ UNCHANGED <<players, max_players, username>>
          /\ Open' = Open
      BY <2>6 DEF ClientLoginRefused, registry, Open
    <3>2. /\ UserOf(t) # NULL
          /\ UserOf(t)' = NULL
          /\ \A u \in Threads \ {t} : UserOf(u)' = UserOf(u)
      BY <3>1, OnlyOwnUser DEF UserOf, IInv
    <3> QED BY <2>4, <3>1, <3>2, LeaveMapped
  <2>7. ASSUME NEW v \in Threads, NEW w \in Threads, NEW p,
               holds' = [holds EXCEPT ![InList(v, w)] = p]
        PROVE  \A u \in Threads : UserOf(u)' = UserOf(u)
    <3>1. \A u \in Threads : /\ InThread(u) # InList(v, w) /\ InThread(u) \in Places
                             /\ InClient(u) # InList(v, w) /\ InClient(u) \in Places
      BY PlaceOf DEF InThread, InClient, InList
    <3> QED BY <2>7, <3>1 DEF UserOf, IInv, TypeOK
  <2>8. ASSUME NEW t \in Threads, ListPlayer(t) \/ ListAbandoned(t)
        PROVE  UNCHANGED Promise!vars
    <3>1. UNCHANGED <<players, max_players, username>> /\ Open' = Open
      BY <2>8 DEF ListPlayer, ListAbandoned, registry, Open
    <3>2. \A u \in Threads : UserOf(u)' = UserOf(u)
      <4>1. CASE ListPlayer(t)
        <5>1. lister \in Threads
          BY <4>1 DEF ListPlayer, IInv, TypeOK, Listing
        <5> QED BY <2>7, <4>1, <5>1 DEF ListPlayer
      <4>2. CASE ListAbandoned(t)
        <5>1. \A u, v, w \in Threads : InThread(u) # InList(v, w) /\ InClient(u) # InList(v, w)
          BY DEF InThread, InClient, InList
        <5>2. \A u \in Threads : /\ holds'[InThread(u)] = holds[InThread(u)]
                                 /\ holds'[InClient(u)] = holds[InClient(u)]
          BY <4>2, <5>1, PlaceOf DEF ListAbandoned
        <5> QED BY <5>2 DEF UserOf
      <4> QED BY <2>8, <4>1, <4>2
    <3> QED BY <2>4, <3>1, <3>2, StutterMapped
  <2>9. ASSUME NEW t \in Threads,
               \/ ListNext(t) \/ ThreadLeaves(t) \/ ClientLogout(t)
               \/ ClientFreed(t) /\ holds[InClient(t)] # NULL
        PROVE  Promise!Leave(t) \/ UNCHANGED Promise!vars
    <3>1. /\ UNCHANGED <<players, max_players>>
          /\ Open' = Open
          /\ \A q \in Registered : username'[q] = username[q]
      BY <2>9, DropStep DEF GivenBack, Open
    <3>2. \A m \in Names : PlayerOf(m)' = PlayerOf(m)
      <4>1. Registered' = Registered
        BY <3>1 DEF Registered
      <4> QED BY <3>1, <4>1, SameAccounts
    <3>3. CASE \A u \in Threads : UserOf(u)' = UserOf(u)
      BY <3>1, <3>2, <3>3, StutterMapped
    <3>4. CASE \E u \in Threads : holds' = [holds EXCEPT ![InList(t, u)] = NULL]
      BY <2>7, <3>3, <3>4
    <3>5. CASE holds' = [holds EXCEPT ![InThread(t)] = NULL] /\ ThreadLeaves(t)
      <4>1. holds[InThread(t)] = holds[InClient(t)]
        BY <3>5 DEF ThreadLeaves, LoggedIn, IInv, ThreadMatchesClient
      <4>2. \A u \in Threads : UserOf(u)' = UserOf(u)
        BY <3>5, <4>1, OnlyOwnUser DEF UserOf, IInv
      <4> QED BY <3>3, <4>2
    <3>6. CASE holds' = [holds EXCEPT ![InClient(t)] = NULL]
      <4>1. /\ \A u \in Threads \ {t} : UserOf(u)' = UserOf(u)
            /\ holds'[InClient(t)] = NULL
            /\ holds'[InThread(t)] = holds[InThread(t)]
        BY <3>6, OnlyOwnUser DEF IInv
      <4>2. CASE UserOf(t)' = UserOf(t)
        BY <3>3, <4>1, <4>2
      <4>3. CASE UserOf(t)' # UserOf(t)
        <5>1. UserOf(t) # NULL /\ UserOf(t)' = NULL
          BY <4>1, <4>3 DEF UserOf
        <5> QED BY <3>1, <3>2, <4>1, <5>1, LeaveMapped
      <4> QED BY <4>2, <4>3
    <3> QED BY <2>9, <3>4, <3>5, <3>6, DropStep DEF GivenBack
  <2>10. ASSUME \/ Terminate \/ Emptied
                \/ \E t \in Threads : \/ Connect(t) \/ AllPlayers(t) \/ SkipClient(t)
                                     \/ Unregister(t) \/ ShutdownOne(t)
         PROVE  UNCHANGED Promise!vars
    <3>1. UNCHANGED <<players, max_players, username, holds>> /\ (Open' <=> Open)
      BY <2>10, OthersIInv
    <3>2. \A u \in Threads : UserOf(u)' = UserOf(u)
      BY <3>1 DEF UserOf
    <3>3. Open' = Open
      BY <3>1 DEF Open
    <3> QED BY <2>4, <3>1, <3>2, <3>3, StutterMapped
  <2>11. ASSUME NEW t \in Threads, ClientFreed(t), holds[InClient(t)] = NULL
         PROVE  UNCHANGED Promise!vars
    <3>1. UNCHANGED <<players, max_players, username, holds>> /\ Open' = Open
      BY <2>11, FreedIInv DEF Open
    <3>2. \A u \in Threads : UserOf(u)' = UserOf(u)
      BY <3>1 DEF UserOf
    <3> QED BY <2>4, <3>1, <3>2, StutterMapped
  <2>12. CASE Fini
    <3>1. UNCHANGED holds /\ Open /\ ~Open'
      BY <2>12 DEF Fini, Open
    <3>2. \A m \in Names : PlayerOf(m)' = NULL
      BY <2>12, FiniIInv, PlayerOfNameNext DEF PlayersOfNames
    <3>3. \A u \in Threads : UserOf(u)' = UserOf(u)
      BY <3>1 DEF UserOf
    <3>4. Promise!Close
      BY <3>1, <3>2, <3>3 DEF Promise!Close, UserOf
    <3> QED BY <3>4 DEF Promise!Next
  <2>13. CASE UNCHANGED vars
    <3>1. UNCHANGED <<players, max_players, username, holds>> /\ Open' = Open
      BY <2>13 DEF vars, Open
    <3>2. \A u \in Threads : UserOf(u)' = UserOf(u)
      BY <3>1 DEF UserOf
    <3> QED BY <2>4, <3>1, <3>2, StutterMapped
  <2> QED BY <2>1, <2>2, <2>3, <2>5, <2>6, <2>8, <2>9, <2>10, <2>11, <2>12, <2>13
          DEF Next, Step, Promise!Next
<1> QED BY InitIInv, NextIInv, <1>1, <1>2, PTL DEF Spec, ImplementsAccounts, Promise!Spec
=============================================================================
