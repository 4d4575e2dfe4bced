------------------------ MODULE ClientRegistry_proofs ------------------------
(* Theorems about ClientRegistry, for every set of connections and every size *)
(* of the registry and of the table of descriptors.                           *)
EXTENDS ClientRegistry, FiniteSetTheorems, TLAPS

(***************************************************************************)
(* The inductive invariant.                                                *)
(***************************************************************************)
PcOK == pc \in [Conns -> {"none", "accepted", "serving", "unregister", "unlock",
                          "closing", "gone"}]

Connected == {"accepted", "serving", "unregister", "unlock", "closing"}

\* A descriptor belongs to one connection from accept to close.
DescriptorsOwned ==
    \A c \in Conns : pc[c] \in Connected
        => client_fd[c] \in Fds /\ open[client_fd[c]] = c

InTable(c) == \E s \in Slots : clients[s] = c

\* A client sits in one slot, and only between creg_register and creg_unregister.
SlotsOwned ==
    /\ \A s \in Slots : clients[s] # NULL => pc[clients[s]] \in {"serving", "unregister"}
    /\ \A s, u \in Slots : clients[s] # NULL /\ clients[s] = clients[u] => s = u

CountAgrees == client_thread_counts = Cardinality(Occupied)

FdAgrees == \A f \in Fds : fd[f] = 1 <=> \E s \in Occupied : client_fd[clients[s]] = f

\* Until creg_shutdown_all runs, a client that is served is in the table.
ServedIsInTable ==
    shutdown = -1 =>
        \A c \in Conns : pc[c] \in {"serving", "unregister"} => InTable(c)

UsersOf(c) == {d \in Conns : target[d] = c}

\* The references to a client are the table's and those of the threads that have
\* looked it up.
ReferencesCounted ==
    \A c \in Conns :
        /\ IsFiniteSet(UsersOf(c))
        /\ reference_count[c] = Cardinality(UsersOf(c)) + (IF InTable(c) THEN 1 ELSE 0)
        /\ pc[c] \in {"none", "accepted"} => UsersOf(c) = {}

IInv == /\ TypeOK
        /\ PcOK
        /\ DescriptorsOwned
        /\ SlotsOwned
        /\ CountAgrees
        /\ FdAgrees
        /\ ServedIsInTable
        /\ ReferencesCounted

-----------------------------------------------------------------------------
(***************************************************************************)
(* Searching the arrays.                                                   *)
(***************************************************************************)

\* A search that goes up from 0 finds the lowest free index when there is one.
LEMMA LowestOfIsLowest ==
    ASSUME NEW S \in SUBSET Nat, S # {}
    PROVE  LowestOf(S) \in S /\ \A j \in S : LowestOf(S) <= j
<1>1. \E i \in S : \A j \in S : i <= j
  <2>1. IsWellFoundedOn(OpToRel(<, Nat), Nat)
    BY NatLessThanWellFounded
  <2>2. PICK i \in S : \A j \in S : ~ (<<j, i>> \in OpToRel(<, Nat))
    BY <2>1, WFMin
  <2>3. \A j \in S : ~(j < i)
    BY <2>2 DEF OpToRel
  <2> QED BY <2>3
<1> QED BY <1>1 DEF LowestOf

\* The slots of the table: a finite set of numbers, which are descriptors too.
LEMMA SlotsFinite ==
    /\ IsFiniteSet(Slots)
    /\ Cardinality(Slots) = MAX_CLIENTS
    /\ Slots \subseteq Nat
    /\ Slots \subseteq Fds
    /\ Fds \subseteq Nat
<1>1. MAX_CLIENTS - 1 \in Int /\ 0 <= MAX_CLIENTS - 1
  BY SizeAssumption
<1>2. IsFiniteSet(Slots) /\ Cardinality(Slots) = MAX_CLIENTS
  BY <1>1, FS_Interval, SizeAssumption DEF Slots
<1> QED BY <1>2, SizeAssumption DEF Slots, Fds

\* The table has at most MAX_CLIENTS clients, and that many only when it is full.
LEMMA OccupiedFinite ==
    /\ IsFiniteSet(Occupied)
    /\ Cardinality(Occupied) \in 0..MAX_CLIENTS
    /\ Cardinality(Occupied) = MAX_CLIENTS => Occupied = Slots
<1>1. Occupied \in SUBSET Slots
  BY DEF Occupied
<1>2. /\ IsFiniteSet(Occupied)
      /\ Cardinality(Occupied) <= Cardinality(Slots)
      /\ Cardinality(Slots) = Cardinality(Occupied) => Slots = Occupied
  BY <1>1, SlotsFinite, FS_Subset
<1>3. Cardinality(Occupied) \in Nat
  BY <1>2, FS_CardinalityType
<1> QED BY <1>2, <1>3, SlotsFinite, SizeAssumption

-----------------------------------------------------------------------------
(***************************************************************************)
(* What the invariant says of one connection.                              *)
(***************************************************************************)

\* Two connections that are connected have different descriptors.
LEMMA DescriptorIsOnes ==
    ASSUME IInv, NEW c \in Conns, NEW d \in Conns, pc[c] \in Connected, pc[d] \in Connected,
           client_fd[c] = client_fd[d]
    PROVE  c = d
  BY DEF IInv, DescriptorsOwned

\* A slot holds a connected client, in no other slot, with a registered descriptor.
LEMMA ClientOfSlot ==
    ASSUME IInv, NEW s \in Slots, clients[s] # NULL
    PROVE  /\ clients[s] \in Conns
           /\ pc[clients[s]] \in {"serving", "unregister"}
           /\ pc[clients[s]] \in Connected
           /\ client_fd[clients[s]] \in Fds
           /\ fd[client_fd[clients[s]]] = 1
           /\ InTable(clients[s])
<1>1. /\ clients[s] \in Conns
      /\ pc[clients[s]] \in {"serving", "unregister"}
  BY DEF IInv, TypeOK, SlotsOwned
<1>2. pc[clients[s]] \in Connected /\ client_fd[clients[s]] \in Fds
  BY <1>1 DEF Connected, IInv, DescriptorsOwned
<1>3. fd[client_fd[clients[s]]] = 1
  BY <1>2 DEF IInv, FdAgrees, Occupied
<1> QED BY <1>1, <1>2, <1>3 DEF InTable

\* A registered descriptor is the descriptor of a client in the table.
LEMMA SlotOfConn ==
    ASSUME IInv, NEW c \in Conns, pc[c] \in Connected
    PROVE  /\ fd[client_fd[c]] = 1 <=> InTable(c)
           /\ SlotsOf(c) = {s \in Slots : clients[s] = c}
           /\ \A s \in Slots : clients[s] = c => SlotsOf(c) = {s}
           /\ ~InTable(c) => SlotsOf(c) = {}
<1>1. c # NULL
  BY NullAssumption
<1>2. \A s \in Slots : clients[s] # NULL /\ client_fd[clients[s]] = client_fd[c]
                          <=> clients[s] = c
  BY <1>1, ClientOfSlot, DescriptorIsOnes
<1>3. SlotsOf(c) = {s \in Slots : clients[s] = c}
  BY <1>2 DEF SlotsOf
<1>4. client_fd[c] \in Fds
  BY DEF IInv, DescriptorsOwned
<1>5. fd[client_fd[c]] = 1 <=> InTable(c)
  BY <1>1, <1>2, <1>4 DEF IInv, FdAgrees, Occupied, InTable
<1>6. \A s \in Slots : clients[s] = c => SlotsOf(c) = {s}
  BY <1>1, <1>3 DEF IInv, SlotsOwned
<1> QED BY <1>3, <1>5, <1>6 DEF InTable

\* creg_unregister takes the client out of its slot, out of the count and out of the
\* descriptors, and drops one reference; it does nothing to a client that is not there.
LEMMA UnregisterEffectIs ==
    ASSUME IInv, NEW c \in Conns, pc[c] \in Connected, UnregisterEffect(c)
    PROVE  \/ /\ ~InTable(c)
              /\ UNCHANGED <<clients, fd, client_thread_counts, semaphore, reference_count>>
           \/ /\ InTable(c)
              /\ clients' = [s \in Slots |-> IF clients[s] = c THEN NULL ELSE clients[s]]
              /\ Cardinality(Occupied') = Cardinality(Occupied) - 1
              /\ client_thread_counts' = client_thread_counts - 1
              /\ fd' = [fd EXCEPT ![client_fd[c]] = -1]
              /\ reference_count' = [reference_count EXCEPT ![c] = @ - 1]
              /\ semaphore' \in Nat
<1>1. CASE ~InTable(c)
  BY <1>1, SlotOfConn DEF UnregisterEffect, table
<1>2. CASE InTable(c)
  <2>1. PICK s \in Slots : clients[s] = c
    BY <1>2 DEF InTable
  <2>2. SlotsOf(c) = {s} /\ fd[client_fd[c]] = 1
    BY <1>2, <2>1, SlotOfConn
  <2>3. LowestOf(SlotsOf(c)) = s
    <3>1. s <= s
      BY SlotsFinite
    <3> QED BY <2>2, <3>1 DEF LowestOf
  <2>4. /\ clients' = [clients EXCEPT ![s] = NULL]
        /\ client_thread_counts' = client_thread_counts - 1
        /\ fd' = [fd EXCEPT ![client_fd[c]] = -1]
        /\ reference_count' = [reference_count EXCEPT ![c] = @ - 1]
        /\ semaphore' = semaphore + 1 \/ semaphore' = semaphore
    BY <2>2, <2>3 DEF UnregisterEffect
  <2>5. clients' = [u \in Slots |-> IF clients[u] = c THEN NULL ELSE clients[u]]
    BY <2>1, <2>2, <2>4, SlotOfConn DEF IInv, TypeOK
  <2>6. Cardinality(Occupied') = Cardinality(Occupied) - 1
    <3>1. Occupied' = Occupied \ {s}
      BY <2>4 DEF Occupied, IInv, TypeOK
    <3>2. s \in Occupied
      BY <2>1, NullAssumption DEF Occupied
    <3> QED BY <3>1, <3>2, OccupiedFinite, FS_RemoveElement
  <2>7. semaphore' \in Nat
    BY <2>4 DEF IInv, TypeOK
  <2> QED BY <1>2, <2>4, <2>5, <2>6, <2>7
<1> QED BY <1>1, <1>2

-----------------------------------------------------------------------------
(***************************************************************************)
(* Every step keeps the invariant.                                         *)
(***************************************************************************)

\* Whoever unregisters a client, the service thread or creg_shutdown_all, leaves the
\* records in agreement.
LEMMA UnregisterKeeps ==
    ASSUME IInv, NEW c \in Conns, pc[c] \in Connected, UnregisterEffect(c),
           UNCHANGED <<open, client_fd, target, waiting_shutdown>>,
           mutex' \in Conns \cup {NULL}, shutdown' \in -1..FdLimit,
           found' \in BOOLEAN, victim' \in Conns \cup {NULL},
           \/ pc' = pc /\ shutdown' # -1
           \/ pc' = [pc EXCEPT ![c] = "unlock"] /\ shutdown' = shutdown
    PROVE  IInv'
<1>1. /\ \A s \in Slots : clients'[s] = IF clients[s] = c THEN NULL ELSE clients[s]
      /\ clients' \in [Slots -> Conns \cup {NULL}]
      /\ client_thread_counts' = Cardinality(Occupied')
      /\ fd' = IF InTable(c) THEN [fd EXCEPT ![client_fd[c]] = -1] ELSE fd
      /\ reference_count' = IF InTable(c) THEN [reference_count EXCEPT ![c] = @ - 1]
                            ELSE reference_count
      /\ semaphore' \in Nat
  <2>1. CASE ~InTable(c)
    <3>1. UNCHANGED <<clients, fd, client_thread_counts, semaphore, reference_count>>
      BY <2>1, UnregisterEffectIs
    <3>2. Occupied' = Occupied
      BY <3>1 DEF Occupied
    <3> QED BY <2>1, <3>1, <3>2 DEF InTable, IInv, TypeOK, CountAgrees
  <2>2. CASE InTable(c)
    BY <2>2, UnregisterEffectIs DEF IInv, TypeOK, CountAgrees
  <2> QED BY <2>1, <2>2
<1>2. \A d \in Conns : InTable(d)' <=> InTable(d) /\ d # c
  BY <1>1, NullAssumption DEF InTable
<1>3. /\ PcOK'
      /\ \A d \in Conns \ {c} : pc'[d] = pc[d]
      /\ pc'[c] \in Connected
      /\ pc'[c] \notin {"none", "accepted"} \/ pc'[c] = pc[c]
  BY DEF IInv, PcOK, Connected
<1>4. client_fd[c] \in Fds /\ open[client_fd[c]] = c
  BY DEF IInv, DescriptorsOwned
<1>5. DescriptorsOwned'
  BY <1>3, <1>4 DEF IInv, DescriptorsOwned
<1>6. SlotsOwned'
  BY <1>1, <1>3 DEF IInv, TypeOK, SlotsOwned
<1>7. ReferencesCounted'
  <2> SUFFICES ASSUME NEW d \in Conns
               PROVE  /\ IsFiniteSet(UsersOf(d))
                      /\ reference_count'[d] = Cardinality(UsersOf(d))
                                                  + (IF InTable(d)' THEN 1 ELSE 0)
                      /\ pc'[d] \in {"none", "accepted"} => UsersOf(d) = {}
    <3>1. \A d \in Conns : UsersOf(d)' = UsersOf(d)
      BY DEF UsersOf
    <3> QED BY <3>1 DEF ReferencesCounted
  <2>1. reference_count'[d] = IF d = c /\ InTable(c) THEN reference_count[d] - 1
                              ELSE reference_count[d]
    BY <1>1 DEF IInv, TypeOK
  <2>2. Cardinality(UsersOf(d)) \in Nat /\ IsFiniteSet(UsersOf(d))
    BY FS_CardinalityType DEF IInv, ReferencesCounted
  <2> QED BY <1>2, <1>3, <2>1, <2>2 DEF IInv, ReferencesCounted
<1>8. \A d \in Conns : reference_count'[d] \in Nat
  <2> TAKE d \in Conns
  <2>1. IsFiniteSet(UsersOf(d)) /\ UsersOf(d)' = UsersOf(d)
    BY DEF UsersOf, IInv, ReferencesCounted
  <2>2. Cardinality(UsersOf(d)) \in Nat
    BY <2>1, FS_CardinalityType
  <2>3. reference_count'[d] = Cardinality(UsersOf(d)) + (IF InTable(d)' THEN 1 ELSE 0)
    BY <1>7, <2>1 DEF ReferencesCounted
  <2> QED BY <2>2, <2>3
<1>9. FdAgrees'
  <2> SUFFICES ASSUME NEW f \in Fds
               PROVE  fd'[f] = 1 <=> \E s \in Slots : clients'[s] # NULL
                                                      /\ client_fd[clients'[s]] = f
    BY DEF FdAgrees, Occupied
  <2>1. fd[f] = 1 <=> \E s \in Slots : clients[s] # NULL /\ client_fd[clients[s]] = f
    BY DEF IInv, FdAgrees, Occupied
  <2>2. CASE ~InTable(c)
    BY <1>1, <2>1, <2>2 DEF InTable
  <2>3. CASE InTable(c) /\ f = client_fd[c]
    <3>1. fd'[f] = -1
      BY <1>1, <2>3 DEF IInv, TypeOK
    <3>2. \A s \in Slots : clients[s] # NULL /\ client_fd[clients[s]] = f => clients[s] = c
      BY <2>3, ClientOfSlot, DescriptorIsOnes
    <3> QED BY <1>1, <3>1, <3>2
  <2>4. CASE InTable(c) /\ f # client_fd[c]
    <3>1. fd'[f] = fd[f]
      BY <1>1, <2>4 DEF IInv, TypeOK
    <3> QED BY <1>1, <2>1, <2>4, <3>1, NullAssumption
  <2> QED BY <2>2, <2>3, <2>4
<1>10. ServedIsInTable'
  BY <1>2, <1>3 DEF IInv, PcOK, ServedIsInTable
<1>11. TypeOK'
  <2>1. client_thread_counts' \in 0..MAX_CLIENTS
    <3>1. (Cardinality(Occupied) \in 0..MAX_CLIENTS)'
      BY OccupiedFinite, PTL
    <3> QED BY <1>1, <3>1
  <2>2. fd' \in [Fds -> {-1, 1}]
    BY <1>1 DEF IInv, TypeOK
  <2>3. reference_count' \in [Conns -> Nat]
    BY <1>1, <1>8 DEF IInv, TypeOK
  <2> QED BY <1>1, <2>1, <2>2, <2>3 DEF IInv, TypeOK
<1> QED BY <1>1, <1>3, <1>5, <1>6, <1>7, <1>9, <1>10, <1>11 DEF IInv, CountAgrees

\* A step of a connection's thread that touches neither the table nor the references.
LEMMA OnlyProgress ==
    ASSUME IInv, NEW c \in Conns,
           NEW from \in {"accepted", "serving", "unlock", "closing"},
           NEW to \in {"unregister", "closing", "gone"},
           pc[c] = from, pc' = [pc EXCEPT ![c] = to],
           UNCHANGED <<clients, fd, client_thread_counts, signals, client_fd,
                       reference_count, target, shutdown, found, victim>>,
           mutex' \in Conns \cup {NULL},
           \/ open' = open
           \/ to = "gone" /\ open' = [open EXCEPT ![client_fd[c]] = NULL],
           InTable(c) => from = "serving" /\ to = "unregister",
           to = "unregister" => from = "serving"
    PROVE  IInv'
<1>1. /\ Occupied' = Occupied
      /\ \A d \in Conns : (InTable(d)' <=> InTable(d)) /\ UsersOf(d)' = UsersOf(d)
  BY DEF Occupied, InTable, UsersOf
<1>2. PcOK'
  BY DEF IInv, PcOK
<1>3. \A d \in Conns \ {c} : pc'[d] = pc[d]
  BY DEF IInv, PcOK
<1>4. pc'[c] = to
  BY DEF IInv, PcOK
<1>5. c # NULL
  BY NullAssumption
<1>6. DescriptorsOwned'
  <2> SUFFICES ASSUME NEW d \in Conns, pc'[d] \in Connected
               PROVE  client_fd[d] \in Fds /\ open'[client_fd[d]] = d
    BY DEF DescriptorsOwned
  <2>1. pc[d] \in Connected
    BY <1>3, <1>4 DEF Connected
  <2>2. client_fd[d] \in Fds /\ open[client_fd[d]] = d
    BY <2>1 DEF IInv, DescriptorsOwned
  <2>3. CASE open' = open
    BY <2>2, <2>3
  <2>4. CASE to = "gone" /\ open' = [open EXCEPT ![client_fd[c]] = NULL]
    <3>1. d # c /\ pc[c] \in Connected
      BY <1>4, <2>4 DEF Connected
    <3>2. client_fd[d] # client_fd[c]
      BY <2>1, <3>1, DescriptorIsOnes
    <3> QED BY <2>2, <2>4, <3>2 DEF IInv, TypeOK
  <2> QED BY <2>3, <2>4
<1>7. TypeOK'
  <2>1. open' \in [Fds -> Conns \cup {NULL}]
    BY DEF IInv, TypeOK
  <2> QED BY <2>1 DEF IInv, TypeOK, signals
<1>8. SlotsOwned'
  <2>1. \A s \in Slots : clients[s] # NULL => pc'[clients[s]] \in {"serving", "unregister"}
    <3> SUFFICES ASSUME NEW s \in Slots, clients[s] # NULL
                 PROVE  pc'[clients[s]] \in {"serving", "unregister"}
      OBVIOUS
    <3>1. InTable(clients[s]) /\ pc[clients[s]] \in {"serving", "unregister"}
          /\ clients[s] \in Conns
      BY ClientOfSlot
    <3> QED BY <1>3, <1>4, <3>1
  <2> QED BY <2>1 DEF IInv, SlotsOwned
<1>9. CountAgrees' /\ FdAgrees'
  BY <1>1 DEF IInv, CountAgrees, FdAgrees
<1>10. ServedIsInTable'
  <2>1. \A d \in Conns : pc'[d] \in {"serving", "unregister"}
                            => pc[d] \in {"serving", "unregister"}
    BY <1>3, <1>4
  <2> QED BY <1>1, <2>1 DEF IInv, ServedIsInTable
<1>11. ReferencesCounted'
  <2>1. \A d \in Conns : pc'[d] \in {"none", "accepted"} => pc[d] \in {"none", "accepted"}
    BY <1>3, <1>4
  <2> QED BY <1>1, <2>1 DEF IInv, ReferencesCounted
<1> QED BY <1>2, <1>6, <1>7, <1>8, <1>9, <1>10, <1>11 DEF IInv

\* A refused registration, the end of the input, the last steps of a connection.
LEMMA ServiceLoopIInv ==
    ASSUME IInv, NEW c \in Conns,
           RegisterRefused(c) \/ SeeEOF(c) \/ UnregisterUnlock(c) \/ CloseFd(c)
    PROVE  IInv'
<1>1. InTable(c) => pc[c] \in {"serving", "unregister"}
  BY NullAssumption DEF InTable, IInv, SlotsOwned
<1>2. mutex \in Conns \cup {NULL}
  BY DEF IInv, TypeOK
<1>3. CASE RegisterRefused(c)
  <2>1. /\ pc[c] = "accepted" /\ pc' = [pc EXCEPT ![c] = "closing"]
        /\ UNCHANGED <<clients, fd, client_thread_counts, signals, client_fd,
                       reference_count, target, shutdown, found, victim, mutex, open>>
    BY <1>3 DEF RegisterRefused, Goto, table, kernel, termination, loop
  <2> QED BY <1>1, <1>2, <2>1, OnlyProgress
<1>4. CASE SeeEOF(c)
  <2>1. /\ pc[c] = "serving" /\ pc' = [pc EXCEPT ![c] = "unregister"]
        /\ UNCHANGED <<clients, fd, client_thread_counts, signals, client_fd,
                       reference_count, target, shutdown, found, victim, mutex, open>>
    BY <1>4 DEF SeeEOF, Goto, table, kernel, termination, loop
  <2> QED BY <1>1, <1>2, <2>1, OnlyProgress
<1>5. CASE UnregisterUnlock(c)
  <2>1. /\ pc[c] = "unlock" /\ pc' = [pc EXCEPT ![c] = "closing"]
        /\ mutex' = NULL
        /\ UNCHANGED <<clients, fd, client_thread_counts, signals, client_fd,
                       reference_count, target, shutdown, found, victim, open>>
    BY <1>5 DEF UnregisterUnlock, Goto, table, kernel, termination, loop
  <2> QED BY <1>1, <2>1, OnlyProgress
<1>6. CASE CloseFd(c)
  <2>1. /\ pc[c] = "closing" /\ pc' = [pc EXCEPT ![c] = "gone"]
        /\ open' = [open EXCEPT ![client_fd[c]] = NULL]
        /\ UNCHANGED <<clients, fd, client_thread_counts, signals, client_fd,
                       reference_count, target, shutdown, found, victim, mutex>>
    BY <1>6 DEF CloseFd, Goto, table, termination, loop
  <2> QED BY <1>1, <1>2, <2>1, OnlyProgress
<1> QED BY <1>3, <1>4, <1>5, <1>6

\* accept: the kernel gives no descriptor that is in use.
LEMMA AcceptIInv ==
    ASSUME IInv, NEW c \in Conns, Accept(c)
    PROVE  IInv'
<1> DEFINE free == {f \in FirstFd..(FdLimit - 1) : open[f] = NULL}
           new == LowestOf(free)
<1>1. /\ pc[c] = "none"
      /\ pc' = [pc EXCEPT ![c] = "accepted"]
      /\ free # {}
      /\ open' = [open EXCEPT ![new] = c]
      /\ client_fd' = [client_fd EXCEPT ![c] = new]
      /\ UNCHANGED <<clients, fd, client_thread_counts, waiting_shutdown, semaphore, mutex,
                     reference_count, target, shutdown, found, victim>>
  BY DEF Accept, Goto, table, signals, termination, loop
<1>2. new \in Fds /\ open[new] = NULL
  <2>1. free \in SUBSET Nat /\ free \subseteq Fds
    BY SizeAssumption DEF Fds
  <2>2. new \in free
    BY <1>1, <2>1, LowestOfIsLowest
  <2> QED BY <2>1, <2>2
<1> HIDE DEF free, new
<1>3. /\ pc'[c] = "accepted"
      /\ \A d \in Conns \ {c} : pc'[d] = pc[d] /\ client_fd'[d] = client_fd[d]
      /\ client_fd'[c] = new
      /\ open'[new] = c
      /\ \A f \in Fds \ {new} : open'[f] = open[f]
      /\ PcOK'
  BY <1>1, <1>2 DEF IInv, TypeOK, PcOK
<1>4. c # NULL
  BY NullAssumption
<1>5. ~InTable(c)
  BY <1>1, <1>4 DEF InTable, IInv, SlotsOwned
<1>6. TypeOK'
  <2>1. /\ open' \in [Fds -> Conns \cup {NULL}]
        /\ client_fd' \in [Conns -> Fds \cup {-1}]
    BY <1>1, <1>2 DEF IInv, TypeOK
  <2> QED BY <1>1, <2>1 DEF IInv, TypeOK
<1>7. DescriptorsOwned'
  <2> SUFFICES ASSUME NEW d \in Conns, pc'[d] \in Connected
               PROVE  client_fd'[d] \in Fds /\ open'[client_fd'[d]] = d
    BY DEF DescriptorsOwned
  <2>1. CASE d = c
    BY <1>2, <1>3, <2>1
  <2>2. CASE d # c
    <3>1. client_fd[d] \in Fds /\ open[client_fd[d]] = d
      BY <1>3, <2>2 DEF IInv, DescriptorsOwned
    <3>2. client_fd[d] # new
      BY <1>2, <3>1, NullAssumption
    <3> QED BY <1>3, <2>2, <3>1, <3>2
  <2> QED BY <2>1, <2>2
<1>8. /\ Occupied' = Occupied
      /\ \A d \in Conns : (InTable(d)' <=> InTable(d)) /\ UsersOf(d)' = UsersOf(d)
  BY <1>1 DEF Occupied, InTable, UsersOf
<1>9. \A s \in Slots : clients[s] # NULL => clients[s] \in Conns \ {c}
  BY <1>5, ClientOfSlot
<1>10. SlotsOwned'
  BY <1>1, <1>3, <1>9 DEF IInv, SlotsOwned
<1>11. CountAgrees' /\ FdAgrees'
  BY <1>1, <1>3, <1>8, <1>9 DEF IInv, CountAgrees, FdAgrees, Occupied
<1>12. ServedIsInTable'
  BY <1>1, <1>3, <1>8 DEF IInv, ServedIsInTable
<1>13. ReferencesCounted'
  BY <1>1, <1>3, <1>8 DEF IInv, ReferencesCounted
<1> QED BY <1>3, <1>6, <1>7, <1>10, <1>11, <1>12, <1>13 DEF IInv

\* creg_register: the count says that there is a slot, and there is one.
LEMMA RegisterIInv ==
    ASSUME IInv, NEW c \in Conns, Register(c)
    PROVE  IInv'
<1> DEFINE free == {s \in Slots : clients[s] = NULL}
           new == LowestOf(free)
           f == client_fd[c]
<1>1. /\ pc[c] = "accepted"
      /\ pc' = [pc EXCEPT ![c] = "serving"]
      /\ client_thread_counts # MAX_CLIENTS
      /\ fd[f] = -1
      /\ clients' = IF free = {} THEN clients ELSE [clients EXCEPT ![new] = c]
      /\ client_thread_counts' = client_thread_counts + 1
      /\ fd' = [fd EXCEPT ![f] = 1]
      /\ reference_count' = [reference_count EXCEPT ![c] = 1]
      /\ UNCHANGED <<waiting_shutdown, semaphore, mutex, open, client_fd, target, shutdown,
                     found, victim>>
  BY DEF Register, CanRegister, Goto, signals, kernel, termination, loop
<1>2. free # {}
  <2>1. Occupied # Slots
    BY <1>1, SlotsFinite DEF IInv, CountAgrees
  <2> QED BY <2>1 DEF Occupied
<1>3. new \in Slots /\ clients[new] = NULL
  <2>1. free \in SUBSET Nat
    BY SlotsFinite
  <2>2. new \in free
    BY <1>2, <2>1, LowestOfIsLowest
  <2> QED BY <2>2
<1>4. clients' = [clients EXCEPT ![new] = c]
  BY <1>1, <1>2
<1> HIDE DEF free, new
<1>5. /\ f \in Fds
      /\ open[f] = c
      /\ c # NULL
      /\ pc[c] \in Connected
  BY <1>1, NullAssumption DEF IInv, DescriptorsOwned, Connected
<1>6. ~InTable(c)
  BY <1>1, <1>5 DEF InTable, IInv, SlotsOwned
<1>7. /\ clients'[new] = c
      /\ \A s \in Slots \ {new} : clients'[s] = clients[s]
      /\ pc'[c] = "serving"
      /\ \A d \in Conns \ {c} : pc'[d] = pc[d]
      /\ PcOK'
  BY <1>3, <1>4, <1>1 DEF IInv, TypeOK, PcOK
<1>8. /\ InTable(c)'
      /\ \A d \in Conns \ {c} : InTable(d)' <=> InTable(d)
  BY <1>3, <1>7, NullAssumption DEF InTable
<1>9. Cardinality(Occupied') = Cardinality(Occupied) + 1
  <2>1. Occupied' = Occupied \cup {new} /\ new \notin Occupied
    BY <1>3, <1>5, <1>7 DEF Occupied
  <2> QED BY <2>1, OccupiedFinite, FS_AddElement
<1>10. CountAgrees'
  BY <1>1, <1>9 DEF IInv, CountAgrees
<1>11. TypeOK'
  <2>1. client_thread_counts' \in 0..MAX_CLIENTS
    BY <1>1, SizeAssumption DEF IInv, TypeOK
  <2>2. clients' \in [Slots -> Conns \cup {NULL}] /\ fd' \in [Fds -> {-1, 1}]
    BY <1>1, <1>4 DEF IInv, TypeOK
  <2>3. reference_count' \in [Conns -> Nat]
    BY <1>1 DEF IInv, TypeOK
  <2> QED BY <1>1, <2>1, <2>2, <2>3 DEF IInv, TypeOK
<1>12. DescriptorsOwned'
  BY <1>1, <1>5, <1>7 DEF IInv, DescriptorsOwned
<1>13. SlotsOwned'
  <2>1. \A s \in Slots : clients'[s] # NULL => pc'[clients'[s]] \in {"serving", "unregister"}
    BY <1>6, <1>7, ClientOfSlot DEF InTable
  <2>2. \A s, u \in Slots : clients'[s] # NULL /\ clients'[s] = clients'[u] => s = u
    BY <1>6, <1>7 DEF InTable, IInv, SlotsOwned
  <2> QED BY <2>1, <2>2 DEF SlotsOwned
<1>14. FdAgrees'
  <2> SUFFICES ASSUME NEW g \in Fds
               PROVE  fd'[g] = 1 <=> \E s \in Slots : clients'[s] # NULL
                                                      /\ client_fd[clients'[s]] = g
    BY <1>1 DEF FdAgrees, Occupied
  <2>1. fd[g] = 1 <=> \E s \in Slots : clients[s] # NULL /\ client_fd[clients[s]] = g
    BY DEF IInv, FdAgrees, Occupied
  <2>2. CASE g = f
    <3>1. fd'[g] = 1
      BY <1>1, <2>2 DEF IInv, TypeOK
    <3> QED BY <1>3, <1>5, <1>7, <2>2, <3>1
  <2>3. CASE g # f
    <3>1. fd'[g] = fd[g]
      BY <1>1, <2>3 DEF IInv, TypeOK
    <3> QED BY <1>3, <1>7, <2>1, <2>3, <3>1
  <2> QED BY <2>2, <2>3
<1>15. ServedIsInTable'
  BY <1>1, <1>7, <1>8 DEF IInv, ServedIsInTable
<1>16. ReferencesCounted'
  <2> SUFFICES ASSUME NEW d \in Conns
               PROVE  /\ IsFiniteSet(UsersOf(d))
                      /\ reference_count'[d] = Cardinality(UsersOf(d))
                                                  + (IF InTable(d)' THEN 1 ELSE 0)
                      /\ pc'[d] \in {"none", "accepted"} => UsersOf(d) = {}
    <3>1. \A d \in Conns : UsersOf(d)' = UsersOf(d)
      BY <1>1 DEF UsersOf
    <3> QED BY <3>1 DEF ReferencesCounted
  <2>1. CASE d = c
    <3>1. UsersOf(c) = {}
      BY <1>1 DEF IInv, ReferencesCounted
    <3>2. reference_count'[c] = 1
      BY <1>1 DEF IInv, TypeOK
    <3> QED BY <1>8, <2>1, <3>1, <3>2, FS_EmptySet
  <2>2. CASE d # c
    <3>1. reference_count'[d] = reference_count[d]
      BY <1>1, <2>2 DEF IInv, TypeOK
    <3> QED BY <1>7, <1>8, <2>2, <3>1 DEF IInv, ReferencesCounted
  <2> QED BY <2>1, <2>2
<1> QED BY <1>7, <1>10, <1>11, <1>12, <1>13, <1>14, <1>15, <1>16 DEF IInv

\* creg_lookup and the release of what it returned.
LEMMA TargetIInv ==
    ASSUME IInv, NEW c \in Conns, ReleaseTarget(c) \/ \E d \in Conns : Lookup(c, d)
    PROVE  IInv'
<1>1. /\ UNCHANGED <<clients, fd, client_thread_counts, waiting_shutdown, semaphore, mutex,
                     open, client_fd, pc, shutdown, found, victim>>
      /\ \/ /\ target[c] # NULL
            /\ target' = [target EXCEPT ![c] = NULL]
            /\ reference_count' = [reference_count EXCEPT ![target[c]] = @ - 1]
         \/ \E d \in Conns :
            /\ target[c] = NULL
            /\ \E s \in Slots : clients[s] = d
            /\ target' = [target EXCEPT ![c] = d]
            /\ reference_count' = [reference_count EXCEPT ![d] = @ + 1]
  <2>1. CASE ReleaseTarget(c)
    BY <2>1 DEF ReleaseTarget, table, signals, kernel, termination, loop
  <2>2. CASE \E d \in Conns : Lookup(c, d)
    BY <2>2 DEF Lookup, table, signals, kernel, termination, loop
  <2> QED BY <2>1, <2>2
<1>2. /\ Occupied' = Occupied
      /\ \A d \in Conns : InTable(d)' <=> InTable(d)
  BY <1>1 DEF Occupied, InTable
<1>3. /\ PcOK'
      /\ DescriptorsOwned'
      /\ SlotsOwned'
      /\ CountAgrees'
      /\ FdAgrees'
      /\ ServedIsInTable'
  BY <1>1, <1>2
     DEF IInv, PcOK, DescriptorsOwned, SlotsOwned, CountAgrees, FdAgrees, ServedIsInTable
<1>4. target' \in [Conns -> Conns \cup {NULL}]
  BY <1>1 DEF IInv, TypeOK
<1>5. ASSUME NEW d \in Conns
      PROVE  /\ IsFiniteSet(UsersOf(d)')
             /\ Cardinality(UsersOf(d)') \in Nat
             /\ reference_count'[d] = Cardinality(UsersOf(d)') + (IF InTable(d) THEN 1 ELSE 0)
             /\ pc[d] \in {"none", "accepted"} => UsersOf(d)' = {}
  <2>1. /\ IsFiniteSet(UsersOf(d))
        /\ Cardinality(UsersOf(d)) \in Nat
        /\ reference_count[d] = Cardinality(UsersOf(d)) + (IF InTable(d) THEN 1 ELSE 0)
        /\ pc[d] \in {"none", "accepted"} => UsersOf(d) = {}
    BY FS_CardinalityType DEF IInv, ReferencesCounted
  <2>2. d # NULL
    BY NullAssumption
  <2>3. CASE target'[c] = d
    <3>1. /\ UsersOf(d)' = UsersOf(d) \cup {c}
          /\ c \notin UsersOf(d)
          /\ InTable(d)
          /\ reference_count'[d] = reference_count[d] + 1
      BY <1>1, <2>2, <2>3 DEF UsersOf, InTable, IInv, TypeOK
    <3>2. pc[d] \notin {"none", "accepted"}
      BY <2>2, <3>1 DEF InTable, IInv, SlotsOwned
    <3> QED BY <2>1, <3>1, <3>2, FS_AddElement
  <2>4. CASE target[c] = d
    <3>1. /\ UsersOf(d)' = UsersOf(d) \ {c}
          /\ c \in UsersOf(d)
          /\ reference_count'[d] = reference_count[d] - 1
      BY <1>1, <2>2, <2>4 DEF UsersOf, IInv, TypeOK
    <3>2. /\ IsFiniteSet(UsersOf(d)')
          /\ Cardinality(UsersOf(d)') = Cardinality(UsersOf(d)) - 1
      BY <2>1, <3>1, FS_RemoveElement
    <3>3. Cardinality(UsersOf(d)') \in Nat
      BY <3>2, FS_CardinalityType
    <3> QED BY <2>1, <3>1, <3>2, <3>3
  <2>5. CASE target[c] # d /\ target'[c] # d
    <3>1. UsersOf(d)' = UsersOf(d) /\ reference_count'[d] = reference_count[d]
      BY <1>1, <2>5 DEF UsersOf, IInv, TypeOK
    <3> QED BY <2>1, <3>1
  <2> QED BY <2>3, <2>4, <2>5
<1>6. ReferencesCounted'
  BY <1>1, <1>2, <1>5 DEF ReferencesCounted
<1>7. reference_count' \in [Conns -> Nat]
  <2>1. \A d \in Conns : reference_count'[d] \in Nat
    BY <1>5
  <2> QED BY <1>1, <2>1 DEF IInv, TypeOK
<1>8. TypeOK'
  BY <1>1, <1>4, <1>7 DEF IInv, TypeOK
<1> QED BY <1>3, <1>6, <1>8 DEF IInv

\* A step of a waiting thread or of the termination that leaves the clients alone.
LEMMA OnlySignals ==
    ASSUME IInv,
           UNCHANGED <<clients, fd, client_thread_counts, mutex, open, client_fd,
                       reference_count, pc, target>>,
           semaphore' \in Nat, waiting_shutdown' \in {0, 1}, shutdown' \in -1..FdLimit,
           found' \in BOOLEAN, victim' \in Conns \cup {NULL},
           shutdown' = -1 => shutdown = -1
    PROVE  IInv'
<1>1. /\ Occupied' = Occupied
      /\ \A d \in Conns : (InTable(d)' <=> InTable(d)) /\ UsersOf(d)' = UsersOf(d)
  BY DEF Occupied, InTable, UsersOf
<1>2. TypeOK'
  BY DEF IInv, TypeOK
<1>3. PcOK' /\ DescriptorsOwned' /\ SlotsOwned'
  BY DEF IInv, PcOK, DescriptorsOwned, SlotsOwned
<1>4. CountAgrees' /\ FdAgrees'
  BY <1>1 DEF IInv, CountAgrees, FdAgrees
<1>5. ServedIsInTable' /\ ReferencesCounted'
  BY <1>1 DEF IInv, ServedIsInTable, ReferencesCounted
<1> QED BY <1>2, <1>3, <1>4, <1>5 DEF IInv

\* The thread that waits for the registry to become empty.
LEMMA WaitingIInv ==
    ASSUME IInv, NEW w \in Waiters,
           \/ SetWaiting(w) \/ ReadCountEarly(w) \/ ReadCount(w)
           \/ SetWaitingLate(w) \/ SemWait(w)
    PROVE  IInv'
<1>1. /\ semaphore \in Nat
      /\ waiting_shutdown \in {0, 1}
      /\ shutdown \in -1..FdLimit
      /\ found \in BOOLEAN /\ victim \in Conns \cup {NULL}
  BY DEF IInv, TypeOK
<1>2. UNCHANGED <<clients, fd, client_thread_counts, mutex, open, client_fd,
                  reference_count, pc, target, shutdown, found, victim>>
  BY DEF SetWaiting, ReadCountEarly, ReadCount, SetWaitingLate, SemWait,
         table, kernel, termination, loop
<1>3. semaphore' \in Nat /\ waiting_shutdown' \in {0, 1}
  <2>1. CASE SetWaiting(w) \/ ReadCountEarly(w)
    BY <1>1, <2>1 DEF SetWaiting, ReadCountEarly, signals
  <2>2. CASE ReadCount(w)
    BY <1>1, <2>2 DEF ReadCount, PostIf
  <2>3. CASE SetWaitingLate(w)
    <3>1. waiting_shutdown' = 1 /\ (PostIf(TRUE) \/ PostIf(FALSE))
      BY <2>3 DEF SetWaitingLate
    <3>2. semaphore' = semaphore + 1 \/ semaphore' = semaphore
      BY <3>1, Zenon DEF PostIf
    <3> QED BY <1>1, <3>1, <3>2
  <2>4. CASE SemWait(w)
    BY <1>1, <2>4 DEF SemWait
  <2> QED BY <2>1, <2>2, <2>3, <2>4
<1> QED BY <1>1, <1>2, <1>3, OnlySignals

\* creg_unregister frees a slot and drops the table's reference.
LEMMA UnregisterIInv ==
    ASSUME IInv, NEW c \in Conns, Unregister(c)
    PROVE  IInv'
<1>1. /\ pc[c] \in Connected
      /\ UnregisterEffect(c)
      /\ pc' = [pc EXCEPT ![c] = "unlock"]
      /\ mutex' \in Conns \cup {NULL}
      /\ UNCHANGED <<open, client_fd, target, waiting_shutdown, shutdown, found, victim>>
  BY DEF Unregister, Goto, Connected, kernel, termination, loop
<1>2. /\ shutdown' \in -1..FdLimit
      /\ found' \in BOOLEAN /\ victim' \in Conns \cup {NULL}
  BY <1>1 DEF IInv, TypeOK
<1> QED BY <1>1, <1>2, UnregisterKeeps

\* The client that creg_shutdown_all has read, without the mutex, from the slot of the
\* descriptor it has found registered.  It may be any client, and it may have left
\* since, but no connection has taken its descriptor: the accept loop has ended.
VictimApart ==
    /\ found => victim = NULL
    /\ found \/ victim # NULL => shutdown \in Fds
    /\ victim # NULL =>
           \A d \in Conns \ {victim} :
               pc[d] \in Connected => client_fd[d] # client_fd[victim]

\* A client that has disconnected since is found in no slot.
LEMMA VictimGone ==
    ASSUME IInv, VictimApart, victim # NULL, pc[victim] \notin Connected
    PROVE  SlotsOf(victim) = {}
<1>1. victim \in Conns
  BY DEF IInv, TypeOK
<1>2. \A s \in Slots : clients[s] # NULL => clients[s] \in Conns \ {victim}
                                             /\ pc[clients[s]] \in Connected
  BY ClientOfSlot
<1> QED BY <1>1, <1>2 DEF VictimApart, SlotsOf

\* creg_shutdown_all takes the descriptor for a slot: it may unregister another client
\* than the descriptor's, but never one that shares its descriptor.
LEMMA TerminateIInv ==
    ASSUME IInv, VictimApart, Terminate
    PROVE  IInv'
<1>1. /\ semaphore \in Nat
      /\ waiting_shutdown \in {0, 1}
      /\ shutdown \in -1..FdLimit
      /\ mutex \in Conns \cup {NULL}
      /\ FdLimit \in Nat
      /\ found \in BOOLEAN /\ victim \in Conns \cup {NULL} /\ NULL \in Conns \cup {NULL}
  BY SizeAssumption DEF IInv, TypeOK
<1>2. CASE Hangup \/ ShutdownSkip \/ Fini \/ Exit
  <2>1. UNCHANGED <<clients, fd, client_thread_counts, mutex, open, client_fd, reference_count,
                    pc, target, semaphore, waiting_shutdown, found, victim>>
    BY <1>2 DEF Hangup, ShutdownSkip, Fini, Exit, table, kernel, signals, loop
  <2>2. shutdown' \in -1..FdLimit /\ (shutdown' = -1 => shutdown = -1)
    BY <1>1, <1>2 DEF Hangup, ShutdownSkip, Fini, Exit, Fds, loop
  <2> QED BY <1>1, <2>1, <2>2, OnlySignals
<1>3. CASE ShutdownFound \/ ShutdownPick
  <2>1. UNCHANGED <<clients, fd, client_thread_counts, mutex, open, client_fd, reference_count,
                    pc, target, semaphore, waiting_shutdown, shutdown>>
    BY <1>3 DEF ShutdownFound, ShutdownPick, table, kernel, signals
  <2>2. found' \in BOOLEAN /\ victim' \in Conns \cup {NULL}
    BY <1>1, <1>3, ClientOfSlot DEF ShutdownFound, ShutdownPick
  <2> QED BY <1>1, <2>1, <2>2, OnlySignals
<1>4. CASE ShutdownUnregister
  <2>1. /\ victim \in Conns /\ victim # NULL /\ victim' = NULL
        /\ shutdown' = shutdown + 1
        /\ \/ UnregisterEffect(victim)
           \/ UNCHANGED <<clients, fd, client_thread_counts, semaphore, reference_count>>
        /\ UNCHANGED <<waiting_shutdown, mutex, open, client_fd, pc, target, found>>
    BY <1>1, <1>4 DEF ShutdownUnregister, kernel, table
  <2>2. /\ shutdown' \in -1..FdLimit /\ shutdown' # -1
        /\ found' \in BOOLEAN /\ victim' \in Conns \cup {NULL}
        /\ mutex' \in Conns \cup {NULL}
    BY <1>1, <2>1 DEF Fds, VictimApart
  <2>3. CASE UnregisterEffect(victim) /\ pc[victim] \in Connected
    BY <2>1, <2>2, <2>3, UnregisterKeeps
  <2>4. CASE UNCHANGED <<clients, fd, client_thread_counts, semaphore, reference_count>>
    BY <1>1, <2>1, <2>2, <2>4, OnlySignals
  <2>5. CASE UnregisterEffect(victim) /\ pc[victim] \notin Connected
    <3>1. SlotsOf(victim) = {}
      BY <2>1, <2>5, VictimGone
    <3>2. UNCHANGED <<clients, fd, client_thread_counts, semaphore, reference_count>>
      BY <2>5, <3>1 DEF UnregisterEffect, table
    <3> QED BY <2>4, <3>2
  <2> QED BY <2>1, <2>3, <2>4, <2>5
<1> QED BY <1>2, <1>3, <1>4 DEF Terminate, Shutdown

\* A step that neither connects anybody nor moves the loop of creg_shutdown_all.
LEMMA VictimStays ==
    ASSUME VictimApart, UNCHANGED <<shutdown, found, victim, client_fd>>,
           \A d \in Conns : pc'[d] \in Connected => pc[d] \in Connected
    PROVE  VictimApart'
  BY DEF VictimApart

\* Every step leaves the client that is being unregistered alone with its descriptor.
LEMMA VictimNext ==
    ASSUME IInv, VictimApart, [Next]_vars
    PROVE  VictimApart'
<1>1. ASSUME NEW c \in Conns, Accept(c) PROVE VictimApart'
  <2>1. shutdown = -1 /\ UNCHANGED <<shutdown, found, victim>>
    BY <1>1 DEF Accept, termination, loop
  <2>2. shutdown \notin Fds
    BY <2>1 DEF Fds
  <2> QED BY <2>1, <2>2 DEF VictimApart
<1>2. ASSUME NEW c \in Conns, Service(c) \/ SeeEOF(c) \/ \E d \in Conns : Lookup(c, d)
      PROVE  VictimApart'
  <2>1. /\ UNCHANGED <<shutdown, found, victim, client_fd>>
        /\ \/ pc' = pc
           \/ pc[c] \in Connected /\ \E to \in Connected \cup {"gone"} : pc' = [pc EXCEPT ![c] = to]
    BY <1>2 DEF Service, Register, RegisterRefused, ReleaseTarget, Unregister, UnregisterUnlock,
                CloseFd, SeeEOF, Lookup, Goto, Connected, kernel, termination, loop
  <2>2. \A d \in Conns : pc'[d] \in Connected => pc[d] \in Connected
    BY <2>1 DEF IInv, PcOK
  <2> QED BY <2>1, <2>2, VictimStays
<1>3. CASE \/ \E w \in Waiters : SetWaiting(w) \/ ReadCountEarly(w) \/ Waiting(w)
           \/ Fini \/ Exit \/ UNCHANGED vars
  <2>1. UNCHANGED <<shutdown, found, victim, client_fd, pc>>
    BY <1>3 DEF SetWaiting, ReadCountEarly, Waiting, ReadCount, SetWaitingLate, SemWait,
                Fini, Exit, vars, kernel, termination, loop
  <2> QED BY <2>1, VictimStays
<1>4. CASE Hangup
  <2>1. shutdown = -1 /\ UNCHANGED <<found, victim>>
    BY <1>4 DEF Hangup
  <2>2. shutdown \notin Fds
    BY <2>1 DEF Fds
  <2> QED BY <2>1, <2>2 DEF VictimApart
<1>5. CASE ShutdownSkip \/ ShutdownFound
  BY <1>5 DEF ShutdownSkip, ShutdownFound, VictimApart
<1>6. CASE ShutdownPick
  <2>1. shutdown \in Fds /\ found' = FALSE /\ UNCHANGED <<shutdown, client_fd, pc>>
    BY <1>6 DEF ShutdownPick, VictimApart, kernel
  <2>2. CASE victim' = victim
    BY <2>1, <2>2 DEF VictimApart
  <2>3. CASE victim' # victim
    <3>1. shutdown \in Slots /\ clients[shutdown] # NULL /\ victim' = clients[shutdown]
      BY <1>6, <2>3 DEF ShutdownPick
    <3>2. victim' \in Conns /\ pc[victim'] \in Connected
      BY <3>1, ClientOfSlot
    <3>3. \A d \in Conns \ {victim'} :
              pc[d] \in Connected => client_fd[d] # client_fd[victim']
      BY <3>2, DescriptorIsOnes
    <3> QED BY <2>1, <3>3 DEF VictimApart
  <2> QED BY <2>2, <2>3
<1>7. CASE ShutdownUnregister
  <2>1. victim # NULL /\ victim' = NULL /\ found' = found
    BY <1>7 DEF ShutdownUnregister
  <2> QED BY <2>1 DEF VictimApart
<1> QED BY <1>1, <1>2, <1>3, <1>4, <1>5, <1>6, <1>7 DEF Next, Terminate, Shutdown

\* The initial state has the invariant.
LEMMA InitIInv == Init => IInv /\ VictimApart
<1> SUFFICES ASSUME Init PROVE IInv /\ VictimApart
  OBVIOUS
<1>1. TypeOK /\ PcOK
  <2>1. /\ shutdown \in -1..FdLimit
        /\ client_thread_counts \in 0..MAX_CLIENTS
        /\ victim \in Conns \cup {NULL}
    BY SizeAssumption DEF Init
  <2>2. /\ clients \in [Slots -> Conns \cup {NULL}]
        /\ fd \in [Fds -> {-1, 1}]
        /\ open \in [Fds -> Conns \cup {NULL}]
    BY DEF Init
  <2>3. /\ client_fd \in [Conns -> Fds \cup {-1}]
        /\ reference_count \in [Conns -> Nat]
        /\ target \in [Conns -> Conns \cup {NULL}]
        /\ PcOK
    BY DEF Init, PcOK
  <2>4. waiting_shutdown \in {0, 1} /\ semaphore \in Nat /\ mutex \in Conns \cup {NULL}
    BY DEF Init
  <2>5. found \in BOOLEAN
    BY Zenon DEF Init
  <2> QED BY <2>1, <2>2, <2>3, <2>4, <2>5 DEF TypeOK
<1>2. Occupied = {} /\ \A c \in Conns : ~InTable(c) /\ UsersOf(c) = {}
  BY NullAssumption DEF Init, Occupied, InTable, UsersOf
<1>3. CountAgrees /\ FdAgrees
  BY <1>2, FS_EmptySet DEF Init, CountAgrees, FdAgrees
<1>4. ReferencesCounted
  BY <1>2, FS_EmptySet DEF Init, ReferencesCounted
<1>5. DescriptorsOwned /\ SlotsOwned /\ ServedIsInTable
  BY DEF Init, DescriptorsOwned, SlotsOwned, ServedIsInTable, Connected
<1>6. VictimApart
  BY DEF Init, VictimApart
<1> QED BY <1>1, <1>3, <1>4, <1>5, <1>6 DEF IInv

\* Every step keeps the invariant.
LEMMA NextIInv == IInv /\ VictimApart /\ [Next]_vars => IInv' /\ VictimApart'
<1> SUFFICES ASSUME IInv, VictimApart, [Next]_vars PROVE IInv' /\ VictimApart'
  OBVIOUS
<1>1. ASSUME NEW c \in Conns, Accept(c) PROVE IInv'
  BY <1>1, AcceptIInv
<1>2. ASSUME NEW c \in Conns, Service(c) \/ SeeEOF(c) PROVE IInv'
  BY <1>2, RegisterIInv, ServiceLoopIInv, TargetIInv, UnregisterIInv DEF Service
<1>3. ASSUME NEW c \in Conns, NEW d \in Conns, Lookup(c, d) PROVE IInv'
  BY <1>3, TargetIInv
<1>4. ASSUME NEW w \in Waiters, SetWaiting(w) \/ ReadCountEarly(w) \/ Waiting(w) PROVE IInv'
  BY <1>4, WaitingIInv DEF Waiting
<1>5. ASSUME Terminate PROVE IInv'
  BY <1>5, TerminateIInv
<1>6. ASSUME UNCHANGED vars PROVE IInv'
  <2>1. /\ semaphore \in Nat /\ waiting_shutdown \in {0, 1} /\ shutdown \in -1..FdLimit
        /\ found \in BOOLEAN /\ victim \in Conns \cup {NULL}
    BY DEF IInv, TypeOK
  <2> QED BY <1>6, <2>1, OnlySignals DEF vars, table, signals, kernel, termination, loop
<1>7. VictimApart'
  BY VictimNext
<1> QED BY <1>1, <1>2, <1>3, <1>4, <1>5, <1>6, <1>7 DEF Next

-----------------------------------------------------------------------------
(***************************************************************************)
(* What follows from the invariant.                                        *)
(***************************************************************************)

\* The count, the array of clients and the descriptors name the same clients, and a
\* descriptor that is used again is not registered any more.
THEOREM RecordsAlwaysAgree == Spec => []RecordsAgree
<1>1. IInv => RecordsAgree
  <2> SUFFICES ASSUME IInv PROVE RecordsAgree
    OBVIOUS
  <2>1. NoStaleDescriptor
    <3> SUFFICES ASSUME NEW c \in Conns, pc[c] = "accepted" PROVE fd[client_fd[c]] = -1
      BY DEF NoStaleDescriptor
    <3>1. pc[c] \in Connected /\ client_fd[c] \in Fds
      BY DEF Connected, IInv, DescriptorsOwned
    <3>2. ~InTable(c)
      BY NullAssumption DEF InTable, IInv, SlotsOwned
    <3> QED BY <3>1, <3>2, SlotOfConn DEF IInv, TypeOK
  <2>2. \A s, u \in Occupied : client_fd[clients[s]] = client_fd[clients[u]] => s = u
    BY ClientOfSlot, DescriptorIsOnes DEF Occupied, IInv, SlotsOwned
  <2> QED BY <2>1, <2>2 DEF IInv, CountAgrees, FdAgrees, RecordsAgree
<1> QED BY InitIInv, NextIInv, <1>1, PTL DEF Spec

\* No thread uses a freed CLIENT before the shutdown: its own is in the table until it
\* unregisters it, and the one it has looked up is kept by its reference.
THEOREM ClientsInUseAreAlive == Spec => []ClientInUseIsAlive
<1>1. IInv => ClientInUseIsAlive
  <2> SUFFICES ASSUME IInv, shutdown = -1, NEW c \in Conns
               PROVE  /\ pc[c] \in {"serving", "unregister"} => reference_count[c] > 0
                      /\ target[c] # NULL => reference_count[target[c]] > 0
    BY DEF ClientInUseIsAlive
  <2>1. ASSUME NEW d \in Conns
        PROVE  /\ Cardinality(UsersOf(d)) \in Nat
               /\ UsersOf(d) # {} => Cardinality(UsersOf(d)) > 0
               /\ reference_count[d] = Cardinality(UsersOf(d)) + (IF InTable(d) THEN 1 ELSE 0)
    <3>1. IsFiniteSet(UsersOf(d))
      BY DEF IInv, ReferencesCounted
    <3>2. Cardinality(UsersOf(d)) \in Nat
      BY <3>1, FS_CardinalityType
    <3>3. UsersOf(d) # {} => Cardinality(UsersOf(d)) # 0
      BY <3>1, FS_EmptySet
    <3> QED BY <3>2, <3>3 DEF IInv, ReferencesCounted
  <2>2. pc[c] \in {"serving", "unregister"} => reference_count[c] > 0
    BY <2>1 DEF IInv, ServedIsInTable
  <2>3. target[c] # NULL => reference_count[target[c]] > 0
    <3> SUFFICES ASSUME target[c] # NULL PROVE reference_count[target[c]] > 0
      OBVIOUS
    <3>1. target[c] \in Conns /\ c \in UsersOf(target[c])
      BY DEF IInv, TypeOK, UsersOf
    <3> QED BY <2>1, <3>1
  <2> QED BY <2>2, <2>3
<1> QED BY InitIInv, NextIInv, <1>1, PTL DEF Spec
=============================================================================
