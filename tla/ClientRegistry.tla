--------------------------- MODULE ClientRegistry ---------------------------
(***************************************************************************)
(* The client registry (hw5/src/client_registry.c) with the threads that   *)
(* use it: the accept loop and the termination of main.c, the service      *)
(* threads of server.c, and any thread that waits for the registry to be   *)
(* empty.  The kernel's table of descriptors is part of the model, because *)
(* the registry is indexed by descriptor and descriptors are used again.   *)
(*                                                                         *)
(* A registry operation holds the mutex for its whole body and is one      *)
(* action, except creg_unregister, whose sem_post comes before its unlock, *)
(* and the three functions that take no lock at all.                       *)
(***************************************************************************)
EXTENDS Integers, FiniteSets

CONSTANTS
    Conns,          \* the connections, each with its service thread and CLIENT
    NULL,
    MAX_CLIENTS,    \* length of the clients array (64)
    FdLimit,        \* length of the fd array (1024)
    FirstFd,        \* the lowest descriptor a connection can get
    Waiters,        \* threads that call creg_wait_for_empty
    Main            \* the thread of main()

ASSUME NullAssumption == NULL \notin Conns /\ Main \notin Conns
ASSUME SizeAssumption ==
    /\ MAX_CLIENTS \in Nat \ {0} /\ FdLimit \in Nat /\ FirstFd \in 1..FdLimit
    /\ MAX_CLIENTS <= FdLimit

Slots == 0..(MAX_CLIENTS - 1)
Fds == 0..(FdLimit - 1)

VARIABLES
    clients,                \* [Slots -> Conns \cup {NULL}]
    fd,                     \* [Fds -> {-1, 1}]: 1 when registered
    client_thread_counts,
    waiting_shutdown,
    semaphore,
    mutex,                  \* who holds the registry's mutex, or NULL
    freed,                  \* creg_fini has freed the registry
    open,                   \* the kernel: whose connection a descriptor is
    client_fd,              \* the descriptor a CLIENT was created with
    reference_count,        \* references to a CLIENT, 0 when it does not exist
    pc,                     \* the life of a service thread
    target,                 \* the client a service thread has looked up and holds
    wait,                   \* progress of the threads in creg_wait_for_empty
    shutdown,               \* index of the loop of creg_shutdown_all, or -1
    found,                  \* it has found a registered descriptor there
    victim,                 \* the CLIENT it has read from the array, or NULL
    process                 \* "running", "crashed" or "exited"

table == <<clients, fd, client_thread_counts>>
signals == <<waiting_shutdown, semaphore>>
kernel == <<open, client_fd>>
loop == <<shutdown, found, victim>>
termination == <<freed, wait, loop, process>>
vars == <<table, signals, mutex, kernel, reference_count, pc, target, termination>>

Init ==
    /\ clients = [s \in Slots |-> NULL]
    /\ fd = [f \in Fds |-> -1]
    /\ client_thread_counts = 0
    /\ waiting_shutdown = 0
    /\ semaphore = 0
    /\ mutex = NULL
    /\ freed = FALSE
    /\ open = [f \in Fds |-> NULL]
    /\ client_fd = [c \in Conns |-> -1]
    /\ reference_count = [c \in Conns |-> 0]
    /\ pc = [c \in Conns |-> "none"]
    /\ target = [c \in Conns |-> NULL]
    /\ wait = [w \in Waiters |-> "none"]
    /\ shutdown = -1
    /\ found = FALSE
    /\ victim = NULL
    /\ process = "running"

Running == process = "running"

Goto(c, from, to) == Running /\ pc[c] = from /\ pc' = [pc EXCEPT ![c] = to]
GotoWait(w, from, to) == Running /\ wait[w] = from /\ wait' = [wait EXCEPT ![w] = to]

LowestOf(S) == CHOOSE i \in S : \A j \in S : i <= j

-----------------------------------------------------------------------------
\* main: accept gives the lowest free descriptor; SIGHUP ends the loop.
Accept(c) ==
    LET free == {f \in FirstFd..(FdLimit - 1) : open[f] = NULL} IN
    /\ shutdown = -1
    /\ Goto(c, "none", "accepted")
    /\ free # {}
    /\ open' = [open EXCEPT ![LowestOf(free)] = c]
    /\ client_fd' = [client_fd EXCEPT ![c] = LowestOf(free)]
    /\ UNCHANGED <<table, signals, mutex, reference_count, target, termination>>

\* creg_register: the first free slot, unless the registry is full or the
\* descriptor is still registered.
CanRegister(c) == client_thread_counts # MAX_CLIENTS /\ fd[client_fd[c]] = -1

Register(c) ==
    LET free == {s \in Slots : clients[s] = NULL} IN
    /\ mutex = NULL
    /\ Goto(c, "accepted", "serving")
    /\ CanRegister(c)
    /\ clients' = IF free = {} THEN clients ELSE [clients EXCEPT ![LowestOf(free)] = c]
    /\ client_thread_counts' = client_thread_counts + 1
    /\ fd' = [fd EXCEPT ![client_fd[c]] = 1]
    /\ reference_count' = [reference_count EXCEPT ![c] = 1]
    /\ UNCHANGED <<signals, mutex, kernel, target, termination>>

\* The registry is full, the descriptor is in use, or there is no memory for a
\* CLIENT, which may happen at any time.
RegisterRefused(c) ==
    /\ mutex = NULL
    /\ Goto(c, "accepted", "closing")
    /\ UNCHANGED <<table, signals, mutex, kernel, reference_count, target, termination>>

\* Faulty variant: the caller gets no reference.
LookupUncounted(c, d) ==
    /\ Running
    /\ mutex = NULL
    /\ pc[c] = "serving" /\ target[c] = NULL
    /\ \E s \in Slots : clients[s] = d
    /\ target' = [target EXCEPT ![c] = d]
    /\ UNCHANGED <<table, signals, mutex, kernel, reference_count, pc, termination>>

\* creg_lookup (INVITE): a registered client, with a reference for the caller.
Lookup(c, d) ==
    /\ Running
    /\ mutex = NULL
    /\ pc[c] = "serving" /\ target[c] = NULL
    /\ \E s \in Slots : clients[s] = d
    /\ target' = [target EXCEPT ![c] = d]
    /\ reference_count' = [reference_count EXCEPT ![d] = @ + 1]
    /\ UNCHANGED <<table, signals, mutex, kernel, pc, termination>>

\* The caller has sent its invitation to the client and drops the reference.
ReleaseTarget(c) ==
    /\ Running
    /\ target[c] # NULL
    /\ reference_count' = [reference_count EXCEPT ![target[c]] = @ - 1]
    /\ target' = [target EXCEPT ![c] = NULL]
    /\ UNCHANGED <<table, signals, mutex, kernel, pc, termination>>

\* EOF on the connection: the service loop ends.
SeeEOF(c) ==
    /\ target[c] = NULL
    /\ Goto(c, "serving", "unregister")
    /\ UNCHANGED <<table, signals, mutex, kernel, reference_count, target, termination>>

\* Faulty variant: the first client is unregistered, whoever it is.
SlotsOfAnyone(c) == {s \in Slots : clients[s] # NULL}

\* What creg_unregister does to the registry; an error leaves it alone.
SlotsOf(c) == {s \in Slots : clients[s] # NULL /\ client_fd[clients[s]] = client_fd[c]}

UnregisterEffect(c) ==
    IF fd[client_fd[c]] # 1 \/ SlotsOf(c) = {}
    THEN UNCHANGED <<table, semaphore, reference_count>>
    ELSE /\ clients' = [clients EXCEPT ![LowestOf(SlotsOf(c))] = NULL]
         /\ client_thread_counts' = client_thread_counts - 1
         /\ fd' = [fd EXCEPT ![client_fd[c]] = -1]
         /\ reference_count' = [reference_count EXCEPT ![c] = @ - 1]
         /\ semaphore' = IF client_thread_counts' = 0 /\ waiting_shutdown = 1
                         THEN semaphore + 1 ELSE semaphore

\* A waiting thread may run as soon as the semaphore is posted, before the unlock.
Unregister(c) ==
    /\ mutex = NULL
    /\ mutex' = c
    /\ Goto(c, "unregister", "unlock")
    /\ UnregisterEffect(c)
    /\ UNCHANGED <<waiting_shutdown, kernel, target, termination>>

UnregisterUnlock(c) ==
    /\ mutex' = NULL
    /\ Goto(c, "unlock", "closing")
    /\ UNCHANGED <<table, signals, kernel, reference_count, target, termination>>

\* The last thing a service thread does.
CloseFd(c) ==
    /\ Goto(c, "closing", "gone")
    /\ open' = [open EXCEPT ![client_fd[c]] = NULL]
    /\ UNCHANGED <<table, signals, mutex, client_fd, reference_count, target, termination>>

-----------------------------------------------------------------------------
\* creg_wait_for_empty takes no lock: it stores waiting_shutdown, then reads the
\* count, and posts the semaphore itself when there is no client.
MayWait(w) == w = Main => shutdown = FdLimit

\* Faulty variant: nobody posts when there is no client to wait for.
PostNever(empty) == UNCHANGED semaphore

PostIf(empty) == semaphore' = IF empty THEN semaphore + 1 ELSE semaphore

SetWaiting(w) ==
    /\ MayWait(w)
    /\ GotoWait(w, "none", "stored")
    /\ waiting_shutdown' = 1
    /\ UNCHANGED <<table, semaphore, mutex, kernel, reference_count, pc, target, freed,
                   loop, process>>

ReadCount(w) ==
    /\ GotoWait(w, "stored", "armed")
    /\ PostIf(client_thread_counts = 0)
    /\ UNCHANGED <<table, waiting_shutdown, mutex, kernel, reference_count, pc, target,
                   freed, loop, process>>

\* The same two accesses as another processor may see them (a data race).
ReadCountEarly(w) ==
    /\ MayWait(w)
    /\ GotoWait(w, "none", IF client_thread_counts = 0 THEN "saw none" ELSE "saw some")
    /\ UNCHANGED <<table, signals, mutex, kernel, reference_count, pc, target, freed,
                   loop, process>>

SetWaitingLate(w) ==
    /\ \/ GotoWait(w, "saw none", "armed") /\ PostIf(TRUE)
       \/ GotoWait(w, "saw some", "armed") /\ PostIf(FALSE)
    /\ waiting_shutdown' = 1
    /\ UNCHANGED <<table, mutex, kernel, reference_count, pc, target, freed, loop,
                   process>>

SemWait(w) ==
    /\ semaphore > 0
    /\ GotoWait(w, "armed", "returned")
    /\ semaphore' = semaphore - 1
    /\ UNCHANGED <<table, waiting_shutdown, mutex, kernel, reference_count, pc, target,
                   freed, loop, process>>

-----------------------------------------------------------------------------
\* terminate() of main.c, run by the SIGHUP handler of the main thread.
Hangup ==
    /\ Running
    /\ Main \in Waiters
    /\ shutdown = -1
    /\ shutdown' = 0
    /\ UNCHANGED <<table, signals, mutex, kernel, reference_count, pc, target, freed,
                   wait, found, victim, process>>

\* One round of the loop of creg_shutdown_all.  It reads the descriptors and the
\* clients without the mutex, and uses the descriptor to index the clients array;
\* beyond the array, or in a slot without a client, it crashes.  Its shutdown()
\* and close() get the 1 or the -1 stored at the descriptor's index, never a
\* connection.
ShutdownSkip ==
    /\ Running
    /\ shutdown \in Fds /\ ~found /\ victim = NULL
    /\ fd[shutdown] # 1
    /\ shutdown' = shutdown + 1
    /\ UNCHANGED <<table, signals, mutex, kernel, reference_count, pc, target, freed,
                   wait, found, victim, process>>

ShutdownFound ==
    /\ Running
    /\ shutdown \in Fds /\ ~found /\ victim = NULL
    /\ fd[shutdown] = 1
    /\ found' = TRUE
    /\ UNCHANGED <<table, signals, mutex, kernel, reference_count, pc, target, freed,
                   wait, shutdown, victim, process>>

ShutdownPick ==
    /\ Running
    /\ found
    /\ found' = FALSE
    /\ IF shutdown \in Slots /\ clients[shutdown] # NULL
       THEN victim' = clients[shutdown] /\ UNCHANGED process
       ELSE process' = "crashed" /\ UNCHANGED victim
    /\ UNCHANGED <<table, signals, mutex, kernel, reference_count, pc, target, freed,
                   wait, shutdown>>

\* The client may have been unregistered since, and even freed: creg_unregister
\* finds its descriptor unregistered, or crashes.
ShutdownUnregister ==
    /\ Running
    /\ victim # NULL
    /\ mutex = NULL
    /\ \/ UnregisterEffect(victim) /\ UNCHANGED process
       \/ /\ reference_count[victim] = 0
          /\ process' = "crashed"
          /\ UNCHANGED <<table, semaphore, reference_count>>
    /\ victim' = NULL
    /\ shutdown' = shutdown + 1
    /\ UNCHANGED <<waiting_shutdown, mutex, kernel, pc, target, freed, wait, found>>

\* creg_fini returns without doing anything when clients are registered.
Fini ==
    /\ Main \in Waiters
    /\ GotoWait(Main, "returned", "exiting")
    /\ freed' = (client_thread_counts = 0)
    /\ UNCHANGED <<table, signals, mutex, kernel, reference_count, pc, target, loop, process>>

Exit ==
    /\ Running
    /\ Main \in Waiters /\ wait[Main] = "exiting"
    /\ process' = "exited"
    /\ UNCHANGED <<table, signals, mutex, kernel, reference_count, pc, target, freed, wait,
                   loop>>

-----------------------------------------------------------------------------
Service(c) ==
    \/ Register(c) \/ RegisterRefused(c) \/ ReleaseTarget(c)
    \/ Unregister(c) \/ UnregisterUnlock(c) \/ CloseFd(c)

Waiting(w) ==
    \/ ReadCount(w) \/ SetWaitingLate(w) \/ SemWait(w)

Shutdown == ShutdownSkip \/ ShutdownFound \/ ShutdownPick \/ ShutdownUnregister

Terminate == Hangup \/ Shutdown \/ Fini \/ Exit

Next ==
    \/ \E c \in Conns : Accept(c) \/ Service(c) \/ SeeEOF(c)
    \/ \E c, d \in Conns : Lookup(c, d)
    \/ \E w \in Waiters : SetWaiting(w) \/ ReadCountEarly(w) \/ Waiting(w)
    \/ Terminate

Spec == Init /\ [][Next]_vars

\* Threads keep running, and every connection ends some day instead of making
\* invitations forever.
FairSpec ==
    /\ Spec
    /\ \A c \in Conns : WF_vars(Service(c)) /\ SF_vars(SeeEOF(c))
    /\ \A w \in Waiters : WF_vars(Waiting(w))

-----------------------------------------------------------------------------
\* The fields of the registry and the state of its users have their types.
TypeOK ==
    /\ clients \in [Slots -> Conns \cup {NULL}]
    /\ fd \in [Fds -> {-1, 1}]
    /\ client_thread_counts \in 0..MAX_CLIENTS
    /\ waiting_shutdown \in {0, 1}
    /\ semaphore \in Nat
    /\ mutex \in Conns \cup {NULL}
    /\ open \in [Fds -> Conns \cup {NULL}]
    /\ client_fd \in [Conns -> Fds \cup {-1}]
    /\ reference_count \in [Conns -> Nat]
    /\ target \in [Conns -> Conns \cup {NULL}]
    /\ shutdown \in -1..FdLimit
    /\ found \in BOOLEAN
    /\ victim \in Conns \cup {NULL}

Occupied == {s \in Slots : clients[s] # NULL}

NoStaleDescriptor == \A c \in Conns : pc[c] = "accepted" => fd[client_fd[c]] = -1

\* The three records of who is registered, which creg_register, creg_unregister,
\* creg_all_players and creg_wait_for_empty each read a different one of, agree.
\* A new connection that got a used descriptor is never taken for the old one: its
\* descriptor is unregistered by then (creg_unregister comes before close).
RecordsAgree ==
    /\ TypeOK
    /\ NoStaleDescriptor
    /\ client_thread_counts = Cardinality(Occupied)
    /\ \A f \in Fds : fd[f] = 1 <=> \E s \in Occupied : client_fd[clients[s]] = f
    /\ \A s, u \in Occupied : client_fd[clients[s]] = client_fd[clients[u]] => s = u

\* Until the server is shut down, no thread uses a CLIENT that has been freed: neither
\* its own, nor the one it has looked up, even if that client disconnects meanwhile.
ClientInUseIsAlive ==
    shutdown = -1 => \A c \in Conns :
        /\ pc[c] \in {"serving", "unregister"} => reference_count[c] > 0
        /\ target[c] # NULL => reference_count[target[c]] > 0

\* A thread that waits for the clients to be gone, and whose two unlocked accesses are
\* seen in order, returns, whichever client leaves in between.
WaitReturns == \A w \in Waiters : wait[w] = "stored" ~> wait[w] = "returned"
=============================================================================
