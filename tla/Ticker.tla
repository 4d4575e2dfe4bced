-------------------------------- MODULE Ticker --------------------------------
(***************************************************************************)
(* The event loop of the ticker (hw4/src/ticker.c) with its signal         *)
(* handlers, the commands that start and stop watchers (helperFun.c) and   *)
(* the Bitstamp watchers, each a child process that writes to a pipe       *)
(* (bitstamp.c).                                                           *)
(*                                                                         *)
(* There is one thread, but SIGIO, SIGCHLD and SIGINT interrupt it between *)
(* any two steps.  SIGIO is a standard signal: one can be pending, and it  *)
(* names the descriptor of the first event only.                           *)
(***************************************************************************)
EXTENDS Integers, FiniteSets, Sequences

CONSTANTS
    Children,       \* the processes fork can return; each is one watcher
    Channels,       \* what watchers subscribe to (args[0])
    NULL,
    TableSize,      \* initial slots of the watcher table, without the CLI's (9)
    MaxLines        \* bound on the lines that are read at a time

ASSUME NullAssumption == {NULL, "stdin"} \cap Children = {} /\ NULL # "stdin"
ASSUME BoundAssumption == TableSize \in Nat /\ MaxLines \in Nat

VARIABLES
    \* outside the process
    process,        \* "none", "running", "killed", "zombie" or "reaped"
    eof,            \* the end of stdin
    pendingIO,      \* the descriptor of the pending SIGIO, or NULL
    pendingCHLD,
    blocked,        \* SIGIO is blocked
    \* globals, shared with the handlers
    userInput,
    processInput,   \* the descriptor to read from; NULL stands for 0
    quit, err,
    watcher_table,  \* slot by slot, without the CLI
    moved,          \* realloc has moved the table away from the global pointer
    channel,        \* the channel of a watcher, NULL before it is started
    store,          \* the channels that have a price or a volume in the store
    late,           \* history: news were stored for a watcher that had been freed
    childrenAllocated, childrenFreed,
    \* the main thread
    pc,
    return,         \* where readFromInput returns to
    lines,          \* lines read and not handled yet
    atEof,          \* the last read from stdin has returned 0
    current,        \* the watcher that is being started or whose lines are handled
    closeIndex,
    missed          \* history: a child was counted that the closing loop never saw

kernel == <<process, eof>>
signals == <<pendingIO, pendingCHLD, blocked>>
flags == <<userInput, processInput, quit, err>>
watchers == <<watcher_table, moved, channel, store, late>>
counts == <<childrenAllocated, childrenFreed, missed>>
local == <<return, lines, atEof, current, closeIndex>>
vars == <<kernel, signals, flags, watchers, counts, pc, local>>

Init ==
    /\ process = [c \in Children |-> "none"]
    /\ eof = FALSE
    /\ pendingIO = NULL /\ pendingCHLD = FALSE /\ blocked = FALSE
    /\ userInput = FALSE /\ processInput = NULL /\ quit = FALSE /\ err = FALSE
    /\ watcher_table = [i \in 1..TableSize |-> NULL]
    /\ moved = FALSE
    /\ channel = [c \in Children |-> NULL]
    /\ store = {} /\ late = FALSE
    /\ childrenAllocated = 0 /\ childrenFreed = 0 /\ missed = FALSE
    /\ pc = "read" /\ return = "test"
    /\ lines = 0 /\ atEof = FALSE /\ current = NULL /\ closeIndex = 1

Finished == pc \in {"done", "failed", "crashed"}

Goto(from, to) == pc = from /\ pc' = to

SlotsOf(c) == {i \in 1..Len(watcher_table) : watcher_table[i] = c}
Listed == {c \in Children : SlotsOf(c) # {}}

-----------------------------------------------------------------------------
\* What the kernel does: a SIGIO that finds another one pending is dropped.
SigIO(d) == pendingIO' = IF pendingIO = NULL THEN d ELSE pendingIO

\* Somebody types, or a child writes.  What is in stdin and the pipes is not kept: a read
\* returns any number of lines.
Type ==
    /\ ~Finished /\ ~eof
    /\ SigIO("stdin")
    /\ UNCHANGED <<kernel, pendingCHLD, blocked, flags, watchers, counts, pc, local>>

Alive(c) == process[c] \in {"running", "killed"}

Say(c) ==
    /\ ~Finished
    /\ Alive(c)
    /\ SigIO(c)
    /\ UNCHANGED <<kernel, pendingCHLD, blocked, flags, watchers, counts, pc, local>>

CloseInput ==
    /\ ~Finished /\ ~eof
    /\ eof' = TRUE
    /\ SigIO("stdin")
    /\ UNCHANGED <<process, pendingCHLD, blocked, flags, watchers, counts, pc, local>>

\* Its pipe is closed, then the parent gets SIGCHLD.
ExitChild(c) ==
    /\ ~Finished
    /\ Alive(c)
    /\ process' = [process EXCEPT ![c] = "zombie"]
    /\ SigIO(c)
    /\ pendingCHLD' = TRUE
    /\ UNCHANGED <<eof, blocked, flags, watchers, counts, pc, local>>

-----------------------------------------------------------------------------
\* A handler runs between two steps of the main thread, or ends its sigsuspend.
Resumed == IF pc = "suspend" THEN "user" ELSE pc

Interrupted == ~Finished /\ pc' = Resumed

sigIntHandler ==
    /\ Interrupted
    /\ ~quit /\ quit' = TRUE
    /\ UNCHANGED <<kernel, signals, userInput, processInput, err, watchers, counts,
                   local>>

sigIOHandler ==
    /\ Interrupted
    /\ pendingIO # NULL /\ ~blocked
    /\ pendingIO' = NULL
    /\ IF pendingIO = "stdin"
       THEN userInput' = TRUE /\ UNCHANGED processInput
       ELSE processInput' = pendingIO /\ UNCHANGED userInput
    /\ UNCHANGED <<kernel, pendingCHLD, blocked, quit, err, watchers, counts, local>>

\* Faulty variant: the watcher that is freed is counted among those that share its channel.
ClearedByOthers(freed) ==
    {ch \in Channels : /\ \E c \in freed : channel[c] = ch
                       /\ \A c \in Listed : channel[c] # ch}

\* Of the watchers that are freed, those that nobody shares the channel with take
\* its price and volume with them.
Cleared(freed) ==
    {ch \in Channels : /\ \E c \in freed : channel[c] = ch
                       /\ \A c \in Listed \ freed : channel[c] # ch}

\* Faulty variant: one child is counted for a signal, however many have ended.
CountedOnce(freed) == IF quit /\ freed # {} THEN 1 ELSE 0

\* How many of them are counted: those that end once the quit flag is set.
Counted(freed) == IF quit THEN Cardinality(freed) ELSE 0

\* The last waitpid leaves ECHILD in errno when there are no children.  A read that has
\* returned with EWOULDBLOCK just before is then taken for a failure.
Clobbers == pc \in {"drained", "emptied"} /\ \A c \in Children : ~Alive(c)

AfterClobbered == IF pc = "drained" THEN "commands" ELSE "messages"

\* Every child that has ended is reaped; its watcher is freed if it is in the table.
sigChildHandler ==
    LET zombies == {c \in Children : process[c] = "zombie"}
        freed == zombies \cap Listed
    IN  /\ ~Finished
        /\ pendingCHLD /\ pendingCHLD' = FALSE
        /\ pc' = IF Clobbers THEN AfterClobbered ELSE Resumed
        /\ err' = (err \/ Clobbers)
        /\ process' = [c \in Children |-> IF c \in zombies THEN "reaped" ELSE process[c]]
        /\ watcher_table' = [i \in 1..Len(watcher_table) |->
              IF watcher_table[i] \in freed THEN NULL ELSE watcher_table[i]]
        /\ store' = store \ Cleared(freed)
        /\ childrenFreed' = childrenFreed + Counted(freed)
        /\ missed' = (missed \/ (quit /\ \E c \in freed : \E i \in SlotsOf(c) : i >= closeIndex))
        /\ processInput' = NULL
        /\ UNCHANGED <<eof, pendingIO, blocked, userInput, quit, moved, channel, late,
                       childrenAllocated, local>>

-----------------------------------------------------------------------------
\* readFromInput: read until there is no more, then clear the flag (unless the input has
\* ended), then handle line by line.
ReadInput ==
    /\ Goto("read", IF eof THEN "commands" ELSE "drained")
    /\ lines' \in 0..MaxLines
    /\ atEof' = eof
    /\ UNCHANGED <<kernel, signals, flags, watchers, counts, return, current,
                   closeIndex>>

ClearUserInput ==
    /\ Goto("drained", "commands")
    /\ userInput' = FALSE
    /\ UNCHANGED <<kernel, signals, processInput, quit, err, watchers, counts, local>>

Command == lines > 0 /\ lines' = lines - 1 /\ Goto("commands", "handled")

\* quit; the remaining lines are dropped.
QuitCommand ==
    /\ Command
    /\ quit' = TRUE
    /\ UNCHANGED <<kernel, signals, userInput, processInput, err, watchers, counts,
                   return, atEof, current, closeIndex>>

\* A command that leaves watchers and store alone, or a wrong one.
OtherCommand ==
    /\ Command
    /\ UNCHANGED <<kernel, signals, flags, watchers, counts, return, atEof, current,
                   closeIndex>>

\* start: pipes and fork, then the first free slot of the table.
New == {c \in Children : process[c] = "none"}

StartCommand(ch) ==
    LET c == CHOOSE c \in New : TRUE IN
    /\ lines > 0 /\ lines' = lines - 1
    /\ Goto("commands", "insert")
    /\ New # {}
    /\ process' = [process EXCEPT ![c] = "running"]
    /\ channel' = [channel EXCEPT ![c] = ch]
    /\ current' = c
    /\ UNCHANGED <<eof, signals, flags, watcher_table, moved, store, late, counts, return, atEof,
                   closeIndex>>

FreeSlots == {i \in 1..Len(watcher_table) : watcher_table[i] = NULL}

\* Faulty variant: a full table has its last slot used again.
InsertOverLast ==
    LET free == FreeSlots \cup {Len(watcher_table)} IN
    /\ Goto("insert", "handled")
    /\ watcher_table' = [watcher_table EXCEPT
           ![CHOOSE i \in free : \A j \in free : i <= j] = current]
    /\ current' = NULL
    /\ UNCHANGED <<kernel, signals, flags, moved, channel, store, late, counts, return, lines, atEof,
                   closeIndex>>

\* A full table is made larger for the CLI; the global pointer that the closing loop
\* uses is not changed.
Insert ==
    /\ Goto("insert", "handled")
    /\ IF FreeSlots # {}
       THEN /\ watcher_table' = [watcher_table EXCEPT
                  ![CHOOSE i \in FreeSlots : \A j \in FreeSlots : i <= j] = current]
            /\ UNCHANGED moved
       ELSE /\ watcher_table' = Append(watcher_table, current)
            /\ moved' \in {moved, TRUE}
    /\ current' = NULL
    /\ UNCHANGED <<kernel, signals, flags, channel, store, late, counts, return, lines, atEof,
                   closeIndex>>

\* kill(pid, SIGTERM): an error if there is no such process any more.
Killed(c) ==
    IF process[c] = "running" THEN process' = [process EXCEPT ![c] = "killed"]
                              ELSE UNCHANGED process

StopCommand(c) ==
    /\ Command
    /\ c \in Listed
    /\ Killed(c)
    /\ err' = (err \/ process[c] = "reaped")
    /\ UNCHANGED <<eof, signals, userInput, processInput, quit, watchers,
                   counts, return, atEof, current, closeIndex>>

\* After each command the loop stops when quit or err is set.
NextCommand ==
    /\ ~quit /\ ~err
    /\ Goto("handled", "commands")
    /\ UNCHANGED <<kernel, signals, flags, watchers, counts, local>>

\* -1 is returned for err, which makes the caller quit.
InputDone ==
    /\ (pc = "commands" /\ lines = 0) \/ (pc = "handled" /\ (quit \/ err))
    /\ quit' = (quit \/ atEof \/ err)
    /\ pc' = return
    /\ return' = "checked"
    /\ lines' = 0 /\ atEof' = FALSE
    /\ UNCHANGED <<kernel, signals, userInput, processInput, err, watchers, counts,
                   current, closeIndex>>

-----------------------------------------------------------------------------
\* The loop of ticker().
Test ==
    /\ Goto("test", IF quit \/ err THEN "closing"
                    ELSE IF ~userInput /\ processInput = NULL THEN "suspend" ELSE "user")
    /\ UNCHANGED <<kernel, signals, flags, watchers, counts, local>>

User ==
    /\ Goto("user", IF userInput THEN "read" ELSE "checked")
    /\ UNCHANGED <<kernel, signals, flags, watchers, counts, local>>

Checked ==
    /\ Goto("checked", IF processInput = NULL THEN "test" ELSE "process")
    /\ blocked' = (blocked \/ quit \/ err)
    /\ current' = processInput
    /\ UNCHANGED <<kernel, pendingIO, pendingCHLD, flags, watchers, counts, return,
                   lines, atEof, closeIndex>>

\* readFromProcess: the descriptor of a freed watcher is closed, and reading it an error.
\* At the end of a pipe the flag is not cleared.
ReadProcess ==
    /\ IF current \in Listed
       THEN /\ Goto("process", IF Alive(current) THEN "emptied" ELSE "messages")
            /\ lines' \in 0..MaxLines
            /\ UNCHANGED err
       ELSE /\ Goto("process", "messages")
            /\ err' = TRUE
            /\ UNCHANGED lines
    /\ UNCHANGED <<kernel, signals, userInput, processInput, quit, watchers,
                   counts, return, atEof, current, closeIndex>>

ClearProcessInput ==
    /\ Goto("emptied", "messages")
    /\ processInput' = NULL
    /\ UNCHANGED <<kernel, signals, userInput, quit, err, watchers, counts, local>>

\* bitstamp_watcher_recv, up to the keys of the store: a line may be of no interest, wrong
\* (the ticker gives up), or news of the channel.  The watcher may have been freed since it
\* was looked up.
Recv ==
    /\ lines > 0 /\ lines' = lines - 1
    /\ \/ current \notin Listed /\ Goto("messages", "crashed") /\ UNCHANGED err
       \/ current \in Listed /\ Goto("messages", "received") /\ err' \in {err, TRUE}
       \/ current \in Listed /\ Goto("messages", "put") /\ UNCHANGED err
    /\ UNCHANGED <<kernel, signals, userInput, processInput, quit, watchers, counts,
                   return, atEof, current, closeIndex>>

\* From here on the watcher is not looked at: what is stored for one that has been freed
\* since is nobody's to clear.
Put ==
    /\ Goto("put", "received")
    /\ store' = store \cup {channel[current]}
    /\ late' = (late \/ current \notin Listed)
    /\ UNCHANGED <<kernel, signals, flags, watcher_table, moved, channel, counts, local>>

NextMessage ==
    /\ ~quit /\ ~err
    /\ Goto("received", "messages")
    /\ UNCHANGED <<kernel, signals, flags, watchers, counts, local>>

ProcessDone ==
    /\ \/ lines = 0 /\ Goto("messages", "test")
       \/ (quit \/ err) /\ Goto("received", "test")
    /\ lines' = 0
    /\ current' = NULL
    /\ quit' = (quit \/ err)
    /\ UNCHANGED <<kernel, signals, userInput, processInput, err, watchers, counts,
                   return, atEof, closeIndex>>

-----------------------------------------------------------------------------
\* Every watcher is stopped (also one that is stopped already) and counted.  A table that
\* has moved is read after it has been freed: the model ends there.
CloseNext ==
    LET c == watcher_table[closeIndex]
        Stopped ==
            /\ Killed(c)
            /\ IF process[c] = "reaped"
               THEN Goto("closing", "failed") /\ UNCHANGED childrenAllocated
               ELSE Goto("closing", "closing") /\ childrenAllocated' = childrenAllocated + 1
    IN  /\ closeIndex <= Len(watcher_table)
        /\ \/ moved /\ Goto("closing", "crashed") /\ UNCHANGED <<process, childrenAllocated>>
           \/ ~moved /\ c # NULL /\ Stopped
           \/ ~moved /\ c = NULL /\ Goto("closing", "closing")
              /\ UNCHANGED <<process, childrenAllocated>>
        /\ closeIndex' = closeIndex + 1
        /\ UNCHANGED <<eof, signals, flags, watchers, childrenFreed, missed,
                       return, lines, atEof, current>>

\* Faulty variant: the loop ends at the first slot.
CloseEndEarly ==
    /\ Goto("closing", "waiting")
    /\ UNCHANGED <<kernel, signals, flags, watchers, counts, local>>

CloseEnd ==
    /\ closeIndex > Len(watcher_table)
    /\ Goto("closing", "waiting")
    /\ UNCHANGED <<kernel, signals, flags, watchers, counts, local>>

\* A busy wait for the handler.
WaitForChildren ==
    /\ childrenFreed = childrenAllocated
    /\ Goto("waiting", "done")
    /\ UNCHANGED <<kernel, signals, flags, watchers, counts, local>>

-----------------------------------------------------------------------------
Main ==
    \/ ReadInput \/ ClearUserInput \/ QuitCommand \/ OtherCommand \/ Insert
    \/ (\E ch \in Channels : StartCommand(ch)) \/ \E c \in Children : StopCommand(c)
    \/ NextCommand \/ InputDone \/ Test \/ User \/ Checked
    \/ ReadProcess \/ ClearProcessInput \/ Recv \/ Put \/ NextMessage \/ ProcessDone
    \/ CloseNext \/ CloseEnd \/ WaitForChildren

Next ==
    \/ Type \/ CloseInput
    \/ \E c \in Children : Say(c) \/ ExitChild(c)
    \/ sigIntHandler \/ sigIOHandler \/ sigChildHandler
    \/ Main

Spec == Init /\ [][Next]_vars

\* The main thread runs, pending signals are delivered, and a killed child ends.
FairSpec ==
    /\ Spec
    /\ WF_vars(Main)
    /\ WF_vars(sigIOHandler) /\ WF_vars(sigChildHandler)
    /\ \A c \in Children : WF_vars(process[c] = "killed" /\ ExitChild(c))

-----------------------------------------------------------------------------
\* The flags, the table and the rest of the state have their types.
TypeOK ==
    /\ process \in [Children -> {"none", "running", "killed", "zombie", "reaped"}]
    /\ pendingIO \in Children \cup {NULL, "stdin"}
    /\ userInput \in BOOLEAN /\ processInput \in Children \cup {NULL}
    /\ watcher_table \in Seq(Children \cup {NULL})
    /\ store \subseteq Channels
    /\ current \in Children \cup {NULL}
    /\ closeIndex \in 1..(Len(watcher_table) + 1)

\* A child that has not been reaped can be found in the table by the handler and by the
\* closing loop, in one slot, except while it is being started: none is overwritten or
\* dropped, whenever the handler empties slots.  What the handlers write has its type.
EveryChildListed ==
    /\ TypeOK
    /\ \A c \in Children :
          process[c] \in {"running", "killed", "zombie"} =>
              Cardinality(SlotsOf(c)) = (IF pc = "insert" /\ current = c THEN 0 ELSE 1)

\* The store knows a channel only while a watcher of that channel is in the table, whichever
\* of several watchers of the channel end and when, unless news were stored for a watcher
\* that was freed in the middle of its line.
StoreHasWatcher ==
    ~late => \A ch \in store : \E c \in Listed : channel[c] = ch

\* When ticker() returns 0, no child has been left behind, unless one had ended in the time
\* between the quit and its turn in the closing loop.
ReapedAtEnd ==
    pc = "done" /\ ~missed => \A c \in Children : process[c] \in {"none", "reaped"}

\* The closing loop and the busy wait come to an end with the same exception, however many
\* children one SIGCHLD stands for and whenever it comes.
ClosingEnds == pc = "closing" ~> Finished \/ missed

\* "cat /dev/null | timeout -s KILL 5s bin/ticker" exits (hw4/tests/hw4_tests.c:21-27): the
\* end of the input ends the ticker.
EndOfInputEnds == eof ~> Finished
=============================================================================
