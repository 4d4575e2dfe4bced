---------------------------- MODULE Ticker_proofs ----------------------------
(* Theorems about Ticker, for every set of children and channels and every   *)
(* size of the watcher table.                                                *)
EXTENDS Ticker, FiniteSetTheorems, TLAPS

(***************************************************************************)
(* The inductive invariant.                                                *)
(***************************************************************************)
Steps == {"read", "drained", "commands", "handled", "insert", "test", "suspend", "user",
          "checked", "process", "emptied", "messages", "received", "put",
          "closing", "waiting", "done", "failed", "crashed"}

\* The types that the safety properties do not mention.
ControlOK ==
    /\ pc \in Steps
    /\ return \in {"test", "checked"}
    /\ quit \in BOOLEAN /\ err \in BOOLEAN /\ missed \in BOOLEAN /\ late \in BOOLEAN
    /\ channel \in [Children -> Channels \cup {NULL}]
    /\ childrenAllocated \in Nat /\ childrenFreed \in Nat

\* A watcher is in one slot at most.  A child that exists is in one from the moment the
\* table has it until it is reaped, and it has a channel.
InOneSlot ==
    \A i, j \in 1..Len(watcher_table) :
        watcher_table[i] # NULL /\ watcher_table[i] = watcher_table[j] => i = j

Inserting(c) == pc = "insert" /\ current = c

ChildrenListed ==
    \A c \in Children :
        /\ process[c] = "none" => c \notin Listed
        /\ process[c] # "none" => channel[c] \in Channels
        /\ process[c] \in {"running", "killed", "zombie"} /\ ~Inserting(c) => c \in Listed

\* The watcher that is being started or whose news are stored has been forked.
CurrentForked ==
    /\ pc \in {"insert", "put"} => current \in Children /\ process[current] # "none"
    /\ pc = "insert" => current \notin Listed

\* An error makes the ticker quit before the loop is tested again.
ErrorQuits ==
    err /\ ~quit =>
        pc \in {"commands", "handled", "insert", "messages", "received", "put", "crashed"}

\* The closing loop starts after the quit flag is set, and nobody else moves its index.
\* The busy wait ends when the counters agree.
ClosingQuits ==
    /\ pc \in {"closing", "waiting", "done", "failed"} => quit
    /\ closeIndex # 1 => pc \in {"closing", "waiting", "done", "failed", "crashed"}
    /\ pc \in {"waiting", "done"} => closeIndex > Len(watcher_table)
    /\ pc = "done" => childrenFreed = childrenAllocated

\* The slots the closing loop has passed whose watcher has not been freed yet.
Passed == {i \in 1..(closeIndex - 1) : watcher_table[i] # NULL}

\* The two counters differ by the watchers that were stopped and have not ended.
CountersDiffer ==
    ~missed /\ pc \notin {"failed", "crashed"} =>
        childrenAllocated = childrenFreed + Cardinality(Passed)

IInv == /\ TypeOK
        /\ ControlOK
        /\ InOneSlot
        /\ ChildrenListed
        /\ CurrentForked
        /\ ErrorQuits
        /\ ClosingQuits
        /\ CountersDiffer
        /\ StoreHasWatcher

-----------------------------------------------------------------------------
(***************************************************************************)
(* Steps that move the control and the flags, and leave children, table,   *)
(* store and counters alone.                                               *)
(***************************************************************************)
ControlMoves ==
    /\ ~Finished
    /\ UNCHANGED <<process, watcher_table, channel, store, late, childrenAllocated,
                   childrenFreed, missed, closeIndex>>
    /\ pendingIO' \in Children \cup {NULL, "stdin"}
    /\ userInput' \in BOOLEAN /\ processInput' \in Children \cup {NULL}
    /\ current' \in Children \cup {NULL}
    /\ pc' \in Steps /\ return' \in {"test", "checked"}
    /\ quit' \in BOOLEAN /\ err' \in BOOLEAN
    /\ pc' = "insert" <=> pc = "insert"
    /\ pc \in {"insert", "put"} /\ pc' = pc => current' = current
    /\ pc' = "put" => current' = current /\ (pc = "put" \/ current \in Listed)
    /\ ErrorQuits'
    /\ ClosingQuits'

\* Such a step keeps the invariant.
LEMMA ControlMovesIInv ==
    ASSUME IInv, ControlMoves
    PROVE  IInv'
<1>1. Listed' = Listed
  BY DEF ControlMoves, Listed, SlotsOf
<1>2. TypeOK'
  BY DEF IInv, TypeOK, ControlMoves
<1>3. ControlOK'
  BY DEF IInv, ControlOK, ControlMoves
<1>4. InOneSlot'
  BY DEF IInv, InOneSlot, ControlMoves
<1>5. ChildrenListed'
  BY <1>1 DEF IInv, ChildrenListed, ControlMoves, Inserting
<1>6. CurrentForked'
  BY <1>1 DEF IInv, CurrentForked, ChildrenListed, ControlMoves, Listed
<1>7. CountersDiffer'
  <2>1. Passed' = Passed
    BY DEF ControlMoves, Passed
  <2>2. QED
    BY <2>1 DEF IInv, CountersDiffer, ControlMoves, Finished
<1>8. StoreHasWatcher'
  BY <1>1 DEF IInv, StoreHasWatcher, ControlMoves
<1>9. QED
  BY <1>2, <1>3, <1>4, <1>5, <1>6, <1>7, <1>8 DEF IInv, ControlMoves

\* What the kernel and the users do.
LEMMA KernelMoves ==
    ASSUME IInv, Type \/ CloseInput \/ \E c \in Children : Say(c)
    PROVE  ControlMoves
<1> USE DEF IInv, TypeOK, ControlOK, ErrorQuits, ClosingQuits, kernel, signals, flags,
            watchers, counts, local, SigIO, ControlMoves
<1>1. CASE Type
  BY <1>1 DEF Type, Finished
<1>2. CASE CloseInput
  BY <1>2 DEF CloseInput, Finished
<1>3. ASSUME NEW c \in Children, Say(c)
      PROVE  ControlMoves
  BY <1>3 DEF Say, Finished
<1>4. QED
  BY <1>1, <1>2, <1>3

\* The handlers of SIGINT and SIGIO.
LEMMA HandlersMove ==
    ASSUME IInv, sigIntHandler \/ sigIOHandler
    PROVE  ControlMoves
<1> USE DEF IInv, TypeOK, ControlOK, ErrorQuits, ClosingQuits, kernel, signals, flags,
            watchers, counts, local, Interrupted, Resumed, Finished, Steps, ControlMoves
<1>1. CASE sigIntHandler
  BY <1>1 DEF sigIntHandler
<1>2. CASE sigIOHandler
  <2>1. processInput' \in Children \cup {NULL} /\ userInput' \in BOOLEAN
    BY <1>2 DEF sigIOHandler
  <2>2. QED
    BY <1>2, <2>1 DEF sigIOHandler
<1>3. QED
  BY <1>1, <1>2

\* The steps of readFromInput that start and stop no watcher.
LEMMA InputMoves ==
    ASSUME IInv,
           \/ ReadInput \/ ClearUserInput \/ QuitCommand \/ OtherCommand \/ NextCommand
           \/ InputDone
    PROVE  ControlMoves
<1> USE DEF IInv, TypeOK, ControlOK, ErrorQuits, ClosingQuits, kernel, signals, flags,
            watchers, counts, local, Goto, Command, Finished, Steps, ControlMoves
<1>1. CASE ReadInput
  BY <1>1 DEF ReadInput
<1>2. CASE ClearUserInput
  BY <1>2 DEF ClearUserInput
<1>3. CASE QuitCommand
  BY <1>3 DEF QuitCommand
<1>4. CASE OtherCommand
  BY <1>4 DEF OtherCommand
<1>5. CASE NextCommand
  BY <1>5 DEF NextCommand
<1>6. CASE InputDone
  BY <1>6 DEF InputDone
<1>7. QED
  BY <1>1, <1>2, <1>3, <1>4, <1>5, <1>6

\* The loop of ticker().
LEMMA LoopMoves ==
    ASSUME IInv, Test \/ User \/ Checked \/ CloseEnd \/ WaitForChildren
    PROVE  ControlMoves
<1> USE DEF IInv, TypeOK, ControlOK, ErrorQuits, ClosingQuits, kernel, signals, flags,
            watchers, counts, local, Goto, Finished, Steps, ControlMoves
<1>1. CASE Test
  BY <1>1 DEF Test
<1>2. CASE User
  BY <1>2 DEF User
<1>3. CASE Checked
  BY <1>3 DEF Checked
<1>4. CASE CloseEnd
  BY <1>4 DEF CloseEnd
<1>5. CASE WaitForChildren
  BY <1>5 DEF WaitForChildren
<1>6. QED
  BY <1>1, <1>2, <1>3, <1>4, <1>5

\* The steps of readFromProcess that store nothing.
LEMMA ProcessMoves ==
    ASSUME IInv, ReadProcess \/ ClearProcessInput \/ Recv \/ NextMessage \/ ProcessDone
    PROVE  ControlMoves
<1> USE DEF IInv, TypeOK, ControlOK, ErrorQuits, ClosingQuits, kernel, signals, flags,
            watchers, counts, local, Goto, Finished, Steps, ControlMoves
<1>1. CASE ReadProcess
  BY <1>1 DEF ReadProcess
<1>2. CASE ClearProcessInput
  BY <1>2 DEF ClearProcessInput
<1>3. CASE Recv
  BY <1>3 DEF Recv
<1>4. CASE NextMessage
  BY <1>4 DEF NextMessage
<1>5. CASE ProcessDone
  BY <1>5 DEF ProcessDone
<1>6. QED
  BY <1>1, <1>2, <1>3, <1>4, <1>5

-----------------------------------------------------------------------------
(***************************************************************************)
(* Steps that change a child and leave the table alone.                    *)
(***************************************************************************)
\* The slots the closing loop has passed are finitely many.
LEMMA PassedFinite ==
    ASSUME IInv
    PROVE  IsFiniteSet(Passed) /\ Cardinality(Passed) \in Nat
<1>1. closeIndex - 1 \in Int
  BY DEF IInv, TypeOK
<1>2. IsFiniteSet(1..(closeIndex - 1))
  BY <1>1, FS_Interval
<1>3. Passed \in SUBSET (1..(closeIndex - 1))
  BY DEF Passed
<1>4. IsFiniteSet(Passed)
  BY <1>2, <1>3, FS_Subset
<1>5. QED
  BY <1>4, FS_CardinalityType

\* What a child does, and a signal to it, changes one running child into another that has
\* not been reaped.
LEMMA ExitChildIInv ==
    ASSUME IInv, NEW c \in Children, ExitChild(c)
    PROVE  IInv'
<1> USE DEF ExitChild, kernel, flags, watchers, counts, local
<1>1. Listed' = Listed /\ Passed' = Passed
  BY DEF Listed, SlotsOf, Passed
<1>2. TypeOK'
  BY DEF IInv, TypeOK, SigIO
<1>3. ControlOK' /\ InOneSlot' /\ ErrorQuits' /\ ClosingQuits'
  BY DEF IInv, ControlOK, InOneSlot, ErrorQuits, ClosingQuits
<1>4. ChildrenListed'
  BY <1>1 DEF IInv, TypeOK, ChildrenListed, Alive, Inserting
<1>5. CurrentForked'
  BY <1>1 DEF IInv, TypeOK, CurrentForked
<1>6. CountersDiffer' /\ StoreHasWatcher'
  BY <1>1 DEF IInv, CountersDiffer, StoreHasWatcher
<1>7. QED
  BY <1>2, <1>3, <1>4, <1>5, <1>6 DEF IInv

\* A stop command.
LEMMA StopCommandIInv ==
    ASSUME IInv, NEW c \in Children, StopCommand(c)
    PROVE  IInv'
<1> USE DEF StopCommand, Command, Goto, signals, watchers, counts
<1>1. Listed' = Listed /\ Passed' = Passed
  BY DEF Listed, SlotsOf, Passed
<1>2. /\ process' \in [Children -> {"none", "running", "killed", "zombie", "reaped"}]
      /\ \A d \in Children : \/ process'[d] = process[d]
                             \/ process[d] = "running" /\ process'[d] = "killed"
  BY DEF Killed, IInv, TypeOK
<1>3. TypeOK'
  BY <1>2 DEF IInv, TypeOK
<1>4. ControlOK' /\ InOneSlot' /\ ErrorQuits' /\ ClosingQuits'
  BY DEF IInv, ControlOK, InOneSlot, ErrorQuits, ClosingQuits, Steps
<1>5. ChildrenListed'
  BY <1>1, <1>2 DEF IInv, TypeOK, ChildrenListed, Inserting
<1>6. CurrentForked'
  BY <1>1 DEF IInv, CurrentForked
<1>7. CountersDiffer' /\ StoreHasWatcher'
  BY <1>1 DEF IInv, CountersDiffer, StoreHasWatcher
<1>8. QED
  BY <1>3, <1>4, <1>5, <1>6, <1>7 DEF IInv

\* The child that is forked is in no slot yet, so nobody's channel in the table changes.
LEMMA StartCommandIInv ==
    ASSUME IInv, NEW ch \in Channels, StartCommand(ch)
    PROVE  IInv'
<1> DEFINE c == CHOOSE c \in New : TRUE
<1>0. /\ c \in New
      /\ process' = [process EXCEPT ![c] = "running"]
      /\ channel' = [channel EXCEPT ![c] = ch]
      /\ current' = c
      /\ pc = "commands" /\ pc' = "insert"
  BY DEF StartCommand, Goto
<1>a. UNCHANGED <<eof, signals, flags, watcher_table, moved, store, late, counts, return, atEof,
                  closeIndex>>
  BY DEF StartCommand
<1> HIDE DEF c
<1>1. c \in Children /\ process[c] = "none" /\ c \notin Listed
  BY <1>0 DEF New, IInv, ChildrenListed
<1> USE DEF signals, flags, counts
<1>2. Listed' = Listed /\ Passed' = Passed
  BY <1>a DEF Listed, SlotsOf, Passed
<1>3. TypeOK'
  BY <1>0, <1>1, <1>a DEF IInv, TypeOK
<1>4. ControlOK' /\ InOneSlot' /\ ErrorQuits' /\ ClosingQuits'
  BY <1>0, <1>1, <1>a DEF IInv, ControlOK, InOneSlot, ErrorQuits, ClosingQuits, Steps
<1>5. ChildrenListed'
  <2> SUFFICES ASSUME NEW d \in Children
               PROVE  /\ process'[d] = "none" => d \notin Listed'
                      /\ process'[d] # "none" => channel'[d] \in Channels
                      /\ process'[d] \in {"running", "killed", "zombie"} /\ ~Inserting(d)' =>
                            d \in Listed'
    BY DEF ChildrenListed
  <2>1. CASE d = c
    BY <1>0, <1>1, <1>2, <2>1 DEF IInv, TypeOK, ControlOK, Inserting
  <2>2. CASE d # c
    <3>1. process'[d] = process[d] /\ channel'[d] = channel[d]
      BY <1>0, <2>2 DEF IInv, TypeOK, ControlOK
    <3>2. ~Inserting(d)
      BY <1>0 DEF Inserting
    <3>3. QED
      BY <1>2, <3>1, <3>2 DEF IInv, ChildrenListed
  <2>3. QED
    BY <2>1, <2>2
<1>6. CurrentForked'
  BY <1>0, <1>1, <1>2 DEF IInv, TypeOK, CurrentForked
<1>7. CountersDiffer'
  BY <1>0, <1>a, <1>2 DEF IInv, CountersDiffer
<1>8. StoreHasWatcher'
  <2>1. \A d \in Listed : d # c /\ d \in Children
    BY <1>1 DEF Listed
  <2>2. \A d \in Listed : channel'[d] = channel[d]
    BY <1>0, <2>1 DEF IInv, ControlOK
  <2>3. QED
    BY <1>a, <1>2, <2>2 DEF IInv, StoreHasWatcher
<1>9. QED
  BY <1>3, <1>4, <1>5, <1>6, <1>7, <1>8 DEF IInv

\* News are stored for a watcher in the table, or the step is remembered as late.
LEMMA PutIInv ==
    ASSUME IInv, Put
    PROVE  IInv'
<1> USE DEF Put, Goto, kernel, signals, flags, counts, local
<1>1. Listed' = Listed /\ Passed' = Passed
  BY DEF Listed, SlotsOf, Passed
<1>2. current \in Children /\ channel[current] \in Channels
  BY DEF IInv, CurrentForked, ChildrenListed
<1>3. TypeOK'
  BY <1>2 DEF IInv, TypeOK
<1>4. ControlOK' /\ InOneSlot' /\ ErrorQuits' /\ ClosingQuits'
  BY DEF IInv, ControlOK, InOneSlot, ErrorQuits, ClosingQuits, Steps
<1>5. ChildrenListed' /\ CurrentForked'
  BY <1>1 DEF IInv, ChildrenListed, CurrentForked, Inserting
<1>6. CountersDiffer' /\ StoreHasWatcher'
  BY <1>1 DEF IInv, CountersDiffer, StoreHasWatcher
<1>7. QED
  BY <1>3, <1>4, <1>5, <1>6 DEF IInv

-----------------------------------------------------------------------------
(***************************************************************************)
(* Steps that change the table.                                            *)
(***************************************************************************)
\* The least of a set of numbers is one of them.
LEMMA LeastOf ==
    ASSUME NEW S \in SUBSET Nat, S # {}
    PROVE  LET i == CHOOSE i \in S : \A j \in S : i <= j IN i \in S
<1>1. IsWellFoundedOn(OpToRel(<, Nat), Nat)
  BY NatLessThanWellFounded
<1>2. PICK i \in S : \A j \in S : ~ (<<j, i>> \in OpToRel(<, Nat))
  BY <1>1, WFMin
<1>3. \A j \in S : ~(j < i)
  BY <1>2 DEF OpToRel
<1>4. \A j \in S : i <= j
  BY <1>3
<1>5. QED
  BY <1>4

\* The watcher that is being started comes into one slot, an empty or a new one, and the
\* others stay where they are.
LEMMA InsertTakesSlot ==
    ASSUME IInv, Insert
    PROVE  \E i \in 1..Len(watcher_table') :
              /\ watcher_table'[i] = current
              /\ Len(watcher_table) <= Len(watcher_table')
              /\ watcher_table' \in Seq(Children \cup {NULL})
              /\ \A j \in 1..Len(watcher_table') : j # i =>
                    j \in 1..Len(watcher_table) /\ watcher_table'[j] = watcher_table[j]
              /\ i \in 1..Len(watcher_table) => watcher_table[i] = NULL
<1>0. /\ watcher_table \in Seq(Children \cup {NULL})
      /\ current \in Children
  BY DEF IInv, TypeOK, CurrentForked, Insert, Goto
<1>1. CASE FreeSlots # {}
  <2> DEFINE i == CHOOSE i \in FreeSlots : \A j \in FreeSlots : i <= j
  <2>1. watcher_table' = [watcher_table EXCEPT ![i] = current]
    BY <1>1 DEF Insert
  <2>2. FreeSlots \in SUBSET Nat
    BY <1>0 DEF FreeSlots
  <2>3. i \in FreeSlots
    BY <1>1, <2>2, LeastOf
  <2> HIDE DEF i
  <2>4. i \in 1..Len(watcher_table) /\ watcher_table[i] = NULL
    BY <2>3 DEF FreeSlots
  <2>5. Len(watcher_table') = Len(watcher_table)
        /\ watcher_table' \in Seq(Children \cup {NULL})
    BY <1>0, <2>1, <2>4
  <2>6. \A j \in 1..Len(watcher_table) :
           watcher_table'[j] = IF j = i THEN current ELSE watcher_table[j]
    BY <1>0, <2>1
  <2>7. QED
    BY <1>0, <2>4, <2>5, <2>6
<1>2. CASE FreeSlots = {}
  <2>1. watcher_table' = Append(watcher_table, current)
    BY <1>2 DEF Insert
  <2>2. Len(watcher_table') = Len(watcher_table) + 1
        /\ watcher_table' \in Seq(Children \cup {NULL})
    BY <1>0, <2>1
  <2>3. \A j \in 1..Len(watcher_table) : watcher_table'[j] = watcher_table[j]
    BY <1>0, <2>1
  <2>4. watcher_table'[Len(watcher_table) + 1] = current
    BY <1>0, <2>1
  <2>5. QED
    BY <1>0, <2>2, <2>3, <2>4
<1>3. QED
  BY <1>1, <1>2

\* A new watcher is entered into the table.
LEMMA InsertIInv ==
    ASSUME IInv, Insert
    PROVE  IInv'
<1>0. PICK i \in 1..Len(watcher_table') :
              /\ watcher_table'[i] = current
              /\ Len(watcher_table) <= Len(watcher_table')
              /\ watcher_table' \in Seq(Children \cup {NULL})
              /\ \A j \in 1..Len(watcher_table') : j # i =>
                    j \in 1..Len(watcher_table) /\ watcher_table'[j] = watcher_table[j]
              /\ i \in 1..Len(watcher_table) => watcher_table[i] = NULL
  BY InsertTakesSlot
<1>1. /\ pc = "insert" /\ pc' = "handled" /\ current' = NULL
      /\ UNCHANGED <<kernel, signals, flags, channel, store, late, counts, return, lines,
                     atEof, closeIndex>>
  BY DEF Insert, Goto
<1> USE DEF kernel, signals, flags, counts
<1>2. /\ current \in Children /\ process[current] # "none" /\ current \notin Listed
      /\ current # NULL
      /\ watcher_table \in Seq(Children \cup {NULL}) /\ Len(watcher_table) \in Nat
      /\ Len(watcher_table') \in Nat
  BY <1>0, <1>1, NullAssumption DEF IInv, TypeOK, CurrentForked
<1>3. \A j \in 1..Len(watcher_table) : watcher_table[j] # current
  BY <1>2 DEF Listed, SlotsOf
<1>4. Listed' = Listed \cup {current}
  <2>1. ASSUME NEW c \in Children, c \in Listed
        PROVE  c \in Listed'
    <3>1. PICK j \in 1..Len(watcher_table) : watcher_table[j] = c
      BY <2>1 DEF Listed, SlotsOf
    <3>2. c # NULL
      BY NullAssumption
    <3>3. j \in 1..Len(watcher_table') /\ j # i
      BY <1>0, <1>2, <3>1, <3>2
    <3>4. watcher_table'[j] = c
      BY <1>0, <3>1, <3>3
    <3>5. QED
      BY <3>3, <3>4 DEF Listed, SlotsOf
  <2>2. ASSUME NEW c \in Children, c \in Listed', c # current
        PROVE  c \in Listed
    <3>1. PICK j \in 1..Len(watcher_table') : watcher_table'[j] = c
      BY <2>2 DEF Listed, SlotsOf
    <3>2. j \in 1..Len(watcher_table) /\ watcher_table[j] = c
      BY <1>0, <2>2, <3>1
    <3>3. QED
      BY <3>2 DEF Listed, SlotsOf
  <2>3. current \in Listed'
    BY <1>0, <1>2 DEF Listed, SlotsOf
  <2>4. Listed \subseteq Children /\ Listed' \subseteq Children
    BY DEF Listed
  <2>5. QED
    BY <2>1, <2>2, <2>3, <2>4
<1>5. closeIndex = 1 /\ Passed' = {}
  <2>1. closeIndex = 1
    BY <1>1 DEF IInv, ClosingQuits
  <2>2. QED
    BY <1>1, <2>1 DEF Passed
<1>6. TypeOK'
  BY <1>0, <1>1, <1>5 DEF IInv, TypeOK
<1>7. ControlOK' /\ ErrorQuits' /\ ClosingQuits'
  BY <1>1, <1>5 DEF IInv, ControlOK, ErrorQuits, ClosingQuits, Steps
<1>8. InOneSlot'
  <2> SUFFICES ASSUME NEW j \in 1..Len(watcher_table'), NEW k \in 1..Len(watcher_table'),
                      watcher_table'[j] # NULL, watcher_table'[j] = watcher_table'[k]
               PROVE  j = k
    BY DEF InOneSlot
  <2>1. CASE j = i \/ k = i
    BY <1>0, <1>3, <2>1
  <2>2. CASE j # i /\ k # i
    BY <1>0, <2>2 DEF IInv, InOneSlot
  <2>3. QED
    BY <2>1, <2>2
<1>9. ChildrenListed'
  BY <1>1, <1>2, <1>4 DEF IInv, ChildrenListed, Inserting
<1>10. CurrentForked'
  BY <1>1 DEF CurrentForked
<1>11. CountersDiffer'
  <2>1. Passed = {}
    BY <1>5 DEF Passed
  <2>2. QED
    BY <1>1, <1>5, <2>1 DEF IInv, CountersDiffer
<1>12. StoreHasWatcher'
  BY <1>1, <1>4 DEF IInv, StoreHasWatcher
<1>13. QED
  BY <1>6, <1>7, <1>8, <1>9, <1>10, <1>11, <1>12 DEF IInv

\* The closing loop passes a slot: its watcher is killed and counted.
LEMMA CloseNextIInv ==
    ASSUME IInv, CloseNext
    PROVE  IInv'
<1> DEFINE c == watcher_table[closeIndex]
<1>1. /\ pc = "closing" /\ pc' \in {"closing", "failed", "crashed"}
      /\ closeIndex <= Len(watcher_table) /\ closeIndex' = closeIndex + 1
      /\ UNCHANGED <<eof, signals, flags, watchers, childrenFreed, missed, return, lines,
                     atEof, current>>
  BY DEF CloseNext, Goto
<1> USE DEF signals, flags, watchers
<1>2. /\ closeIndex \in 1..Len(watcher_table) /\ Len(watcher_table) \in Nat
      /\ c \in Children \cup {NULL}
  BY <1>1 DEF IInv, TypeOK
<1>3. /\ pc' = "closing" /\ c # NULL => childrenAllocated' = childrenAllocated + 1
      /\ pc' = "closing" /\ c = NULL => childrenAllocated' = childrenAllocated
      /\ childrenAllocated' \in Nat
  BY DEF CloseNext, Goto, IInv, ControlOK
<1>4. /\ process' \in [Children -> {"none", "running", "killed", "zombie", "reaped"}]
      /\ \A d \in Children : \/ process'[d] = process[d]
                             \/ process[d] = "running" /\ process'[d] = "killed"
  <2>1. CASE UNCHANGED process
    BY <2>1 DEF IInv, TypeOK
  <2>2. CASE process' = [process EXCEPT ![c] = "killed"] /\ process[c] = "running" /\ c # NULL
    BY <1>2, <2>2 DEF IInv, TypeOK
  <2>3. QED
    BY <2>1, <2>2 DEF CloseNext, Killed
<1> HIDE DEF c
<1>5. Listed' = Listed
  BY <1>1 DEF Listed, SlotsOf
<1>6. TypeOK'
  BY <1>1, <1>2, <1>4 DEF IInv, TypeOK
<1>7. ControlOK' /\ InOneSlot' /\ ErrorQuits' /\ ClosingQuits'
  BY <1>1, <1>3 DEF IInv, ControlOK, InOneSlot, ErrorQuits, ClosingQuits, Steps
<1>8. ChildrenListed'
  BY <1>1, <1>4, <1>5 DEF IInv, TypeOK, ChildrenListed, Inserting
<1>9. CurrentForked'
  BY <1>1 DEF CurrentForked
<1>10. CountersDiffer'
  <2> SUFFICES ASSUME ~missed, pc' = "closing"
               PROVE  childrenAllocated' = childrenFreed' + Cardinality(Passed')
    BY <1>1 DEF CountersDiffer
  <2>1. childrenAllocated = childrenFreed + Cardinality(Passed)
    BY <1>1 DEF IInv, CountersDiffer
  <2>2. IsFiniteSet(Passed) /\ Cardinality(Passed) \in Nat
    BY PassedFinite
  <2>3. 1..(closeIndex' - 1) = (1..(closeIndex - 1)) \cup {closeIndex}
    BY <1>1, <1>2
  <2>4. closeIndex \notin Passed
    BY <1>2 DEF Passed
  <2>5. CASE c = NULL
    <3>1. Passed' = Passed
      BY <1>1, <2>3, <2>5 DEF Passed, c
    <3>2. QED
      BY <1>1, <1>3, <2>1, <2>5, <3>1
  <2>6. CASE c # NULL
    <3>1. Passed' = Passed \cup {closeIndex}
      BY <1>1, <2>3, <2>6 DEF Passed, c
    <3>2. Cardinality(Passed') = Cardinality(Passed) + 1
      BY <2>2, <2>4, <3>1, FS_AddElement
    <3>3. QED
      BY <1>1, <1>3, <2>1, <2>2, <2>6, <3>2 DEF IInv, ControlOK
  <2>7. QED
    BY <2>5, <2>6
<1>11. StoreHasWatcher'
  BY <1>1, <1>5 DEF IInv, StoreHasWatcher
<1>12. QED
  BY <1>6, <1>7, <1>8, <1>9, <1>10, <1>11 DEF IInv

-----------------------------------------------------------------------------
(***************************************************************************)
(* The handler of SIGCHLD.                                                 *)
(***************************************************************************)
Zombies == {c \in Children : process[c] = "zombie"}
Freed == Zombies \cap Listed
FreedSlots == {i \in 1..Len(watcher_table) : watcher_table[i] \in Freed}

\* Every watcher that is freed empties one slot.
LEMMA FreedSlotsAreFreed ==
    ASSUME IInv
    PROVE  /\ IsFiniteSet(Freed) /\ IsFiniteSet(FreedSlots)
           /\ Cardinality(Freed) = Cardinality(FreedSlots)
           /\ Cardinality(Freed) \in Nat
<1> DEFINE f == [i \in FreedSlots |-> watcher_table[i]]
<1>1. Len(watcher_table) \in Nat
  BY DEF IInv, TypeOK
<1>2. FreedSlots \in SUBSET (1..Len(watcher_table))
  BY DEF FreedSlots
<1>3. IsFiniteSet(1..Len(watcher_table))
  BY <1>1, FS_Interval
<1>4. IsFiniteSet(FreedSlots)
  BY <1>2, <1>3, FS_Subset
<1>5. f \in Bijection(FreedSlots, Freed)
  <2>1. f \in [FreedSlots -> Freed]
    BY DEF FreedSlots
  <2>2. \A i, j \in FreedSlots : f[i] = f[j] => i = j
    <3>1. \A c \in Freed : c # NULL
      BY NullAssumption DEF Freed, Zombies
    <3>2. QED
      BY <3>1 DEF FreedSlots, IInv, InOneSlot
  <2>3. \A c \in Freed : \E i \in FreedSlots : f[i] = c
    BY DEF Freed, FreedSlots, Listed, SlotsOf
  <2> HIDE DEF f
  <2>4. QED
    BY <2>1, <2>2, <2>3 DEF Bijection, Injection, Surjection, IsInjective
<1>6. ExistsBijection(FreedSlots, Freed)
  BY <1>5 DEF ExistsBijection
<1>7. IsFiniteSet(Freed) /\ Cardinality(Freed) = Cardinality(FreedSlots)
  BY <1>4, <1>6, FS_Bijection
<1>8. QED
  BY <1>4, <1>7, FS_CardinalityType

\* What the handler does to children, table and control.
LEMMA HandlerReaps ==
    ASSUME IInv, sigChildHandler
    PROVE  /\ process' \in [Children -> {"none", "running", "killed", "zombie", "reaped"}]
           /\ \A c \in Children : process'[c] = IF c \in Zombies THEN "reaped" ELSE process[c]
           /\ watcher_table' \in Seq(Children \cup {NULL})
           /\ Len(watcher_table') = Len(watcher_table)
           /\ \A i \in 1..Len(watcher_table) :
                 watcher_table'[i] = IF i \in FreedSlots THEN NULL ELSE watcher_table[i]
           /\ Listed' = Listed \ Freed
<1>1. /\ process' = [c \in Children |-> IF c \in Zombies THEN "reaped" ELSE process[c]]
      /\ watcher_table' = [i \in 1..Len(watcher_table) |->
             IF watcher_table[i] \in Freed THEN NULL ELSE watcher_table[i]]
  BY DEF sigChildHandler, Zombies, Freed
<1>2. watcher_table \in Seq(Children \cup {NULL}) /\ Len(watcher_table) \in Nat
  BY DEF IInv, TypeOK
<1>3. /\ watcher_table' \in Seq(Children \cup {NULL})
      /\ Len(watcher_table') = Len(watcher_table)
  BY <1>1, <1>2
<1>4. \A i \in 1..Len(watcher_table) :
         watcher_table'[i] = IF i \in FreedSlots THEN NULL ELSE watcher_table[i]
  BY <1>1 DEF FreedSlots
<1>5. Listed' = Listed \ Freed
  <2>1. ASSUME NEW c \in Children
        PROVE  c \in Listed' <=> c \in Listed /\ c \notin Freed
    <3>1. c # NULL
      BY NullAssumption
    <3>2. QED
      BY <1>3, <1>4, <3>1 DEF Listed, SlotsOf, FreedSlots
  <2>2. Listed \subseteq Children /\ Listed' \subseteq Children
    BY DEF Listed
  <2>3. QED
    BY <2>1, <2>2
<1>6. QED
  BY <1>1, <1>3, <1>4, <1>5 DEF IInv, TypeOK

\* It goes on where the main thread was, or ends its sigsuspend, or makes the read that was
\* just done a failure.
LEMMA HandlerResumes ==
    ASSUME IInv, sigChildHandler
    PROVE  /\ pc \notin {"done", "failed", "crashed"}
           /\ \/ pc' = pc /\ err' = err
              \/ pc = "suspend" /\ pc' = "user" /\ err' = err
              \/ pc = "drained" /\ pc' = "commands"
              \/ pc = "emptied" /\ pc' = "messages"
           /\ err' \in BOOLEAN
<1>1. /\ ~Finished
      /\ pc' = IF Clobbers THEN AfterClobbered ELSE Resumed
      /\ err' = (err \/ Clobbers)
  BY DEF sigChildHandler
<1>2. err' \in BOOLEAN
  BY <1>1
<1>3. CASE Clobbers
  BY <1>1, <1>2, <1>3 DEF Clobbers, AfterClobbered, Finished
<1>4. CASE ~Clobbers
  <2>1. err' = err
    BY <1>1, <1>4 DEF IInv, ControlOK
  <2>2. QED
    BY <1>1, <1>2, <1>4, <2>1 DEF Resumed, Finished
<1>5. QED
  BY <1>3, <1>4

\* The counters: with the quit flag, a watcher that is freed is counted and leaves the slots
\* the loop has passed; without it, the loop has passed none.
LEMMA HandlerCounts ==
    ASSUME IInv, sigChildHandler
    PROVE  childrenFreed' \in Nat /\ missed' \in BOOLEAN /\ CountersDiffer'
<1>1. /\ childrenFreed' = childrenFreed + Counted(Freed)
      /\ missed' = (missed \/ (quit /\ \E c \in Freed : \E i \in SlotsOf(c) : i >= closeIndex))
      /\ UNCHANGED <<childrenAllocated, closeIndex, quit>>
  BY DEF sigChildHandler, Freed, Zombies, local
<1>2. Cardinality(Freed) \in Nat
  BY FreedSlotsAreFreed
<1>3. childrenFreed' \in Nat
  BY <1>1, <1>2 DEF Counted, IInv, ControlOK
<1>4. missed' \in BOOLEAN
  BY <1>1
<1>5. CountersDiffer'
  <2> SUFFICES ASSUME ~missed', pc' \notin {"failed", "crashed"}
               PROVE  childrenAllocated' = childrenFreed' + Cardinality(Passed')
    BY DEF CountersDiffer
  <2>1. /\ ~missed
        /\ quit => \A c \in Freed : \A i \in SlotsOf(c) : ~(i >= closeIndex)
    BY <1>1
  <2>2. childrenAllocated = childrenFreed + Cardinality(Passed)
    BY <2>1, HandlerResumes DEF IInv, CountersDiffer
  <2>3. closeIndex \in Nat /\ Len(watcher_table) \in Nat
        /\ closeIndex <= Len(watcher_table) + 1
    BY DEF IInv, TypeOK
  <2>4. Passed' = Passed \ FreedSlots
    <3>1. 1..(closeIndex - 1) \subseteq 1..Len(watcher_table)
      BY <2>3
    <3>2. QED
      BY <1>1, <3>1, HandlerReaps DEF Passed
  <2>5. CASE quit
    <3>1. FreedSlots \subseteq Passed
      <4> SUFFICES ASSUME NEW i \in FreedSlots PROVE i \in Passed
        OBVIOUS
      <4>1. /\ i \in 1..Len(watcher_table) /\ watcher_table[i] \in Freed
            /\ i \in SlotsOf(watcher_table[i]) /\ watcher_table[i] # NULL
        BY NullAssumption DEF FreedSlots, SlotsOf, Freed, Zombies
      <4>2. ~(i >= closeIndex)
        BY <2>1, <2>5, <4>1
      <4>3. QED
        BY <2>3, <4>1, <4>2 DEF Passed
    <3>2. Cardinality(Passed') = Cardinality(Passed) - Cardinality(FreedSlots)
      <4>1. Passed \cap FreedSlots = FreedSlots
        BY <3>1
      <4>2. IsFiniteSet(Passed)
        BY PassedFinite
      <4>3. Cardinality(Passed \ FreedSlots)
               = Cardinality(Passed) - Cardinality(Passed \cap FreedSlots)
        BY <4>2, FS_Difference
      <4>4. QED
        BY <2>4, <4>1, <4>3
    <3>3. Counted(Freed) = Cardinality(FreedSlots)
      BY <2>5, FreedSlotsAreFreed DEF Counted
    <3>4. Cardinality(Passed) \in Nat /\ Cardinality(FreedSlots) \in Nat
      BY PassedFinite, FreedSlotsAreFreed
    <3>5. QED
      BY <1>1, <2>2, <3>2, <3>3, <3>4 DEF IInv, ControlOK
  <2>6. CASE ~quit
    <3>1. closeIndex = 1
      BY <2>6, HandlerResumes DEF IInv, ClosingQuits
    <3>2. Passed = {} /\ Passed' = {}
      BY <2>4, <3>1 DEF Passed
    <3>3. Counted(Freed) = 0
      BY <2>6 DEF Counted
    <3>4. QED
      BY <1>1, <2>2, <3>2, <3>3 DEF IInv, ControlOK
  <2>7. QED
    BY <2>5, <2>6
<1>6. QED
  BY <1>3, <1>4, <1>5

\* The handler of SIGCHLD reaps every child that has ended.
LEMMA sigChildHandlerIInv ==
    ASSUME IInv, sigChildHandler
    PROVE  IInv'
<1>1. /\ store' = store \ Cleared(Freed)
      /\ processInput' = NULL
      /\ UNCHANGED <<eof, pendingIO, blocked, userInput, quit, moved, channel, late,
                     childrenAllocated, local>>
  BY DEF sigChildHandler, Freed, Zombies
<1> USE DEF local
<1>2. TypeOK'
  BY <1>1, HandlerReaps DEF IInv, TypeOK
<1>3. ControlOK'
  BY <1>1, HandlerResumes, HandlerCounts DEF IInv, ControlOK, Steps
<1>4. InOneSlot'
  BY HandlerReaps DEF IInv, InOneSlot
<1>5. ChildrenListed'
  <2> SUFFICES ASSUME NEW c \in Children
               PROVE  /\ process'[c] = "none" => c \notin Listed'
                      /\ process'[c] # "none" => channel'[c] \in Channels
                      /\ process'[c] \in {"running", "killed", "zombie"} /\ ~Inserting(c)' =>
                            c \in Listed'
    BY DEF ChildrenListed
  <2>1. /\ process[c] = "none" => c \notin Listed
        /\ process[c] # "none" => channel[c] \in Channels
        /\ process[c] \in {"running", "killed", "zombie"} /\ ~Inserting(c) => c \in Listed
    BY DEF IInv, ChildrenListed
  <2>2. Inserting(c) => Inserting(c)'
    BY <1>1, HandlerResumes DEF Inserting
  <2>3. CASE c \in Zombies
    BY <1>1, <2>1, <2>3, HandlerReaps DEF Zombies
  <2>4. CASE c \notin Zombies
    BY <1>1, <2>1, <2>2, <2>4, HandlerReaps DEF Freed
  <2>5. QED
    BY <2>3, <2>4
<1>6. CurrentForked'
  <2>1. pc' \in {"insert", "put"} => pc' = pc
    BY HandlerResumes
  <2>2. QED
    BY <1>1, <2>1, HandlerReaps DEF IInv, CurrentForked
<1>7. ErrorQuits' /\ ClosingQuits'
  BY <1>1, HandlerReaps, HandlerResumes DEF IInv, ErrorQuits, ClosingQuits
<1>8. StoreHasWatcher'
  <2> SUFFICES ASSUME ~late, NEW ch \in store, ch \notin Cleared(Freed)
               PROVE  \E c \in Listed \ Freed : channel[c] = ch
    BY <1>1, HandlerReaps DEF StoreHasWatcher
  <2>1. ch \in Channels
    BY DEF IInv, TypeOK
  <2>2. PICK c \in Listed : channel[c] = ch
    BY DEF IInv, StoreHasWatcher
  <2>3. CASE c \in Freed
    BY <2>1, <2>2, <2>3 DEF Cleared
  <2>4. CASE c \notin Freed
    BY <2>2, <2>4
  <2>5. QED
    BY <2>3, <2>4
<1>9. QED
  BY <1>2, <1>3, <1>4, <1>5, <1>6, <1>7, <1>8, HandlerCounts DEF IInv

-----------------------------------------------------------------------------
(***************************************************************************)
(* The invariant holds, and with it the safety properties.                 *)
(***************************************************************************)
LEMMA InitIInv == Init => IInv
<1> SUFFICES ASSUME Init PROVE IInv
  OBVIOUS
<1> USE DEF Init
<1>1. watcher_table \in Seq(Children \cup {NULL}) /\ Len(watcher_table) = TableSize
  BY BoundAssumption
<1>2. Listed = {}
  <2>1. \A c \in Children : c # NULL
    BY NullAssumption
  <2>2. \A i \in 1..Len(watcher_table) : watcher_table[i] = NULL
    BY <1>1
  <2>3. QED
    BY <2>1, <2>2 DEF Listed, SlotsOf
<1>3. TypeOK
  <2>1. closeIndex \in 1..(Len(watcher_table) + 1)
    BY <1>1, BoundAssumption
  <2>2. process \in [Children -> {"none", "running", "killed", "zombie", "reaped"}]
    OBVIOUS
  <2>3. QED
    BY <1>1, <2>1, <2>2 DEF TypeOK
<1>4. ControlOK /\ ErrorQuits /\ ClosingQuits /\ CurrentForked
  BY DEF ControlOK, Steps, ErrorQuits, ClosingQuits, CurrentForked
<1>5. InOneSlot
  BY <1>1 DEF InOneSlot
<1>6. ChildrenListed
  BY <1>2 DEF ChildrenListed
<1>7. CountersDiffer
  <2>1. Passed = {}
    BY DEF Passed
  <2>2. QED
    BY <2>1, FS_EmptySet DEF CountersDiffer
<1>8. QED
  BY <1>3, <1>4, <1>5, <1>6, <1>7 DEF IInv, StoreHasWatcher

\* Every step keeps the invariant.
LEMMA NextIInv == IInv /\ [Next]_vars => IInv'
<1> SUFFICES ASSUME IInv, [Next]_vars PROVE IInv'
  OBVIOUS
<1>1. CASE Type \/ CloseInput \/ \E c \in Children : Say(c)
  BY <1>1, KernelMoves, ControlMovesIInv
<1>2. CASE sigIntHandler \/ sigIOHandler
  BY <1>2, HandlersMove, ControlMovesIInv
<1>3. CASE \/ ReadInput \/ ClearUserInput \/ QuitCommand \/ OtherCommand \/ NextCommand
           \/ InputDone
  BY <1>3, InputMoves, ControlMovesIInv
<1>4. CASE Test \/ User \/ Checked \/ CloseEnd \/ WaitForChildren
  BY <1>4, LoopMoves, ControlMovesIInv
<1>5. CASE ReadProcess \/ ClearProcessInput \/ Recv \/ NextMessage \/ ProcessDone
  BY <1>5, ProcessMoves, ControlMovesIInv
<1>6. ASSUME NEW c \in Children, ExitChild(c) \/ StopCommand(c)
      PROVE  IInv'
  BY <1>6, ExitChildIInv, StopCommandIInv
<1>7. ASSUME NEW ch \in Channels, StartCommand(ch)
      PROVE  IInv'
  BY <1>7, StartCommandIInv
<1>8. CASE Insert \/ Put \/ CloseNext
  BY <1>8, InsertIInv, PutIInv, CloseNextIInv
<1>9. CASE sigChildHandler
  BY <1>9, sigChildHandlerIInv
<1>10. CASE UNCHANGED vars
  <2>1. Listed' = Listed /\ Passed' = Passed
    BY <1>10 DEF vars, watchers, local, Listed, SlotsOf, Passed
  <2>2. TypeOK' /\ ControlOK' /\ InOneSlot' /\ ErrorQuits' /\ ClosingQuits'
    BY <1>10 DEF vars, kernel, signals, flags, watchers, counts, local, IInv, TypeOK,
                 ControlOK, InOneSlot, ErrorQuits, ClosingQuits
  <2>3. ChildrenListed' /\ CurrentForked' /\ CountersDiffer' /\ StoreHasWatcher'
    BY <1>10, <2>1 DEF vars, kernel, flags, watchers, counts, local, IInv, ChildrenListed,
                       Inserting, CurrentForked, CountersDiffer, StoreHasWatcher
  <2>4. QED
    BY <2>2, <2>3 DEF IInv
<1>11. QED
  BY <1>1, <1>2, <1>3, <1>4, <1>5, <1>6, <1>7, <1>8, <1>9, <1>10 DEF Next, Main

\* The invariant holds in every state of every behaviour.
LEMMA SpecIInv == Spec => []IInv
<1>1. QED
  BY InitIInv, NextIInv, PTL DEF Spec

\* A child that exists is in exactly one slot of the table, in which the handler and the
\* closing loop find it, however many are started and whenever SIGCHLD empties slots.
THEOREM ChildrenAreListed == Spec => []EveryChildListed
<1>1. IInv => EveryChildListed
  <2> SUFFICES ASSUME IInv, NEW c \in Children, process[c] \in {"running", "killed", "zombie"}
               PROVE  Cardinality(SlotsOf(c)) = (IF Inserting(c) THEN 0 ELSE 1)
    BY DEF EveryChildListed, IInv, Inserting
  <2>1. CASE Inserting(c)
    <3>1. SlotsOf(c) = {}
      BY <2>1 DEF IInv, CurrentForked, Inserting, Listed
    <3>2. QED
      BY <2>1, <3>1, FS_EmptySet
  <2>2. CASE ~Inserting(c)
    <3>1. PICK i \in 1..Len(watcher_table) : watcher_table[i] = c
      BY <2>2 DEF IInv, ChildrenListed, Listed, SlotsOf
    <3>2. c # NULL
      BY NullAssumption
    <3>3. SlotsOf(c) = {i}
      BY <3>1, <3>2 DEF SlotsOf, IInv, InOneSlot
    <3>4. QED
      BY <2>2, <3>3, FS_Singleton
  <2>3. QED
    BY <2>1, <2>2
<1>2. QED
  BY <1>1, SpecIInv, PTL

\* What the store knows of a channel is taken out with the last of its watchers, whichever
\* of them end in one SIGCHLD, unless news were stored for a watcher that was gone.
THEOREM StoreIsCleared == Spec => []StoreHasWatcher
<1>1. IInv => StoreHasWatcher
  BY DEF IInv
<1>2. QED
  BY <1>1, SpecIInv, PTL

\* When the busy wait for the two counters ends, every child has been reaped, unless one
\* was counted that the closing loop never saw.
THEOREM ChildrenAreReaped == Spec => []ReapedAtEnd
<1>1. IInv => ReapedAtEnd
  <2> SUFFICES ASSUME IInv, pc = "done", ~missed, NEW c \in Children
               PROVE  process[c] \in {"none", "reaped"}
    BY DEF ReapedAtEnd
  <2>1. childrenFreed = childrenAllocated
    BY DEF IInv, ClosingQuits
  <2>2. IsFiniteSet(Passed) /\ Cardinality(Passed) \in Nat
    BY PassedFinite
  <2>3. Cardinality(Passed) = 0
    BY <2>1, <2>2 DEF IInv, CountersDiffer, ControlOK
  <2>4. Passed = {}
    BY <2>2, <2>3, FS_EmptySet
  <2>5. Len(watcher_table) \in Nat /\ closeIndex \in Nat /\ closeIndex > Len(watcher_table)
    BY DEF IInv, TypeOK, ClosingQuits
  <2>6. \A i \in 1..Len(watcher_table) : watcher_table[i] = NULL
    BY <2>4, <2>5 DEF Passed
  <2>7. c \notin Listed
    BY <2>6, NullAssumption DEF Listed, SlotsOf
  <2>8. QED
    BY <2>7 DEF IInv, TypeOK, ChildrenListed, Inserting
<1>2. QED
  BY <1>1, SpecIInv, PTL
=============================================================================
