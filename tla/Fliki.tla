------------------------------- MODULE Fliki -------------------------------
(***************************************************************************)
(* fliki (hw1): main() reads its arguments, patch() applies a diff to the  *)
(* standard input, character by character, with hunk_next() and            *)
(* hunk_getc() as the readers of the diff and hunk_show() as the reporter. *)
(*                                                                         *)
(* Nothing is concurrent here.  What is hard is the state that the three   *)
(* functions share behind patch()'s back (static variables) and the three  *)
(* line counters of patch() that have to stay together.                    *)
(***************************************************************************)
EXTENDS DiffFormat
LOCAL INSTANCE SequencesExt

CONSTANTS
    Cases,      \* what the program may be given: records with the fields
                \*   argv   the command line, as a sequence of kinds of arguments
                \*   file   the lines of the standard input
                \*   hunks  the hunks of a diff
                \*   diff   the characters of the diff file, damaged or not
    Diffs,      \* sequences of hunks, to tell what a damaged diff means
    HUNK_MAX,   \* the size of a buffer (512): it is never full here
    MaxOut      \* bound on the characters written

ASSUME BoundsAssumption == MaxOut \in Nat /\ HUNK_MAX \in Nat \ {0}

VARIABLES
    given,              \* the case; it never changes
    ipos, dpos,         \* the characters read next
    out,
    options,            \* global_options
    pc,
    hp,                 \* the HUNK of patch()
    num,                \* the number hunk_next is reading
    serial,
    rd,                 \* static variables of hunk_next and hunk_getc
    pt,                 \* local variables of patch()
    shown,              \* the bytes hunk_show has printed of each buffer
    body                \* where the lines of the hunk begin in the diff; not in
                        \* the code, for what is said of reports

vars == <<given, ipos, dpos, out, options, pc, hp, num, serial, rd, pt, shown, body>>
argv == given.argv
diff == given.diff
in == TextOf(given.file)

NoLine == <<"none", 0>>         \* the NULL in byte1
Ended == {"done", "failed", "crashed", "usage", "nofile"}

FileChar(at) == IF at <= Len(in) THEN in[at] ELSE "EOF"
DiffChar(at) == IF at <= Len(diff) THEN diff[at] ELSE "EOF"

Init ==
    /\ given \in Cases
    /\ ipos = 1 /\ dpos = 1
    /\ out = <<>> /\ options = {} /\ pc = "main"
    /\ hp = NoHeader /\ num = 0 /\ serial = 0
    /\ rd = [length |-> 0, lineCounter |-> 0, addSecForC |-> FALSE,
             hunkCompleted |-> TRUE, old_range |-> 0, new_range |-> 0,
             buffer |-> [s \in {"dels", "adds"} |-> [i \in 1 .. HUNK_MAX |-> 0]],
             byte1 |-> NoLine,
             next |-> [dels |-> 1, adds |-> 1]]
    /\ pt = [lineInPtr |-> 0, lineOutPtr |-> 0, linesInOut |-> 0,
             inChar |-> "EOF", diffChar |-> "EOS"]
    /\ shown = [dels |-> <<>>, adds |-> <<>>] /\ body = 1

(* ------------------------- validargs() and main() ------------------------ *)
\* The loop over the arguments returns at this one.  "-x" stands for an
\* unknown letter, which is passed over, "-xx" for a longer option.
Returns(i) == \/ argv[i] \in {"-h", "-xx", "file"}
              \/ argv[i] \in {"-n", "-q"} /\ i = Len(argv)

ReturnsAt ==
    LET stops == {i \in DOMAIN argv : Returns(i)} IN
    IF stops = {} THEN 0 ELSE CHOOSE i \in stops : \A j \in stops : i <= j

\* validargs() succeeds: -h comes first, or a file comes last.
Accepts == /\ ReturnsAt # 0
           /\ \/ argv[ReturnsAt] = "-h" /\ ReturnsAt = 1
              \/ argv[ReturnsAt] = "file" /\ ReturnsAt = Len(argv)

Main ==
    /\ pc = "main"
    /\ IF Accepts /\ argv[ReturnsAt] = "file"
       THEN /\ options' = {argv[i] : i \in 1 .. ReturnsAt} \cap {"-n", "-q"}
            /\ pc' \in {"next", "nofile"}    \* fopen may fail
       ELSE /\ pc' = "usage"
            /\ UNCHANGED options
    /\ UNCHANGED <<given, ipos, dpos, out, hp, num, serial, rd, pt, shown, body>>

(* ----------------------------- the buffers ------------------------------ *)
\* hunk_deletions_buffer and hunk_additions_buffer hold lines, each after two
\* bytes for its length, up to a line of length zero.  They are never erased.
Others == <<"nl", " ", ",", "-", "<", ">", "a", "c", "d", "x", "y", "z", "EOF">>
IsDigit(c) == \E i \in DOMAIN Numerals : Numerals[i] = c
Code(c) == IF IsDigit(c)
           THEN 47 + CHOOSE i \in DOMAIN Numerals : Numerals[i] = c
           ELSE <<10, 32, 44, 45, 60, 62, 97, 99, 100, 120, 121, 122, 255>>
                    [CHOOSE i \in DOMAIN Others : Others[i] = c]
Codes(s) == [i \in DOMAIN s |-> Code(s[i])]

\* The length of the line that byte1 and byte2 point to, in whatever hunk.
\* No line here is longer than the first of the two bytes can tell.
StoreLength(r, n) == [r EXCEPT !.buffer[r.byte1[1]][r.byte1[2]] = n,
                               !.buffer[r.byte1[1]][r.byte1[2] + 1] = 0]

\* next is addArr or delArr: the last byte that was written.
StoreChar(r, s, c) == [r EXCEPT !.next[s] = @ + 1,
                                !.buffer[s][r.next[s] + 1] = Code(c)]

\* A line is complete; after it there is a zero, where the next one will begin.
EndLine(r, s) ==
    [r EXCEPT !.length = 0, !.next[s] = @ + 2,
              !.buffer[s][r.next[s] + 1] = Code("nl"),
              !.buffer[r.byte1[1]][r.byte1[2]] = r.length + 1,
              !.buffer[r.byte1[1]][r.byte1[2] + 1] = 0,
              !.buffer[s][r.next[s] + 2] = 0,
              !.buffer[s][r.next[s] + 3] = 0]

(* ------------------------------ hunk_getc() ----------------------------- *)
\* What a call returns, the static variables and the position it leaves.
Got(ch, r, at) == [ch |-> ch, rd |-> r, at |-> at]

\* Errors are returned after a store through byte1, wherever it points to.
Fail(r, at, n) == IF r.byte1 = NoLine THEN Got("CRASH", r, at)
                  ELSE Got("ERR", StoreLength(r, n), at)

Dashes(at) == {n \in 0 .. 4 : \A i \in 0 .. n - 1 : DiffChar(at + i) = "-"}

\* The line "---" and the first character of the additions.
GetMiddle(r, at) ==
    LET n == CHOOSE m \in Dashes(at) : \A k \in Dashes(at) : k <= m IN
    IF hp.type # "change" \/ n # 3 \/ DiffChar(at + 3) # "nl" \/ DiffChar(at + 4) # ">"
    THEN Fail(r, at + n, 0)
    ELSE Got("EOS", [r EXCEPT !.addSecForC = TRUE], at + 4)

\* A line begins: mark, space, and its first character.
GetLineStart(r, section, range, at) ==
    LET begun == [r EXCEPT !.byte1 = <<section, r.next[section]>>,
                           !.next[section] = @ + 1,
                           !.length = 1, !.lineCounter = @ + 1]
    IN  IF begun.lineCounter > range \/ DiffChar(at + 1) # " "
        THEN Fail(begun, at + 2, 1)
        ELSE Got(DiffChar(at + 2), StoreChar(begun, section, DiffChar(at + 2)), at + 3)

\* Between two lines: the section ends, or a line begins.
GetBetween(r, section, range, mark, at) ==
    LET ch == DiffChar(at) IN
    CASE IsDigit(ch) \/ ch = "EOF" \/ (ch = "-" /\ section = "dels") ->
            IF r.lineCounter # range THEN Fail(r, at + 1, 0)
            ELSE IF ch = "-" THEN GetMiddle(r, at)
            ELSE Got("EOS", [r EXCEPT !.hunkCompleted = TRUE,
                                      !.addSecForC = @ /\ section = "dels"], at)
      [] ch = mark -> GetLineStart(r, section, range, at)
      [] OTHER -> Fail(r, at + 1, 0)

\* Inside a line.
GetInside(r, section, at) ==
    LET ch == DiffChar(at) IN
    CASE ch = "EOF" -> Fail(r, at, r.length)
      [] ch = "nl" -> Got(ch, EndLine(r, section), at + 1)
      [] OTHER -> Got(ch, [StoreChar(r, section, ch) EXCEPT !.length = @ + 1], at + 1)

GetC(r, at) ==
    LET adding == hp.type = "append" \/ (hp.type = "change" /\ r.addSecForC) IN
    IF r.hunkCompleted THEN Got("ERR", r, at)
    ELSE IF r.length # 0 THEN GetInside(r, IF adding THEN "adds" ELSE "dels", at)
    ELSE IF adding THEN GetBetween(r, "adds", r.new_range, ">", at)
    ELSE GetBetween(r, "dels", r.old_range, "<", at)

(* ------------------------------ hunk_show() ----------------------------- *)
\* The walk over a buffer, from one length to the next, until a length is
\* zero.  A line that was given up has its length but no zero after it: what
\* follows are bytes of an earlier hunk, which may lead out of the buffer.
Outside == 256
Printed(mark, b) ==
    LET Length(i) == b[i] + 256 * b[i + 1]
        walk[i \in 1 .. HUNK_MAX] ==
            IF Length(i) = 0 THEN <<>>
            ELSE IF i + Length(i) + 3 > HUNK_MAX THEN <<Outside>>
            ELSE (IF Length(i) > 1 THEN <<Code(mark), Code(" ")>> ELSE <<>>)
                 \o [j \in 1 .. Length(i) |-> b[i + 1 + j]]
                 \o walk[i + Length(i) + 2]
    IN  walk[1]

Show == [dels |-> IF hp.type = "append" THEN <<>> ELSE Printed("<", rd.buffer.dels),
         adds |-> IF hp.type = "delete" THEN <<>> ELSE Printed(">", rd.buffer.adds)]

(* -------------------------------- patch() ------------------------------- *)
\* fputc, unless this is a dry run.
Put(c) == IF "-n" \in options \/ Len(out) >= MaxOut THEN out ELSE Append(out, c)

\* An error that patch() itself reports.
Refuse ==
    /\ shown' = IF "-q" \in options THEN shown ELSE Show
    /\ pc' = "failed"
    /\ UNCHANGED <<given, ipos, dpos, out, options, hp, num, serial, rd, pt, body>>

\* A call of hunk_getc by patch(), whose locals are p otherwise.
ReadDiff(p, next) ==
    LET got == GetC(rd, dpos) IN
    /\ rd' = got.rd /\ dpos' = got.at
    /\ pt' = [p EXCEPT !.diffChar = got.ch]
    /\ pc' = IF got.ch = "CRASH" THEN "crashed" ELSE next

(* ------------------------------ hunk_next() ----------------------------- *)
\* hunk_next is about to read a number that must not be missing.
AtNumber == {"next", "old_comma", "new_comma"}
\* It is reading a number.  The test for the first digit of new_start (:197)
\* holds of no character: the number may be missing, and is zero then.
InNumber == {"old_start", "old_end", "new_start", "new_end"}

headChar == DiffChar(dpos)
Digit == (CHOOSE i \in DOMAIN Numerals : Numerals[i] = headChar) - 1

FirstDigit ==
    /\ pc \in AtNumber /\ IsDigit(headChar)
    /\ num' = Digit
    /\ pc' = CASE pc = "next" -> "old_start"
               [] pc = "old_comma" -> "old_end"
               [] pc = "new_comma" -> "new_end"
    /\ dpos' = dpos + 1
    /\ UNCHANGED <<given, ipos, out, options, hp, serial, rd, pt, shown, body>>

NextDigit ==
    /\ pc \in InNumber /\ IsDigit(headChar)
    /\ num' = 10 * num + Digit
    /\ dpos' = dpos + 1
    /\ UNCHANGED <<given, ipos, out, options, pc, hp, serial, rd, pt, shown, body>>

Comma ==
    /\ pc \in {"old_start", "new_start"} /\ headChar = ","
    /\ hp' = [hp EXCEPT ![pc] = num]
    /\ pc' = IF pc = "old_start" THEN "old_comma" ELSE "new_comma"
    /\ dpos' = dpos + 1
    /\ UNCHANGED <<given, ipos, out, options, num, serial, rd, pt, shown, body>>

\* The HUNK when the old numbers, or the new ones, have been read.
WithOld == [hp EXCEPT !.old_end = num, !.old_start = IF pc = "old_start" THEN num ELSE @]
WithNew == [hp EXCEPT !.new_end = num, !.new_start = IF pc = "new_start" THEN num ELSE @]

Types == [a |-> "append", c |-> "change", d |-> "delete"]
IsType == /\ pc \in {"old_start", "old_end"} /\ headChar \in DOMAIN Types
          /\ headChar = "a" => WithOld.old_start = WithOld.old_end

Type ==
    /\ IsType
    /\ hp' = [WithOld EXCEPT !.type = Types[headChar]]
    /\ num' = 0
    /\ pc' = "new_start"
    /\ dpos' = dpos + 1
    /\ UNCHANGED <<given, ipos, out, options, serial, rd, pt, shown, body>>

IsEnd == /\ pc \in {"new_start", "new_end"} /\ headChar = "nl"
         /\ hp.type = "delete" => WithNew.new_start = WithNew.new_end
         /\ hp.old_start <= hp.old_end /\ WithNew.new_start <= WithNew.new_end


\* The first length in the buffers of the sections of the hunk becomes zero.
Emptied(b) == [s \in DOMAIN b |->
                  IF hp.type = (IF s = "dels" THEN "append" ELSE "delete") THEN b[s]
                  ELSE [b[s] EXCEPT ![1] = 0, ![2] = 0]]

\* hunk_next has found a hunk; patch() sets its counters when it is the first.
NextHunk ==
    /\ IsEnd
    /\ hp' = WithNew /\ serial' = serial + 1
    /\ rd' = [rd EXCEPT
                !.old_range = hp.old_end - hp.old_start + 1,
                !.new_range = WithNew.new_end - WithNew.new_start + 1,
                !.hunkCompleted = FALSE,
                !.buffer = Emptied(@),
                !.next.dels = IF hp.type = "append" THEN @ ELSE 1,
                !.next.adds = IF hp.type = "delete" THEN @ ELSE 1]
    /\ pt' = [pt EXCEPT
                !.lineInPtr = CASE hp.type = "append" /\ pt.lineOutPtr = 0 -> @ + 1
                                [] hp.type # "append" /\ @ = 0 -> 1
                                [] OTHER -> @,
                !.lineOutPtr = IF hp.type = "append" /\ @ = 0 THEN 1 ELSE @]
    /\ dpos' = dpos + 1 /\ body' = dpos + 1
    /\ pc' = "seek"
    /\ UNCHANGED <<given, ipos, out, options, num, shown>>

\* hunk_next returns ERR; patch() returns -1 without a report, and does not
\* look at what hunk_next has left in the HUNK.
BadHunk ==
    /\ pc \in AtNumber \cup InNumber /\ ~IsDigit(headChar)
    /\ ~(pc = "next" /\ headChar = "EOF")
    /\ ~(pc \in {"old_start", "new_start"} /\ headChar = ",") /\ ~IsType /\ ~IsEnd
    /\ hp' = NoHeader
    /\ pc' = "failed"
    /\ UNCHANGED <<given, ipos, dpos, out, options, num, serial, rd, pt, shown, body>>

NoMoreHunks ==
    /\ pc = "next" /\ DiffChar(dpos) = "EOF"
    /\ hp' = NoHeader
    /\ pc' = "copy"
    /\ UNCHANGED <<given, ipos, dpos, out, options, num, serial, rd, pt, shown, body>>

\* The last line to copy before the hunk is applied.
LastBefore == IF hp.type = "append" THEN hp.old_end ELSE hp.old_start - 1

\* Faulty variant: the lines that are copied are not counted.
CopyUncounted ==
    LET c == FileChar(ipos) IN
    /\ pc = "seek" /\ pt.lineInPtr <= LastBefore
    /\ ipos' = IF c = "EOF" THEN ipos ELSE ipos + 1
    /\ out' = Put(c)
    /\ UNCHANGED <<given, dpos, options, pc, hp, num, serial, rd, pt, shown, body>>

\* Copy a character; at the end of the file this is the byte EOF, again and again.
CopyBefore ==
    LET c == FileChar(ipos)
        nl == IF c = "nl" THEN 1 ELSE 0
    IN
    /\ pc = "seek" /\ pt.lineInPtr <= LastBefore
    /\ ipos' = IF c = "EOF" THEN ipos ELSE ipos + 1
    /\ out' = Put(c)
    /\ pt' = [pt EXCEPT !.lineInPtr = @ + nl, !.lineOutPtr = @ + nl,
                        !.linesInOut = IF hp.type = "append" THEN @ + nl ELSE @]
    /\ UNCHANGED <<given, dpos, options, pc, hp, num, serial, rd, shown, body>>

AtHunk == pc = "seek" /\ pt.lineInPtr > LastBefore

StartAppend ==
    /\ AtHunk /\ hp.type = "append"
    /\ pt.lineOutPtr = hp.new_start
    /\ ReadDiff(pt, "adding")
    /\ UNCHANGED <<given, ipos, out, options, hp, num, serial, shown, body>>

StartDelete ==
    /\ AtHunk /\ hp.type # "append"
    /\ pt.linesInOut \in {hp.new_start - 1, 0}
    /\ ReadDiff([pt EXCEPT !.inChar = FileChar(ipos)], "deleting")
    /\ ipos' = ipos + 1
    /\ UNCHANGED <<given, out, options, hp, num, serial, shown, body>>

WrongStart ==
    /\ AtHunk
    /\ IF hp.type = "append" THEN pt.lineOutPtr # hp.new_start
                             ELSE pt.linesInOut \notin {hp.new_start - 1, 0}
    /\ Refuse

HasChar == pt.diffChar \notin {"EOS", "ERR"}

\* Faulty variant: the deleted characters are not compared with the file.
DeleteUnseen ==
    LET counted == [pt EXCEPT !.lineInPtr = IF pt.diffChar = "nl" THEN @ + 1 ELSE @]
        more == GetC(rd, dpos).ch \notin {"EOS", "ERR"}
    IN
    /\ pc = "deleting" /\ HasChar
    /\ ReadDiff(IF more THEN [counted EXCEPT !.inChar = FileChar(ipos)] ELSE counted,
                "deleting")
    /\ ipos' = IF more THEN ipos + 1 ELSE ipos
    /\ UNCHANGED <<given, out, options, hp, num, serial, shown, body>>

DeleteChar ==
    LET counted == [pt EXCEPT !.lineInPtr = IF pt.diffChar = "nl" THEN @ + 1 ELSE @]
        more == GetC(rd, dpos).ch \notin {"EOS", "ERR"}
    IN
    /\ pc = "deleting" /\ HasChar
    /\ pt.diffChar = pt.inChar
    /\ ReadDiff(IF more THEN [counted EXCEPT !.inChar = FileChar(ipos)] ELSE counted,
                "deleting")
    /\ ipos' = IF more THEN ipos + 1 ELSE ipos
    /\ UNCHANGED <<given, out, options, hp, num, serial, shown, body>>

Mismatch == /\ pc = "deleting" /\ HasChar
            /\ pt.diffChar # pt.inChar
            /\ Refuse

\* lineCounter starts again with the next section.
Counted == [rd EXCEPT !.lineCounter = IF pt.diffChar = "EOS" THEN 0 ELSE @]

DeletedAll == pt.diffChar = "EOS" /\ pt.lineInPtr = hp.old_end + 1

DeleteEnd ==
    /\ pc = "deleting" /\ ~HasChar
    /\ DeletedAll /\ hp.type = "delete"
    /\ rd' = Counted
    /\ pc' = "next"
    /\ UNCHANGED <<given, ipos, dpos, out, options, hp, num, serial, pt, shown, body>>

\* A change goes on with its additions.
ChangeStart ==
    LET p == [pt EXCEPT !.lineOutPtr = IF @ = 0 THEN 1 ELSE @]
        got == GetC(Counted, dpos)
    IN
    /\ pc = "deleting" /\ ~HasChar
    /\ DeletedAll /\ hp.type = "change"
    /\ p.lineOutPtr = hp.new_start
    /\ rd' = got.rd /\ dpos' = got.at
    /\ pt' = [p EXCEPT !.diffChar = got.ch]
    /\ pc' = "adding"
    /\ UNCHANGED <<given, ipos, out, options, hp, num, serial, shown, body>>

DeleteFails ==
    /\ pc = "deleting" /\ ~HasChar
    /\ \/ ~DeletedAll
       \/ /\ hp.type = "change"
          /\ hp.new_start # IF pt.lineOutPtr = 0 THEN 1 ELSE pt.lineOutPtr
    /\ Refuse

\* Faulty variant: an added line is not counted in the output.
AddUncounted ==
    LET nl == IF pt.diffChar = "nl" THEN 1 ELSE 0 IN
    /\ pc = "adding" /\ HasChar
    /\ out' = Put(pt.diffChar)
    /\ ReadDiff([pt EXCEPT !.linesInOut = @ + nl], "adding")
    /\ UNCHANGED <<given, ipos, options, hp, num, serial, shown, body>>

AddChar ==
    LET nl == IF pt.diffChar = "nl" THEN 1 ELSE 0 IN
    /\ pc = "adding" /\ HasChar
    /\ out' = Put(pt.diffChar)
    /\ ReadDiff([pt EXCEPT !.lineOutPtr = @ + nl, !.linesInOut = @ + nl], "adding")
    /\ UNCHANGED <<given, ipos, options, hp, num, serial, shown, body>>

AddedAll == pt.diffChar = "EOS" /\ pt.linesInOut = hp.new_end

AddEnd ==
    /\ pc = "adding" /\ ~HasChar
    /\ AddedAll
    /\ rd' = Counted
    /\ pc' = "next"
    /\ UNCHANGED <<given, ipos, dpos, out, options, hp, num, serial, pt, shown, body>>

AddFails == /\ pc = "adding" /\ ~HasChar
            /\ ~AddedAll
            /\ Refuse

CopyRest ==
    /\ pc = "copy" /\ FileChar(ipos) # "EOF"
    /\ out' = Put(FileChar(ipos))
    /\ ipos' = ipos + 1
    /\ UNCHANGED <<given, dpos, options, pc, hp, num, serial, rd, pt, shown, body>>

Finish ==
    /\ pc = "copy" /\ FileChar(ipos) = "EOF"
    /\ pc' = "done"
    /\ UNCHANGED <<given, ipos, dpos, out, options, hp, num, serial, rd, pt, shown, body>>

Next == \/ Main
        \/ FirstDigit \/ NextDigit \/ Comma \/ Type
        \/ NextHunk \/ BadHunk \/ NoMoreHunks
        \/ CopyBefore \/ StartAppend \/ StartDelete \/ WrongStart
        \/ DeleteChar \/ Mismatch \/ DeleteEnd \/ ChangeStart \/ DeleteFails
        \/ AddChar \/ AddEnd \/ AddFails
        \/ CopyRest \/ Finish

Spec == Init /\ [][Next]_vars

\* The one thread of the program goes on until it has ended.
FairSpec == Spec /\ WF_vars(Next)

(* ------------------------------ properties ------------------------------ *)
Chars == {Others[i] : i \in DOMAIN Others} \cup {Numerals[i] : i \in DOMAIN Numerals}

TypeOK ==
    /\ ipos \in Nat /\ dpos \in Nat /\ serial \in Nat
    /\ out \in Seq(Chars)
    /\ options \subseteq {"-n", "-q"}
    /\ num \in Nat
    /\ pc \in AtNumber \cup InNumber \cup {"main", "seek", "deleting", "adding", "copy"} \cup Ended
    /\ hp.type \in HunkTypes \cup {"none"}
    /\ \A s \in {"dels", "adds"} : rd.next[s] + 3 <= HUNK_MAX
    /\ \A s \in {"dels", "adds"} : \A i \in 1 .. HUNK_MAX : rd.buffer[s][i] \in 0 .. 255
    /\ pt.inChar \in Chars
    /\ pt.diffChar \in Chars \cup {"EOS", "ERR", "CRASH"}

\* The new version of the file, as the options ask for it.
Expected(hunks) == IF "-n" \in options THEN <<>> ELSE TextOf(Applied(given.file, hunks))

Explains(hunks) ==
    /\ diff = Render(hunks)
    /\ \A k \in DOMAIN hunks : FitsOldFile(given.file, hunks[k])
    /\ out = Expected(hunks)

\* The header of a deletion may lack its new line number: hunk_next reads it
\* as 0 (:197), and patch() does not compare it when nothing was added (:1021).
OnlyDeletionsUnnumbered(hunks) ==
    \A k \in DOMAIN hunks : Unwritten \in {hunks[k].h.new_start, hunks[k].h.new_end} =>
                               hunks[k].h.type = "delete"

\* lineOutPtr still is zero after deletions at the first line, and an append
\* that comes next counts a line of the file that nobody has read (:930-932).
AppendAfterFirstLine(hunks) ==
    \E k \in DOMAIN hunks :
        /\ k > 1 /\ hunks[k].h.type = "append"
        /\ \A l \in 1 .. k - 1 : hunks[l].h.type = "delete" /\ hunks[l].h.old_start = 1

\* A diff that is right for the file, with all its line numbers, is never
\* applied to give anything but the new version, whatever the hunks.
GoodDiffNotSpoiled ==
    diff = Render(given.hunks) /\ Correct(given.file, given.hunks) =>
        out = Expected(given.hunks)

\* When patch() returns 0 the output is complete and correct
\* (fliki.c:907-909): the diff file is well-formed, but for new numbers that
\* are missing in headers of deletions, the lines it deletes are the lines of
\* the file at these numbers, and the output is the new version.
\* Diffs whose hunks overlap or go backwards are left out, and those above;
\* but a diff that is right for the file is never spoiled, whatever its hunks.
AcceptedIsApplied ==
    pc = "done" =>
        /\ GoodDiffNotSpoiled
        /\ InOrder(given.hunks) /\ ~AppendAfterFirstLine(given.hunks) =>
              \/ Explains(given.hunks)
              \/ \E hunks \in Diffs : Explains(hunks) /\ OnlyDeletionsUnnumbered(hunks)

\* The state of a new line of a new section, of a hunk that was read to its end.
NothingCarriedOver ==
    rd.length = 0 /\ rd.lineCounter = 0 /\ rd.hunkCompleted /\ ~rd.addSecForC

Newlines(s) == Cardinality({i \in DOMAIN s : s[i] = "nl"})

\* Between hunks the line counters of patch() agree with the streams: the
\* next character read is the first of line lineInPtr, and the output has
\* lineOutPtr lines, or one less once the counter stands for the line that
\* is written next.  linesInOut never counts a line that was not written.
\* Nor do the counters and flags of hunk_getc, which hunk_next does not set
\* again, keep anything of a hunk that is over.
CountersAgree ==
    /\ TypeOK
    /\ pc = "next" => NothingCarriedOver
    /\ pc = "next" /\ serial > 0 =>
        /\ "-n" \notin options => /\ Newlines(out) \in {pt.lineOutPtr, pt.lineOutPtr - 1}
                                   /\ pt.linesInOut <= Newlines(out)
        /\ ~AppendAfterFirstLine(given.hunks) =>
               pt.lineInPtr = 1 + Newlines([i \in {j \in DOMAIN in : j < ipos} |-> in[i]])

\* hunk_getc gave up inside a line: it has stored a length, and no zero
\* after the line.
GaveUpInLine == pt.diffChar = "ERR" /\ rd.length > 0

\* What a report has printed of the lines of the hunk.
Report ==
    shown.dels
    \o (IF hp.type = "change" /\ shown.adds # <<>> THEN Codes(<<"-", "-", "-", "nl">>)
                                                   ELSE <<>>)
    \o shown.adds


\* patch() comes to an end when the file always has the lines that the current
\* hunk names.
LongEnough == pc = "seek" => hp.old_end <= Len(given.file)
PatchEnds == []LongEnough => <>(pc \in Ended)
=============================================================================
