----------------------------- MODULE DiffFormat -----------------------------
(***************************************************************************)
(* Traditional diffs: what they look like as a stream of characters, and   *)
(* what they mean.  The meaning is the one the comment of patch() gives    *)
(* (hw1/src/fliki.c:895-911), stated on whole files and whole hunks.       *)
(*                                                                         *)
(* A diff is a sequence of characters, "nl" a newline; the line numbers    *)
(* that are written have one digit.  A file is a sequence of lines, a line *)
(* a sequence of characters without its newline.                           *)
(***************************************************************************)
EXTENDS Integers, Sequences, FiniteSets
LOCAL INSTANCE SequencesExt
LOCAL INSTANCE FiniteSetsExt

HunkTypes == {"append", "delete", "change"}

\* A HUNK that holds nothing, and the header of a hunk.
NoHeader == [type |-> "none", old_start |-> 0, old_end |-> 0,
             new_start |-> 0, new_end |-> 0]
Header(t, os, oe, ns, ne) == [type |-> t, old_start |-> os, old_end |-> oe,
                              new_start |-> ns, new_end |-> ne]

Numerals == <<"0", "1", "2", "3", "4", "5", "6", "7", "8", "9">>

\* The number in a header whose author forgot it.
Unwritten == -1

(* ------------------------------ appearance ------------------------------ *)
RenderNumber(n) == IF n = Unwritten THEN <<>> ELSE <<Numerals[n + 1]>>

RenderRange(a, b) == IF a = b THEN RenderNumber(a)
                     ELSE RenderNumber(a) \o <<",">> \o RenderNumber(b)

Letter(type) == CASE type = "append" -> "a"
                  [] type = "delete" -> "d"
                  [] type = "change" -> "c"

RenderHeader(h) == RenderRange(h.old_start, h.old_end) \o <<Letter(h.type)>>
                   \o RenderRange(h.new_start, h.new_end) \o <<"nl">>

RenderLine(mark, line) == <<mark, " ">> \o line \o <<"nl">>

RenderLines(mark, lines) ==
    FlattenSeq([i \in DOMAIN lines |-> RenderLine(mark, lines[i])])

\* A hunk is a header with the lines it deletes and the lines it adds.
RenderHunk(k) ==
    RenderHeader(k.h)
    \o RenderLines("<", k.dels)
    \o (IF k.h.type = "change" THEN <<"-", "-", "-", "nl">> ELSE <<>>)
    \o RenderLines(">", k.adds)

Render(hunks) == FlattenSeq([i \in DOMAIN hunks |-> RenderHunk(hunks[i])])

TextOf(file) == FlattenSeq([i \in DOMAIN file |-> Append(file[i], "nl")])

(* ------------------------------- meaning -------------------------------- *)
\* The lines a hunk adds after line i of the old file.
AddedAfter(hunks, i) ==
    FlattenSeq([k \in DOMAIN hunks |->
        IF hunks[k].h.old_end = i THEN hunks[k].adds ELSE <<>>])

DeletedLines(hunks) ==
    UNION {hunks[k].h.old_start .. hunks[k].h.old_end :
               k \in {l \in DOMAIN hunks : hunks[l].h.type # "append"}}

\* The new version of the file.
Applied(file, hunks) ==
    FlattenSeq([j \in 1 .. Len(file) + 1 |->
        (IF j = 1 \/ j - 1 \in DeletedLines(hunks) THEN <<>> ELSE <<file[j - 1]>>)
        \o AddedAfter(hunks, j - 1)])

\* The deletions are what the file has at these numbers.
FitsOldFile(file, k) ==
    /\ k.h.old_end <= Len(file)
    /\ k.h.type # "append" =>
           /\ k.h.old_start \in 1 .. k.h.old_end
           /\ k.dels = SubSeq(file, k.h.old_start, k.h.old_end)

\* Each hunk comes after the lines of the hunks before it.
InOrder(hunks) ==
    \A k, l \in DOMAIN hunks : k < l =>
        IF hunks[l].h.type = "append"
        THEN hunks[k].h.old_end <= hunks[l].h.old_start
        ELSE hunks[k].h.old_end < hunks[l].h.old_start

\* How far the hunks before hunk k move the lines of the file.
Shift(hunks, k) ==
    MapThenSumSet(LAMBDA l : Len(hunks[l].adds) - Len(hunks[l].dels), 1 .. k - 1)

\* The line of the new file at which hunk k starts.
NewStart(hunks, k) ==
    LET h == hunks[k].h IN
    Shift(hunks, k) + (CASE h.type = "append" -> h.old_start + 1
                         [] h.type = "delete" -> h.old_start - 1
                         [] h.type = "change" -> h.old_start)

\* The diff is what the program diff prints for the file and its new version.
Correct(file, hunks) ==
    /\ InOrder(hunks)
    /\ \A k \in DOMAIN hunks :
           LET h == hunks[k].h IN
           /\ FitsOldFile(file, hunks[k])
           /\ h.new_start = NewStart(hunks, k)
           /\ h.new_end = IF h.type = "delete" THEN h.new_start
                          ELSE h.new_start + Len(hunks[k].adds) - 1
=============================================================================
