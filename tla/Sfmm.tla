-------------------------------- MODULE Sfmm --------------------------------
(***************************************************************************)
(* The memory allocator of hw3/src/sfmm.c: a heap of blocks with boundary  *)
(* tags, segregated free lists and quick lists of recently freed blocks.   *)
(*                                                                         *)
(* Memory is a function from 8-byte rows to headers and footers.  Sizes of *)
(* blocks and addresses count rows; only what the user asks for is in      *)
(* bytes.  The links of a list are the sequence of its blocks.             *)
(*                                                                         *)
(* A heap becomes "wild" when the code has used a pointer that was never   *)
(* set, or when sf_memalign has split a block at a size that is not whole  *)
(* rows (CutRight).  Nothing is claimed of a wild heap; in                 *)
(* particular the promise of room (OwnedAreValid) is checked for           *)
(* sf_memalign only where its split comes out right.                       *)
(***************************************************************************)
EXTENDS Integers, Sequences, SequencesExt

CONSTANTS
    PAGE,               \* rows of a page (512 in the code)
    MaxPages,           \* pages that sf_mem_grow can give
    NUM_FREE_LISTS,     \* 10
    NUM_QUICK_LISTS,    \* 20
    QUICK_LIST_MAX,     \* 5
    Sizes,              \* sizes in bytes that sf_malloc is called with
    Resizes,            \* ... sf_realloc
    AlignedSizes,       \* ... sf_memalign
    Alignments          \* powers of two, at least 8

\* Rows of the smallest block, which are also the rows of the prologue.
M == 4

\* The first block of a page is larger than the blocks of the first two lists.
ASSUME SizeAssumption ==
    /\ PAGE \in Nat /\ PAGE > 3 * M + 1 /\ MaxPages \in Nat
    /\ NUM_FREE_LISTS \in Nat \ {0} /\ NUM_QUICK_LISTS \in Nat /\ QUICK_LIST_MAX \in Nat \ {0}

\* Calls with a size of 0 return at once, and so do those with another alignment.
ASSUME RequestAssumption ==
    /\ \A n \in Sizes \cup Resizes \cup AlignedSizes : n \in Nat /\ n > 0
    /\ \A n \in Alignments : n \in Nat /\ n > 0 /\ n % 8 = 0

Rows == 0..(PAGE * MaxPages - 1)
FreeLists == 0..(NUM_FREE_LISTS - 1)
QuickLists == 0..(NUM_QUICK_LISTS - 1)

VARIABLES
    heap,      \* [mem, free, quick, end, wild, stale, lost]: rows, lists and the end of
               \* the heap; wild once the code has followed a link that is not there;
               \* stale once a split has left the bit of an allocated next block, and lost,
               \* the free blocks that the code has forgotten (history)
    left,      \* the pages sf_mem_grow can still give
    owned,     \* owned[b]: the bytes and the alignment the user got block b for
    request,   \* the call in progress
    pc         \* "user", "grow", "found", or "hung" in the search of a free list

vars == <<heap, left, owned, request, pc>>

Tag(size, alloc, prev, inq) ==
    [size |-> size, alloc |-> alloc, prev |-> prev, inq |-> inq]

NoTag == Tag(0, FALSE, FALSE, FALSE)
Epilogue == Tag(0, TRUE, FALSE, FALSE)

NotOwned == [bytes |-> 0, align |-> 8]
Owned == {b \in Rows : owned[b] # NotOwned}

\* A call: what the user wants, the block it gives up, the rows that sf_malloc looks
\* for, and the block it has in its hands.
Request(op, bytes, align, old, size) ==
    [op |-> op, bytes |-> bytes, align |-> align, old |-> old, size |-> size, block |-> 0]
NoRequest == Request("none", 0, 8, 0, 0)

-----------------------------------------------------------------------------
\* The block size for a number of payload bytes.
RowsFor(bytes) == IF bytes + 8 < 8 * M THEN M ELSE (bytes + 15) \div 8

Size(h, b) == h.mem[b].size
NextBlock(h, b) == b + Size(h, b)

\* The previous block is found through its footer.
PrevBlock(h, b) == IF h.mem[b].prev THEN b ELSE b - h.mem[b - 1].size

Put(h, b, tag) == [h EXCEPT !.mem[b] = tag]
PutFooter(h, b) == [h EXCEPT !.mem[NextBlock(h, b) - 1] = h.mem[b]]
Resize(h, b, size) == [h EXCEPT !.mem[b].size = size]
SetPrev(h, b, alloc) == [h EXCEPT !.mem[b].prev = alloc]

\* The list of a size: M, (M, 2M], (2M, 4M] ... and the last one for all the rest.
Reaches(i, size) == size <= M * 2^i
ListOf(size) ==
    LET fits == {i \in FreeLists : Reaches(i, size) \/ i = NUM_FREE_LISTS - 1}
    IN  CHOOSE i \in fits : \A j \in fits : i <= j

\* What else the rows of a block hold, data and links and old tags, is not kept: nothing
\* reads it as a tag, which PrevBitIsSafe and ListsMatchTags check.
Forget(h, rows) == [h EXCEPT !.mem = [r \in Rows |-> IF r \in rows THEN NoTag ELSE @[r]]]

Insert(h, b) == Forget([h EXCEPT !.free[ListOf(Size(h, b))] = <<b>> \o @],
                       (b + 1)..(NextBlock(h, b) - 2))

InFree(h) == UNION {Range(h.free[i]) : i \in FreeLists}
InQuick(h) == UNION {Range(h.quick[q]) : q \in QuickLists}

Unlink(h, b) ==
    [h EXCEPT !.free = [i \in FreeLists |-> RemoveFirst(h.free[i], b)],
              !.wild = @ \/ b \notin InFree(h)]

MergeNext(h, b) ==
    LET next == NextBlock(h, b)
        merged == PutFooter(Resize(Unlink(h, next), b, Size(h, b) + Size(h, next)), b)
    IN  IF h.mem[next].alloc THEN h ELSE SetPrev(merged, NextBlock(merged, b), FALSE)

\* The merged block starts at PrevBlock(h, b).
MergePrev(h, b) ==
    LET prev == PrevBlock(h, b)
        merged == PutFooter(Resize(Unlink(h, prev), prev, Size(h, prev) + Size(h, b)), prev)
    IN  IF prev = b THEN h ELSE SetPrev(merged, NextBlock(merged, prev), FALSE)

\* Header, footer and next block's bit of a block that is freed.
MarkFree(h, b) ==
    SetPrev(PutFooter(Put(h, b, Tag(Size(h, b), FALSE, h.mem[b].prev, FALSE)), b),
            NextBlock(h, b), FALSE)

\* Faulty variant: only the block after the freed one is merged with it.
ReleaseForward(h, b) == Insert(MergeNext(MarkFree(h, b), b), b)

\* A block goes back to the free lists, merged with both neighbours.
Release(h, b) ==
    LET g == MarkFree(h, b)
        start == PrevBlock(g, b)
    IN  Insert(MergeNext(MergePrev(g, b), start), start)

TakeQuick(h, q) == [h EXCEPT !.quick[q] = Tail(@)]

\* The blocks of a quick list are taken from it one by one.
FlushFirst(h, q) == Release(TakeQuick(h, q), Head(h.quick[q]))

Flush(h, q) ==
    LET after[n \in Nat] == IF n = 0 THEN h ELSE FlushFirst(after[n - 1], q)
    IN  after[Len(h.quick[q])]

\* Faulty variant: a quick list is flushed when it holds more than its limit.
FreedOffByOne(h, b) ==
    LET q == Size(h, b) - M
        room == IF Len(h.quick[q]) > QUICK_LIST_MAX THEN Flush(h, q) ELSE h
    IN  IF q \in QuickLists
        THEN [room EXCEPT !.quick[q] = <<b>> \o @, !.mem[b].inq = TRUE]
        ELSE Release(h, b)

\* sf_free of a valid pointer: into a quick list, after flushing it if it is full, or
\* back to the free lists.
Freed(h, b) ==
    LET q == Size(h, b) - M
        room == IF Len(h.quick[q]) = QUICK_LIST_MAX THEN Flush(h, q) ELSE h
    IN  IF q \in QuickLists
        THEN [room EXCEPT !.quick[q] = <<b>> \o @, !.mem[b].inq = TRUE]
        ELSE Release(h, b)

\* A new free block between an allocated one and what follows.
Split(h, b, size) ==
    PutFooter(Put(h, b, Tag(size, FALSE, TRUE, FALSE)), b)

\* Faulty variant: the rest of a block that is split is in no list.
PlaceLosesRest(h, b, size) ==
    LET rest == Size(h, b) - size
        prev == h.mem[b].prev
    IN  IF rest >= M
        THEN Split(Put(h, b, Tag(size, TRUE, prev, FALSE)), b + size, rest)
        ELSE SetPrev(Put(h, b, Tag(Size(h, b), TRUE, prev, FALSE)), NextBlock(h, b), TRUE)

\* Faulty variant: the block keeps its quick list bit.
PlaceKeepsBit(h, b, size) ==
    LET rest == Size(h, b) - size
        tag == [h.mem[b] EXCEPT !.alloc = TRUE]
    IN  IF rest >= M
        THEN Insert(Split(Put(h, b, [tag EXCEPT !.size = size]), b + size, rest), b + size)
        ELSE SetPrev(Put(h, b, tag), NextBlock(h, b), TRUE)

\* The block b, which is in no list any more, is used for a block of the given size.
Place(h, b, size) ==
    LET rest == Size(h, b) - size
        prev == h.mem[b].prev
    IN  IF rest >= M
        THEN Insert(Split(Put(h, b, Tag(size, TRUE, prev, FALSE)), b + size, rest), b + size)
        ELSE SetPrev(Put(h, b, Tag(Size(h, b), TRUE, prev, FALSE)), NextBlock(h, b), TRUE)

\* The page of the first call: prologue, one free block, epilogue.
FirstPage(h) ==
    LET size == PAGE - M - 1
    IN  Insert(Split(Put(Put([h EXCEPT !.end = PAGE], 0, Tag(M, TRUE, FALSE, FALSE)),
                         PAGE - 1, Epilogue), M, size), M)

\* One more page: the old epilogue becomes the header of a free block.
NewPage(h) ==
    LET b == h.end - 1
        fresh == Put(Put([h EXCEPT !.end = @ + PAGE], h.end + PAGE - 1, Epilogue),
                     b, Tag(PAGE, FALSE, h.mem[b].prev, FALSE))
    IN  PutFooter(fresh, b)

\* ... merged with a free block before it, which leaves its list.  (Unlinking again a
\* block that this very call has unlinked before changes nothing.)
GrownBlock(h) == PrevBlock(NewPage(h), h.end - 1)
Grown(h) ==
    LET g == NewPage(h)
        b == h.end - 1
        prev == GrownBlock(h)
        unlinked == IF prev = request.block THEN g ELSE Unlink(g, prev)
    IN  IF prev = b THEN g
        ELSE PutFooter(Resize(unlinked, prev, Size(g, prev) + Size(g, b)), prev)

-----------------------------------------------------------------------------
Init ==
    /\ left \in 0..MaxPages
    /\ heap = [mem |-> [r \in Rows |-> NoTag], free |-> [i \in FreeLists |-> << >>],
               quick |-> [q \in QuickLists |-> << >>], end |-> 0, wild |-> FALSE,
               stale |-> FALSE, lost |-> {}]
    /\ owned = [b \in Rows |-> NotOwned]
    /\ request = NoRequest
    /\ pc = "user"

Candidates(h, size) ==
    {i \in FreeLists : h.free[i] # << >> /\ (Reaches(i, size) \/ i = NUM_FREE_LISTS - 1)}

Searched(h, size) ==
    LET i == CHOOSE i \in Candidates(h, size) : \A j \in Candidates(h, size) : i <= j
    IN  Head(h.free[i])

\* sf_malloc, from its entry to the end of its searches: a quick list, then the free
\* lists from the first that can hold the size.  Only the head of a list is looked at,
\* again and again when it is too small.
Search(r) ==
    LET h == IF heap.end = 0 THEN FirstPage(heap) ELSE heap
        q == r.size - M
        Use(g, b) == /\ heap' = Place(g, b, r.size)
                     /\ request' = [r EXCEPT !.block = b]
                     /\ pc' = "found"
        Keep(next) == heap' = h /\ request' = r /\ pc' = next
    IN  /\ pc = "user" /\ ~heap.wild
        /\ heap.end = 0 => left > 0
        /\ left' = IF heap.end = 0 THEN left - 1 ELSE left
        /\ IF q \in QuickLists /\ h.quick[q] # << >>
           THEN Use(TakeQuick(h, q), Head(h.quick[q]))
           ELSE IF Candidates(h, r.size) = {} THEN Keep("grow")
           ELSE LET b == Searched(h, r.size)
                IN  IF Size(h, b) >= r.size THEN Use(Unlink(h, b), b) ELSE Keep("hung")
        /\ UNCHANGED owned

Malloc == \E bytes \in Sizes : Search(Request("malloc", bytes, 8, 0, RowsFor(bytes)))

\* Room for the alignment, for a block before the aligned one and for a header.
Memalign ==
    \E bytes \in AlignedSizes, align \in Alignments :
        Search(Request("memalign", bytes, align, 0, RowsFor(bytes + align + 40)))

\* No block was found: the heap grows until its last block is large enough.  A block that
\* is too small is remembered only if the new page was merged with a block before it.
Grow ==
    LET g == Grown(heap)
        b == GrownBlock(heap)
    IN  /\ pc = "grow" /\ ~heap.wild
        /\ left > 0
        /\ left' = left - 1
        /\ IF Size(g, b) >= request.size
           THEN /\ heap' = Place(g, b, request.size)
                /\ request' = [request EXCEPT !.block = b]
                /\ pc' = "found"
           ELSE /\ heap' = [g EXCEPT !.lost = IF b = heap.end - 1 THEN @ \cup {b} ELSE @]
                /\ request' = [request EXCEPT !.block = IF b = heap.end - 1 THEN @ ELSE b]
                /\ UNCHANGED pc
        /\ UNCHANGED owned

\* ENOMEM.  prevBlockPtr is not initialised in this round of the loop: it is what the
\* round before has left there, NULL, or anything.
GrowFails ==
    /\ pc = "grow" /\ ~heap.wild
    /\ left = 0
    /\ \/ heap' = [heap EXCEPT !.lost = @ \cup ({request.block} \ {0})]
       \/ heap' = IF request.block = 0 THEN heap ELSE Insert(heap, request.block)
       \/ heap' = [heap EXCEPT !.wild = TRUE]
    /\ request' = NoRequest
    /\ pc' = "user"
    /\ UNCHANGED <<left, owned>>

-----------------------------------------------------------------------------
\* Faulty variant: the header of the block that is cut keeps the old size.
CutOffKeepsSize(h, b, size) ==
    LET rest == Size(h, b) - size
    IN  IF rest >= M THEN Insert(MergeNext(Split(h, b + size, rest), b + size), b + size)
        ELSE h

\* A block is cut down to a size; the rest merges with what follows.  The bit of an
\* allocated block that follows is left alone.
CutOff(h, b, size) ==
    LET rest == Size(h, b) - size
        g == [Split(Put(h, b, Tag(size, TRUE, h.mem[b].prev, FALSE)), b + size, rest)
              EXCEPT !.stale = @ \/ h.mem[NextBlock(h, b)].alloc]
    IN  IF rest >= M THEN Insert(MergeNext(g, b + size), b + size) ELSE h

\* sf_memalign: the rows before the aligned block, none or at least M.  The heap itself
\* starts at a multiple of every alignment.
Offset(b, align) ==
    LET rows == align \div 8
        over == (b + 1 + M) % rows
    IN  IF (b + 1) % rows = 0 THEN 0 ELSE IF over = 0 THEN M ELSE M + rows - over

CutLeft(h, b, offset) ==
    LET g == PutFooter(Put(Put(h, b + offset, Tag(Size(h, b) - offset, TRUE, FALSE, FALSE)),
                           b, Tag(offset, FALSE, h.mem[b].prev, FALSE)), b)
    IN  IF offset = 0 THEN h ELSE Insert(MergePrev(g, b), PrevBlock(g, b))

\* The size of the aligned block is not rounded up to rows: its low bits end up in the
\* bits of the header, and the header of the rest is written between two rows.  The block
\* has less room than was asked for, and no property speaks of the heap any more.
CutRight(h, b, bytes) ==
    IF bytes + 8 < 8 * M \/ bytes % 8 = 0 THEN CutOff(h, b, RowsFor(bytes))
    ELSE IF 8 * Size(h, b) - (bytes + 8) < 8 * M THEN h
    ELSE [Put(h, b, Tag((bytes + 8) \div 8, TRUE, h.mem[b].prev \/ (bytes \div 2) % 2 = 1,
                        (bytes \div 4) % 2 = 1))
          EXCEPT !.wild = TRUE]

\* sf_malloc returns to the user, to sf_realloc or to sf_memalign, which go on.
Return ==
    LET b == request.block
        aligned == b + Offset(b, request.align)
        HandOut(h, block) == Forget(h, (block + 1)..(NextBlock(h, block) - 1))
        own == [bytes |-> request.bytes, align |-> request.align]
    IN  /\ pc = "found" /\ ~heap.wild
        /\ \/ /\ request.op = "malloc"
              /\ owned' = [owned EXCEPT ![b] = own]
              /\ heap' = HandOut(heap, b)
           \/ /\ request.op = "realloc"
              /\ owned' = [owned EXCEPT ![request.old] = NotOwned, ![b] = own]
              /\ heap' = Freed(HandOut(heap, b), request.old)
           \/ /\ request.op = "memalign"
              /\ owned' = [owned EXCEPT ![aligned] = own]
              /\ heap' = HandOut(CutRight(CutLeft(heap, b, aligned - b), aligned,
                                          request.bytes), aligned)
        /\ request' = NoRequest
        /\ pc' = "user"
        /\ UNCHANGED left

\* The checks of sf_free and sf_realloc, which abort and return NULL otherwise.
Valid(h, b) ==
    /\ Size(h, b) >= M /\ b >= M /\ NextBlock(h, b) <= h.end - 1
    /\ h.mem[b].alloc /\ ~h.mem[b].inq
    /\ h.mem[b].prev \/ ~h.mem[b - 1].alloc

Free(b) ==
    /\ pc = "user" /\ ~heap.wild
    /\ b \in Owned /\ Valid(heap, b)
    /\ heap' = Freed(heap, b)
    /\ owned' = [owned EXCEPT ![b] = NotOwned]
    /\ UNCHANGED <<left, request, pc>>

Payload(h, b) == 8 * (Size(h, b) - 1)

\* sf_realloc to fewer bytes than the block has: in place.  To as many: nothing is cut.
Shrink(b) ==
    \E bytes \in Resizes \cap 1..Payload(heap, b) :
        /\ pc = "user" /\ ~heap.wild
        /\ b \in Owned /\ Valid(heap, b)
        /\ heap' = CutOff(heap, b, RowsFor(bytes))
        /\ owned' = [owned EXCEPT ![b].bytes = bytes]
        /\ UNCHANGED <<left, request, pc>>

\* To more bytes: another block, then the old one is freed.
Enlarge(b) ==
    \E bytes \in Resizes :
        /\ b \in Owned /\ Valid(heap, b)
        /\ bytes > Payload(heap, b)
        /\ Search(Request("realloc", bytes, 8, b, RowsFor(bytes)))

Next == \/ Malloc \/ Memalign \/ Grow \/ GrowFails \/ Return
        \/ \E b \in Rows : Free(b) \/ Shrink(b) \/ Enlarge(b)

Spec == Init /\ [][Next]_vars

-----------------------------------------------------------------------------
Tags == [size : 0..(PAGE * MaxPages), alloc : BOOLEAN, prev : BOOLEAN, inq : BOOLEAN]

Heaps == [mem : [Rows -> Tags], free : [FreeLists -> Seq(Rows)],
          quick : [QuickLists -> Seq(Rows)], end : 0..(PAGE * MaxPages),
          wild : BOOLEAN, stale : BOOLEAN, lost : SUBSET Rows]

Blocks == Owned \cup InFree(heap) \cup InQuick(heap) \cup ({request.block} \ {0})
              \cup heap.lost

\* The rows and tags of the heap, the call in progress and the owned blocks have their
\* types.
TypeOK ==
    /\ heap \in Heaps
    /\ left \in 0..MaxPages
    /\ owned \in [Rows -> [bytes : Nat, align : Nat]]
    /\ request \in [op : {"none", "malloc", "realloc", "memalign"}, bytes : Nat, align : Nat,
                    old : Nat, size : Nat, block : Nat]
    /\ pc \in {"user", "grow", "found", "hung"}

\* Nothing is lost and nothing is used twice: every row between prologue and epilogue
\* belongs to exactly one block, and that block is owned by the user, in a free list, in
\* a quick list, in the hands of the call in progress, or lost in a growth that failed.
\* The tags and lists keep their types, also when the code has written where it should not.
EveryRowAccounted ==
    /\ TypeOK
    /\ ~heap.wild => \A r \in M..(heap.end - 2) :
          \E b \in Blocks :
              /\ r \in b..(NextBlock(heap, b) - 1)
              /\ \A c \in Blocks \ {b} : r \notin c..(NextBlock(heap, c) - 1)

\* The row before a header whose bit says so is the footer of a free block that ends there.
PrevBitIsSafe ==
    \A b \in Blocks \cup ({heap.end - 1} \ {-1}) :
        ~heap.mem[b].prev => /\ PrevBlock(heap, b) \in
                                    InFree(heap) \cup {request.block} \cup heap.lost
                             /\ NextBlock(heap, PrevBlock(heap, b)) = b

\* A block is where its tags say: in the free list of its size, once, with a footer from
\* which its start can be found, or in the quick list of its size, which is never longer
\* than its limit; and a previous-allocated bit of 0 can be trusted.
ListsMatchTags ==
    ~heap.wild =>
        /\ PrevBitIsSafe
        /\ \A i \in FreeLists : IsInjective(heap.free[i]) /\
              \A b \in Range(heap.free[i]) :
                  LET footer == heap.mem[NextBlock(heap, b) - 1] IN
                  /\ ~heap.mem[b].alloc /\ ListOf(Size(heap, b)) = i
                  /\ ~footer.alloc /\ footer.size = Size(heap, b)
        /\ \A q \in QuickLists : IsInjective(heap.quick[q]) /\
              Len(heap.quick[q]) <= QUICK_LIST_MAX /\
              \A b \in Range(heap.quick[q]) :
                  heap.mem[b].alloc /\ heap.mem[b].inq /\ Size(heap, b) = q + M

PayloadFits ==
    \A b \in Owned : /\ Payload(heap, b) >= owned[b].bytes
                     /\ (8 * (b + 1)) % owned[b].align = 0

\* "a pointer to a valid region of memory of the requested size and with the requested
\* alignment is returned" (hw3/include/sfmm.h:260-261), and it stays so until it is freed:
\* sf_free never aborts on a pointer the user owns, whatever happened to the blocks around
\* it since it was handed out.  An aligned block that is cut at a size that is not whole
\* rows breaks the promise at once, and is excluded: the heap is wild then.
OwnedAreValid == ~heap.wild => PayloadFits /\ \A b \in Owned : Valid(heap, b)

\* "This block will go into the main freelist and be coalesced"
\* (hw3/tests/sfmm_tests.c:231-232): no two free blocks are neighbours.
Coalesced == \A b, c \in InFree(heap) : NextBlock(heap, b) # c

\* Free neighbours are always merged, in whatever order they were freed, flushed and
\* grown, and "Footer contents must always be identical to header contents"
\* (hw3/include/sfmm.h:86): until a split in sf_realloc or sf_memalign leaves a bit stale.
FullyCoalesced ==
    ~heap.wild /\ ~heap.stale =>
        /\ Coalesced
        /\ \A b \in InFree(heap) : heap.mem[NextBlock(heap, b) - 1] = heap.mem[b]

Promise == INSTANCE Allocator WITH
    region <- [b \in IF heap.wild THEN {} ELSE Owned |->
                  [bytes |-> owned[b].bytes, align |-> owned[b].align,
                   rows |-> b..(NextBlock(heap, b) - 1)]],
    trusted <- ~heap.wild

\* To its user the heap is a set of separate regions: no call moves, cuts or covers a
\* block that another call has handed out, and sf_realloc frees the old block when the
\* new one exists.
ImplementsAllocator == Promise!Spec

\* "go to next free block" (hw3/src/sfmm.c:198): the search of a free list comes to an end.
SearchEnds == pc # "hung"
=============================================================================
