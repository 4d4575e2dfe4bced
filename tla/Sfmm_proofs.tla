--------------------------- MODULE Sfmm_proofs ---------------------------
(* The heap of sfmm.c stays sound, row by row, whatever is allocated, resized *)
(* and freed, and to its user it is a set of separate regions.  The invariant *)
(* IInv says how the blocks tile the heap; lemmas about the helpers, from the *)
(* update of one row up to sf_free, carry it through every action.  A second  *)
(* invariant, MInv, says that no two free neighbours are kept in the lists.   *)
EXTENDS Sfmm, FiniteSetTheorems, TLAPS

\* B is a set of blocks that lie side by side from row lo to row hi.
Tiles(m, lo, hi, B) ==
    /\ \A b \in B : lo <= b /\ M <= m[b].size /\ b + m[b].size <= hi
    /\ \A b, c \in B : b < c => b + m[b].size <= c
    /\ \A r \in lo..(hi - 1) : \E b \in B : b <= r /\ r < b + m[b].size

\* A block of G ends where row r begins.
Ends(m, G, r) == \E p \in G : p + m[p].size = r

\* The header and the footer of a free block.
FreeTags(m, b) ==
    LET footer == m[b + m[b].size - 1]
    IN  ~m[b].alloc /\ ~footer.alloc /\ footer.size = m[b].size

\* B are the blocks between the prologue and the epilogue, and G those of them that are
\* free by their tags.
Sound(m, e, B, G) ==
    /\ G \subseteq B /\ B \subseteq Rows
    /\ Tiles(m, M, e - 1, B)
    /\ \A b \in G : FreeTags(m, b)
    /\ \A b \in (B \ G) \cup {e - 1} : m[b].alloc
    /\ \A b \in B \cup {e - 1} : m[b].prev \/ Ends(m, G, b)

FreeListOK(h, i) ==
    IsInjective(h.free[i]) /\ \A b \in Range(h.free[i]) : ListOf(Size(h, b)) = i

QuickListOK(h, q) ==
    /\ IsInjective(h.quick[q]) /\ Len(h.quick[q]) <= QUICK_LIST_MAX
    /\ \A b \in Range(h.quick[q]) : h.mem[b].inq /\ Size(h, b) = q + M

Lists(h) == /\ \A i \in FreeLists : FreeListOK(h, i)
            /\ \A q \in QuickLists : QuickListOK(h, q)

\* The allocated blocks in no quick list are A, the free blocks in no free list are U.
Kinds(h, A, U) ==
    /\ (A \cup InQuick(h)) \cap (U \cup InFree(h)) = {}
    /\ A \cap InQuick(h) = {}
    /\ U \cap InFree(h) = {}

AllBlocks(h, A, U) == A \cup U \cup InFree(h) \cup InQuick(h)

HeapOK(h, A, U) ==
    /\ h \in Heaps /\ h.end >= PAGE
    /\ Lists(h)
    /\ Kinds(h, A, U)
    /\ Sound(h.mem, h.end, AllBlocks(h, A, U), U \cup InFree(h))

NoHeap(h) == /\ h.end = 0 /\ h.lost = {} /\ ~h.wild
             /\ \A i \in FreeLists : h.free[i] = << >>
             /\ \A q \in QuickLists : h.quick[q] = << >>

Held == IF pc = "found" THEN Owned \cup {request.block} ELSE Owned
Loose == IF pc = "grow" THEN heap.lost \cup ({request.block} \ {0}) ELSE heap.lost

\* What a call asks for.
Asked == /\ request.op # "none" /\ request.bytes > 0
         /\ request.op = "memalign" => /\ request.align \in Alignments
                                       /\ request.size = RowsFor(request.bytes + request.align + 40)
         /\ request.op # "memalign" => /\ request.align = 8
                                       /\ request.size = RowsFor(request.bytes)
         /\ request.op = "realloc" => request.old \in Owned

CallOK ==
    /\ pc = "user" => request = NoRequest
    /\ pc # "user" => Asked
    /\ pc = "found" => /\ request.block \notin Owned
                       /\ request.size <= Size(heap, request.block)
    /\ pc = "grow" /\ request.block # 0 =>
           /\ NextBlock(heap, request.block) = heap.end - 1
           /\ ~heap.mem[heap.end - 1].prev
           /\ request.block \notin heap.lost
    /\ pc = "hung" => request.block = 0

HeapInv ==
    /\ heap.end + PAGE * left <= PAGE * MaxPages
    /\ heap.end = 0 => NoHeap(heap) /\ Owned = {} /\ pc = "user"
    /\ heap.end # 0 => HeapOK(heap, Held, Loose)
    /\ \A b \in Held : ~heap.mem[b].inq
    /\ PayloadFits
    /\ CallOK

IInv == TypeOK /\ (~heap.wild => HeapInv)

\* The free blocks that are or will be in a list.
Kept == IF pc = "grow" THEN InFree(heap) \cup ({request.block} \ {0}) ELSE InFree(heap)

\* No two of the blocks K are neighbours, what follows one of them knows it, and its
\* footer is its header.
Merged(m, K) ==
    \A b \in K : LET next == b + m[b].size IN
        m[next - 1] = m[b] /\ ~m[next].prev /\ next \notin K

MInv == ~heap.wild /\ ~heap.stale => Merged(heap.mem, Kept)

Mems == [Rows -> Tags]

\* What is left of a set of blocks when those from row lo to row hi are taken out.
Outside(B, lo, hi) == {b \in B : b < lo \/ hi <= b}

\* Memory changes between the rows lo and hi only, and in the previous bit of row hi.
Frame(m, n, lo, hi) ==
    /\ \A r \in Rows : r < lo \/ hi < r => n[r] = m[r]
    /\ /\ n[hi].size = m[hi].size
       /\ n[hi].alloc = m[hi].alloc
       /\ n[hi].inq = m[hi].inq

USE DEF M

\* Rows and what they hold.
LEMMA MemTypes ==
    ASSUME NEW m \in Mems, NEW b \in Rows
    PROVE  /\ b \in Int /\ 0 <= b /\ b < PAGE * MaxPages /\ PAGE * MaxPages \in Nat
           /\ m[b] \in Tags /\ m[b].size \in Int /\ 0 <= m[b].size
           /\ m[b].alloc \in BOOLEAN /\ m[b].prev \in BOOLEAN /\ m[b].inq \in BOOLEAN
<1>1. PAGE * MaxPages \in Nat
  BY SizeAssumption
<1>2. QED
  BY <1>1 DEF Mems, Tags, Rows

\* The blocks between rows lo and hi are replaced by others that fill the same rows.
LEMMA TilesReplaced ==
    ASSUME NEW m \in Mems, NEW n \in Mems, NEW e \in Nat, NEW B \in SUBSET Rows,
           NEW lo \in B, NEW hi \in B \cup {e - 1}, NEW T \in SUBSET Rows,
           Tiles(m, M, e - 1, B), lo < hi, hi \in Rows,
           Frame(m, n, lo, hi), Tiles(n, lo, hi, T)
    PROVE  Tiles(n, M, e - 1, Outside(B, lo, hi) \cup T)
<1> DEFINE C == Outside(B, lo, hi)
<1>1. /\ \A b \in Rows : b \in Int /\ m[b].size \in Int /\ n[b].size \in Int
      /\ e \in Int /\ lo \in Int /\ hi \in Int
  BY MemTypes
<1>2. \A b \in B : M <= b /\ M <= m[b].size /\ b + m[b].size <= e - 1
  BY DEF Tiles
<1>3. \A b, c \in B : b < c => b + m[b].size <= c
  BY DEF Tiles
<1>4. M <= lo /\ hi <= e - 1
  BY <1>1, <1>2
<1>5. \A b \in C : n[b].size = m[b].size /\ b \in Rows
  BY <1>1 DEF Frame, Outside
<1>6. \A b \in T : lo <= b /\ M <= n[b].size /\ b + n[b].size <= hi
  BY DEF Tiles
<1>7. \A b, c \in T : b < c => b + n[b].size <= c
  BY DEF Tiles
<1>8. \A b \in B : b < hi => b + m[b].size <= hi
  BY <1>1, <1>2, <1>3 DEF Rows
<1>9. ASSUME NEW b \in C \cup T
      PROVE  M <= b /\ M <= n[b].size /\ b + n[b].size <= e - 1
  BY <1>1, <1>2, <1>4, <1>5, <1>6 DEF Outside
<1>10. ASSUME NEW b \in C \cup T, NEW c \in C \cup T, b < c
       PROVE  b + n[b].size <= c
  <2>1. CASE b \in C /\ c \in C
    BY <2>1, <1>3, <1>5, <1>10 DEF Outside
  <2>2. CASE b \in C /\ c \in T
    <3>1. b < lo
      BY <2>2, <1>1, <1>6, <1>10 DEF Outside
    <3>2. b + n[b].size <= lo
      BY <2>2, <3>1, <1>3, <1>5 DEF Outside
    <3>3. QED
      BY <2>2, <3>2, <1>1, <1>5, <1>6 DEF Rows
  <2>3. CASE b \in T /\ c \in C
    <3>1. hi <= c
      BY <2>3, <1>1, <1>6, <1>10 DEF Outside
    <3>2. QED
      BY <2>3, <3>1, <1>1, <1>6 DEF Outside
  <2>4. CASE b \in T /\ c \in T
    BY <2>4, <1>7, <1>10
  <2>5. QED
    BY <2>1, <2>2, <2>3, <2>4
<1>11. ASSUME NEW r \in M..(e - 2)
       PROVE  \E b \in C \cup T : b <= r /\ r < b + n[b].size
  <2>1. PICK b \in B : b <= r /\ r < b + m[b].size
    BY DEF Tiles
  <2>2. CASE b \in C
    BY <2>1, <2>2, <1>5
  <2>3. CASE b \notin C
    <3>1. lo <= b /\ b < hi
      BY <2>1, <2>3, <1>1 DEF Outside
    <3>2. r \in lo..(hi - 1)
      BY <2>1, <3>1, <1>1, <1>8
    <3>3. QED
      BY <3>2 DEF Tiles
  <2>4. QED
    BY <2>2, <2>3
<1>12. QED
  BY <1>9, <1>10, <1>11 DEF Tiles

\* The blocks from row lo to row hi are replaced by the blocks T, of which S are free.
LEMMA Rearranged ==
    ASSUME NEW m \in Mems, NEW n \in Mems, NEW e \in Nat, e - 1 \in Rows,
           NEW B, NEW G, Sound(m, e, B, G),
           NEW lo \in B, NEW hi \in B \cup {e - 1}, lo < hi,
           NEW T \in SUBSET Rows, NEW S \in SUBSET T,
           Frame(m, n, lo, hi), Tiles(n, lo, hi, T),
           \A b \in S : FreeTags(n, b),
           \A b \in T \ S : n[b].alloc,
           n[lo].prev = m[lo].prev,
           \A b \in (T \ {lo}) \cup {hi} : n[b].prev \/ Ends(n, S, b)
    PROVE  Sound(n, e, Outside(B, lo, hi) \cup T, Outside(G, lo, hi) \cup S)
<1> DEFINE C == Outside(B, lo, hi)
           D == Outside(G, lo, hi)
<1>1. /\ B \in SUBSET Rows /\ G \in SUBSET B /\ hi \in Rows
      /\ Tiles(m, M, e - 1, B)
  BY DEF Sound
<1>2. /\ \A b \in Rows : b \in Int /\ m[b].size \in Int /\ n[b].size \in Int
      /\ e \in Int /\ lo \in Int /\ hi \in Int
  BY <1>1, MemTypes
<1>3. Tiles(n, M, e - 1, C \cup T)
  BY <1>1, TilesReplaced
<1>4. /\ \A b \in B : M <= m[b].size /\ b + m[b].size <= e - 1
      /\ \A b \in B : b < lo => b + m[b].size <= lo
      /\ \A b \in B : b < hi => b + m[b].size <= hi
      /\ \A b, c \in B : b < c => b + m[b].size <= c
      /\ hi <= e - 1
  BY <1>1, <1>2 DEF Tiles
<1>5. ASSUME NEW b \in C \cup {e - 1}, b # hi
      PROVE  n[b] = m[b]
  BY <1>1, <1>2, <1>4, <1>5 DEF Frame, Outside
<1>6. n[hi].size = m[hi].size /\ n[hi].alloc = m[hi].alloc
  BY DEF Frame
<1>7. ASSUME NEW b \in D
      PROVE  FreeTags(n, b)
  <2>1. b \in C /\ FreeTags(m, b)
    BY <1>1 DEF Outside, Sound
  <2>2. n[b].size = m[b].size /\ n[b].alloc = m[b].alloc
    BY <2>1, <1>5, <1>6
  <2>3. b \in B /\ (b < lo \/ hi <= b)
    BY <2>1 DEF Outside
  <2>4. /\ b \in Int /\ m[b].size \in Int /\ 0 <= b /\ M <= m[b].size
        /\ b + m[b].size <= e - 1 /\ (b < lo => b + m[b].size <= lo)
    BY <2>3, <1>1, <1>4, MemTypes
  <2>5. b + m[b].size - 1 \in Rows
    BY <2>4, <1>2, MemTypes DEF Rows
  <2>6. b + m[b].size - 1 < lo \/ hi < b + m[b].size - 1
    BY <2>3, <2>4, <1>2
  <2>7. n[b + m[b].size - 1] = m[b + m[b].size - 1]
    BY <2>5, <2>6 DEF Frame
  <2>8. QED
    BY <2>1, <2>2, <2>7 DEF FreeTags
<1>8. ASSUME NEW b \in C \cup {e - 1}, b \notin D, b \notin S
      PROVE  n[b].alloc
  <2>1. b \in (B \ G) \cup {e - 1}
    BY <1>1, <1>8 DEF Outside
  <2>2. m[b].alloc
    BY <2>1 DEF Sound
  <2>3. QED
    BY <2>2, <1>5, <1>6
<1>9. ASSUME NEW b \in C \cup T \cup {e - 1}
      PROVE  n[b].prev \/ Ends(n, D \cup S, b)
  <2>1. \A p \in D : n[p].size = m[p].size
    BY <1>1, <1>5, <1>6 DEF Outside
  <2>2. CASE b = hi \/ (b \in T /\ b # lo)
    BY <2>2 DEF Ends
  <2>3. CASE b # hi /\ (b = lo \/ b \notin T)
    <3>1. n[b].prev = m[b].prev /\ b \in B \cup {e - 1}
      BY <2>3, <1>5 DEF Outside
    <3>2. SUFFICES ASSUME ~n[b].prev
                   PROVE  Ends(n, D \cup S, b)
      OBVIOUS
    <3>3. PICK p \in G : p + m[p].size = b
      BY <3>1, <3>2 DEF Sound, Ends
    <3>4. p < lo \/ hi <= p
      <4>1. SUFFICES ASSUME lo <= p, p < hi
                     PROVE  FALSE
        BY <1>1, <1>2
      <4>2. b <= hi /\ lo < b
        BY <3>3, <4>1, <1>1, <1>2, <1>4
      <4>3. b \in C \cup {e - 1}
        BY <2>3, <4>2, <1>2 
      <4>4. QED
        BY <4>2, <4>3, <2>3, <1>1, <1>2, <1>4 DEF Outside
    <3>5. p \in D
      BY <3>4 DEF Outside
    <3>6. QED
      BY <3>3, <3>5, <2>1 DEF Ends
  <2>4. QED
    BY <2>2, <2>3
<1>10. C \cup T \subseteq Rows /\ D \cup S \subseteq C \cup T
  BY <1>1 DEF Outside
<1>11. ASSUME NEW b \in ((C \cup T) \ (D \cup S)) \cup {e - 1}
       PROVE  n[b].alloc
  <2>1. CASE b = e - 1 /\ b # hi
    BY <2>1, <1>5 DEF Sound
  <2>2. CASE b = e - 1 /\ b = hi
    BY <2>2, <1>6 DEF Sound
  <2>3. CASE b \in T \ S
    BY <2>3
  <2>4. CASE b \in C /\ b \notin D /\ b \notin S
    BY <2>4, <1>8
  <2>5. QED
    BY <2>1, <2>2, <2>3, <2>4
<1>12. QED
  BY <1>3, <1>7, <1>9, <1>10, <1>11 DEF Sound

\* A set of natural numbers that is not empty has a least element.
LEMMA LeastExists ==
    ASSUME NEW S \in SUBSET Nat, S # {}
    PROVE  \E n \in S : \A m \in S : n <= m
<1>1. IsWellFoundedOn(OpToRel(<, Nat), Nat)
  BY NatLessThanWellFounded
<1>2. PICK n \in S : \A m \in S : ~ (<<m, n>> \in OpToRel(<, Nat))
  BY <1>1, WFMin
<1>3. \A m \in S : ~(m < n)
  BY <1>2 DEF OpToRel
<1>4. QED
  BY <1>3

\* Taking an element out of a list in which it occurs once.
LEMMA FirstRemoved ==
    ASSUME NEW R, NEW s \in Seq(R), NEW x, IsInjective(s)
    PROVE  /\ RemoveFirst(s, x) \in Seq(R)
           /\ IsInjective(RemoveFirst(s, x))
           /\ Range(RemoveFirst(s, x)) = Range(s) \ {x}
<1>1. CASE \A i \in 1..Len(s) : s[i] # x
  <2>1. RemoveFirst(s, x) = s
    BY <1>1 DEF RemoveFirst
  <2>2. x \notin Range(s)
    BY <1>1 DEF Range
  <2>3. QED
    BY <2>1, <2>2
<1>2. CASE \E i \in 1..Len(s) : s[i] = x
  <2> DEFINE I == {i \in 1..Len(s) : s[i] = x}
             at == Min(I)
             r == SubSeq(s, 1, at - 1) \o SubSeq(s, at + 1, Len(s))
  <2>1. I # {} /\ I \in SUBSET Nat
    BY <1>2
  <2>2. at \in I
    BY <2>1, LeastExists DEF Min
  <2>3. RemoveFirst(s, x) = r
    BY <1>2, <2>1 DEF RemoveFirst, SelectInSeq, RemoveAt
  <2> HIDE DEF at
  <2>4. at \in 1..Len(s) /\ s[at] = x /\ Len(s) \in Nat
    BY <2>2
  <2>5. /\ r \in Seq(R) /\ Len(r) = Len(s) - 1
        /\ \A i \in 1..(Len(s) - 1) : r[i] = IF i < at THEN s[i] ELSE s[i + 1]
    <3> DEFINE p == SubSeq(s, 1, at - 1)
               q == SubSeq(s, at + 1, Len(s))
    <3>1. /\ p \in Seq(R) /\ Len(p) = at - 1
          /\ \A i \in 1..(at - 1) : p[i] = s[i]
      BY <2>4
    <3>2. /\ q \in Seq(R) /\ Len(q) = Len(s) - at
          /\ \A i \in 1..(Len(s) - at) : q[i] = s[at + i]
      BY <2>4
    <3> HIDE DEF p, q
    <3>3. /\ p \o q \in Seq(R) /\ Len(p \o q) = Len(p) + Len(q)
          /\ \A i \in 1..(Len(p) + Len(q)) :
                (p \o q)[i] = IF i <= Len(p) THEN p[i] ELSE q[i - Len(p)]
      <4>1. p \in Seq(R) /\ q \in Seq(R)
        BY <3>1, <3>2
      <4>2. QED
        BY <4>1
    <3>4. ASSUME NEW i \in 1..(Len(s) - 1)
          PROVE  (p \o q)[i] = IF i < at THEN s[i] ELSE s[i + 1]
      <4>1. CASE i < at
        BY <4>1, <3>1, <3>2, <3>3, <2>4
      <4>2. CASE ~(i < at)
        <5>1. i - (at - 1) \in 1..(Len(s) - at) /\ at + (i - (at - 1)) = i + 1
          BY <4>2, <2>4
        <5>2. q[i - (at - 1)] = s[i + 1]
          BY <5>1, <3>2
        <5>3. i \in 1..(Len(p) + Len(q)) /\ ~(i <= Len(p)) /\ Len(p) = at - 1
          BY <4>2, <3>1, <3>2, <2>4
        <5>4. (p \o q)[i] = q[i - (at - 1)]
          BY <5>3, <3>3
        <5>5. QED
          BY <4>2, <5>2, <5>4
      <4>3. QED
        BY <4>1, <4>2
    <3>5. r = p \o q
      BY DEF p, q
    <3> HIDE DEF r
    <3>6. Len(p \o q) = Len(s) - 1
      BY <3>1, <3>2, <3>3, <2>4
    <3>7. QED
      BY <3>3, <3>4, <3>5, <3>6
  <2> HIDE DEF r
  <2>6. IsInjective(r)
    <3>1. SUFFICES ASSUME NEW i \in 1..(Len(s) - 1), NEW j \in 1..(Len(s) - 1), r[i] = r[j]
                   PROVE  i = j
      BY <2>5 DEF IsInjective
    <3> DEFINE f(k) == IF k < at THEN k ELSE k + 1
    <3>2. /\ f(i) \in 1..Len(s) /\ f(j) \in 1..Len(s)
          /\ r[i] = s[f(i)] /\ r[j] = s[f(j)]
      BY <2>4, <2>5
    <3>3. f(i) = f(j)
      <4>1. \A k, l \in 1..Len(s) : s[k] = s[l] => k = l
        BY DEF IsInjective
      <4> HIDE DEF f
      <4>2. QED
        BY <3>1, <3>2, <4>1
    <3>4. QED
      BY <3>3, <2>4
  <2>7. ASSUME NEW y \in Range(s), y # x
        PROVE  y \in Range(r)
    <3>1. PICK i \in 1..Len(s) : s[i] = y
      BY DEF Range
    <3>2. CASE i < at
      BY <3>1, <3>2, <2>4, <2>5 DEF Range
    <3>3. CASE at < i
      <4>1. i - 1 \in 1..(Len(s) - 1) /\ r[i - 1] = y
        BY <3>1, <3>3, <2>4, <2>5
      <4>2. QED
        BY <4>1, <2>5 DEF Range
    <3>4. QED
      BY <3>1, <3>2, <3>3, <2>4, <2>7
  <2>8. ASSUME NEW y \in Range(r)
        PROVE  y \in Range(s) /\ y # x
    <3>1. PICK i \in 1..(Len(s) - 1) : r[i] = y
      BY <2>5 DEF Range
    <3>2. PICK j \in 1..Len(s) : j # at /\ s[j] = y
      BY <3>1, <2>4, <2>5
    <3>3. QED
      BY <3>2, <2>4 DEF IsInjective, Range
  <2>9. QED
    BY <2>3, <2>5, <2>6, <2>7, <2>8
<1>3. QED
  BY <1>1, <1>2

\* Adding a new element in front of a list.
LEMMA FirstAdded ==
    ASSUME NEW R, NEW s \in Seq(R), NEW x \in R
    PROVE  /\ <<x>> \o s \in Seq(R) /\ Len(<<x>> \o s) = Len(s) + 1
           /\ Range(<<x>> \o s) = Range(s) \cup {x}
           /\ IsInjective(s) /\ x \notin Range(s) => IsInjective(<<x>> \o s)
<1> DEFINE t == <<x>> \o s
<1>1. /\ t \in Seq(R) /\ Len(t) = Len(s) + 1 /\ Len(s) \in Nat
      /\ t[1] = x /\ \A i \in 1..Len(s) : t[i + 1] = s[i]
  OBVIOUS
<1> HIDE DEF t
<1>2. \A i \in 2..Len(t) : i - 1 \in 1..Len(s) /\ t[i] = s[i - 1]
  BY <1>1
<1>3. \A i \in 1..Len(s) : i + 1 \in 1..Len(t)
  BY <1>1
<1>4. Range(t) = Range(s) \cup {x}
  <2>1. ASSUME NEW y \in Range(t) PROVE y \in Range(s) \cup {x}
    BY <1>1, <1>2 DEF Range
  <2>2. ASSUME NEW y \in Range(s) PROVE y \in Range(t)
    BY <1>1, <1>3 DEF Range
  <2>3. x \in Range(t)
    BY <1>1 DEF Range
  <2>4. QED
    BY <2>1, <2>2, <2>3
<1>5. ASSUME IsInjective(s), x \notin Range(s) PROVE IsInjective(t)
  BY <1>5, <1>1, <1>2 DEF IsInjective, Range
<1>6. QED
  BY <1>1, <1>4, <1>5 DEF t

\* Taking the first element from a list.
LEMMA FirstTaken ==
    ASSUME NEW R, NEW s \in Seq(R), s # << >>
    PROVE  /\ Tail(s) \in Seq(R) /\ Len(Tail(s)) = Len(s) - 1
           /\ Head(s) \in R /\ Range(s) = Range(Tail(s)) \cup {Head(s)}
           /\ IsInjective(s) => IsInjective(Tail(s)) /\ Head(s) \notin Range(Tail(s))
<1>1. /\ Tail(s) \in Seq(R) /\ Len(Tail(s)) = Len(s) - 1 /\ Len(s) \in Nat /\ Len(s) > 0
      /\ Head(s) = s[1] /\ s[1] \in R /\ \A i \in 1..(Len(s) - 1) : Tail(s)[i] = s[i + 1]
  OBVIOUS
<1>2. \A i \in 2..Len(s) : i - 1 \in 1..Len(Tail(s)) /\ Tail(s)[i - 1] = s[i]
  BY <1>1
<1>3. ASSUME NEW y \in Range(s) PROVE y \in Range(Tail(s)) \cup {Head(s)}
  <2>1. PICK i \in 1..Len(s) : s[i] = y
    BY DEF Range
  <2>2. CASE i = 1
    BY <2>1, <2>2, <1>1
  <2>3. CASE i # 1
    <3>1. i \in 2..Len(s)
      BY <2>3, <1>1
    <3>2. i - 1 \in DOMAIN Tail(s) /\ Tail(s)[i - 1] = y
      BY <2>1, <3>1, <1>1, <1>2
    <3>3. QED
      BY <3>2 DEF Range
  <2>4. QED
    BY <2>2, <2>3
<1>4. ASSUME NEW y \in Range(Tail(s)) PROVE \E i \in 2..Len(s) : s[i] = y
  BY <1>1 DEF Range
<1>5. Range(s) = Range(Tail(s)) \cup {Head(s)}
  <2>1. Head(s) \in Range(s)
    BY <1>1 DEF Range
  <2>2. Range(Tail(s)) \subseteq Range(s)
    BY <1>1, <1>4 DEF Range
  <2>3. QED
    BY <2>1, <2>2, <1>3
<1>6. ASSUME IsInjective(s)
      PROVE  IsInjective(Tail(s)) /\ Head(s) \notin Range(Tail(s))
  BY <1>1, <1>4, <1>6 DEF IsInjective
<1>7. QED
  BY <1>1, <1>5, <1>6

\* What an update of the memory leaves alone.
SameLists(h, g) ==
    /\ g.free = h.free /\ g.quick = h.quick /\ g.end = h.end
    /\ g.wild = h.wild /\ g.stale = h.stale /\ g.lost = h.lost

\* The rows C have kept what they hold.
SameRows(h, g, C) == \A c \in C : g.mem[c] = h.mem[c]

\* The updates of one row.
LEMMA PutType ==
    ASSUME NEW h \in Heaps, NEW b \in Rows, NEW tag \in Tags
    PROVE  /\ Put(h, b, tag) \in Heaps /\ SameLists(h, Put(h, b, tag))
           /\ \A r \in Rows : Put(h, b, tag).mem[r] = IF r = b THEN tag ELSE h.mem[r]
BY DEF Put, Heaps, SameLists

\* The footer of a block is written.
LEMMA PutFooterType ==
    ASSUME NEW h \in Heaps, NEW b \in Rows, NextBlock(h, b) - 1 \in Rows
    PROVE  /\ PutFooter(h, b) \in Heaps /\ SameLists(h, PutFooter(h, b))
           /\ \A r \in Rows : PutFooter(h, b).mem[r] =
                 IF r = NextBlock(h, b) - 1 THEN h.mem[b] ELSE h.mem[r]
BY DEF PutFooter, Heaps, SameLists

\* The size of a header is written.
LEMMA ResizeType ==
    ASSUME NEW h \in Heaps, NEW b \in Rows, NEW size \in 0..(PAGE * MaxPages)
    PROVE  LET g == Resize(h, b, size) IN
           /\ g \in Heaps /\ SameLists(h, g)
           /\ SameRows(h, g, Rows \ {b})
           /\ g.mem[b].size = size /\ g.mem[b].alloc = h.mem[b].alloc
           /\ g.mem[b].prev = h.mem[b].prev /\ g.mem[b].inq = h.mem[b].inq
BY DEF Resize, Heaps, SameLists, SameRows, Tags

\* The previous bit of a header is written.
LEMMA SetPrevType ==
    ASSUME NEW h \in Heaps, NEW b \in Rows, NEW alloc \in BOOLEAN
    PROVE  LET g == SetPrev(h, b, alloc) IN
           /\ g \in Heaps /\ SameLists(h, g)
           /\ SameRows(h, g, Rows \ {b})
           /\ g.mem[b].size = h.mem[b].size /\ g.mem[b].alloc = h.mem[b].alloc
           /\ g.mem[b].prev = alloc /\ g.mem[b].inq = h.mem[b].inq
BY DEF SetPrev, Heaps, SameLists, SameRows, Tags

\* Rows are forgotten.
LEMMA ForgetType ==
    ASSUME NEW h \in Heaps, NEW R
    PROVE  /\ Forget(h, R) \in Heaps /\ SameLists(h, Forget(h, R))
           /\ Forget(h, R).mem = [r \in Rows |-> IF r \in R THEN NoTag ELSE h.mem[r]]
<1>1. NoTag \in Tags
  BY SizeAssumption DEF NoTag, Tag, Tags
<1>2. QED
  BY <1>1 DEF Forget, Heaps, SameLists

\* There is a free list for every size.
LEMMA ListOfType ==
    ASSUME NEW size
    PROVE  ListOf(size) \in FreeLists
<1> DEFINE fits == {i \in FreeLists : Reaches(i, size) \/ i = NUM_FREE_LISTS - 1}
<1>1. NUM_FREE_LISTS - 1 \in fits /\ fits \in SUBSET Nat
  BY SizeAssumption DEF FreeLists
<1>2. \E i \in fits : \A j \in fits : i <= j
  BY <1>1, LeastExists
<1>3. ListOf(size) = CHOOSE i \in fits : \A j \in fits : i <= j
  BY DEF ListOf
<1> HIDE DEF fits
<1>4. ListOf(size) \in fits
  BY <1>2, <1>3
<1>5. QED
  BY <1>4 DEF fits

\* Where a heap keeps its blocks.
LEMMA HeapTypes ==
    ASSUME NEW h, NEW A, NEW U, HeapOK(h, A, U)
    PROVE  /\ h \in Heaps /\ h.mem \in Mems /\ h.end \in Nat /\ h.end - 1 \in Rows
           /\ h.end >= PAGE /\ PAGE * MaxPages \in Nat /\ h.end <= PAGE * MaxPages
           /\ A \subseteq Rows /\ U \subseteq Rows
           /\ InFree(h) \subseteq Rows /\ InQuick(h) \subseteq Rows
           /\ AllBlocks(h, A, U) \subseteq Rows
           /\ \A i \in FreeLists : h.free[i] \in Seq(Rows)
           /\ \A q \in QuickLists : h.quick[q] \in Seq(Rows)
<1>1. h \in Heaps /\ h.mem \in Mems /\ h.end \in 0..(PAGE * MaxPages) /\ h.end >= PAGE
  BY DEF HeapOK, Heaps, Mems
<1>2. PAGE * MaxPages \in Nat /\ PAGE \in Nat /\ PAGE > 0
  BY SizeAssumption
<1>3. h.end \in Nat /\ h.end - 1 \in Rows
  BY <1>1, <1>2 DEF Rows
<1>4. AllBlocks(h, A, U) \subseteq Rows
  BY DEF HeapOK, Sound
<1>5. /\ \A i \in FreeLists : h.free[i] \in Seq(Rows)
      /\ \A q \in QuickLists : h.quick[q] \in Seq(Rows)
  BY <1>1 DEF Heaps
<1>6. QED
  BY <1>1, <1>2, <1>3, <1>4, <1>5 DEF AllBlocks

\* A block ends where the next one begins, or the epilogue.
LEMMA NextIsBlock ==
    ASSUME NEW h, NEW A, NEW U, HeapOK(h, A, U), NEW b \in AllBlocks(h, A, U)
    PROVE  /\ b \in Rows /\ M <= b /\ M <= Size(h, b) /\ Size(h, b) \in Nat
           /\ NextBlock(h, b) \in AllBlocks(h, A, U) \cup {h.end - 1}
           /\ NextBlock(h, b) \in Rows /\ b < NextBlock(h, b)
           /\ NextBlock(h, b) = b + Size(h, b) /\ NextBlock(h, b) <= h.end - 1
<1> DEFINE B == AllBlocks(h, A, U)
           m == h.mem
<1>1. /\ m \in Mems /\ h.end \in Nat /\ h.end - 1 \in Rows /\ B \subseteq Rows
  BY HeapTypes
<1>2. Tiles(m, M, h.end - 1, B)
  BY DEF HeapOK, Sound
<1> HIDE DEF B
<1>3. \A c \in B : c \in Int /\ m[c].size \in Int /\ M <= c /\ M <= m[c].size /\ c + m[c].size <= h.end - 1
  BY <1>1, <1>2, MemTypes DEF Tiles
<1>4. b \in B
  BY DEF B
<1>5. CASE b + m[b].size = h.end - 1
  BY <1>1, <1>3, <1>4, <1>5 DEF NextBlock, Size, B
<1>6. CASE b + m[b].size < h.end - 1
  <2>1. b + m[b].size \in M..(h.end - 1 - 1)
    BY <1>1, <1>3, <1>4, <1>6
  <2>2. PICK c \in B : c <= b + m[b].size /\ b + m[b].size < c + m[c].size
    BY <1>2, <2>1 DEF Tiles
  <2>3. \A x, y \in B : x < y => x + m[x].size <= y
    BY <1>2 DEF Tiles
  <2>4. c = b + m[b].size
    BY <1>3, <1>4, <2>2, <2>3
  <2>5. QED
    BY <1>1, <1>3, <1>4, <2>2, <2>4 DEF NextBlock, Size, B, Rows
<1>7. QED
  BY <1>3, <1>4, <1>5, <1>6, <1>1

\* Blocks do not overlap.
LEMMA BlocksApart ==
    ASSUME NEW h, NEW A, NEW U, HeapOK(h, A, U),
           NEW b \in AllBlocks(h, A, U), NEW c \in AllBlocks(h, A, U), b # c
    PROVE  c + Size(h, c) <= b \/ b + Size(h, b) <= c
<1>1. Tiles(h.mem, M, h.end - 1, AllBlocks(h, A, U))
  BY DEF HeapOK, Sound
<1>2. b < c \/ c < b
  BY NextIsBlock DEF Rows
<1>3. QED
  BY <1>1, <1>2 DEF Tiles, Size

\* A clear bit tells where the previous block is.
LEMMA PrevFound ==
    ASSUME NEW h, NEW A, NEW U, HeapOK(h, A, U),
           NEW b \in AllBlocks(h, A, U) \cup {h.end - 1}, ~h.mem[b].prev
    PROVE  /\ PrevBlock(h, b) \in U \cup InFree(h)
           /\ NextBlock(h, PrevBlock(h, b)) = b /\ PrevBlock(h, b) < b
<1>1. PICK p \in U \cup InFree(h) : p + h.mem[p].size = b
  BY DEF HeapOK, Sound, Ends
<1>2. FreeTags(h.mem, p) /\ p \in AllBlocks(h, A, U)
  BY DEF HeapOK, Sound
<1>3. p \in Rows /\ p \in Int /\ h.mem[p].size \in Int /\ M <= h.mem[p].size
  BY <1>2, NextIsBlock DEF Size, Rows
<1>4. h.mem[b - 1].size = h.mem[p].size
  <2>1. p + h.mem[p].size - 1 = b - 1
    BY <1>1, <1>3
  <2>2. h.mem[p + h.mem[p].size - 1].size = h.mem[p].size
    BY <1>2 DEF FreeTags
  <2>3. QED
    BY <2>1, <2>2
<1>5. PrevBlock(h, b) = p
  BY <1>1, <1>3, <1>4 DEF PrevBlock
<1>6. QED
  BY <1>1, <1>3, <1>5 DEF NextBlock, Size

\* What every operation leaves alone: the size and the quick list bit of the blocks C.
Spares(h, g, C) ==
    \A c \in C : Size(g, c) = Size(h, c) /\ g.mem[c].inq = h.mem[c].inq

Keeps(h, g, C) ==
    /\ g.end = h.end /\ g.lost = h.lost
    /\ h.wild => g.wild
    /\ h.stale => g.stale
    /\ Spares(h, g, C)

\* Two steps that keep blocks, one after the other.
LEMMA KeepsTwice ==
    ASSUME NEW h, NEW g, NEW k, NEW C, NEW D, C \subseteq D, Keeps(h, g, D), Keeps(g, k, C)
    PROVE  Keeps(h, k, C)
BY DEF Keeps, Spares

\* The memory changes between two blocks, none of which is listed; the lists do not.
Changed(h, g, A, U, lo, hi) ==
    /\ HeapOK(h, A, U)
    /\ g \in Heaps /\ g.free = h.free /\ g.quick = h.quick /\ g.end = h.end
    /\ lo \in AllBlocks(h, A, U) /\ hi \in AllBlocks(h, A, U) \cup {h.end - 1}
    /\ \A b \in InFree(h) \cup InQuick(h) : b < lo \/ hi <= b
    /\ Frame(h.mem, g.mem, lo, hi)
    /\ g.mem[lo].prev = h.mem[lo].prev

\* ... and become the blocks T, of which S are free.
Becomes(n, lo, hi, T, S) ==
    /\ lo < hi /\ T \subseteq Rows /\ S \subseteq T /\ Tiles(n, lo, hi, T)
    /\ \A b \in S : FreeTags(n, b)
    /\ \A b \in T \ S : n[b].alloc
    /\ \A b \in (T \ {lo}) \cup {hi} : n[b].prev \/ Ends(n, S, b)

\* Other blocks between two blocks.
LEMMA MemChanged ==
    ASSUME NEW h, NEW g, NEW A, NEW U, NEW lo, NEW hi, NEW T, NEW S,
           Changed(h, g, A, U, lo, hi), Becomes(g.mem, lo, hi, T, S)
    PROVE  /\ HeapOK(g, Outside(A, lo, hi) \cup (T \ S), Outside(U, lo, hi) \cup S)
           /\ Spares(h, g, Outside(AllBlocks(h, A, U), lo, hi))
           /\ InFree(g) = InFree(h) /\ InQuick(g) = InQuick(h)
<1> DEFINE A1 == Outside(A, lo, hi) \cup (T \ S)
           U1 == Outside(U, lo, hi) \cup S
           B == AllBlocks(h, A, U)
           G == U \cup InFree(h)
<1>0. /\ HeapOK(h, A, U)
      /\ g \in Heaps /\ g.free = h.free /\ g.quick = h.quick /\ g.end = h.end
      /\ lo \in AllBlocks(h, A, U) /\ hi \in AllBlocks(h, A, U) \cup {h.end - 1}
      /\ \A b \in InFree(h) \cup InQuick(h) : b < lo \/ hi <= b
      /\ Frame(h.mem, g.mem, lo, hi) /\ g.mem[lo].prev = h.mem[lo].prev
      /\ lo < hi /\ T \in SUBSET Rows /\ S \in SUBSET T /\ Tiles(g.mem, lo, hi, T)
      /\ \A b \in S : FreeTags(g.mem, b)
      /\ \A b \in T \ S : g.mem[b].alloc
      /\ \A b \in (T \ {lo}) \cup {hi} : g.mem[b].prev \/ Ends(g.mem, S, b)
  BY DEF Changed, Becomes
<1>1. InFree(g) = InFree(h) /\ InQuick(g) = InQuick(h)
  BY <1>0 DEF InFree, InQuick
<1>2. /\ h.mem \in Mems /\ g.mem \in Mems /\ h.end \in Nat /\ h.end - 1 \in Rows
      /\ B \subseteq Rows /\ h.end >= PAGE
  BY <1>0, HeapTypes DEF Heaps, Mems
<1>3. Sound(h.mem, h.end, B, G)
  BY <1>0 DEF HeapOK
<1>4. /\ InFree(h) \cap T = {} /\ InQuick(h) \cap T = {}
      /\ Outside(InFree(h), lo, hi) = InFree(h) /\ Outside(InQuick(h), lo, hi) = InQuick(h)
  <2>1. \A b \in T : lo <= b /\ b < hi
    <3>1. \A b \in T : lo <= b /\ M <= g.mem[b].size /\ b + g.mem[b].size <= hi
      BY <1>0 DEF Tiles
    <3>2. \A b \in T : b \in Int /\ g.mem[b].size \in Int
      BY <1>0, <1>2, MemTypes
    <3>3. hi \in Int
      BY <1>0, <1>2 DEF Rows
    <3>4. QED
      BY <1>0, <3>1, <3>2, <3>3
  <2>2. lo \in Int /\ hi \in Int /\ \A b \in T \cup InFree(h) \cup InQuick(h) : b \in Int
    BY <1>0, <1>2 DEF Rows, AllBlocks
  <2>3. QED
    BY <1>0, <2>1, <2>2 DEF Outside
<1>5. Sound(g.mem, h.end, Outside(B, lo, hi) \cup T, Outside(G, lo, hi) \cup S)
  <2> HIDE DEF B, G
  <2>1. QED
    BY <1>0, <1>2, <1>3, Rearranged DEF B
<1>6. /\ AllBlocks(g, A1, U1) = Outside(B, lo, hi) \cup T
      /\ U1 \cup InFree(g) = Outside(G, lo, hi) \cup S
  BY <1>0, <1>1, <1>4 DEF Outside, AllBlocks
<1>7. \A c \in Outside(B, lo, hi) : Size(g, c) = Size(h, c) /\ g.mem[c].inq = h.mem[c].inq
  <2>1. lo \in Int /\ hi \in Int
    BY <1>0, <1>2 DEF Rows
  <2>2. SUFFICES ASSUME NEW c \in B, c < lo \/ hi <= c
                 PROVE  g.mem[c].size = h.mem[c].size /\ g.mem[c].inq = h.mem[c].inq
    BY <1>0 DEF Outside, Size
  <2>3. c \in Rows /\ c \in Int
    BY <1>0, <1>2 DEF Rows
  <2>4. CASE c = hi
    BY <1>0, <2>4 DEF Frame
  <2>5. CASE c < lo \/ hi < c
    BY <1>0, <2>3, <2>5 DEF Frame
  <2>6. QED
    BY <1>0, <2>1, <2>2, <2>3, <2>4, <2>5
<1>8. InFree(h) \cup InQuick(h) \subseteq Outside(B, lo, hi)
  BY <1>0, <1>4 DEF AllBlocks, Outside
<1>9. Lists(g)
  <2>1. Lists(h)
    BY <1>0 DEF HeapOK
  <2>2. ASSUME NEW i \in FreeLists PROVE FreeListOK(g, i)
    <3>1. Range(h.free[i]) \subseteq InFree(h)
      BY <1>0 DEF InFree
    <3>2. FreeListOK(h, i)
      BY <1>0, <2>1 DEF Lists
    <3>3. QED
      BY <1>0, <3>1, <3>2, <1>7, <1>8 DEF FreeListOK
  <2>3. ASSUME NEW q \in QuickLists PROVE QuickListOK(g, q)
    <3>1. Range(h.quick[q]) \subseteq InQuick(h)
      BY <1>0 DEF InQuick
    <3>2. QuickListOK(h, q)
      BY <1>0, <2>1 DEF Lists
    <3>3. QED
      BY <1>0, <3>1, <3>2, <1>7, <1>8 DEF QuickListOK
  <2>4. QED
    BY <1>0, <2>2, <2>3 DEF Lists
<1>10. Kinds(g, A1, U1)
  <2>1. Kinds(h, A, U)
    BY <1>0 DEF HeapOK
  <2>2. \A b \in T : ~(b < lo \/ hi <= b)
    <3>1. \A b \in T : lo <= b /\ M <= g.mem[b].size /\ b + g.mem[b].size <= hi
      BY <1>0 DEF Tiles
    <3>2. \A b \in T : b \in Int /\ g.mem[b].size \in Int
      BY <1>0, <1>2, MemTypes
    <3>3. hi \in Int /\ lo \in Int
      BY <1>0, <1>2 DEF Rows
    <3>4. QED
      BY <1>0, <3>1, <3>2, <3>3
  <2>3. QED
    BY <1>0, <2>1, <2>2, <1>1, <1>4 DEF Kinds, Outside
<1>11. QED
  BY <1>0, <1>1, <1>2, <1>5, <1>6, <1>7, <1>9, <1>10 DEF HeapOK, Spares

\* What lies between a block and the next one, and after it.
LEMMA Within ==
    ASSUME NEW h, NEW A, NEW U, HeapOK(h, A, U), NEW b \in AllBlocks(h, A, U)
    PROVE  \A C \in SUBSET AllBlocks(h, A, U) :
              Outside(C, b, NextBlock(h, b)) = C \ {b}
<1>1. ASSUME NEW c \in AllBlocks(h, A, U)
      PROVE  c < b \/ NextBlock(h, b) <= c <=> c # b
  <2>1. /\ b \in Int /\ c \in Int /\ Size(h, b) \in Int /\ Size(h, c) \in Int
        /\ M <= Size(h, b) /\ M <= Size(h, c) /\ NextBlock(h, b) = b + Size(h, b)
    BY NextIsBlock DEF Rows
  <2>2. CASE c = b
    BY <2>1, <2>2
  <2>3. CASE c # b
    <3>1. c + Size(h, c) <= b \/ b + Size(h, b) <= c
      BY <2>3, BlocksApart
    <3>2. QED
      BY <2>1, <2>3, <3>1
  <2>4. QED
    BY <2>2, <2>3
<1>2. QED
  BY <1>1 DEF Outside

\* ... and between a block and the one after the next.
LEMMA WithinTwo ==
    ASSUME NEW h, NEW A, NEW U, HeapOK(h, A, U),
           NEW b \in AllBlocks(h, A, U), NEW c \in AllBlocks(h, A, U), NextBlock(h, b) = c
    PROVE  \A C \in SUBSET AllBlocks(h, A, U) :
              Outside(C, b, NextBlock(h, c)) = C \ {b, c}
<1>1. ASSUME NEW d \in AllBlocks(h, A, U)
      PROVE  d < b \/ NextBlock(h, c) <= d <=> d # b /\ d # c
  <2>1. /\ b \in Int /\ c \in Int /\ Size(h, b) \in Int /\ Size(h, c) \in Int /\ d \in Int
        /\ M <= Size(h, b) /\ M <= Size(h, c) /\ NextBlock(h, c) = c + Size(h, c)
        /\ c = b + Size(h, b) /\ Size(h, d) \in Int /\ M <= Size(h, d)
    BY NextIsBlock DEF Rows
  <2>2. CASE d = b \/ d = c
    BY <2>1, <2>2
  <2>3. CASE d # b /\ d # c
    <3>1. d + Size(h, d) <= b \/ b + Size(h, b) <= d
      BY <2>3, BlocksApart
    <3>2. d + Size(h, d) <= c \/ c + Size(h, c) <= d
      BY <2>3, BlocksApart
    <3>3. QED
      BY <2>1, <2>3, <3>1, <3>2
  <2>4. QED
    BY <2>2, <2>3
<1>2. QED
  BY <1>1 DEF Outside

\* The blocks between lo and hi become one free block.
LEMMA OneFree ==
    ASSUME NEW h, NEW g, NEW A, NEW U, NEW lo, NEW hi, Changed(h, g, A, U, lo, hi),
           g.mem[lo].size = hi - lo, M <= hi - lo, FreeTags(g.mem, lo)
    PROVE  /\ HeapOK(g, Outside(A, lo, hi), Outside(U, lo, hi) \cup {lo})
           /\ Spares(h, g, Outside(AllBlocks(h, A, U), lo, hi))
           /\ InFree(g) = InFree(h) /\ InQuick(g) = InQuick(h)
<1>1. lo \in Rows /\ lo \in Int /\ hi \in Int
  BY HeapTypes DEF Changed, Rows
<1>2. lo < hi /\ Tiles(g.mem, lo, hi, {lo})
  BY <1>1 DEF Tiles
<1>3. Becomes(g.mem, lo, hi, {lo}, {lo})
  BY <1>1, <1>2 DEF Becomes, Ends
<1>4. Outside(A, lo, hi) \cup ({lo} \ {lo}) = Outside(A, lo, hi)
  OBVIOUS
<1>5. /\ HeapOK(g, Outside(A, lo, hi) \cup ({lo} \ {lo}), Outside(U, lo, hi) \cup {lo})
      /\ Spares(h, g, Outside(AllBlocks(h, A, U), lo, hi))
      /\ InFree(g) = InFree(h) /\ InQuick(g) = InQuick(h)
  BY <1>3, MemChanged
<1>6. QED
  BY <1>4, <1>5

\* ... or one allocated block.
LEMMA OneAllocated ==
    ASSUME NEW h, NEW g, NEW A, NEW U, NEW lo, NEW hi, Changed(h, g, A, U, lo, hi),
           g.mem[lo].size = hi - lo, M <= hi - lo, g.mem[lo].alloc, g.mem[hi].prev
    PROVE  /\ HeapOK(g, Outside(A, lo, hi) \cup {lo}, Outside(U, lo, hi))
           /\ Spares(h, g, Outside(AllBlocks(h, A, U), lo, hi))
           /\ InFree(g) = InFree(h) /\ InQuick(g) = InQuick(h)
<1>1. lo \in Rows /\ lo \in Int /\ hi \in Int
  BY HeapTypes DEF Changed, Rows
<1>2. lo < hi /\ Tiles(g.mem, lo, hi, {lo})
  BY <1>1 DEF Tiles
<1>3. Becomes(g.mem, lo, hi, {lo}, {})
  BY <1>1, <1>2 DEF Becomes, Ends
<1>4. {lo} \ {} = {lo} /\ Outside(U, lo, hi) \cup {} = Outside(U, lo, hi)
  OBVIOUS
<1>5. /\ HeapOK(g, Outside(A, lo, hi) \cup ({lo} \ {}), Outside(U, lo, hi) \cup {})
      /\ Spares(h, g, Outside(AllBlocks(h, A, U), lo, hi))
      /\ InFree(g) = InFree(h) /\ InQuick(g) = InQuick(h)
  BY <1>3, MemChanged
<1>6. QED
  BY <1>4, <1>5

\* ... or two blocks, of which f is free and a is not.
LEMMA TwoBlocks ==
    ASSUME NEW h, NEW g, NEW A, NEW U, NEW lo, NEW hi, Changed(h, g, A, U, lo, hi),
           NEW mid \in Int,
           g.mem[lo].size = mid - lo, M <= mid - lo,
           g.mem[mid].size = hi - mid, M <= hi - mid,
           NEW f \in {lo, mid}, NEW a \in {lo, mid}, f # a,
           FreeTags(g.mem, f), g.mem[a].alloc,
           f = lo => g.mem[hi].prev, f = mid => g.mem[mid].prev
    PROVE  /\ HeapOK(g, Outside(A, lo, hi) \cup {a}, Outside(U, lo, hi) \cup {f})
           /\ Spares(h, g, Outside(AllBlocks(h, A, U), lo, hi))
           /\ InFree(g) = InFree(h) /\ InQuick(g) = InQuick(h)
<1> DEFINE T == {lo, mid}
           S == {f}
<1>1. lo \in Rows /\ lo \in Int /\ hi \in Int /\ hi \in Rows
  BY HeapTypes DEF Changed, Rows
<1>2. lo < mid /\ mid < hi /\ lo < hi /\ mid \in Rows
  BY <1>1, SizeAssumption DEF Rows
<1>3. Tiles(g.mem, lo, hi, T)
  BY <1>1, <1>2 DEF Tiles
<1>4. /\ T \subseteq Rows /\ S \subseteq T
      /\ \A b \in S : FreeTags(g.mem, b)
      /\ \A b \in T \ S : g.mem[b].alloc
  BY <1>1, <1>2
<1>5. \A b \in (T \ {lo}) \cup {hi} : g.mem[b].prev \/ Ends(g.mem, S, b)
  <2>1. CASE f = lo
    BY <2>1, <1>1, <1>2 DEF Ends
  <2>2. CASE f = mid
    BY <2>2, <1>1, <1>2 DEF Ends
  <2>3. QED
    BY <2>1, <2>2
<1>6. T \ S = {a}
  OBVIOUS
<1> HIDE DEF T
<1>7. Becomes(g.mem, lo, hi, T, S)
  BY <1>2, <1>3, <1>4, <1>5 DEF Becomes
<1> HIDE DEF S
<1>8. /\ HeapOK(g, Outside(A, lo, hi) \cup (T \ S), Outside(U, lo, hi) \cup S)
      /\ Spares(h, g, Outside(AllBlocks(h, A, U), lo, hi))
      /\ InFree(g) = InFree(h) /\ InQuick(g) = InQuick(h)
  BY <1>7, MemChanged
<1>9. QED
  BY <1>6, <1>8 DEF S

\* The rows of a block that is in no list.
LEMMA UnlistedOne ==
    ASSUME NEW h, NEW A, NEW U, HeapOK(h, A, U), NEW b \in A \cup U
    PROVE  LET hi == NextBlock(h, b) IN
           /\ b \in AllBlocks(h, A, U) /\ b \in Rows /\ b \in Int /\ hi \in Int
           /\ hi \in AllBlocks(h, A, U) \cup {h.end - 1}
           /\ hi \in Rows /\ hi - 1 \in Rows /\ hi = b + h.mem[b].size
           /\ h.mem[b].size \in Nat /\ M <= h.mem[b].size /\ b < hi /\ hi <= h.end - 1
           /\ \A c \in InFree(h) \cup InQuick(h) : c < b \/ hi <= c
           /\ Outside(A, b, hi) = A \ {b} /\ Outside(U, b, hi) = U \ {b}
           /\ Outside(AllBlocks(h, A, U), b, hi) = AllBlocks(h, A, U) \ {b}
<1> DEFINE hi == NextBlock(h, b)
<1>1. b \in AllBlocks(h, A, U)
  BY DEF AllBlocks
<1>2. /\ b \in Rows /\ M <= h.mem[b].size /\ h.mem[b].size \in Nat
      /\ hi \in AllBlocks(h, A, U) \cup {h.end - 1} /\ hi \in Rows /\ b < hi
      /\ hi = b + h.mem[b].size /\ hi <= h.end - 1
  BY <1>1, NextIsBlock DEF Size
<1> HIDE DEF hi
<1>3. b \in Int /\ hi \in Int /\ hi - 1 \in Rows
  BY <1>2, SizeAssumption DEF Rows
<1>4. /\ A \subseteq AllBlocks(h, A, U) /\ U \subseteq AllBlocks(h, A, U)
      /\ InFree(h) \cup InQuick(h) \subseteq AllBlocks(h, A, U)
  BY DEF AllBlocks
<1>5. b \notin InFree(h) \cup InQuick(h)
  BY DEF HeapOK, Kinds
<1>6. \A C \in SUBSET AllBlocks(h, A, U) : Outside(C, b, hi) = C \ {b}
  BY <1>1, Within DEF hi
<1>7. Outside(InFree(h) \cup InQuick(h), b, hi) = InFree(h) \cup InQuick(h)
  BY <1>4, <1>5, <1>6
<1>8. /\ Outside(A, b, hi) = A \ {b} /\ Outside(U, b, hi) = U \ {b}
      /\ Outside(AllBlocks(h, A, U), b, hi) = AllBlocks(h, A, U) \ {b}
  BY <1>4, <1>6
<1>9. \A c \in InFree(h) \cup InQuick(h) : c < b \/ hi <= c
  BY <1>7 DEF Outside
<1>10. QED
  BY <1>1, <1>2, <1>3, <1>8, <1>9 DEF hi

\* ... and of two such blocks side by side.
LEMMA UnlistedTwo ==
    ASSUME NEW h, NEW A, NEW U, HeapOK(h, A, U), NEW b \in A \cup U, NEW c \in A \cup U,
           NextBlock(h, b) = c
    PROVE  LET hi == NextBlock(h, c) IN
           /\ hi = b + h.mem[b].size + h.mem[c].size /\ b < hi
           /\ \A d \in InFree(h) \cup InQuick(h) : d < b \/ hi <= d
           /\ Outside(A, b, hi) = A \ {b, c} /\ Outside(U, b, hi) = U \ {b, c}
           /\ Outside(AllBlocks(h, A, U), b, hi) = AllBlocks(h, A, U) \ {b, c}
<1> DEFINE hi == NextBlock(h, c)
<1>1. b \in AllBlocks(h, A, U) /\ c \in AllBlocks(h, A, U)
  BY DEF AllBlocks
<1>2. /\ b \in Int /\ c \in Int /\ h.mem[b].size \in Nat /\ h.mem[c].size \in Nat
      /\ M <= h.mem[b].size /\ M <= h.mem[c].size
      /\ c = b + h.mem[b].size /\ hi = c + h.mem[c].size
  BY UnlistedOne
<1> HIDE DEF hi
<1>3. hi = b + h.mem[b].size + h.mem[c].size /\ b < hi
  BY <1>2
<1>4. /\ A \subseteq AllBlocks(h, A, U) /\ U \subseteq AllBlocks(h, A, U)
      /\ InFree(h) \cup InQuick(h) \subseteq AllBlocks(h, A, U)
  BY DEF AllBlocks
<1>5. b \notin InFree(h) \cup InQuick(h) /\ c \notin InFree(h) \cup InQuick(h)
  BY DEF HeapOK, Kinds
<1>6. \A C \in SUBSET AllBlocks(h, A, U) : Outside(C, b, hi) = C \ {b, c}
  BY <1>1, WithinTwo DEF hi
<1>7. Outside(InFree(h) \cup InQuick(h), b, hi) = InFree(h) \cup InQuick(h)
  BY <1>4, <1>5, <1>6
<1>8. /\ Outside(A, b, hi) = A \ {b, c} /\ Outside(U, b, hi) = U \ {b, c}
      /\ Outside(AllBlocks(h, A, U), b, hi) = AllBlocks(h, A, U) \ {b, c}
  BY <1>4, <1>6
<1>9. \A d \in InFree(h) \cup InQuick(h) : d < b \/ hi <= d
  BY <1>7 DEF Outside
<1>10. QED
  BY <1>3, <1>8, <1>9 DEF hi

\* Only a free block leaves the bit of the next one clear.
LEMMA BitOfNext ==
    ASSUME NEW h, NEW A, NEW U, HeapOK(h, A, U), NEW b \in A
    PROVE  h.mem[NextBlock(h, b)].prev
<1> DEFINE hi == NextBlock(h, b)
           p == PrevBlock(h, hi)
<1>1. SUFFICES ASSUME ~h.mem[hi].prev PROVE FALSE
  OBVIOUS
<1>2. /\ b \in AllBlocks(h, A, U) /\ hi \in AllBlocks(h, A, U) \cup {h.end - 1}
      /\ b \in Int /\ hi = b + Size(h, b) /\ M <= Size(h, b) /\ Size(h, b) \in Nat
  BY UnlistedOne DEF Size
<1>3. p \in U \cup InFree(h) /\ NextBlock(h, p) = hi
  BY <1>1, <1>2, PrevFound
<1> HIDE DEF hi, p
<1>4. p \in AllBlocks(h, A, U)
  BY <1>3 DEF AllBlocks
<1>5. /\ p \in Int /\ M <= Size(h, p) /\ Size(h, p) \in Int /\ hi = p + Size(h, p)
  BY <1>3, <1>4, NextIsBlock DEF Rows
<1>6. p = b
  BY <1>2, <1>4, <1>5, BlocksApart
<1>7. QED
  BY <1>3, <1>6 DEF HeapOK, Kinds

\* Blocks move between the lists and the sets A and U.
LEMMA ListsChanged ==
    ASSUME NEW h, NEW A, NEW U, HeapOK(h, A, U),
           NEW g \in Heaps, g.mem = h.mem, g.end = h.end, Lists(g),
           NEW C, NEW V, Kinds(g, C, V),
           C \cup InQuick(g) = A \cup InQuick(h), V \cup InFree(g) = U \cup InFree(h)
    PROVE  HeapOK(g, C, V)
<1>1. AllBlocks(g, C, V) = AllBlocks(h, A, U)
  BY DEF AllBlocks
<1>2. QED
  BY <1>1 DEF HeapOK

\* A block is taken out of the free lists, if it is there.
LEMMA UnlinkOK ==
    ASSUME NEW h, NEW A, NEW U, HeapOK(h, A, U), NEW b \in U \cup InFree(h)
    PROVE  LET g == Unlink(h, b) IN
           /\ HeapOK(g, A, U \cup {b})
           /\ g.mem = h.mem /\ g.quick = h.quick /\ g.end = h.end /\ g.lost = h.lost
           /\ g.stale = h.stale /\ (h.wild => g.wild) /\ (b \in U => g.wild)
           /\ (b \in InFree(h) => g.wild = h.wild)
           /\ InFree(g) = InFree(h) \ {b}
<1> DEFINE g == Unlink(h, b)
<1>1. h \in Heaps /\ Lists(h) /\ Kinds(h, A, U)
  BY DEF HeapOK
<1>2. \A i \in FreeLists : /\ RemoveFirst(h.free[i], b) \in Seq(Rows)
                           /\ IsInjective(RemoveFirst(h.free[i], b))
                           /\ Range(RemoveFirst(h.free[i], b)) = Range(h.free[i]) \ {b}
  <2>1. \A i \in FreeLists : h.free[i] \in Seq(Rows) /\ IsInjective(h.free[i])
    BY <1>1, HeapTypes DEF Lists, FreeListOK
  <2>2. QED
    BY <2>1, FirstRemoved
<1>3. /\ g \in Heaps /\ g.mem = h.mem /\ g.quick = h.quick /\ g.end = h.end
      /\ g.lost = h.lost /\ g.stale = h.stale /\ g.wild = (h.wild \/ b \notin InFree(h))
      /\ g.free = [i \in FreeLists |-> RemoveFirst(h.free[i], b)]
  BY <1>1, <1>2 DEF Unlink, Heaps
<1> HIDE DEF g
<1>4. InQuick(g) = InQuick(h)
  BY <1>3 DEF InQuick
<1>5. InFree(g) = InFree(h) \ {b}
  <2>1. \A i \in FreeLists : Range(g.free[i]) = Range(h.free[i]) \ {b}
    BY <1>2, <1>3
  <2>2. ASSUME NEW c PROVE c \in InFree(g) <=> c \in InFree(h) /\ c # b
    <3>1. c \in InFree(g) <=> \E i \in FreeLists : c \in Range(g.free[i])
      BY DEF InFree
    <3>2. c \in InFree(h) <=> \E i \in FreeLists : c \in Range(h.free[i])
      BY DEF InFree
    <3>3. QED
      BY <2>1, <3>1, <3>2
  <2>3. QED
    BY <2>2
<1>6. Lists(g)
  <2>1. ASSUME NEW i \in FreeLists PROVE FreeListOK(g, i)
    <3>1. FreeListOK(h, i)
      BY <1>1 DEF Lists
    <3>2. Range(g.free[i]) \subseteq Range(h.free[i]) /\ IsInjective(g.free[i])
      BY <1>2, <1>3
    <3>3. QED
      BY <1>3, <3>1, <3>2 DEF FreeListOK, Size
  <2>2. ASSUME NEW q \in QuickLists PROVE QuickListOK(g, q)
    BY <1>1, <1>3 DEF Lists, QuickListOK, Size
  <2>3. QED
    BY <2>1, <2>2 DEF Lists
<1>7. Kinds(g, A, U \cup {b})
  BY <1>1, <1>4, <1>5 DEF Kinds
<1>8. HeapOK(g, A, U \cup {b})
  <2>1. A \cup InQuick(g) = A \cup InQuick(h) /\ (U \cup {b}) \cup InFree(g) = U \cup InFree(h)
    BY <1>4, <1>5
  <2>2. QED
    BY <1>3, <1>6, <1>7, <2>1, ListsChanged
<1>9. b \in U => b \notin InFree(h)
  BY <1>1 DEF Kinds
<1>10. /\ h.wild => g.wild
       /\ b \in U => g.wild
       /\ b \in InFree(h) => g.wild = h.wild
  <2>1. h.wild \in BOOLEAN
    BY <1>1 DEF Heaps
  <2>2. QED
    BY <2>1, <1>3, <1>9
<1>11. QED
  BY <1>3, <1>5, <1>8, <1>10 DEF g

\* What a block holds behind its header is forgotten; if it is free it keeps its footer.
LEMMA ForgetOK ==
    ASSUME NEW h, NEW A, NEW U, HeapOK(h, A, U), NEW b, NEW R,
           \/ b \in A /\ R \subseteq (b + 1)..(NextBlock(h, b) - 1)
           \/ b \in U /\ R \subseteq (b + 1)..(NextBlock(h, b) - 2)
    PROVE  LET g == Forget(h, R) IN
           /\ HeapOK(g, A, U) /\ SameLists(h, g)
           /\ SameRows(h, g, AllBlocks(h, A, U) \cup {h.end - 1})
           /\ SameRows(h, g, Outside(Rows, b + 1, NextBlock(h, b)))
<1> DEFINE g == Forget(h, R)
           n == g.mem
           m == h.mem
           hi == NextBlock(h, b)
<1>1. /\ g \in Heaps /\ SameLists(h, g)
      /\ n = [r \in Rows |-> IF r \in R THEN NoTag ELSE m[r]]
  BY HeapTypes, ForgetType
<1> HIDE DEF g
<1>2. b \in A \cup U
  OBVIOUS
<1>3. /\ b \in AllBlocks(h, A, U) /\ b \in Rows /\ b \in Int /\ hi \in Int
      /\ hi \in AllBlocks(h, A, U) \cup {h.end - 1}
      /\ hi \in Rows /\ hi - 1 \in Rows /\ hi = b + m[b].size
      /\ m[b].size \in Nat /\ M <= m[b].size /\ b < hi /\ hi <= h.end - 1
      /\ \A c \in InFree(h) \cup InQuick(h) : c < b \/ hi <= c
      /\ Outside(A, b, hi) = A \ {b} /\ Outside(U, b, hi) = U \ {b}
      /\ Outside(AllBlocks(h, A, U), b, hi) = AllBlocks(h, A, U) \ {b}
  BY <1>2, UnlistedOne
<1>4. Sound(m, h.end, AllBlocks(h, A, U), U \cup InFree(h)) /\ A \cap (U \cup InFree(h)) = {}
  BY DEF HeapOK, Kinds
<1>5. b \in A => m[hi].prev
  BY BitOfNext
<1>6. /\ b \in A => R \subseteq (b + 1)..(hi - 1)
      /\ b \in U => R \subseteq (b + 1)..(hi - 2)
      /\ R \subseteq (b + 1)..(hi - 1)
  BY <1>3, <1>4
<1> HIDE DEF hi
<1>7. /\ \A r \in Rows : r <= b \/ hi <= r => n[r] = m[r]
      /\ b \in U => n[hi - 1] = m[hi - 1]
  <2>1. \A r \in Rows : r \in Int
    BY DEF Rows
  <2>2. \A r \in Rows : r <= b \/ hi <= r => r \notin R
    BY <2>1, <1>3, <1>6
  <2>3. b \in U => hi - 1 \notin R
    BY <1>3, <1>6
  <2>4. QED
    BY <1>1, <1>3, <2>2, <2>3
<1>8. n[b] = m[b] /\ n[hi] = m[hi]
  BY <1>3, <1>7
<1>9. Frame(m, n, b, hi)
  <2>1. \A r \in Rows : r < b \/ hi < r => r <= b \/ hi <= r
    BY <1>3 DEF Rows
  <2>2. QED
    BY <2>1, <1>7, <1>8 DEF Frame
<1>10. Changed(h, g, A, U, b, hi)
  BY <1>1, <1>3, <1>8, <1>9 DEF Changed, SameLists
<1>11. n[b].size = hi - b /\ M <= hi - b
  BY <1>3, <1>8
<1>12. HeapOK(g, A, U)
  <2>1. CASE b \in A
    <3>1. n[b].alloc /\ n[hi].prev
      BY <2>1, <1>3, <1>4, <1>5, <1>8 DEF Sound
    <3>2. HeapOK(g, Outside(A, b, hi) \cup {b}, Outside(U, b, hi))
      BY <1>10, <1>11, <3>1, OneAllocated
    <3>3. Outside(A, b, hi) \cup {b} = A /\ Outside(U, b, hi) = U
      BY <2>1, <1>3, <1>4
    <3>4. QED
      BY <3>2, <3>3
  <2>2. CASE b \in U
    <3>1. FreeTags(m, b)
      BY <2>2, <1>4 DEF Sound
    <3>2. FreeTags(n, b)
      BY <2>2, <3>1, <1>3, <1>7, <1>8 DEF FreeTags
    <3>3. HeapOK(g, Outside(A, b, hi), Outside(U, b, hi) \cup {b})
      BY <1>10, <1>11, <3>2, OneFree
    <3>4. Outside(A, b, hi) = A /\ Outside(U, b, hi) \cup {b} = U
      BY <2>2, <1>3, <1>4
    <3>5. QED
      BY <3>3, <3>4
  <2>3. QED
    BY <1>2, <2>1, <2>2
<1>13. ASSUME NEW c \in AllBlocks(h, A, U) \cup {h.end - 1} PROVE n[c] = m[c]
  <2>1. c \in Rows /\ c \in Int
    BY HeapTypes DEF Rows
  <2>2. c <= b \/ hi <= c
    <3>1. CASE c = h.end - 1
      BY <3>1, <1>3
    <3>2. CASE c \in AllBlocks(h, A, U) /\ c # b
      BY <3>2, <1>3, <2>1 DEF Outside
    <3>3. QED
      BY <3>1, <3>2, <1>3
  <2>3. QED
    BY <1>7, <2>1, <2>2
<1>14. SameRows(h, g, Outside(Rows, b + 1, hi))
  <2>1. \A r \in Rows : r < b + 1 => r <= b
    BY <1>3 DEF Rows
  <2>2. QED
    BY <2>1, <1>7 DEF SameRows, Outside
<1>15. QED
  BY <1>1, <1>12, <1>13, <1>14 DEF g, hi, SameRows

\* What an insertion leaves alone apart from the memory.
SameRest(h, g) ==
    /\ g.quick = h.quick /\ g.end = h.end /\ g.lost = h.lost
    /\ g.wild = h.wild /\ g.stale = h.stale

\* A free block that is in no list is put into the list of its size.
LEMMA InsertOK ==
    ASSUME NEW h, NEW A, NEW U, HeapOK(h, A, U), NEW b \in U
    PROVE  LET g == Insert(h, b) IN
           /\ HeapOK(g, A, U \ {b})
           /\ SameRest(h, g)
           /\ InFree(g) = InFree(h) \cup {b}
           /\ SameRows(h, g, AllBlocks(h, A, U) \cup {h.end - 1})
           /\ SameRows(h, g, Outside(Rows, b + 1, NextBlock(h, b) - 1))
<1> DEFINE l == ListOf(Size(h, b))
           R == (b + 1)..(NextBlock(h, b) - 2)
           h1 == [h EXCEPT !.free[l] = <<b>> \o @]
           f == Forget(h, R)
           g == Insert(h, b)
<1>1. /\ h \in Heaps /\ Lists(h) /\ Kinds(h, A, U) /\ b \in AllBlocks(h, A, U) /\ b \in Rows
      /\ l \in FreeLists /\ h.free[l] \in Seq(Rows)
  BY HeapTypes, ListOfType DEF HeapOK, AllBlocks
<1>2. b \notin InFree(h)
  BY <1>1 DEF Kinds
<1>3. b \notin Range(h.free[l])
  BY <1>1, <1>2 DEF InFree
<1>4. IsInjective(h.free[l])
  BY <1>1 DEF Lists, FreeListOK
<1>5. /\ <<b>> \o h.free[l] \in Seq(Rows)
      /\ Range(<<b>> \o h.free[l]) = Range(h.free[l]) \cup {b}
      /\ IsInjective(<<b>> \o h.free[l])
  BY <1>1, <1>3, <1>4, FirstAdded
<1>6. g = Forget(h1, R)
  BY DEF Insert
<1> HIDE DEF l
<1>7. /\ h1 \in Heaps /\ h1.mem = h.mem /\ h1.quick = h.quick /\ h1.end = h.end
      /\ h1.lost = h.lost /\ h1.wild = h.wild /\ h1.stale = h.stale
      /\ h1.free = [h.free EXCEPT ![l] = <<b>> \o @]
  BY <1>1, <1>5 DEF Heaps
<1> HIDE DEF h1, g, R
<1>8. /\ g \in Heaps /\ SameLists(h1, g)
      /\ g.mem = [r \in Rows |-> IF r \in R THEN NoTag ELSE h.mem[r]]
  BY <1>6, <1>7, ForgetType
<1>9. /\ f \in Heaps /\ SameLists(h, f)
      /\ f.mem = [r \in Rows |-> IF r \in R THEN NoTag ELSE h.mem[r]]
  BY <1>1, ForgetType
<1>10. /\ HeapOK(f, A, U)
       /\ SameRows(h, f, AllBlocks(h, A, U) \cup {h.end - 1})
  <2>2. b \in A \cup U /\ (b \in U => R \subseteq (b + 1)..(NextBlock(h, b) - 2))
    BY DEF R
  <2>3. \/ b \in A /\ R \subseteq (b + 1)..(NextBlock(h, b) - 1)
        \/ b \in U /\ R \subseteq (b + 1)..(NextBlock(h, b) - 2)
    BY <2>2
  <2>4. QED
    BY <2>3, ForgetOK
<1>11. SameRows(h, g, Outside(Rows, b + 1, NextBlock(h, b) - 1))
  <2>1. b \in Int /\ NextBlock(h, b) \in Int /\ \A r \in Rows : r \in Int
    BY <1>1, NextIsBlock DEF Rows
  <2>2. QED
    BY <2>1, <1>8 DEF R, SameRows, Outside
<1> HIDE DEF f
<1>12. /\ g.mem = f.mem /\ g.quick = f.quick /\ g.end = f.end /\ f.free = h.free
       /\ g.free = [h.free EXCEPT ![l] = <<b>> \o @] /\ f.quick = h.quick
       /\ g.lost = h.lost /\ g.wild = h.wild /\ g.stale = h.stale /\ f.end = h.end
  BY <1>7, <1>8, <1>9 DEF SameLists
<1>13. h.free \in [FreeLists -> Seq(Rows)]
  BY <1>1 DEF Heaps
<1>14. /\ g.free[l] = <<b>> \o h.free[l]
       /\ \A i \in FreeLists : i # l => g.free[i] = h.free[i]
  BY <1>1, <1>12, <1>13
<1>15. InFree(g) = InFree(h) \cup {b} /\ InFree(f) = InFree(h)
  <2>1. InFree(f) = InFree(h)
    BY <1>12 DEF InFree
  <2>2. \A i \in FreeLists : Range(g.free[i]) = IF i = l THEN Range(h.free[i]) \cup {b} ELSE Range(h.free[i])
    BY <1>5, <1>14
  <2>3. ASSUME NEW c PROVE c \in InFree(g) <=> c \in InFree(h) \/ c = b
    <3>1. c \in InFree(g) <=> \E i \in FreeLists : c \in Range(g.free[i])
      BY DEF InFree
    <3>2. c \in InFree(h) <=> \E i \in FreeLists : c \in Range(h.free[i])
      BY DEF InFree
    <3>3. QED
      BY <2>2, <3>1, <3>2, <1>1
  <2>4. QED
    BY <2>1, <2>3
<1>16. InQuick(g) = InQuick(h) /\ InQuick(f) = InQuick(h)
  BY <1>12 DEF InQuick
<1>17. Lists(g)
  <2>1. Lists(f)
    BY <1>10 DEF HeapOK
  <2>2. ASSUME NEW i \in FreeLists PROVE FreeListOK(g, i)
    <3>1. FreeListOK(f, i)
      BY <2>1 DEF Lists
    <3>2. CASE i # l
      BY <3>1, <3>2, <1>12, <1>14 DEF FreeListOK, Size
    <3>3. CASE i = l
      <4>1. ListOf(Size(g, b)) = l
        BY <1>1, <1>10, <1>12 DEF l, Size, SameRows
      <4>2. \A c \in Range(h.free[l]) : ListOf(Size(g, c)) = l
        BY <3>1, <3>3, <1>12 DEF FreeListOK, Size
      <4>3. QED
        BY <3>3, <4>1, <4>2, <1>5, <1>14 DEF FreeListOK
    <3>4. QED
      BY <3>2, <3>3
  <2>3. ASSUME NEW q \in QuickLists PROVE QuickListOK(g, q)
    BY <2>1, <1>12 DEF Lists, QuickListOK, Size
  <2>4. QED
    BY <2>2, <2>3 DEF Lists
<1>18. Kinds(g, A, U \ {b})
  BY <1>1, <1>15, <1>16 DEF Kinds
<1>19. HeapOK(g, A, U \ {b})
  <2>1. A \cup InQuick(g) = A \cup InQuick(f) /\ (U \ {b}) \cup InFree(g) = U \cup InFree(f)
    BY <1>15, <1>16
  <2>2. QED
    BY <1>8, <1>10, <1>12, <1>17, <1>18, <2>1, ListsChanged
<1>20. QED
  BY <1>10, <1>11, <1>12, <1>15, <1>19 DEF g, SameRows, SameRest

\* A block becomes free; it is in no list yet.
LEMMA MarkFreeOK ==
    ASSUME NEW h, NEW A, NEW U, HeapOK(h, A, U), NEW b \in A
    PROVE  LET g == MarkFree(h, b)
               hi == NextBlock(h, b) IN
           /\ HeapOK(g, A \ {b}, U \cup {b})
           /\ SameLists(h, g) /\ Keeps(h, g, A \ {b})
           /\ Frame(h.mem, g.mem, b, hi)
           /\ NextBlock(g, b) = hi /\ g.mem[b].prev = h.mem[b].prev
           /\ g.mem[hi - 1] = g.mem[b] /\ ~g.mem[hi].prev
<1> DEFINE hi == NextBlock(h, b)
           m == h.mem
           tag == Tag(Size(h, b), FALSE, m[b].prev, FALSE)
           h1 == Put(h, b, tag)
           h2 == PutFooter(h1, b)
           g == SetPrev(h2, hi, FALSE)
<1>1. /\ b \in AllBlocks(h, A, U) /\ b \in Rows /\ b \in Int /\ hi \in Int
      /\ hi \in AllBlocks(h, A, U) \cup {h.end - 1}
      /\ hi \in Rows /\ hi - 1 \in Rows /\ hi = b + m[b].size
      /\ m[b].size \in Nat /\ M <= m[b].size /\ b < hi /\ hi <= h.end - 1
      /\ \A c \in InFree(h) \cup InQuick(h) : c < b \/ hi <= c
      /\ Outside(A, b, hi) = A \ {b} /\ Outside(U, b, hi) = U \ {b}
      /\ Outside(AllBlocks(h, A, U), b, hi) = AllBlocks(h, A, U) \ {b}
  BY UnlistedOne
<1>2. h \in Heaps /\ m \in Mems
  BY HeapTypes
<1>3. tag \in Tags /\ tag.size = m[b].size /\ ~tag.alloc /\ tag.prev = m[b].prev
  BY <1>1, <1>2, MemTypes DEF Tags, Tag, Mems, Size
<1>4. MarkFree(h, b) = g
  BY DEF MarkFree
<1> HIDE DEF tag
<1>5. h1 \in Heaps /\ SameLists(h, h1) /\ \A r \in Rows : h1.mem[r] = IF r = b THEN tag ELSE m[r]
  BY <1>1, <1>2, <1>3, PutType
<1> HIDE DEF h1
<1>6. NextBlock(h1, b) = hi /\ h1.mem[b] = tag
  BY <1>1, <1>3, <1>5 DEF NextBlock, Size
<1> HIDE DEF hi
<1>7. /\ h2 \in Heaps /\ SameLists(h1, h2)
      /\ \A r \in Rows : h2.mem[r] = IF r = hi - 1 THEN tag ELSE h1.mem[r]
  BY <1>1, <1>5, <1>6, PutFooterType
<1> HIDE DEF h2
<1>8. /\ g \in Heaps /\ SameLists(h2, g)
      /\ SameRows(h2, g, Rows \ {hi})
      /\ g.mem[hi].size = h2.mem[hi].size /\ g.mem[hi].alloc = h2.mem[hi].alloc
      /\ ~g.mem[hi].prev /\ g.mem[hi].inq = h2.mem[hi].inq
  BY <1>1, <1>7, SetPrevType
<1> HIDE DEF g
<1>9. b # hi /\ hi - 1 # hi /\ b # hi - 1
  BY <1>1
<1>10. /\ g.mem[b] = tag /\ g.mem[hi - 1] = tag /\ h2.mem[hi] = m[hi]
       /\ \A r \in Rows : r # b /\ r # hi /\ r # hi - 1 => g.mem[r] = m[r]
  BY <1>1, <1>5, <1>7, <1>8, <1>9 DEF SameRows
<1>11. Frame(m, g.mem, b, hi)
  <2>1. \A r \in Rows : r < b \/ hi < r => r # b /\ r # hi /\ r # hi - 1
    BY <1>1 DEF Rows
  <2>2. QED
    BY <1>8, <1>10, <2>1 DEF Frame
<1>12. FreeTags(g.mem, b)
  BY <1>1, <1>3, <1>10 DEF FreeTags
<1>13. SameLists(h, g)
  BY <1>5, <1>7, <1>8 DEF SameLists
<1>14. Changed(h, g, A, U, b, hi)
  BY <1>1, <1>3, <1>8, <1>10, <1>11, <1>13 DEF Changed, SameLists
<1>15. g.mem[b].size = hi - b /\ M <= hi - b
  BY <1>1, <1>3, <1>10
<1>16. /\ HeapOK(g, Outside(A, b, hi), Outside(U, b, hi) \cup {b})
       /\ Spares(h, g, Outside(AllBlocks(h, A, U), b, hi))
  BY <1>12, <1>14, <1>15, OneFree
<1>17. HeapOK(g, A \ {b}, U \cup {b})
  <2>1. (U \ {b}) \cup {b} = U \cup {b}
    OBVIOUS
  <2>2. QED
    BY <2>1, <1>1, <1>16
<1>18. Keeps(h, g, A \ {b})
  <2>1. A \ {b} \subseteq AllBlocks(h, A, U) \ {b}
    BY DEF AllBlocks
  <2>2. QED
    BY <2>1, <1>1, <1>13, <1>16 DEF Keeps, Spares, SameLists
<1>19. NextBlock(g, b) = hi /\ g.mem[hi - 1] = g.mem[b] /\ g.mem[b].prev = m[b].prev
  BY <1>1, <1>3, <1>10 DEF NextBlock, Size
<1>20. QED
  BY <1>4, <1>8, <1>11, <1>13, <1>17, <1>18, <1>19 DEF hi

\* Two free blocks side by side, in no list, become one.
Joined(h, p, size) == PutFooter(Resize(h, p, size), p)

\* p has become one block with q, which was next to it.
Joins(h, g, A, p, q) ==
    /\ SameLists(h, g) /\ Spares(h, g, A)
    /\ Frame(h.mem, g.mem, p, NextBlock(h, q)) /\ NextBlock(g, p) = NextBlock(h, q)
    /\ g.mem[p].prev = h.mem[p].prev /\ g.mem[NextBlock(g, p) - 1] = g.mem[p]

\* Two neighbours in no list are joined by one new size, in header and footer; then what
\* follows is told that they are free.
LEMMA JoinOK ==
    ASSUME NEW h, NEW A, NEW U, HeapOK(h, A, U), NEW p \in U, NEW q \in U, NextBlock(h, p) = q,
           NEW size, size = Size(h, p) + Size(h, q)
    PROVE  LET k == Joined(h, p, size)
               g == SetPrev(k, NextBlock(k, p), FALSE) IN
           /\ HeapOK(k, A, U \ {q}) /\ Joins(h, k, A, p, q)
           /\ SameRows(h, k, {NextBlock(h, q)})
           /\ HeapOK(g, A, U \ {q}) /\ Joins(h, g, A, p, q) /\ ~g.mem[NextBlock(g, p)].prev
<1> DEFINE m == h.mem
           hi == NextBlock(h, q)
           h1 == Resize(h, p, size)
           k == PutFooter(h1, p)
           g == SetPrev(k, hi, FALSE)
<1>1. /\ p \in A \cup U /\ q \in A \cup U /\ h \in Heaps /\ m \in Mems
      /\ A \subseteq AllBlocks(h, A, U)
      /\ Sound(m, h.end, AllBlocks(h, A, U), U \cup InFree(h)) /\ A \cap U = {}
      /\ PAGE * MaxPages \in Nat /\ h.end <= PAGE * MaxPages /\ h.end \in Nat
  BY HeapTypes DEF HeapOK, Kinds, AllBlocks
<1>2. /\ p \in AllBlocks(h, A, U) /\ p \in Rows /\ p \in Int
      /\ m[p].size \in Nat /\ M <= m[p].size
      /\ m[q].size \in Nat /\ M <= m[q].size /\ q \in Rows /\ q \in Int
      /\ q = p + m[p].size
      /\ hi \in AllBlocks(h, A, U) \cup {h.end - 1} /\ hi \in Int
      /\ hi \in Rows /\ hi - 1 \in Rows /\ hi = q + m[q].size /\ hi <= h.end - 1
  <2>1. /\ p \in AllBlocks(h, A, U) /\ p \in Rows /\ p \in Int
        /\ m[p].size \in Nat /\ M <= m[p].size /\ NextBlock(h, p) = p + m[p].size
    BY <1>1, UnlistedOne
  <2>2. /\ q \in Rows /\ q \in Int /\ m[q].size \in Nat /\ M <= m[q].size
        /\ hi \in AllBlocks(h, A, U) \cup {h.end - 1} /\ hi \in Int
        /\ hi \in Rows /\ hi - 1 \in Rows /\ hi = q + m[q].size /\ hi <= h.end - 1
    BY <1>1, UnlistedOne
  <2>3. QED
    BY <2>1, <2>2
<1>3. /\ \A d \in InFree(h) \cup InQuick(h) : d < p \/ hi <= d
      /\ Outside(A, p, hi) = A \ {p, q} /\ Outside(U, p, hi) = U \ {p, q}
      /\ Outside(AllBlocks(h, A, U), p, hi) = AllBlocks(h, A, U) \ {p, q}
  BY <1>1, UnlistedTwo
<1> HIDE DEF hi
<1>4. size \in Nat /\ p + size = hi /\ M <= size /\ size \in 0..(PAGE * MaxPages) /\ p # q
  <2>1. size = m[p].size + m[q].size
    BY DEF Size
  <2>2. 0 <= p
    BY <1>2 DEF Rows
  <2>3. size \in Nat /\ p + size = hi /\ M <= size /\ p # q
    BY <1>2, <2>1
  <2>4. size <= h.end
    BY <1>1, <1>2, <2>2, <2>3
  <2>5. QED
    BY <1>1, <2>3, <2>4
<1>5. /\ h1 \in Heaps /\ SameLists(h, h1) /\ SameRows(h, h1, Rows \ {p})
      /\ h1.mem[p].size = size /\ h1.mem[p].alloc = m[p].alloc
      /\ h1.mem[p].prev = m[p].prev /\ h1.mem[p].inq = m[p].inq
  <2>1. h \in Heaps /\ p \in Rows /\ size \in 0..(PAGE * MaxPages)
    BY <1>1, <1>2, <1>4
  <2>2. QED
    BY <2>1, ResizeType
<1> HIDE DEF h1
<1>6. NextBlock(h1, p) = hi
  BY <1>4, <1>5 DEF NextBlock, Size
<1>7. /\ k \in Heaps /\ SameLists(h1, k)
      /\ \A r \in Rows : k.mem[r] = IF r = hi - 1 THEN h1.mem[p] ELSE h1.mem[r]
  BY <1>2, <1>5, <1>6, PutFooterType
<1>8. k = Joined(h, p, size)
  BY DEF Joined, h1
<1> HIDE DEF k
<1>9. /\ p # hi - 1 /\ p # hi /\ hi # hi - 1
  BY <1>2
<1>10. /\ k.mem[p] = h1.mem[p] /\ k.mem[hi - 1] = k.mem[p] /\ k.mem[hi] = m[hi]
       /\ \A r \in Rows : r # p /\ r # hi - 1 => k.mem[r] = m[r]
  BY <1>2, <1>5, <1>7, <1>9 DEF SameRows
<1>11. NextBlock(k, p) = hi
  BY <1>4, <1>5, <1>10 DEF NextBlock, Size
<1>12. /\ g \in Heaps /\ SameLists(k, g) /\ SameRows(k, g, Rows \ {hi})
       /\ g.mem[hi].size = k.mem[hi].size /\ g.mem[hi].alloc = k.mem[hi].alloc
       /\ g.mem[hi].prev = FALSE /\ g.mem[hi].inq = k.mem[hi].inq
  BY <1>2, <1>7, SetPrevType
<1> HIDE DEF g
<1>13. ~m[p].alloc
  BY <1>1 DEF Sound, FreeTags
<1>14. ASSUME NEW x \in {k, g}
       PROVE  HeapOK(x, A, U \ {q}) /\ Joins(h, x, A, p, q)
  <2>1. /\ x \in Heaps /\ SameLists(h, x)
    BY <1>5, <1>7, <1>12 DEF SameLists
  <2>2. /\ x.mem[p] = h1.mem[p] /\ x.mem[hi - 1] = x.mem[p]
        /\ \A r \in Rows : r # p /\ r # hi - 1 /\ r # hi => x.mem[r] = m[r]
        /\ x.mem[hi].size = m[hi].size /\ x.mem[hi].alloc = m[hi].alloc
        /\ x.mem[hi].inq = m[hi].inq
    <3>1. CASE x = k
      BY <3>1, <1>10
    <3>2. CASE x = g
      BY <3>2, <1>2, <1>9, <1>10, <1>12 DEF SameRows
    <3>3. QED
      BY <3>1, <3>2
  <2>3. Frame(m, x.mem, p, hi)
    <3>1. \A r \in Rows : r < p \/ hi < r => r # p /\ r # hi - 1 /\ r # hi
      BY <1>2 DEF Rows
    <3>2. QED
      BY <3>1, <2>2 DEF Frame
  <2>4. x.mem[p].size = hi - p /\ M <= hi - p
    <3>1. x.mem[p].size = size
      BY <1>5, <2>2
    <3>2. hi - p = size
      BY <1>2, <1>4
    <3>3. QED
      BY <1>4, <3>1, <3>2
  <2>5. FreeTags(x.mem, p)
    <3>1. p + x.mem[p].size - 1 = hi - 1
      BY <1>2, <2>4
    <3>2. ~x.mem[p].alloc
      BY <1>5, <1>13, <2>2
    <3>3. QED
      BY <2>2, <3>1, <3>2 DEF FreeTags
  <2>6. Changed(h, x, A, U, p, hi)
    BY <1>2, <1>3, <1>5, <2>1, <2>2, <2>3 DEF Changed, SameLists
  <2>7. /\ HeapOK(x, Outside(A, p, hi), Outside(U, p, hi) \cup {p})
        /\ Spares(h, x, Outside(AllBlocks(h, A, U), p, hi))
    BY <2>4, <2>5, <2>6, OneFree
  <2>8. Outside(A, p, hi) = A /\ Outside(U, p, hi) \cup {p} = U \ {q}
    <3>1. p \notin A /\ q \notin A
      BY <1>1
    <3>2. QED
      BY <1>3, <1>4, <3>1
  <2>9. HeapOK(x, A, U \ {q})
    BY <2>7, <2>8
  <2>10. A \subseteq Outside(AllBlocks(h, A, U), p, hi)
    BY <1>1, <1>3
  <2>11. Spares(h, x, A)
    BY <2>7, <2>10 DEF Spares
  <2>12. NextBlock(x, p) = hi
    BY <1>2, <2>4 DEF NextBlock, Size
  <2>13. QED
    BY <1>5, <2>1, <2>2, <2>3, <2>9, <2>11, <2>12 DEF Joins, hi
<1>15. NextBlock(g, p) = hi
  BY <1>14 DEF Joins, hi
<1>16. /\ HeapOK(k, A, U \ {q}) /\ Joins(h, k, A, p, q)
       /\ HeapOK(g, A, U \ {q}) /\ Joins(h, g, A, p, q)
       /\ ~g.mem[NextBlock(g, p)].prev /\ SameRows(h, k, {NextBlock(h, q)})
  BY <1>10, <1>12, <1>14, <1>15 DEF SameRows, hi
<1>17. k = Joined(h, p, size) /\ g = SetPrev(Joined(h, p, size), NextBlock(Joined(h, p, size), p), FALSE)
  BY <1>8, <1>11 DEF g
<1>18. QED
  BY <1>16, <1>17

\* x, one of the blocks p and q side by side, has left its list, and p has absorbed q.
Absorbs(h, g, A, U, p, q, x) ==
    /\ HeapOK(g, A, (U \cup {x}) \ {q})
    /\ Keeps(h, g, A) /\ g.quick = h.quick /\ g.stale = h.stale
    /\ x \in U => g.wild
    /\ x \in InFree(h) => g.wild = h.wild
    /\ InFree(g) = InFree(h) \ {x}
    /\ Frame(h.mem, g.mem, p, NextBlock(h, q)) /\ NextBlock(g, p) = NextBlock(h, q)
    /\ g.mem[p].prev = h.mem[p].prev /\ g.mem[NextBlock(g, p) - 1] = g.mem[p]
    /\ ~g.mem[NextBlock(g, p)].prev

\* One of two free neighbours leaves its list and joins the other (mergeNextBlock and
\* mergePrevBlock).
LEMMA AbsorbOK ==
    ASSUME NEW h, NEW A, NEW U, HeapOK(h, A, U), NEW p, NEW q, NextBlock(h, p) = q,
           NEW x \in {p, q}, x \in U \cup InFree(h), {p, q} \subseteq U \cup {x},
           NEW size, size = Size(h, p) + Size(h, q)
    PROVE  LET k == Joined(Unlink(h, x), p, size) IN
           Absorbs(h, SetPrev(k, NextBlock(k, p), FALSE), A, U, p, q, x)
<1> DEFINE u == Unlink(h, x)
           k == Joined(u, p, size)
           g == SetPrev(k, NextBlock(k, p), FALSE)
<1>1. /\ HeapOK(u, A, U \cup {x})
      /\ u.mem = h.mem /\ u.quick = h.quick /\ u.end = h.end /\ u.lost = h.lost
      /\ u.stale = h.stale /\ (h.wild => u.wild) /\ (x \in U => u.wild)
      /\ (x \in InFree(h) => u.wild = h.wild)
      /\ InFree(u) = InFree(h) \ {x}
  BY UnlinkOK
<1> HIDE DEF u
<1>2. NextBlock(u, p) = q /\ NextBlock(u, q) = NextBlock(h, q) /\ size = Size(u, p) + Size(u, q)
  BY <1>1 DEF NextBlock, Size
<1>3. p \in U \cup {x} /\ q \in U \cup {x}
  OBVIOUS
<1>4. /\ HeapOK(g, A, (U \cup {x}) \ {q}) /\ Joins(u, g, A, p, q) /\ ~g.mem[NextBlock(g, p)].prev
  BY <1>1, <1>2, <1>3, JoinOK
<1> HIDE DEF k, g
<1>5. /\ SameLists(u, g) /\ Spares(u, g, A)
      /\ Frame(h.mem, g.mem, p, NextBlock(h, q)) /\ NextBlock(g, p) = NextBlock(h, q)
      /\ g.mem[p].prev = h.mem[p].prev /\ g.mem[NextBlock(g, p) - 1] = g.mem[p]
  BY <1>1, <1>2, <1>4 DEF Joins
<1>6. Spares(h, g, A)
  BY <1>1, <1>5 DEF Spares, Size
<1>7. InFree(g) = InFree(h) \ {x}
  BY <1>1, <1>5 DEF InFree, SameLists
<1>8. /\ Keeps(h, g, A) /\ g.quick = h.quick /\ g.stale = h.stale /\ (x \in U => g.wild)
      /\ (x \in InFree(h) => g.wild = h.wild)
  BY <1>1, <1>5, <1>6 DEF Keeps, SameLists
<1>9. Absorbs(h, g, A, U, p, q, x)
  BY <1>4, <1>5, <1>7, <1>8 DEF Absorbs
<1>10. QED
  BY <1>9 DEF g, k, u

\* A free block is merged with the one that follows, if that is free as well.
LEMMA MergeNextOK ==
    ASSUME NEW h, NEW A, NEW U, HeapOK(h, A, U), NEW b \in U
    PROVE  LET next == NextBlock(h, b) IN
           \/ h.mem[next].alloc /\ MergeNext(h, b) = h
           \/ /\ next \in U \cup InFree(h) /\ next # b
              /\ Absorbs(h, MergeNext(h, b), A, U, b, next, next)
<1> DEFINE next == NextBlock(h, b)
<1>1. CASE h.mem[next].alloc
  BY <1>1 DEF MergeNext
<1>2. CASE ~h.mem[next].alloc
  <2>1. /\ next \in AllBlocks(h, A, U) \cup {h.end - 1} /\ b \in Int /\ next \in Int /\ b < next
    <3>1. b \in A \cup U
      OBVIOUS
    <3>2. QED
      BY <3>1, UnlistedOne
  <2>2. next \in U \cup InFree(h) /\ next # b
    BY <1>2, <2>1 DEF HeapOK, Sound
  <2> DEFINE size == Size(h, b) + Size(h, next)
             k == Joined(Unlink(h, next), b, size)
  <2>3. MergeNext(h, b) = SetPrev(k, NextBlock(k, b), FALSE)
    BY <1>2 DEF MergeNext, Joined
  <2>4. next \in {b, next} /\ {b, next} \subseteq U \cup {next}
    OBVIOUS
  <2> HIDE DEF next, size
  <2>5. next = NextBlock(h, b) /\ size = Size(h, b) + Size(h, next)
    BY DEF next, size
  <2>6. Absorbs(h, SetPrev(k, NextBlock(k, b), FALSE), A, U, b, next, next)
    BY <2>2, <2>4, <2>5, AbsorbOK
  <2>7. QED
    BY <2>2, <2>3, <2>6 DEF next
<1>3. QED
  BY <1>1, <1>2

\* ... and with the one before it.
LEMMA MergePrevOK ==
    ASSUME NEW h, NEW A, NEW U, HeapOK(h, A, U), NEW b \in U
    PROVE  LET p == PrevBlock(h, b) IN
           \/ h.mem[b].prev /\ p = b /\ MergePrev(h, b) = h
           \/ /\ p \in U \cup InFree(h) /\ NextBlock(h, p) = b /\ p # b
              /\ Absorbs(h, MergePrev(h, b), A, U, p, b, p)
<1> DEFINE p == PrevBlock(h, b)
<1>1. CASE h.mem[b].prev
  BY <1>1 DEF MergePrev, PrevBlock
<1>2. CASE ~h.mem[b].prev
  <2>1. b \in AllBlocks(h, A, U) \cup {h.end - 1} /\ b \in Int
    <3>1. b \in A \cup U
      OBVIOUS
    <3>2. QED
      BY <3>1, UnlistedOne
  <2>2. p \in U \cup InFree(h) /\ NextBlock(h, p) = b /\ p < b
    BY <1>2, <2>1, PrevFound
  <2>3. p # b
    BY <2>1, <2>2
  <2> DEFINE size == Size(h, p) + Size(h, b)
             k == Joined(Unlink(h, p), p, size)
  <2>4. MergePrev(h, b) = SetPrev(k, NextBlock(k, p), FALSE)
    BY <2>3 DEF MergePrev, Joined
  <2>5. p \in {p, b} /\ {p, b} \subseteq U \cup {p}
    OBVIOUS
  <2> HIDE DEF p, size
  <2>6. size = Size(h, p) + Size(h, b)
    BY DEF size
  <2>7. Absorbs(h, SetPrev(k, NextBlock(k, p), FALSE), A, U, p, b, p)
    BY <2>2, <2>5, <2>6, AbsorbOK
  <2>8. QED
    BY <2>2, <2>3, <2>4, <2>7 DEF p
<1>3. QED
  BY <1>1, <1>2

\* A free block is merged with both neighbours and listed.
Rejoin(h, b) == Insert(MergeNext(MergePrev(h, b), PrevBlock(h, b)), PrevBlock(h, b))

\* The free blocks in no list are V instead of U: the same, unless the code has gone wild.
Frees(h, g, A, U, V) ==
    /\ V \subseteq U /\ HeapOK(g, A, V)
    /\ V = U \/ g.wild
    /\ Keeps(h, g, A) /\ g.stale = h.stale

\* Merging with both neighbours and listing the result keeps the heap sound.
LEMMA RejoinOK ==
    ASSUME NEW h, NEW A, NEW U, HeapOK(h, A, U), NEW b \in U
    PROVE  /\ \E V : Frees(h, Rejoin(h, b), A, U \ {b}, V)
           /\ Rejoin(h, b).quick = h.quick
<1> DEFINE p == PrevBlock(h, b)
           h1 == MergePrev(h, b)
           h2 == MergeNext(h1, p)
           g == Insert(h2, p)
<1>0. Kinds(h, A, U) /\ Keeps(h, h, A)
  BY DEF HeapOK, Keeps, Spares
<1>1. PICK U1 : /\ HeapOK(h1, A, U1) /\ p \in U1 /\ U1 \ {p} \subseteq U \ {b}
                /\ U1 \ {p} = U \ {b} \/ h1.wild
                /\ Keeps(h, h1, A) /\ h1.stale = h.stale /\ h1.quick = h.quick
  <2>1. CASE p = b /\ h1 = h
    BY <2>1, <1>0
  <2>2. CASE /\ p \in U \cup InFree(h) /\ p # b
             /\ Absorbs(h, h1, A, U, p, b, p)
    <3> HIDE DEF p, h1
    <3> DEFINE U1 == (U \cup {p}) \ {b}
    <3>1. HeapOK(h1, A, U1) /\ Keeps(h, h1, A) /\ h1.stale = h.stale /\ h1.quick = h.quick
      BY <2>2 DEF Absorbs
    <3>2. p \in U1 /\ U1 \ {p} \subseteq U \ {b}
      BY <2>2
    <3>3. U1 \ {p} = U \ {b} \/ h1.wild
      <4>1. CASE p \in U
        BY <2>2, <4>1 DEF Absorbs
      <4>2. CASE p \notin U
        BY <4>2
      <4>3. QED
        BY <4>1, <4>2
    <3>4. QED
      BY <3>1, <3>2, <3>3
  <2>3. QED
    BY <2>1, <2>2, MergePrevOK
<1> HIDE DEF h1, p
<1>2. Kinds(h1, A, U1) /\ Keeps(h1, h1, A)
  BY <1>1 DEF HeapOK, Keeps, Spares
<1>3. PICK U2 : /\ HeapOK(h2, A, U2) /\ p \in U2 /\ U2 \ {p} \subseteq U1 \ {p}
                /\ U2 = U1 \/ h2.wild
                /\ Keeps(h1, h2, A) /\ h2.stale = h1.stale /\ h2.quick = h1.quick
  <2> DEFINE next == NextBlock(h1, p)
  <2>1. CASE h2 = h1
    BY <2>1, <1>1, <1>2
  <2>2. CASE next \in U1 \cup InFree(h1) /\ next # p /\ Absorbs(h1, h2, A, U1, p, next, next)
    <3> HIDE DEF next, h2
    <3> DEFINE U2 == (U1 \cup {next}) \ {next}
    <3>1. HeapOK(h2, A, U2) /\ Keeps(h1, h2, A) /\ h2.stale = h1.stale /\ h2.quick = h1.quick
      BY <2>2 DEF Absorbs
    <3>2. p \in U2 /\ U2 \ {p} \subseteq U1 \ {p}
      BY <1>1, <2>2
    <3>3. U2 = U1 \/ h2.wild
      <4>1. CASE next \in U1
        BY <2>2, <4>1 DEF Absorbs
      <4>2. CASE next \notin U1
        BY <4>2
      <4>3. QED
        BY <4>1, <4>2
    <3>4. QED
      BY <3>1, <3>2, <3>3
  <2>3. QED
    BY <2>1, <2>2, <1>1, MergeNextOK
<1> HIDE DEF h2
<1>4. /\ HeapOK(g, A, U2 \ {p}) /\ SameRest(h2, g)
      /\ SameRows(h2, g, AllBlocks(h2, A, U2) \cup {h2.end - 1})
  <2>1. HeapOK(h2, A, U2) /\ p \in U2
    BY <1>3
  <2>2. QED
    BY <2>1, InsertOK
<1> HIDE DEF g
<1>5. Keeps(h2, g, A)
  <2>1. A \subseteq AllBlocks(h2, A, U2)
    BY DEF AllBlocks
  <2>2. QED
    BY <2>1, <1>4 DEF Keeps, Spares, SameRows, SameRest, Size
<1>6. Keeps(h, g, A)
  <2>1. A \subseteq A
    OBVIOUS
  <2>2. Keeps(h, h2, A)
    BY <1>1, <1>3, <2>1, KeepsTwice
  <2>3. QED
    BY <1>5, <2>1, <2>2, KeepsTwice
<1>7. U2 \ {p} \subseteq U \ {b}
  BY <1>1, <1>3
<1>8. U2 \ {p} = U \ {b} \/ g.wild
  <2>1. h1.wild => h2.wild
    BY <1>3 DEF Keeps
  <2>2. QED
    BY <2>1, <1>1, <1>3, <1>4 DEF SameRest
<1>9. Frees(h, g, A, U \ {b}, U2 \ {p}) /\ g.quick = h.quick
  BY <1>1, <1>3, <1>4, <1>6, <1>7, <1>8 DEF Frees, SameRest
<1>10. g = Rejoin(h, b)
  BY DEF g, h2, h1, p, Rejoin
<1>11. QED
  BY <1>9, <1>10

\* sf_free without quick lists, when the heap is sound.
LEMMA ReleaseOK ==
    ASSUME NEW h, NEW A, NEW U, HeapOK(h, A, U), NEW b \in A
    PROVE  /\ \E V : Frees(h, Release(h, b), A \ {b}, U, V)
           /\ Release(h, b).quick = h.quick
<1> DEFINE g == MarkFree(h, b)
           C == A \ {b}
<1>1. HeapOK(g, C, U \cup {b}) /\ SameLists(h, g) /\ Keeps(h, g, C)
  BY MarkFreeOK
<1>2. Release(h, b) = Rejoin(g, b)
  BY DEF Release, Rejoin
<1> HIDE DEF g, C
<1>3. b \in U \cup {b} /\ (U \cup {b}) \ {b} = U
  BY DEF HeapOK, Kinds
<1>4. PICK V : Frees(g, Rejoin(g, b), C, U, V) /\ Rejoin(g, b).quick = g.quick
  BY <1>1, <1>3, RejoinOK
<1>5. Keeps(h, Rejoin(g, b), C)
  <2>1. C \subseteq C /\ Keeps(g, Rejoin(g, b), C)
    BY <1>4 DEF Frees
  <2>2. QED
    BY <1>1, <2>1, KeepsTwice
<1>6. Frees(h, Rejoin(g, b), C, U, V) /\ Rejoin(g, b).quick = h.quick
  BY <1>1, <1>4, <1>5 DEF Frees, SameLists
<1>7. QED
  BY <1>2, <1>6 DEF C

\* The blocks K have kept their sizes.
SameSizes(m, n, K) == \A k \in K : n[k].size = m[k].size

\* A step between the blocks lo and hi leaves merged what was merged around them.
LEMMA MergedAround ==
    ASSUME NEW h, NEW A, NEW U, HeapOK(h, A, U), NEW K, K \subseteq AllBlocks(h, A, U),
           Merged(h.mem, K), NEW n, NEW lo \in AllBlocks(h, A, U),
           NEW hi \in AllBlocks(h, A, U) \cup {h.end - 1},
           \A k \in K : k < lo \/ hi <= k,
           lo < hi, Frame(h.mem, n, lo, hi), n[lo].prev = h.mem[lo].prev
    PROVE  /\ Merged(n, K \ {hi})
           /\ SameSizes(h.mem, n, K)
<1> DEFINE m == h.mem
<1>1. /\ AllBlocks(h, A, U) \subseteq Rows /\ h.end - 1 \in Rows
      /\ lo \in Int /\ hi \in Int
  BY HeapTypes DEF Rows
<1>2. ASSUME NEW b \in K
      PROVE  /\ b \in Rows /\ b \in Int /\ m[b].size \in Nat /\ M <= m[b].size
             /\ b + m[b].size \in Rows /\ b + m[b].size - 1 \in Rows
             /\ b < lo => b + m[b].size <= lo
  <2>1. b \in AllBlocks(h, A, U)
    OBVIOUS
  <2>2. /\ b \in Rows /\ M <= b /\ M <= Size(h, b) /\ Size(h, b) \in Nat
        /\ NextBlock(h, b) \in Rows /\ NextBlock(h, b) = b + Size(h, b)
    BY <2>1, NextIsBlock
  <2>3. b + m[b].size - 1 \in Rows
    <3>1. PAGE * MaxPages \in Nat
      BY SizeAssumption
    <3>2. QED
      BY <3>1, <2>2 DEF Rows, Size
  <2>4. b < lo => b + m[b].size <= lo
    <3>1. SUFFICES ASSUME b < lo PROVE b + m[b].size <= lo
      OBVIOUS
    <3>2. b # lo
      BY <3>1, <1>1
    <3>3. lo + Size(h, lo) <= b \/ b + Size(h, b) <= lo
      BY <2>1, <3>2, BlocksApart
    <3>4. M <= Size(h, lo) /\ Size(h, lo) \in Nat
      BY NextIsBlock
    <3>5. b \in Int
      BY <2>2 DEF Rows
    <3>6. QED
      BY <3>1, <3>3, <3>4, <3>5, <1>1 DEF Size
  <2>5. QED
    BY <2>2, <2>3, <2>4 DEF Rows, Size
<1>3. \A r \in Rows : r < lo \/ hi < r => n[r] = m[r]
  BY DEF Frame
<1>4. ASSUME NEW b \in K
      PROVE  n[b].size = m[b].size
  <2>1. b < lo \/ b = hi \/ hi < b
    BY <1>1, <1>2
  <2>2. QED
    BY <2>1, <1>2, <1>3 DEF Frame
<1>5. ASSUME NEW b \in K \ {hi}
      PROVE  LET next == b + n[b].size IN n[next - 1] = n[b] /\ ~n[next].prev /\ next \notin K \ {hi}
  <2> DEFINE next == b + m[b].size
  <2>1. m[next - 1] = m[b] /\ ~m[next].prev /\ next \notin K
    BY DEF Merged
  <2>2. n[b].size = m[b].size
    BY <1>4
  <2>3. b \in Rows /\ b \in Int /\ next \in Rows /\ next - 1 \in Rows /\ b < next /\ next \in Int
        /\ (b < lo => next <= lo)
    BY <1>1, <1>2 DEF Rows
  <2> HIDE DEF next
  <2>4. CASE b < lo
    <3>1. n[b] = m[b] /\ n[next - 1] = m[next - 1]
      BY <2>3, <2>4, <1>1, <1>3
    <3>2. ~n[next].prev
      <4>1. CASE next = lo
        BY <4>1, <2>1
      <4>2. CASE next # lo
        BY <4>2, <2>1, <2>3, <2>4, <1>1, <1>3
      <4>3. QED
        BY <4>1, <4>2
    <3>3. QED
      BY <3>1, <3>2, <2>1, <2>2 DEF next
  <2>5. CASE hi < b
    <3>1. n[b] = m[b] /\ n[next - 1] = m[next - 1] /\ n[next] = m[next]
      BY <2>3, <2>5, <1>1, <1>3
    <3>2. QED
      BY <3>1, <2>1, <2>2 DEF next
  <2>6. QED
    BY <2>3, <2>4, <2>5, <1>1
<1>6. Merged(n, K \ {hi})
  BY <1>5 DEF Merged
<1>7. QED
  BY <1>4, <1>6 DEF SameSizes

\* ... and all of it, if the block hi is what it was.
LEMMA MergedInside ==
    ASSUME NEW h, NEW A, NEW U, HeapOK(h, A, U), NEW K, K \subseteq AllBlocks(h, A, U),
           Merged(h.mem, K), NEW n, NEW lo \in AllBlocks(h, A, U),
           NEW hi \in AllBlocks(h, A, U) \cup {h.end - 1},
           \A k \in K : k < lo \/ hi <= k,
           lo < hi, Frame(h.mem, n, lo, hi), n[lo].prev = h.mem[lo].prev,
           hi \in K => n[hi] = h.mem[hi]
    PROVE  Merged(n, K) /\ SameSizes(h.mem, n, K)
<1> DEFINE m == h.mem
<1>1. Merged(n, K \ {hi}) /\ SameSizes(m, n, K)
  BY MergedAround
<1>2. ASSUME NEW b \in K
      PROVE  LET next == b + n[b].size IN n[next - 1] = n[b] /\ ~n[next].prev /\ next \notin K
  <2>1. n[b].size = m[b].size /\ b + m[b].size \notin K
    BY <1>1 DEF SameSizes, Merged
  <2>2. CASE b # hi
    BY <2>1, <2>2, <1>1 DEF Merged
  <2>3. CASE b = hi
    <3> DEFINE next == b + m[b].size
    <3>1. /\ next \in Int /\ b \in Int /\ b + 1 < next /\ next \in Rows /\ next - 1 \in Rows
      <4>1. b \in AllBlocks(h, A, U)
        OBVIOUS
      <4>2. /\ b \in Rows /\ M <= b /\ M <= Size(h, b) /\ Size(h, b) \in Nat
            /\ NextBlock(h, b) \in Rows /\ NextBlock(h, b) = b + Size(h, b)
        BY <4>1, NextIsBlock
      <4>3. PAGE * MaxPages \in Nat
        BY SizeAssumption
      <4>4. QED
        BY <4>2, <4>3 DEF Rows, Size
    <3>2. m[next - 1] = m[b] /\ ~m[next].prev
      BY DEF Merged
    <3> HIDE DEF next
    <3>3. n[next - 1] = m[next - 1] /\ n[next] = m[next]
      BY <2>3, <3>1 DEF Frame
    <3>4. n[b] = m[b]
      BY <2>3
    <3>5. QED
      BY <2>1, <3>2, <3>3, <3>4 DEF next
  <2>4. QED
    BY <2>2, <2>3
<1>3. Merged(n, K)
  BY <1>2 DEF Merged
<1>4. QED
  BY <1>1, <1>3

\* No two of the blocks K are neighbours.
Apart(m, K) == \A b \in K : b + m[b].size \notin K

\* The free block b is in no list yet: the listed ones are merged, except that the one
\* after b, if it is free as well, need not know that b is free.
Loosened(h, b) ==
    LET next == NextBlock(h, b)
    IN  /\ Merged(h.mem, InFree(h) \ {next}) /\ Apart(h.mem, InFree(h))
        /\ h.mem[next - 1] = h.mem[b] /\ (h.mem[next].alloc => ~h.mem[next].prev)

\* No listed block ends where b begins.
Alone(h, b) == \A k \in InFree(h) : k + h.mem[k].size # b

\* The free block b has no listed neighbour.
Joinable(h, b) ==
    LET next == NextBlock(h, b)
    IN  /\ Merged(h.mem, InFree(h)) /\ Alone(h, b)
        /\ h.mem[next - 1] = h.mem[b] /\ ~h.mem[next].prev /\ next \notin InFree(h)

\* The blocks in the free lists are merged, as long as nothing is wild or stale.
Tidy(h) == ~h.wild /\ ~h.stale => Merged(h.mem, InFree(h))

\* The block before is merged with the new one ...
LEMMA MergePrevTidy ==
    ASSUME NEW h, NEW A, NEW U, HeapOK(h, A, U), NEW b \in U, Loosened(h, b),
           ~MergePrev(h, b).wild
    PROVE  LET g == MergePrev(h, b)
               p == PrevBlock(h, b) IN
           /\ \E V : HeapOK(g, A, V) /\ p \in V
           /\ Loosened(g, p) /\ Alone(g, p)
<1> DEFINE g == MergePrev(h, b)
           p == PrevBlock(h, b)
           K == InFree(h)
           hi == NextBlock(h, b)
           Result == (\E V : HeapOK(g, A, V) /\ p \in V) /\ Loosened(g, p) /\ Alone(g, p)
<1>0. SUFFICES Result
  OBVIOUS
<1>1. /\ b \in AllBlocks(h, A, U) /\ b \in Int /\ hi \in Int /\ b < hi
      /\ hi \in AllBlocks(h, A, U) \cup {h.end - 1}
  BY UnlistedOne
<1>2. /\ Merged(h.mem, K \ {hi}) /\ Apart(h.mem, K)
      /\ h.mem[hi - 1] = h.mem[b]
  BY DEF Loosened
<1>3. K \subseteq AllBlocks(h, A, U) /\ K \cap U = {}
  BY DEF HeapOK, Kinds, AllBlocks
<1>4. CASE h.mem[b].prev /\ p = b /\ g = h
  <2>1. ASSUME NEW k \in K, k + h.mem[k].size = b
        PROVE  FALSE
    <3>1. NextBlock(h, k) = b /\ k < b /\ k \in Int
      <4>1. k \in AllBlocks(h, A, U)
        BY <1>3
      <4>2. QED
        BY <4>1, <2>1, NextIsBlock DEF Size, NextBlock, Rows
    <3>2. k \in K \ {hi}
      BY <3>1, <1>1
    <3>3. ~h.mem[b].prev
      BY <3>2, <2>1, <1>2 DEF Merged
    <3>4. QED
      BY <3>3, <1>4
  <2>2. Alone(h, b)
    BY <2>1 DEF Alone
  <2>3. QED
    BY <1>4, <2>2
<1>5. CASE /\ p \in U \cup K /\ NextBlock(h, p) = b /\ p # b
           /\ Absorbs(h, g, A, U, p, b, p)
  <2>0. ~g.wild
    OBVIOUS
  <2> HIDE DEF g, p
  <2>1. p \in K
    BY <2>0, <1>5 DEF Absorbs
  <2>2. /\ HeapOK(g, A, (U \cup {p}) \ {b}) /\ InFree(g) = K \ {p}
        /\ Frame(h.mem, g.mem, p, hi) /\ NextBlock(g, p) = hi
        /\ g.mem[p].prev = h.mem[p].prev /\ g.mem[hi - 1] = g.mem[p] /\ ~g.mem[hi].prev
    BY <1>5 DEF Absorbs
  <2>3. p \in AllBlocks(h, A, U) /\ p \in Int /\ p < b
    <3>1. p \in AllBlocks(h, A, U)
      BY <2>1, <1>3
    <3>2. QED
      BY <3>1, <1>5, NextIsBlock DEF Rows
  <2>4. p < hi
    BY <2>3, <1>1
  <2>5. \A k \in K \ {p} : k < p \/ hi <= k
    <3>1. Outside(K, p, hi) = K \ {p, b}
      BY <1>1, <1>3, <1>5, <2>3, WithinTwo
    <3>2. b \notin K
      BY <1>3
    <3>3. QED
      BY <3>1, <3>2 DEF Outside
  <2>6. Merged(h.mem, K \ {p, hi})
    <3>1. K \ {p, hi} \subseteq K \ {hi}
      OBVIOUS
    <3>2. QED
      BY <3>1, <1>2 DEF Merged
  <2> DEFINE L == K \ {p, hi}
  <2>7. Merged(g.mem, L \ {hi})
    <3>1. L \subseteq AllBlocks(h, A, U) /\ \A k \in L : k < p \/ hi <= k
      BY <1>3, <2>5
    <3> HIDE DEF L, K, hi
    <3>2. Merged(h.mem, L)
      BY <2>6 DEF L
    <3>3. QED
      BY <3>1, <3>2, <1>1, <2>2, <2>3, <2>4, MergedAround
  <2>8. \A k \in K \ {p} : g.mem[k].size = h.mem[k].size
    <3>1. \A k \in K \ {p} : k \in Rows /\ (k < p \/ k = hi \/ hi < k)
      <4>1. \A k \in K : k \in Rows /\ k \in Int
        BY <1>3, HeapTypes DEF Rows
      <4>2. QED
        BY <4>1, <2>5, <1>1
    <3>2. QED
      BY <3>1, <2>2 DEF Frame
  <2>9. Apart(g.mem, K \ {p}) /\ Alone(g, p)
    <3>1. \A k \in K \ {p} : k + g.mem[k].size \notin K
      BY <2>8, <1>2 DEF Apart
    <3>2. QED
      BY <3>1, <2>1, <2>2 DEF Apart, Alone
  <2>10. L \ {hi} = (K \ {p}) \ {hi}
    OBVIOUS
  <2>11. Loosened(g, p)
    BY <2>2, <2>7, <2>9, <2>10 DEF Loosened
  <2> DEFINE V == (U \cup {p}) \ {b}
  <2>12. HeapOK(g, A, V) /\ p \in V
    BY <1>5, <2>2
  <2> HIDE DEF V
  <2>13. QED
    BY <2>9, <2>11, <2>12
<1> HIDE DEF Result
<1>6. QED
  BY <1>4, <1>5, MergePrevOK

\* ... and the block after it.
LEMMA MergeNextTidy ==
    ASSUME NEW h, NEW A, NEW U, HeapOK(h, A, U), NEW b \in U, Loosened(h, b), Alone(h, b),
           ~MergeNext(h, b).wild
    PROVE  LET g == MergeNext(h, b) IN
           /\ \E V : HeapOK(g, A, V) /\ b \in V
           /\ Joinable(g, b)
<1> DEFINE g == MergeNext(h, b)
           K == InFree(h)
           q == NextBlock(h, b)
           Result == (\E V : HeapOK(g, A, V) /\ b \in V) /\ Joinable(g, b)
<1>0. SUFFICES Result
  OBVIOUS
<1>1. /\ b \in AllBlocks(h, A, U) /\ b \in Int /\ q \in Int /\ b < q
      /\ q \in AllBlocks(h, A, U) \cup {h.end - 1}
  BY UnlistedOne
<1>2. /\ Merged(h.mem, K \ {q}) /\ Apart(h.mem, K)
      /\ h.mem[q - 1] = h.mem[b] /\ (h.mem[q].alloc => ~h.mem[q].prev)
  BY DEF Loosened
<1>3. /\ K \subseteq AllBlocks(h, A, U) /\ K \cap U = {}
      /\ \A k \in K : ~h.mem[k].alloc
  BY DEF HeapOK, Kinds, AllBlocks, Sound, FreeTags
<1>4. CASE h.mem[q].alloc /\ g = h
  <2>1. q \notin K /\ K \ {q} = K
    BY <1>3, <1>4
  <2>2. Joinable(h, b)
    BY <2>1, <1>2, <1>4 DEF Joinable
  <2>3. QED
    BY <1>4, <2>2
<1>5. CASE q \in U \cup K /\ q # b /\ Absorbs(h, g, A, U, b, q, q)
  <2> DEFINE hi == NextBlock(h, q)
  <2>0. ~g.wild
    OBVIOUS
  <2> HIDE DEF g
  <2>1. q \in K
    BY <2>0, <1>5 DEF Absorbs
  <2>2. /\ HeapOK(g, A, (U \cup {q}) \ {q}) /\ InFree(g) = K \ {q}
        /\ Frame(h.mem, g.mem, b, hi) /\ NextBlock(g, b) = hi
        /\ g.mem[b].prev = h.mem[b].prev /\ g.mem[hi - 1] = g.mem[b] /\ ~g.mem[hi].prev
    BY <1>5 DEF Absorbs
  <2>3. q \in AllBlocks(h, A, U) /\ hi \in AllBlocks(h, A, U) \cup {h.end - 1}
        /\ hi \in Int /\ q < hi
    <3>1. q \in AllBlocks(h, A, U)
      BY <2>1, <1>3
    <3>2. QED
      BY <3>1, NextIsBlock DEF Rows
  <2>4. b < hi
    BY <2>3, <1>1
  <2>5. \A k \in K \ {q} : k < b \/ hi <= k
    <3>1. Outside(K, b, hi) = K \ {b, q}
      BY <1>1, <1>3, <2>3, WithinTwo
    <3>2. b \notin K
      BY <1>3
    <3>3. QED
      BY <3>1, <3>2 DEF Outside
  <2>6. hi \notin K
    BY <2>1, <1>2 DEF Apart, NextBlock, Size
  <2> DEFINE L == K \ {q}
  <2>7. Merged(g.mem, L \ {hi}) /\ \A k \in L : g.mem[k].size = h.mem[k].size
    <3>1. L \subseteq AllBlocks(h, A, U) /\ \A k \in L : k < b \/ hi <= k
      BY <1>3, <2>5
    <3>2. Merged(h.mem, L)
      BY <1>2
    <3> HIDE DEF L, K, hi, q
    <3>3. Merged(g.mem, L \ {hi})
      BY <3>1, <3>2, <1>1, <2>2, <2>3, <2>4, MergedAround
    <3>4. SameSizes(h.mem, g.mem, L)
      BY <3>1, <3>2, <1>1, <2>2, <2>3, <2>4, MergedAround
    <3>5. QED
      BY <3>3, <3>4 DEF SameSizes
  <2>8. L \ {hi} = L /\ InFree(g) = L
    BY <2>2, <2>6
  <2>9. Alone(g, b)
    BY <2>7, <2>8 DEF Alone
  <2>10. Joinable(g, b)
    BY <2>2, <2>6, <2>7, <2>8, <2>9 DEF Joinable
  <2> DEFINE V == (U \cup {q}) \ {q}
  <2>11. HeapOK(g, A, V) /\ b \in V
    BY <1>5, <2>2
  <2> HIDE DEF V
  <2>12. QED
    BY <2>10, <2>11
<1> HIDE DEF Result
<1>6. QED
  BY <1>4, <1>5, MergeNextOK

\* The headers are what they were, and so are the footers of K.
LEMMA MergedRows ==
    ASSUME NEW h, NEW A, NEW U, HeapOK(h, A, U), NEW K, K \subseteq AllBlocks(h, A, U),
           Merged(h.mem, K), NEW g, SameRows(h, g, AllBlocks(h, A, U) \cup {h.end - 1}),
           \A k \in K : g.mem[NextBlock(h, k) - 1] = h.mem[NextBlock(h, k) - 1]
    PROVE  Merged(g.mem, K)
<1>1. ASSUME NEW k \in K
      PROVE  LET next == k + g.mem[k].size IN
             g.mem[next - 1] = g.mem[k] /\ ~g.mem[next].prev /\ next \notin K
  <2> DEFINE next == NextBlock(h, k)
  <2>1. next \in AllBlocks(h, A, U) \cup {h.end - 1} /\ k \in AllBlocks(h, A, U)
    BY NextIsBlock
  <2>2. g.mem[k] = h.mem[k] /\ g.mem[next] = h.mem[next]
    BY <2>1 DEF SameRows
  <2>3. g.mem[next - 1] = h.mem[next - 1]
    OBVIOUS
  <2>4. h.mem[next - 1] = h.mem[k] /\ ~h.mem[next].prev /\ next \notin K
    BY DEF Merged, NextBlock, Size
  <2>5. k + g.mem[k].size = next
    BY <2>2 DEF NextBlock, Size
  <2> HIDE DEF next
  <2>6. QED
    BY <2>2, <2>3, <2>4, <2>5
<1>2. QED
  BY <1>1 DEF Merged

\* A block that can join the free blocks does.
LEMMA InsertTidy ==
    ASSUME NEW h, NEW A, NEW U, HeapOK(h, A, U), NEW b \in U, Joinable(h, b)
    PROVE  Merged(Insert(h, b).mem, InFree(Insert(h, b)))
<1> DEFINE g == Insert(h, b)
           K == InFree(h)
           L == K \cup {b}
<1>1. /\ InFree(g) = L
      /\ SameRows(h, g, AllBlocks(h, A, U) \cup {h.end - 1})
      /\ SameRows(h, g, Outside(Rows, b + 1, NextBlock(h, b) - 1))
  BY InsertOK
<1>2. L \subseteq AllBlocks(h, A, U) /\ b \in AllBlocks(h, A, U)
  BY DEF AllBlocks
<1>3. Merged(h.mem, L)
  <2>1. ASSUME NEW k \in L
        PROVE  LET next == k + h.mem[k].size IN
               h.mem[next - 1] = h.mem[k] /\ ~h.mem[next].prev /\ next \notin L
    <3>1. CASE k \in K
      BY <3>1 DEF Joinable, Merged, Alone
    <3>2. CASE k = b
      <4>1. NextBlock(h, b) # b /\ b + h.mem[b].size = NextBlock(h, b)
        BY <1>2, NextIsBlock DEF NextBlock, Size, Rows
      <4>2. QED
        BY <3>2, <4>1 DEF Joinable
    <3>3. QED
      BY <3>1, <3>2
  <2>2. QED
    BY <2>1 DEF Merged
<1> HIDE DEF g
<1>4. ASSUME NEW k \in L
      PROVE  g.mem[NextBlock(h, k) - 1] = h.mem[NextBlock(h, k) - 1]
  <2> DEFINE x == NextBlock(h, k)
             y == NextBlock(h, b)
  <2>1. /\ k \in Int /\ M <= k /\ x \in Rows /\ x \in Int /\ k < x /\ x = k + Size(h, k)
        /\ b \in Int /\ y \in Int /\ b < y /\ y = b + Size(h, b)
    BY <1>2, NextIsBlock DEF Rows
  <2>2. k # b => x <= b \/ y <= k
    BY <1>2, <2>1, BlocksApart
  <2> HIDE DEF x, y
  <2>3. x - 1 < b + 1 \/ y - 1 <= x - 1
    <3>1. k = b => x = y
      BY DEF x, y
    <3>2. QED
      BY <2>1, <2>2, <3>1
  <2>4. x - 1 \in Rows
    <3>1. PAGE * MaxPages \in Nat
      BY SizeAssumption
    <3>2. QED
      BY <2>1, <3>1 DEF Rows
  <2>5. x - 1 \in Outside(Rows, b + 1, y - 1)
    BY <2>3, <2>4 DEF Outside
  <2>6. QED
    BY <1>1, <2>5 DEF SameRows, x, y
<1> HIDE DEF L
<1>5. Merged(g.mem, L)
  BY <1>1, <1>2, <1>3, <1>4, MergedRows
<1>6. QED
  BY <1>1, <1>5 DEF g

\* A free block is merged with both neighbours before it is listed.
LEMMA RejoinTidy ==
    ASSUME NEW h, NEW A, NEW U, HeapOK(h, A, U), NEW b \in U,
           ~Rejoin(h, b).wild, Loosened(h, b)
    PROVE  Merged(Rejoin(h, b).mem, InFree(Rejoin(h, b)))
<1> DEFINE p == PrevBlock(h, b)
           h1 == MergePrev(h, b)
           h2 == MergeNext(h1, p)
           g == Insert(h2, p)
<1>1. g = Rejoin(h, b)
  BY DEF Rejoin
<1>2. \E V : HeapOK(h1, A, V) /\ p \in V
  <2>1. CASE p = b /\ h1 = h
    BY <2>1
  <2>2. CASE p # b /\ Absorbs(h, h1, A, U, p, b, p)
    <3> HIDE DEF p, h1
    <3> DEFINE V == (U \cup {p}) \ {b}
    <3>1. HeapOK(h1, A, V) /\ p \in V
      BY <2>2 DEF Absorbs
    <3> HIDE DEF V
    <3>2. QED
      BY <3>1
  <2>3. QED
    BY <2>1, <2>2, MergePrevOK
<1>3. PICK V : HeapOK(h1, A, V) /\ p \in V
  BY <1>2
<1> HIDE DEF h1, p
<1>4. /\ \E W : HeapOK(h2, A, W) /\ p \in W
      /\ h1.wild => h2.wild
  <2> DEFINE q == NextBlock(h1, p)
  <2>1. CASE h2 = h1
    BY <2>1, <1>3
  <2>2. CASE q # p /\ Absorbs(h1, h2, A, V, p, q, q)
    <3> HIDE DEF q, h2
    <3> DEFINE W == (V \cup {q}) \ {q}
    <3>1. HeapOK(h2, A, W) /\ p \in W
      BY <2>2, <1>3 DEF Absorbs
    <3> HIDE DEF W
    <3>2. QED
      BY <2>2, <3>1 DEF Absorbs, Keeps
  <2>3. QED
    BY <2>1, <2>2, <1>3, MergeNextOK
<1>5. PICK W : HeapOK(h2, A, W) /\ p \in W
  BY <1>4
<1>6. ~h2.wild
  <2> HIDE DEF h2
  <2>1. g.wild = h2.wild
    <3>1. SameRest(h2, Insert(h2, p))
      BY <1>5, InsertOK
    <3>2. QED
      BY <3>1 DEF SameRest
  <2>2. QED
    BY <1>1, <2>1
<1>7. ~h1.wild
  BY <1>4, <1>6
<1>8. Loosened(h1, p) /\ Alone(h1, p)
  <2>1. ~MergePrev(h, b).wild
    BY <1>7 DEF h1
  <2>2. QED
    BY <2>1, MergePrevTidy DEF h1, p
<1>9. Joinable(h2, p)
  BY <1>3, <1>6, <1>8, MergeNextTidy
<1> HIDE DEF h2
<1>10. Merged(g.mem, InFree(g))
  BY <1>5, <1>9, InsertTidy
<1>11. QED
  BY <1>1, <1>10

\* sf_free leaves the free blocks merged.
LEMMA ReleaseTidy ==
    ASSUME NEW h, NEW A, NEW U, HeapOK(h, A, U), NEW b \in A, Tidy(h)
    PROVE  Tidy(Release(h, b))
<1> DEFINE g == MarkFree(h, b)
           k == Release(h, b)
           K == InFree(h)
           hi == NextBlock(h, b)
<1>1. k = Rejoin(g, b)
  BY DEF Release, Rejoin
<1>2. /\ HeapOK(g, A \ {b}, U \cup {b}) /\ SameLists(h, g)
      /\ Frame(h.mem, g.mem, b, hi)
      /\ NextBlock(g, b) = hi /\ g.mem[b].prev = h.mem[b].prev
      /\ g.mem[hi - 1] = g.mem[b] /\ ~g.mem[hi].prev
  BY MarkFreeOK
<1>3. \E V : Frees(h, k, A \ {b}, U, V)
  BY ReleaseOK
<1>4. (h.wild => k.wild) /\ k.stale = h.stale
  BY <1>3 DEF Frees, Keeps
<1>5. SUFFICES ASSUME ~k.wild, ~k.stale PROVE Merged(k.mem, InFree(k))
  BY DEF Tidy
<1>6. Merged(h.mem, K)
  BY <1>4, <1>5 DEF Tidy
<1>7. K \subseteq AllBlocks(h, A, U) /\ InFree(g) = K
  BY <1>2 DEF AllBlocks, InFree, SameLists
<1>8. /\ b \in AllBlocks(h, A, U) /\ hi \in AllBlocks(h, A, U) \cup {h.end - 1} /\ b < hi
      /\ \A c \in K : c < b \/ hi <= c
  <2>1. b \in A \cup U
    OBVIOUS
  <2>2. QED
    BY <2>1, UnlistedOne
<1> HIDE DEF g, k, hi, K
<1>9. Merged(g.mem, K \ {hi}) /\ SameSizes(h.mem, g.mem, K)
  BY <1>2, <1>6, <1>7, <1>8, MergedAround
<1>10. Apart(g.mem, K)
  BY <1>6, <1>9 DEF Merged, Apart, SameSizes
<1>11. Loosened(g, b)
  BY <1>2, <1>7, <1>9, <1>10 DEF Loosened
<1>12. b \in U \cup {b} /\ ~Rejoin(g, b).wild
  BY <1>1, <1>5
<1>13. Merged(Rejoin(g, b).mem, InFree(Rejoin(g, b)))
  BY <1>2, <1>11, <1>12, RejoinTidy
<1>14. QED
  BY <1>1, <1>13

\* The first block b of a quick list is taken from it.
Takes(h, t, A, U, q, b) ==
    /\ HeapOK(t, A \cup {b}, U) /\ b \notin A /\ b \in AllBlocks(h, A, U)
    /\ h.mem[b].inq /\ Size(h, b) = q + M
    /\ t.mem = h.mem /\ Keeps(h, t, A) /\ t.stale = h.stale /\ t.wild = h.wild
    /\ InFree(t) = InFree(h)
    /\ Len(t.quick[q]) = Len(h.quick[q]) - 1

\* Taking the head of a quick list keeps the heap sound; the block is in the caller's hands.
LEMMA TakeQuickOK ==
    ASSUME NEW h, NEW A, NEW U, HeapOK(h, A, U), NEW q \in QuickLists, h.quick[q] # << >>
    PROVE  Takes(h, TakeQuick(h, q), A, U, q, Head(h.quick[q]))
<1> DEFINE t == TakeQuick(h, q)
           s == h.quick[q]
           b == Head(s)
<1>1. /\ h \in Heaps /\ Lists(h) /\ Kinds(h, A, U) /\ s \in Seq(Rows)
  BY HeapTypes DEF HeapOK
<1>2. IsInjective(s) /\ \A c \in Range(s) : h.mem[c].inq /\ Size(h, c) = q + M
  BY <1>1 DEF Lists, QuickListOK
<1>3. /\ Tail(s) \in Seq(Rows) /\ Len(Tail(s)) = Len(s) - 1
      /\ b \in Rows /\ Range(s) = Range(Tail(s)) \cup {b}
      /\ IsInjective(Tail(s)) /\ b \notin Range(Tail(s))
  BY <1>1, <1>2, FirstTaken
<1>4. h.mem[b].inq /\ Size(h, b) = q + M
  BY <1>2, <1>3
<1>5. /\ t \in Heaps /\ t.mem = h.mem /\ t.free = h.free /\ t.end = h.end
      /\ t.lost = h.lost /\ t.wild = h.wild /\ t.stale = h.stale
      /\ t.quick[q] = Tail(s) /\ \A i \in QuickLists : i # q => t.quick[i] = h.quick[i]
  BY <1>1, <1>3 DEF Heaps, TakeQuick
<1>6. /\ Len(s) \in Nat
  BY <1>1
<1> HIDE DEF t, b, s
<1>7. InFree(t) = InFree(h)
  BY <1>5 DEF InFree
<1>8. \A i \in QuickLists : i # q => b \notin Range(h.quick[i])
  <2>1. SUFFICES ASSUME NEW i \in QuickLists, i # q, b \in Range(h.quick[i])
                 PROVE  FALSE
    OBVIOUS
  <2>2. Size(h, b) = i + M
    BY <1>1, <2>1 DEF Lists, QuickListOK
  <2>3. i \in Int /\ q \in Int
    BY DEF QuickLists
  <2>4. QED
    BY <1>4, <2>1, <2>2, <2>3
<1>9. InQuick(t) = InQuick(h) \ {b} /\ b \in InQuick(h)
  <2>1. \A i \in QuickLists : Range(t.quick[i]) = Range(h.quick[i]) \ {b}
    <3>1. SUFFICES ASSUME NEW i \in QuickLists
                   PROVE  Range(t.quick[i]) = Range(h.quick[i]) \ {b}
      OBVIOUS
    <3>2. CASE i = q
      BY <3>2, <1>3, <1>5 DEF s
    <3>3. CASE i # q
      BY <3>3, <1>5, <1>8
    <3>4. QED
      BY <3>2, <3>3
  <2>2. b \in Range(h.quick[q])
    BY <1>3 DEF s
  <2>3. ASSUME NEW c PROVE c \in InQuick(t) <=> c \in InQuick(h) /\ c # b
    <3>1. c \in InQuick(t) <=> \E i \in QuickLists : c \in Range(t.quick[i])
      BY DEF InQuick
    <3>2. c \in InQuick(h) <=> \E i \in QuickLists : c \in Range(h.quick[i])
      BY DEF InQuick
    <3>3. QED
      BY <2>1, <3>1, <3>2
  <2>4. b \in InQuick(h)
    BY <2>2 DEF InQuick
  <2>5. QED
    BY <2>3, <2>4
<1>10. Lists(t)
  <2>1. ASSUME NEW i \in FreeLists PROVE FreeListOK(t, i)
    BY <1>1, <1>5 DEF Lists, FreeListOK, Size
  <2>2. ASSUME NEW i \in QuickLists PROVE QuickListOK(t, i)
    <3>1. QuickListOK(h, i)
      BY <1>1 DEF Lists
    <3>2. CASE i # q
      BY <3>1, <3>2, <1>5 DEF QuickListOK, Size
    <3>3. CASE i = q
      <4>1. Len(Tail(s)) <= QUICK_LIST_MAX
        BY <3>1, <3>3, <1>3, <1>6, SizeAssumption DEF QuickListOK, s
      <4>2. \A c \in Range(Tail(s)) : t.mem[c].inq /\ Size(t, c) = q + M
        BY <1>2, <1>3, <1>5 DEF Size
      <4>3. QED
        BY <3>3, <4>1, <4>2, <1>3, <1>5 DEF QuickListOK
    <3>4. QED
      BY <3>2, <3>3
  <2>3. QED
    BY <2>1, <2>2 DEF Lists
<1>11. b \notin A /\ b \notin U /\ b \notin InFree(h)
  BY <1>1, <1>9 DEF Kinds
<1>12. HeapOK(t, A \cup {b}, U)
  <2>1. Kinds(t, A \cup {b}, U)
    BY <1>1, <1>7, <1>9, <1>11 DEF Kinds
  <2>2. (A \cup {b}) \cup InQuick(t) = A \cup InQuick(h) /\ U \cup InFree(t) = U \cup InFree(h)
    BY <1>7, <1>9
  <2>3. QED
    BY <1>5, <1>10, <2>1, <2>2, ListsChanged
<1>13. Keeps(h, t, A) /\ b \in AllBlocks(h, A, U) /\ Len(t.quick[q]) = Len(s) - 1
  BY <1>3, <1>5, <1>9 DEF Keeps, Spares, Size, AllBlocks
<1>14. Takes(h, t, A, U, q, b)
  BY <1>4, <1>5, <1>7, <1>11, <1>12, <1>13 DEF Takes, s
<1>15. QED
  BY <1>14 DEF t, b, s

\* Two blocks are freed, one after the other.
LEMMA FreesTwice ==
    ASSUME NEW h, NEW g, NEW k, NEW A, NEW U, NEW V, NEW W,
           Frees(h, g, A, U, V), Frees(g, k, A, V, W)
    PROVE  Frees(h, k, A, U, W)
<1>1. Keeps(h, k, A)
  BY KeepsTwice DEF Frees
<1>2. g.wild => k.wild
  BY DEF Frees, Keeps
<1>3. QED
  BY <1>1, <1>2 DEF Frees

\* One round of the flush.
LEMMA FlushFirstOK ==
    ASSUME NEW h, NEW A, NEW U, HeapOK(h, A, U), NEW q \in QuickLists, h.quick[q] # << >>
    PROVE  LET g == FlushFirst(h, q) IN
           /\ \E V : Frees(h, g, A, U, V)
           /\ Len(g.quick[q]) = Len(h.quick[q]) - 1
           /\ Tidy(h) => Tidy(g)
<1> DEFINE t == TakeQuick(h, q)
           b == Head(h.quick[q])
           g == Release(t, b)
<1>1. /\ HeapOK(t, A \cup {b}, U) /\ b \notin A
      /\ Keeps(h, t, A) /\ t.stale = h.stale
      /\ Len(t.quick[q]) = Len(h.quick[q]) - 1
      /\ Tidy(h) => Tidy(t)
  <2>1. Takes(h, t, A, U, q, b)
    BY TakeQuickOK
  <2>2. QED
    BY <2>1 DEF Takes, Tidy
<1>2. g = FlushFirst(h, q) /\ g = Release(t, b)
  BY DEF FlushFirst
<1> HIDE DEF t, b
<1>3. b \in A \cup {b} /\ (A \cup {b}) \ {b} = A
  BY <1>1
<1>4. (\E V : Frees(t, g, A, U, V)) /\ g.quick = t.quick
  <2>1. (\E V : Frees(t, Release(t, b), (A \cup {b}) \ {b}, U, V)) /\ Release(t, b).quick = t.quick
    BY <1>1, <1>3, ReleaseOK
  <2>2. QED
    BY <1>3, <2>1
<1> HIDE DEF g
<1>5. PICK V : Frees(t, g, A, U, V)
  BY <1>4
<1>6. Keeps(h, g, A)
  <2>1. A \subseteq A /\ Keeps(t, g, A)
    BY <1>5 DEF Frees
  <2>2. QED
    BY <1>1, <2>1, KeepsTwice
<1>7. Frees(h, g, A, U, V) /\ Len(g.quick[q]) = Len(h.quick[q]) - 1
  BY <1>1, <1>4, <1>5, <1>6 DEF Frees
<1>8. Tidy(t) => Tidy(Release(t, b))
  BY <1>1, <1>3, ReleaseTidy
<1>9. QED
  BY <1>1, <1>2, <1>7, <1>8

\* The rounds of a flush have a table.
Rounds(f, N, h, q) == f = [n \in N |-> IF n = 0 THEN h ELSE FlushFirst(f[n - 1], q)]

\* The table starts at h, and every round frees the next block.
LEMMA RoundsUnfold ==
    ASSUME NEW f, NEW n \in Nat, NEW h, NEW q, Rounds(f, 0..n, h, q)
    PROVE  /\ f[0] = h
           /\ \A i \in 1..n : f[i] = FlushFirst(f[i - 1], q)
BY DEF Rounds

\* There is such a table for any number of rounds.
LEMMA RoundsExist ==
    ASSUME NEW h, NEW q, NEW n \in Nat
    PROVE  \E f : Rounds(f, 0..n, h, q)
<1> DEFINE Bad == {k \in Nat : ~ \E f : Rounds(f, 0..k, h, q)}
<1>1. SUFFICES ASSUME Bad # {} PROVE FALSE
  OBVIOUS
<1>2. PICK k \in Bad : \A i \in Bad : k <= i
  <2>1. Bad \in SUBSET Nat
    OBVIOUS
  <2> HIDE DEF Bad
  <2>2. QED
    BY <1>1, <2>1, LeastExists
<1>3. k # 0
  <2> DEFINE f == [i \in 0..0 |-> h]
  <2>1. f = [i \in 0..0 |-> IF i = 0 THEN h ELSE FlushFirst(f[i - 1], q)]
    OBVIOUS
  <2> HIDE DEF f
  <2>2. Rounds(f, 0..0, h, q)
    BY <2>1 DEF Rounds
  <2>3. QED
    BY <2>2
<1>4. k - 1 \in Nat /\ k - 1 \notin Bad
  BY <1>2, <1>3
<1>5. PICK f : Rounds(f, 0..(k - 1), h, q)
  BY <1>4
<1>6. f[0] = h /\ \A i \in 1..(k - 1) : f[i] = FlushFirst(f[i - 1], q)
  BY <1>4, <1>5, RoundsUnfold
<1> DEFINE g == [i \in 0..k |-> IF i = k THEN FlushFirst(f[k - 1], q) ELSE f[i]]
<1>7. ASSUME NEW i \in 0..k
      PROVE  g[i] = IF i = 0 THEN h ELSE FlushFirst(g[i - 1], q)
  <2>1. CASE i = 0
    BY <2>1, <1>3, <1>6
  <2>2. CASE i = k
    <3>1. g[i - 1] = f[k - 1] /\ g[i] = FlushFirst(f[k - 1], q)
      BY <2>2, <1>2, <1>4
    <3>2. QED
      BY <2>2, <3>1, <1>3
  <2>3. CASE i \in 1..(k - 1)
    <3>1. g[i - 1] = f[i - 1] /\ g[i] = f[i]
      BY <2>3, <1>2
    <3>2. QED
      BY <2>3, <3>1, <1>6
  <2>4. QED
    BY <2>1, <2>2, <2>3, <1>2
<1>8. g = [i \in 0..k |-> IF i = 0 THEN h ELSE FlushFirst(g[i - 1], q)]
  <2>1. DOMAIN g = 0..k /\ g = [i \in 0..k |-> g[i]]
    OBVIOUS
  <2> HIDE DEF g
  <2>2. QED
    BY <2>1, <1>7
<1> HIDE DEF g
<1>9. Rounds(g, 0..k, h, q)
  BY <1>8 DEF Rounds
<1>10. QED
  BY <1>9

\* Two such tables agree.
LEMMA RoundsAgree ==
    ASSUME NEW h, NEW q, NEW n \in Nat, NEW k \in Nat, NEW f, NEW g,
           Rounds(f, 0..n, h, q), Rounds(g, 0..k, h, q), NEW i \in Nat, i <= n, i <= k
    PROVE  f[i] = g[i]
<1> DEFINE Bad == {j \in Nat : j <= n /\ j <= k /\ f[j] # g[j]}
<1>1. SUFFICES ASSUME Bad # {} PROVE FALSE
  OBVIOUS
<1>2. PICK j \in Bad : \A x \in Bad : j <= x
  <2>1. Bad \in SUBSET Nat
    OBVIOUS
  <2> HIDE DEF Bad
  <2>2. QED
    BY <1>1, <2>1, LeastExists
<1>3. /\ f[0] = h /\ g[0] = h
      /\ \A x \in 1..n : f[x] = FlushFirst(f[x - 1], q)
      /\ \A x \in 1..k : g[x] = FlushFirst(g[x - 1], q)
  BY RoundsUnfold
<1>4. j # 0
  BY <1>2, <1>3
<1>5. j - 1 \in Nat /\ j - 1 \notin Bad
  BY <1>2, <1>4
<1>6. f[j - 1] = g[j - 1]
  BY <1>2, <1>5
<1>7. j \in 1..n /\ j \in 1..k
  BY <1>2, <1>4
<1>8. QED
  BY <1>2, <1>3, <1>6, <1>7

\* A flush frees the blocks one after the other.
LEMMA FlushUnfold ==
    ASSUME NEW h, NEW q
    PROVE  \E f : /\ f[0] = h
                  /\ \A n \in Nat : f[n + 1] = FlushFirst(f[n], q)
                  /\ Flush(h, q) = f[Len(h.quick[q])]
<1> DEFINE Table(n) == CHOOSE f : Rounds(f, 0..n, h, q)
           t == [n \in Nat |-> Table(n)[n]]
<1>1. \A n \in Nat : Rounds(Table(n), 0..n, h, q)
  BY RoundsExist
<1> HIDE DEF Table
<1>2. t[0] = h
  BY <1>1, 0 \in Nat, RoundsUnfold
<1>3. ASSUME NEW n \in Nat
      PROVE  t[n + 1] = FlushFirst(t[n], q)
  <2>1. n + 1 \in Nat /\ n + 1 \in 1..(n + 1) /\ (n + 1) - 1 = n
    OBVIOUS
  <2>2. Rounds(Table(n), 0..n, h, q) /\ Rounds(Table(n + 1), 0..(n + 1), h, q)
    BY <1>1, <2>1
  <2>3. Table(n + 1)[n + 1] = FlushFirst(Table(n + 1)[n], q)
    BY <2>1, <2>2, RoundsUnfold
  <2>4. n <= n /\ n <= n + 1
    OBVIOUS
  <2>5. Table(n)[n] = Table(n + 1)[n]
    BY <2>1, <2>2, <2>4, RoundsAgree
  <2>6. QED
    BY <2>1, <2>3, <2>5
<1>4. Rounds(t, Nat, h, q)
  <2>1. t = [n \in Nat |-> t[n]]
    OBVIOUS
  <2> HIDE DEF t
  <2>2. \A n \in Nat : t[n] = IF n = 0 THEN h ELSE FlushFirst(t[n - 1], q)
    <3>1. \A n \in Nat : n # 0 => n - 1 \in Nat /\ (n - 1) + 1 = n
      OBVIOUS
    <3>2. QED
      BY <1>2, <1>3, <3>1
  <2>3. QED
    BY <2>1, <2>2 DEF Rounds
<1> HIDE DEF t
<1> DEFINE f == CHOOSE x : Rounds(x, Nat, h, q)
<1>5. Flush(h, q) = f[Len(h.quick[q])]
  BY DEF Flush, Rounds
<1>6. Rounds(f, Nat, h, q)
  BY <1>4
<1> HIDE DEF f
<1>7. f[0] = h /\ \A n \in Nat : f[n + 1] = FlushFirst(f[n], q)
  <2>1. \A n \in Nat : n + 1 \in Nat /\ n + 1 # 0 /\ (n + 1) - 1 = n
    OBVIOUS
  <2>2. \A n \in Nat : f[n] = IF n = 0 THEN h ELSE FlushFirst(f[n - 1], q)
    BY <1>6 DEF Rounds
  <2>3. QED
    BY <2>1, <2>2
<1>8. QED
  BY <1>5, <1>7

\* After a flush the quick list is empty.
LEMMA FlushOK ==
    ASSUME NEW h, NEW A, NEW U, HeapOK(h, A, U), NEW q \in QuickLists
    PROVE  LET g == Flush(h, q) IN
           /\ \E V : Frees(h, g, A, U, V)
           /\ Len(g.quick[q]) = 0
           /\ Tidy(h) => Tidy(g)
<1> DEFINE len == Len(h.quick[q])
<1>1. PICK f : /\ f[0] = h
               /\ \A n \in Nat : f[n + 1] = FlushFirst(f[n], q)
               /\ Flush(h, q) = f[len]
  BY FlushUnfold
<1>2. h.quick[q] \in Seq(Rows) /\ len \in Nat
  BY HeapTypes
<1> DEFINE Good(n) == /\ \E V : Frees(h, f[n], A, U, V)
                      /\ Len(f[n].quick[q]) = len - n
                      /\ Tidy(h) => Tidy(f[n])
           Bad == {n \in 0..len : ~Good(n)}
<1> HIDE DEF len
<1>3. SUFFICES ASSUME Bad # {} PROVE FALSE
  <2>1. len \in 0..len
    BY <1>2
  <2>2. ASSUME Good(len)
        PROVE  /\ \E V : Frees(h, Flush(h, q), A, U, V)
               /\ Len(Flush(h, q).quick[q]) = 0
               /\ Tidy(h) => Tidy(Flush(h, q))
    BY <1>1, <1>2, <2>2
  <2>3. QED
    BY <2>1, <2>2
<1>4. PICK n \in Bad : \A i \in Bad : n <= i
  <2>1. Bad \in SUBSET Nat
    BY <1>2
  <2> HIDE DEF Bad
  <2>2. QED
    BY <1>3, <2>1, LeastExists
<1>5. Good(0)
  <2>1. Frees(h, h, A, U, U)
    BY DEF Frees, Keeps, Spares
  <2>2. QED
    BY <1>1, <1>2, <2>1 DEF len
<1>6. n # 0 /\ n \in 0..len
  BY <1>4, <1>5
<1>7. n - 1 \in Nat /\ n - 1 \in 0..len /\ (n - 1) + 1 = n
  BY <1>2, <1>6
<1>8. Good(n - 1)
  BY <1>4, <1>7
<1> DEFINE g == f[n - 1]
<1>9. PICK V : Frees(h, g, A, U, V)
  BY <1>8
<1>10. Len(g.quick[q]) = len - (n - 1) /\ (Tidy(h) => Tidy(g))
  BY <1>8
<1>11. f[n] = FlushFirst(g, q)
  BY <1>1, <1>7
<1> HIDE DEF g
<1>12. HeapOK(g, A, V)
  BY <1>9 DEF Frees
<1>13. g.quick[q] # << >>
  BY <1>2, <1>6, <1>10
<1>14. PICK W : Frees(g, f[n], A, V, W)
  BY <1>11, <1>12, <1>13, FlushFirstOK
<1>15. Len(f[n].quick[q]) = Len(g.quick[q]) - 1 /\ (Tidy(g) => Tidy(f[n]))
  BY <1>11, <1>12, <1>13, FlushFirstOK
<1>16. Frees(h, f[n], A, U, W)
  BY <1>9, <1>14, FreesTwice
<1>17. Good(n)
  BY <1>2, <1>6, <1>10, <1>15, <1>16
<1>18. QED
  BY <1>4, <1>17

SameFlags(h, g) == g.wild = h.wild /\ g.stale = h.stale /\ g.free = h.free

\* A block is put into a quick list.
PutQuick(h, b, q) == [h EXCEPT !.quick[q] = <<b>> \o @, !.mem[b].inq = TRUE]

\* Putting a block into the quick list of its size keeps the heap sound.
LEMMA PutQuickOK ==
    ASSUME NEW h, NEW A, NEW U, HeapOK(h, A, U), NEW b \in A, NEW q \in QuickLists,
           Size(h, b) = q + M, Len(h.quick[q]) < QUICK_LIST_MAX
    PROVE  LET g == PutQuick(h, b, q) IN
           /\ HeapOK(g, A \ {b}, U) /\ Keeps(h, g, A \ {b}) /\ SameFlags(h, g)
           /\ SameRows(h, g, Rows \ {b}) /\ NextBlock(g, b) = NextBlock(h, b)
           /\ g.mem[b].prev = h.mem[b].prev
<1> DEFINE m == h.mem
           s == h.quick[q]
           hi == NextBlock(h, b)
           g == [h EXCEPT !.quick[q] = <<b>> \o @, !.mem[b].inq = TRUE]
           f == [h EXCEPT !.mem[b].inq = TRUE]
<1>0. g = PutQuick(h, b, q)
  BY DEF PutQuick
<1>1. /\ b \in AllBlocks(h, A, U) /\ b \in Rows /\ b \in Int /\ hi \in Int
      /\ hi \in AllBlocks(h, A, U) \cup {h.end - 1} /\ hi \in Rows
      /\ hi = b + m[b].size /\ M <= m[b].size /\ m[b].size \in Nat /\ b < hi
      /\ \A c \in InFree(h) \cup InQuick(h) : c < b \/ hi <= c
      /\ Outside(A, b, hi) = A \ {b} /\ Outside(U, b, hi) = U \ {b}
      /\ Outside(AllBlocks(h, A, U), b, hi) = AllBlocks(h, A, U) \ {b}
  BY UnlistedOne
<1>2. /\ h \in Heaps /\ s \in Seq(Rows) /\ Lists(h) /\ Kinds(h, A, U)
      /\ Sound(m, h.end, AllBlocks(h, A, U), U \cup InFree(h))
  BY HeapTypes DEF HeapOK
<1>3. m[hi].prev /\ m[b].alloc
  <2>1. b \notin U \cup InFree(h)
    BY <1>2 DEF Kinds
  <2>2. QED
    BY <2>1, <1>1, <1>2, BitOfNext DEF Sound
<1>4. IsInjective(s) /\ \A c \in Range(s) : m[c].inq /\ Size(h, c) = q + M
  BY <1>2 DEF Lists, QuickListOK
<1>5. b \notin InQuick(h) /\ b \notin Range(s)
  BY <1>2 DEF Kinds, InQuick
<1>6. /\ <<b>> \o s \in Seq(Rows) /\ Len(<<b>> \o s) = Len(s) + 1 /\ Len(s) \in Nat
      /\ Range(<<b>> \o s) = Range(s) \cup {b} /\ IsInjective(<<b>> \o s)
  BY <1>1, <1>2, <1>4, <1>5, FirstAdded
<1>7. /\ f \in Heaps /\ f.free = h.free /\ f.quick = h.quick /\ f.end = h.end
      /\ f.lost = h.lost /\ f.wild = h.wild /\ f.stale = h.stale
      /\ f.mem[b].size = m[b].size /\ f.mem[b].alloc = m[b].alloc
      /\ f.mem[b].prev = m[b].prev /\ f.mem[b].inq
      /\ \A r \in Rows : r # b => f.mem[r] = m[r]
      /\ f.mem[b] = [m[b] EXCEPT !.inq = TRUE]
  BY <1>1, <1>2 DEF Heaps, Tags
<1>8. /\ g \in Heaps /\ g.free = h.free /\ g.end = h.end
      /\ g.lost = h.lost /\ g.wild = h.wild /\ g.stale = h.stale /\ g.mem = f.mem
      /\ g.quick[q] = <<b>> \o s /\ \A i \in QuickLists : i # q => g.quick[i] = h.quick[i]
  <2>1. /\ g.free = h.free /\ g.end = h.end
        /\ g.lost = h.lost /\ g.wild = h.wild /\ g.stale = h.stale
    BY <1>2 DEF Heaps
  <2>2. g.mem = [m EXCEPT ![b].inq = TRUE] /\ f.mem = [m EXCEPT ![b].inq = TRUE]
    BY <1>2 DEF Heaps
  <2>3. g.quick = [h.quick EXCEPT ![q] = <<b>> \o s] /\ h.quick \in [QuickLists -> Seq(Rows)]
    BY <1>2 DEF Heaps
  <2>4. g.quick \in [QuickLists -> Seq(Rows)] /\ g.quick[q] = <<b>> \o s
        /\ \A i \in QuickLists : i # q => g.quick[i] = h.quick[i]
    BY <2>3, <1>6
  <2>5. g = [f EXCEPT !.quick = g.quick]
    BY <1>2, <2>2 DEF Heaps
  <2> HIDE DEF g, f
  <2>6. g \in Heaps
    BY <1>7, <2>4, <2>5 DEF Heaps
  <2>7. QED
    BY <2>1, <2>2, <2>4, <2>6
<1> HIDE DEF f, g, hi, s
<1>9. Frame(m, f.mem, b, hi)
  <2>1. \A r \in Rows : r < b \/ hi < r => r # b
    BY <1>1 DEF Rows
  <2>2. b # hi
    BY <1>1
  <2>3. QED
    BY <2>1, <2>2, <1>1, <1>7 DEF Frame
<1>10. Changed(h, f, A, U, b, hi)
  BY <1>1, <1>7, <1>9 DEF Changed
<1>11. f.mem[b].size = hi - b /\ M <= hi - b /\ f.mem[b].alloc /\ f.mem[hi].prev
  BY <1>1, <1>3, <1>7
<1>12. /\ HeapOK(f, Outside(A, b, hi) \cup {b}, Outside(U, b, hi))
       /\ Spares(h, f, Outside(AllBlocks(h, A, U), b, hi))
  BY <1>10, <1>11, OneAllocated
<1>13. Outside(A, b, hi) \cup {b} = A /\ Outside(U, b, hi) = U
  BY <1>1, <1>2 DEF Kinds
<1>14. HeapOK(f, A, U)
  BY <1>12, <1>13
<1>15. InFree(g) = InFree(f) /\ InFree(f) = InFree(h) /\ InQuick(f) = InQuick(h)
  BY <1>7, <1>8 DEF InFree, InQuick
<1>16. InQuick(g) = InQuick(h) \cup {b}
  <2>1. Range(g.quick[q]) = Range(h.quick[q]) \cup {b}
    BY <1>6, <1>8 DEF s
  <2>2. ASSUME NEW c PROVE c \in InQuick(g) <=> c \in InQuick(h) \/ c = b
    <3>1. c \in InQuick(g) <=> \E i \in QuickLists : c \in Range(g.quick[i])
      BY DEF InQuick
    <3>2. c \in InQuick(h) <=> \E i \in QuickLists : c \in Range(h.quick[i])
      BY DEF InQuick
    <3>3. QED
      BY <1>8, <2>1, <3>1, <3>2
  <2>3. QED
    BY <2>2
<1>17. Lists(g)
  <2>0. Lists(f)
    BY <1>14 DEF HeapOK
  <2>1. ASSUME NEW i \in FreeLists PROVE FreeListOK(g, i)
    BY <2>0, <1>7, <1>8 DEF Lists, FreeListOK, Size
  <2>2. ASSUME NEW i \in QuickLists PROVE QuickListOK(g, i)
    <3>1. QuickListOK(f, i)
      BY <2>0 DEF Lists
    <3>2. CASE i # q
      BY <3>1, <3>2, <1>7, <1>8 DEF QuickListOK, Size
    <3>3. CASE i = q
      <4>1. Len(<<b>> \o s) <= QUICK_LIST_MAX
        BY <1>6, SizeAssumption DEF s
      <4>2. \A c \in Range(s) : g.mem[c].inq /\ Size(g, c) = q + M
        BY <3>1, <3>3, <1>7, <1>8 DEF QuickListOK, Size, s
      <4>3. g.mem[b].inq /\ Size(g, b) = q + M
        BY <1>7, <1>8 DEF Size
      <4>4. QED
        BY <3>3, <4>1, <4>2, <4>3, <1>6, <1>8 DEF QuickListOK
    <3>4. QED
      BY <3>2, <3>3
  <2>3. QED
    BY <2>1, <2>2 DEF Lists
<1>18. HeapOK(g, A \ {b}, U)
  <2>1. Kinds(g, A \ {b}, U)
    BY <1>2, <1>15, <1>16 DEF Kinds
  <2>2. (A \ {b}) \cup InQuick(g) = A \cup InQuick(f) /\ U \cup InFree(g) = U \cup InFree(f)
    BY <1>15, <1>16
  <2>3. g.mem = f.mem /\ g.end = f.end
    BY <1>7, <1>8
  <2>4. QED
    BY <1>8, <1>14, <1>17, <2>1, <2>2, <2>3, ListsChanged
<1>19. Keeps(h, g, A \ {b})
  <2>1. A \ {b} \subseteq Outside(AllBlocks(h, A, U), b, hi)
    BY <1>1 DEF AllBlocks
  <2>2. QED
    BY <2>1, <1>8, <1>12 DEF Keeps, Spares, Size
<1>20. /\ SameFlags(h, g) /\ SameRows(h, g, Rows \ {b}) /\ NextBlock(g, b) = hi
       /\ g.mem[b].prev = h.mem[b].prev
  BY <1>1, <1>7, <1>8 DEF SameFlags, SameRows, NextBlock, Size
<1>21. QED
  BY <1>0, <1>18, <1>19, <1>20 DEF hi

\* ... where it changes nothing for the free blocks.
LEMMA PutQuickTidy ==
    ASSUME NEW h, NEW A, NEW U, HeapOK(h, A, U), NEW b \in A, NEW g, SameFlags(h, g),
           SameRows(h, g, Rows \ {b}), g.mem[b].prev = h.mem[b].prev
    PROVE  Tidy(h) => Tidy(g)
<1> DEFINE K == InFree(h)
           hi == NextBlock(h, b)
<1>1. SUFFICES ASSUME Merged(h.mem, K) PROVE Merged(g.mem, K)
  BY DEF Tidy, SameFlags, InFree
<1>2. /\ b \in AllBlocks(h, A, U) /\ b \in Rows /\ b \in Int /\ hi \in Int /\ b < hi
      /\ hi \in AllBlocks(h, A, U) \cup {h.end - 1} /\ hi \in Rows
      /\ \A k \in K : k < b \/ hi <= k
  BY UnlistedOne
<1>3. K \subseteq AllBlocks(h, A, U)
  BY DEF AllBlocks
<1> HIDE DEF K, hi
<1>4. /\ g.mem[hi] = h.mem[hi]
      /\ Frame(h.mem, g.mem, b, hi)
  <2>1. hi # b /\ \A r \in Rows : r < b \/ hi < r => r # b
    BY <1>2 DEF Rows
  <2>2. QED
    BY <2>1, <1>2 DEF SameRows, Frame
<1>5. Merged(g.mem, K)
  BY <1>1, <1>2, <1>3, <1>4, MergedInside
<1>6. QED
  BY <1>5

\* sf_free.
LEMMA FreedOK ==
    ASSUME NEW h, NEW A, NEW U, HeapOK(h, A, U), NEW b \in A
    PROVE  /\ \E V : Frees(h, Freed(h, b), A \ {b}, U, V)
           /\ Tidy(h) => Tidy(Freed(h, b))
<1> DEFINE q == Size(h, b) - M
           room == IF Len(h.quick[q]) = QUICK_LIST_MAX THEN Flush(h, q) ELSE h
           g == PutQuick(room, b, q)
<1>1. CASE q \notin QuickLists
  BY <1>1, ReleaseOK, ReleaseTidy DEF Freed
<1>2. CASE q \in QuickLists
  <2>1. Freed(h, b) = g
    BY <1>2 DEF Freed, PutQuick
  <2>2. b \in AllBlocks(h, A, U) /\ Size(h, b) \in Nat
    BY NextIsBlock DEF AllBlocks
  <2>3. q + M = Size(h, b)
    BY <2>2
  <2> HIDE DEF q
  <2>4. PICK V : /\ Frees(h, room, A, U, V) /\ Len(room.quick[q]) < QUICK_LIST_MAX
                 /\ Tidy(h) => Tidy(room)
    <3>1. CASE Len(h.quick[q]) = QUICK_LIST_MAX
      BY <1>2, <3>1, FlushOK, SizeAssumption
    <3>2. CASE Len(h.quick[q]) # QUICK_LIST_MAX
      <4>1. QuickListOK(h, q) /\ h.quick[q] \in Seq(Rows)
        BY <1>2, HeapTypes DEF HeapOK, Lists
      <4>2. Len(h.quick[q]) < QUICK_LIST_MAX
        BY <3>2, <4>1, SizeAssumption DEF QuickListOK
      <4>3. Frees(h, h, A, U, U)
        BY DEF Frees, Keeps, Spares
      <4>4. QED
        BY <3>2, <4>2, <4>3
    <3>3. QED
      BY <3>1, <3>2
  <2> HIDE DEF room
  <2>5. HeapOK(room, A, V) /\ Size(room, b) = q + M
    BY <2>3, <2>4 DEF Frees, Keeps, Spares
  <2>6. /\ HeapOK(g, A \ {b}, V) /\ Keeps(room, g, A \ {b}) /\ SameFlags(room, g)
        /\ SameRows(room, g, Rows \ {b}) /\ NextBlock(g, b) = NextBlock(room, b)
        /\ g.mem[b].prev = room.mem[b].prev
    BY <1>2, <2>4, <2>5, PutQuickOK
  <2> HIDE DEF g
  <2>7. Keeps(h, g, A \ {b})
    <3>1. A \ {b} \subseteq A /\ Keeps(h, room, A)
      BY <2>4 DEF Frees
    <3>2. QED
      BY <2>6, <3>1, KeepsTwice
  <2>8. Frees(h, g, A \ {b}, U, V)
    BY <2>4, <2>6, <2>7 DEF Frees, SameFlags
  <2>9. Tidy(room) => Tidy(g)
    BY <2>5, <2>6, PutQuickTidy
  <2>10. QED
    BY <2>1, <2>4, <2>8, <2>9
<1>3. QED
  BY <1>1, <1>2

\* An allocated block b, up to the row mid, and a free one after it.
Divides(h, g, A, U, b, mid) ==
    /\ HeapOK(g, A \cup {b}, (U \ {b}) \cup {mid})
    /\ mid \notin AllBlocks(h, A, U)
    /\ SameLists(h, g) /\ Spares(h, g, AllBlocks(h, A, U) \ {b})
    /\ Frame(h.mem, g.mem, b, NextBlock(h, b)) /\ SameRows(h, g, {NextBlock(h, b)})
    /\ NextBlock(g, b) = mid /\ ~g.mem[b].inq /\ g.mem[b].prev = h.mem[b].prev
    /\ NextBlock(g, mid) = NextBlock(h, b) /\ g.mem[mid].prev
    /\ g.mem[NextBlock(h, b) - 1] = g.mem[mid]

\* Cutting a block in two keeps the heap sound.
LEMMA SplitOK ==
    ASSUME NEW h, NEW A, NEW U, HeapOK(h, A, U), NEW b \in A \cup U,
           NEW size \in Nat, NEW rest \in Nat, M <= size, M <= rest, Size(h, b) = size + rest
    PROVE  Divides(h, Split(Put(h, b, Tag(size, TRUE, h.mem[b].prev, FALSE)), b + size, rest),
                   A, U, b, b + size)
<1> DEFINE m == h.mem
           hi == NextBlock(h, b)
           mid == b + size
           tag == Tag(size, TRUE, m[b].prev, FALSE)
           tail == Tag(rest, FALSE, TRUE, FALSE)
           h1 == Put(h, b, tag)
           h2 == Put(h1, mid, tail)
           g == PutFooter(h2, mid)
<1>1. /\ b \in AllBlocks(h, A, U) /\ b \in Rows /\ b \in Int /\ hi \in Int
      /\ hi \in AllBlocks(h, A, U) \cup {h.end - 1}
      /\ hi \in Rows /\ hi - 1 \in Rows /\ hi = b + m[b].size
      /\ m[b].size \in Nat /\ M <= m[b].size /\ b < hi /\ hi <= h.end - 1
      /\ \A c \in InFree(h) \cup InQuick(h) : c < b \/ hi <= c
      /\ Outside(A, b, hi) = A \ {b} /\ Outside(U, b, hi) = U \ {b}
      /\ Outside(AllBlocks(h, A, U), b, hi) = AllBlocks(h, A, U) \ {b}
  BY UnlistedOne
<1>2. /\ h \in Heaps /\ m \in Mems /\ PAGE * MaxPages \in Nat /\ h.end <= PAGE * MaxPages
      /\ h.end \in Nat /\ A \cap U = {} /\ AllBlocks(h, A, U) \subseteq Rows
  BY HeapTypes DEF HeapOK, Kinds
<1>3. /\ m[b].size = size + rest /\ mid \in Int /\ b < mid /\ mid + rest = hi /\ mid < hi
      /\ 0 <= b /\ size <= PAGE * MaxPages /\ rest <= PAGE * MaxPages
  <2>1. m[b].size = size + rest
    BY DEF Size
  <2>2. 0 <= b
    BY <1>1 DEF Rows
  <2>3. QED
    BY <2>1, <2>2, <1>1, <1>2
<1>4. mid \in Rows /\ mid \notin AllBlocks(h, A, U)
  <2>1. mid \in Rows
    BY <1>1, <1>2, <1>3 DEF Rows
  <2>2. ASSUME mid \in AllBlocks(h, A, U) PROVE FALSE
    <3>1. mid \in Outside(AllBlocks(h, A, U), b, hi)
      BY <1>1, <1>3, <2>2
    <3>2. QED
      BY <3>1, <1>1, <1>3 DEF Outside
  <2>3. QED
    BY <2>1, <2>2
<1> HIDE DEF mid
<1>5. /\ tag \in Tags /\ tag.size = size /\ tag.alloc /\ tag.prev = m[b].prev /\ ~tag.inq
      /\ tail \in Tags /\ tail.size = rest /\ ~tail.alloc /\ tail.prev
  <2>1. m[b].prev \in BOOLEAN
    BY <1>1, <1>2, MemTypes
  <2>2. QED
    BY <2>1, <1>2, <1>3 DEF Tags, Tag
<1> HIDE DEF tag, tail
<1>6. h1 \in Heaps /\ SameLists(h, h1) /\ \A r \in Rows : h1.mem[r] = IF r = b THEN tag ELSE m[r]
  BY <1>1, <1>2, <1>5, PutType
<1> HIDE DEF h1
<1>7. h2 \in Heaps /\ SameLists(h1, h2) /\ \A r \in Rows : h2.mem[r] = IF r = mid THEN tail ELSE h1.mem[r]
  BY <1>4, <1>5, <1>6, PutType
<1> HIDE DEF h2
<1>8. NextBlock(h2, mid) = hi /\ h2.mem[mid] = tail
  BY <1>3, <1>4, <1>5, <1>7 DEF NextBlock, Size
<1> HIDE DEF hi
<1>9. /\ g \in Heaps /\ SameLists(h2, g)
      /\ \A r \in Rows : g.mem[r] = IF r = hi - 1 THEN tail ELSE h2.mem[r]
  BY <1>1, <1>4, <1>7, <1>8, PutFooterType
<1>10. g = Split(Put(h, b, Tag(size, TRUE, h.mem[b].prev, FALSE)), b + size, rest)
  BY DEF Split, mid, tag, tail, h1, h2
<1> HIDE DEF g
<1>11. b # mid /\ b # hi - 1 /\ mid # hi - 1 /\ hi # b /\ hi # mid /\ hi # hi - 1
  BY <1>1, <1>3
<1>12. /\ g.mem[b] = tag /\ g.mem[mid] = tail /\ g.mem[hi - 1] = tail /\ g.mem[hi] = m[hi]
       /\ \A r \in Rows : r # b /\ r # mid /\ r # hi - 1 => g.mem[r] = m[r]
  BY <1>1, <1>4, <1>6, <1>7, <1>9, <1>11
<1>13. Frame(m, g.mem, b, hi)
  <2>1. \A r \in Rows : r < b \/ hi < r => r # b /\ r # hi - 1 /\ r # mid
    BY <1>1, <1>3 DEF Rows
  <2>2. QED
    BY <1>12, <2>1 DEF Frame
<1>14. SameLists(h, g)
  BY <1>6, <1>7, <1>9 DEF SameLists
<1>15. Changed(h, g, A, U, b, hi)
  BY <1>1, <1>5, <1>9, <1>12, <1>13, <1>14 DEF Changed, SameLists
<1>16. FreeTags(g.mem, mid)
  <2>1. mid + g.mem[mid].size - 1 = hi - 1
    BY <1>3, <1>5, <1>12
  <2>2. QED
    BY <2>1, <1>5, <1>12 DEF FreeTags
<1>17. mid - b = size /\ hi - mid = rest
  <2>1. mid = b + size
    BY DEF mid
  <2>2. QED
    BY <2>1, <1>1, <1>3
<1>18. /\ g.mem[b].size = mid - b /\ M <= mid - b /\ g.mem[mid].size = hi - mid /\ M <= hi - mid
       /\ g.mem[b].alloc /\ g.mem[mid].prev
  BY <1>5, <1>12, <1>17
<1>19. /\ HeapOK(g, Outside(A, b, hi) \cup {b}, Outside(U, b, hi) \cup {mid})
       /\ Spares(h, g, Outside(AllBlocks(h, A, U), b, hi))
  <2>1. mid \in {b, mid} /\ b \in {b, mid} /\ mid # b /\ (mid = b => g.mem[hi].prev)
    BY <1>11
  <2>2. QED
    BY <1>3, <1>15, <1>16, <1>18, <2>1, TwoBlocks
<1>20. Outside(A, b, hi) \cup {b} = A \cup {b} /\ Outside(U, b, hi) \cup {mid} = (U \ {b}) \cup {mid}
  BY <1>1
<1>21. HeapOK(g, A \cup {b}, (U \ {b}) \cup {mid})
  BY <1>19, <1>20
<1>22. Spares(h, g, AllBlocks(h, A, U) \ {b})
  BY <1>1, <1>19
<1>23. /\ NextBlock(g, b) = mid /\ NextBlock(g, mid) = hi
  BY <1>1, <1>3, <1>17, <1>18 DEF NextBlock, Size
<1>24. Divides(h, g, A, U, b, mid)
  BY <1>4, <1>5, <1>12, <1>13, <1>14, <1>21, <1>22, <1>23 DEF Divides, SameRows, hi
<1>25. QED
  BY <1>10, <1>24 DEF mid

\* The whole of a block is allocated.
Fills(h, g, b) ==
    /\ SameLists(h, g) /\ Frame(h.mem, g.mem, b, NextBlock(h, b))
    /\ g.mem[b].prev = h.mem[b].prev /\ g.mem[NextBlock(h, b)].prev

\* A block is used for a request: what is left over goes to the free lists.
LEMMA PlaceOK ==
    ASSUME NEW h, NEW A, NEW U, HeapOK(h, A, U), NEW b \in A \cup U,
           NEW size \in Nat, M <= size, size <= Size(h, b)
    PROVE  LET g == Place(h, b, size) IN
           /\ HeapOK(g, A \cup {b}, U \ {b})
           /\ Keeps(h, g, A \ {b}) /\ g.stale = h.stale /\ g.wild = h.wild
           /\ ~g.mem[b].inq /\ size <= Size(g, b)
           /\ ~(Size(h, b) - size >= M) => Fills(h, g, b)
<1> DEFINE m == h.mem
           hi == NextBlock(h, b)
           rest == Size(h, b) - size
           mid == b + size
           g == Place(h, b, size)
<1>1. /\ b \in AllBlocks(h, A, U) /\ b \in Rows /\ b \in Int /\ hi \in Int
      /\ hi \in AllBlocks(h, A, U) \cup {h.end - 1}
      /\ hi \in Rows /\ hi - 1 \in Rows /\ hi = b + m[b].size
      /\ m[b].size \in Nat /\ M <= m[b].size /\ b < hi /\ hi <= h.end - 1
      /\ \A c \in InFree(h) \cup InQuick(h) : c < b \/ hi <= c
      /\ Outside(A, b, hi) = A \ {b} /\ Outside(U, b, hi) = U \ {b}
      /\ Outside(AllBlocks(h, A, U), b, hi) = AllBlocks(h, A, U) \ {b}
  BY UnlistedOne
<1>2. h \in Heaps /\ m \in Mems /\ A \cap U = {} /\ A \subseteq AllBlocks(h, A, U)
      /\ U \subseteq AllBlocks(h, A, U)
  BY HeapTypes DEF HeapOK, Kinds, AllBlocks
<1>3. Size(h, b) \in Nat /\ Size(h, b) = m[b].size
  BY <1>1 DEF Size
<1>4. CASE rest >= M
  <2> DEFINE k == Split(Put(h, b, Tag(size, TRUE, m[b].prev, FALSE)), mid, rest)
  <2>1. g = Insert(k, mid)
    BY <1>4 DEF Place
  <2>2. rest \in Nat /\ M <= rest /\ Size(h, b) = size + rest
    BY <1>3, <1>4
  <2> HIDE DEF rest
  <2>3. Divides(h, k, A, U, b, mid)
    BY <2>2, SplitOK
  <2> HIDE DEF k, mid
  <2>4. /\ HeapOK(k, A \cup {b}, (U \ {b}) \cup {mid})
        /\ mid \notin AllBlocks(h, A, U)
        /\ SameLists(h, k) /\ Spares(h, k, AllBlocks(h, A, U) \ {b})
        /\ NextBlock(k, b) = mid /\ ~k.mem[b].inq
    BY <2>3 DEF Divides
  <2>5. mid \in (U \ {b}) \cup {mid} /\ ((U \ {b}) \cup {mid}) \ {mid} = U \ {b}
    BY <2>4 DEF AllBlocks
  <2> DEFINE C == AllBlocks(k, A \cup {b}, (U \ {b}) \cup {mid})
  <2>6. /\ HeapOK(Insert(k, mid), A \cup {b}, ((U \ {b}) \cup {mid}) \ {mid})
        /\ SameRest(k, Insert(k, mid))
        /\ SameRows(k, Insert(k, mid), C \cup {k.end - 1})
    BY <2>4, <2>5, InsertOK
  <2>7. HeapOK(g, A \cup {b}, U \ {b}) /\ SameRest(k, g) /\ SameRows(k, g, C)
    BY <2>1, <2>5, <2>6 DEF SameRows
  <2> HIDE DEF g
  <2>8. A \cup {b} \subseteq C
    BY DEF AllBlocks
  <2>9. Keeps(h, g, A \ {b})
    <3>1. Spares(h, g, A \ {b})
      BY <1>2, <2>4, <2>7, <2>8 DEF Spares, SameRows, Size
    <3>2. QED
      BY <3>1, <2>4, <2>7 DEF Keeps, SameLists, SameRest
  <2>10. Size(k, b) = size
    <3>1. b + Size(k, b) = b + size /\ b \in AllBlocks(k, A \cup {b}, (U \ {b}) \cup {mid})
      BY <2>4 DEF NextBlock, AllBlocks, mid
    <3>2. Size(k, b) \in Nat
      BY <2>4, <3>1, NextIsBlock
    <3>3. QED
      BY <1>1, <3>1, <3>2
  <2>11. ~g.mem[b].inq /\ size <= Size(g, b)
    BY <2>4, <2>7, <2>8, <2>10 DEF SameRows, Size
  <2>12. QED
    BY <1>4, <2>4, <2>7, <2>9, <2>11 DEF SameLists, SameRest, g, rest
<1>5. CASE ~(rest >= M)
  <2> DEFINE tag == Tag(Size(h, b), TRUE, m[b].prev, FALSE)
             h1 == Put(h, b, tag)
             k == SetPrev(h1, hi, TRUE)
  <2>1. g = k
    BY <1>5 DEF Place
  <2>2. tag \in Tags /\ tag.size = m[b].size /\ tag.alloc /\ tag.prev = m[b].prev /\ ~tag.inq
    BY <1>1, <1>2, <1>3, MemTypes DEF Tags, Tag, Mems
  <2> HIDE DEF tag
  <2>3. h1 \in Heaps /\ SameLists(h, h1) /\ \A r \in Rows : h1.mem[r] = IF r = b THEN tag ELSE m[r]
    <3>1. h \in Heaps /\ b \in Rows /\ tag \in Tags
      BY <1>1, <1>2, <2>2
    <3>2. QED
      BY <3>1, PutType
  <2> HIDE DEF h1
  <2> HIDE DEF hi
  <2>4. /\ k \in Heaps /\ SameLists(h1, k) /\ SameRows(h1, k, Rows \ {hi})
        /\ k.mem[hi].size = h1.mem[hi].size /\ k.mem[hi].alloc = h1.mem[hi].alloc
        /\ k.mem[hi].prev = TRUE /\ k.mem[hi].inq = h1.mem[hi].inq
    BY <1>1, <2>3, SetPrevType
  <2> HIDE DEF k, g
  <2>5. hi # b
    BY <1>1
  <2>6. /\ k.mem[b] = tag /\ h1.mem[hi] = m[hi]
        /\ \A r \in Rows : r # b /\ r # hi => k.mem[r] = m[r]
    BY <1>1, <2>3, <2>4, <2>5 DEF SameRows
  <2>7. Frame(m, k.mem, b, hi)
    <3>1. \A r \in Rows : r < b \/ hi < r => r # b /\ r # hi
      BY <1>1 DEF Rows
    <3>2. QED
      BY <2>4, <2>6, <3>1 DEF Frame
  <2>8. SameLists(h, k)
    BY <2>3, <2>4 DEF SameLists
  <2>9. Changed(h, k, A, U, b, hi)
    BY <1>1, <2>2, <2>4, <2>6, <2>7, <2>8 DEF Changed, SameLists
  <2>10. k.mem[b].size = hi - b /\ M <= hi - b /\ k.mem[b].alloc /\ k.mem[hi].prev
    BY <1>1, <2>2, <2>4, <2>6
  <2>11. /\ HeapOK(k, Outside(A, b, hi) \cup {b}, Outside(U, b, hi))
         /\ Spares(h, k, Outside(AllBlocks(h, A, U), b, hi))
    BY <2>9, <2>10, OneAllocated
  <2>12. Outside(A, b, hi) \cup {b} = A \cup {b} /\ Outside(U, b, hi) = U \ {b}
    BY <1>1
  <2>13. HeapOK(k, A \cup {b}, U \ {b})
    BY <2>11, <2>12
  <2>14. Keeps(h, k, A \ {b})
    BY <1>1, <1>2, <2>8, <2>11 DEF Keeps, Spares, SameLists
  <2>15. ~k.mem[b].inq /\ size <= Size(k, b)
    BY <1>3, <2>2, <2>6 DEF Size
  <2>16. Fills(h, k, b)
    BY <2>2, <2>4, <2>6, <2>7, <2>8 DEF Fills, hi
  <2>17. QED
    BY <2>1, <2>8, <2>13, <2>14, <2>15, <2>16 DEF SameLists, g
<1>6. QED
  BY <1>4, <1>5

\* A block that is used for a size does not make its next block's bit wrong.
Fitting(h, b, size) ==
    LET next == NextBlock(h, b)
    IN  /\ next \in InFree(h) => h.mem[next].prev
        /\ Size(h, b) - size >= M => ~h.mem[next].prev /\ next \notin InFree(h)

\* Then what is left over has no free neighbour.
LEMMA PlaceTidy ==
    ASSUME NEW h, NEW A, NEW U, HeapOK(h, A, U), NEW b \in A \cup U,
           NEW size \in Nat, M <= size, size <= Size(h, b), Fitting(h, b, size),
           Merged(h.mem, InFree(h))
    PROVE  Merged(Place(h, b, size).mem, InFree(Place(h, b, size)))
<1> DEFINE K == InFree(h)
           hi == NextBlock(h, b)
           rest == Size(h, b) - size
           mid == b + size
           g == Place(h, b, size)
<1>1. /\ b \in AllBlocks(h, A, U) /\ b \in Rows /\ b \in Int /\ hi \in Int /\ b < hi
      /\ hi \in AllBlocks(h, A, U) \cup {h.end - 1} /\ hi \in Rows /\ hi <= h.end - 1
      /\ \A k \in K : k < b \/ hi <= k
  BY UnlistedOne
<1>2. K \subseteq AllBlocks(h, A, U) /\ h \in Heaps /\ Size(h, b) \in Nat
      /\ h.end - 1 \in Int
  BY <1>1, HeapTypes, NextIsBlock DEF AllBlocks
<1>3. /\ hi \in K => h.mem[hi].prev
      /\ rest >= M => ~h.mem[hi].prev /\ hi \notin K
  BY DEF Fitting
<1>4. CASE rest >= M
  <2> DEFINE k == Split(Put(h, b, Tag(size, TRUE, h.mem[b].prev, FALSE)), mid, rest)
  <2>1. g = Insert(k, mid)
    BY <1>4 DEF Place
  <2>2. rest \in Nat /\ M <= rest /\ Size(h, b) = size + rest
    BY <1>2, <1>4
  <2> HIDE DEF rest
  <2>3. Divides(h, k, A, U, b, mid)
    BY <2>2, SplitOK
  <2> HIDE DEF k, mid
  <2>4. /\ HeapOK(k, A \cup {b}, (U \ {b}) \cup {mid})
        /\ mid \notin AllBlocks(h, A, U) /\ SameLists(h, k)
        /\ Frame(h.mem, k.mem, b, hi) /\ k.mem[hi] = h.mem[hi]
        /\ k.mem[b].prev = h.mem[b].prev
        /\ NextBlock(k, mid) = hi /\ k.mem[hi - 1] = k.mem[mid]
    BY <2>3 DEF Divides, SameRows
  <2>5. InFree(k) = K
    BY <2>4 DEF SameLists, InFree
  <2> DEFINE V == (U \ {b}) \cup {mid}
  <2>6. mid \in V /\ HeapOK(k, A \cup {b}, V)
    BY <2>4
  <2> HIDE DEF V, hi
  <2>7. Merged(k.mem, K) /\ SameSizes(h.mem, k.mem, K)
    <3> HIDE DEF K
    <3>1. Merged(h.mem, K)
      BY DEF K
    <3>2. QED
      BY <3>1, <1>1, <1>2, <2>4, MergedInside
  <2>8. mid # h.end - 1
    <3>1. mid \in AllBlocks(k, A \cup {b}, V)
      BY <2>6 DEF AllBlocks
    <3>2. mid \in Int /\ mid < hi
      BY <3>1, <2>4, <2>6, NextIsBlock DEF Rows
    <3>3. QED
      BY <3>2, <1>1, <1>2
  <2>9. Alone(k, mid)
    <3>1. ASSUME NEW x \in K PROVE x + k.mem[x].size # mid
      <4>1. x \in AllBlocks(h, A, U) /\ k.mem[x].size = h.mem[x].size
        BY <1>2, <2>7 DEF SameSizes
      <4>2. x + h.mem[x].size \in AllBlocks(h, A, U) \cup {h.end - 1}
        BY <4>1, NextIsBlock DEF Size
      <4>3. QED
        BY <4>1, <4>2, <2>4, <2>8
    <3>2. QED
      BY <3>1, <2>5 DEF Alone
  <2>10. Joinable(k, mid)
    BY <1>3, <1>4, <2>4, <2>5, <2>7, <2>9 DEF Joinable, rest
  <2>11. Merged(Insert(k, mid).mem, InFree(Insert(k, mid)))
    BY <2>6, <2>10, InsertTidy
  <2>12. QED
    BY <2>1, <2>11
<1>5. CASE ~(rest >= M)
  <2>1. HeapOK(g, A \cup {b}, U \ {b}) /\ Fills(h, g, b)
    <3>1. /\ HeapOK(g, A \cup {b}, U \ {b})
          /\ Keeps(h, g, A \ {b}) /\ g.stale = h.stale /\ g.wild = h.wild
          /\ ~g.mem[b].inq /\ size <= Size(g, b)
          /\ ~(Size(h, b) - size >= M) => Fills(h, g, b)
      BY PlaceOK
    <3>2. QED
      BY <3>1, <1>5
  <2> HIDE DEF g
  <2>2. /\ SameLists(h, g) /\ Frame(h.mem, g.mem, b, hi)
        /\ g.mem[b].prev = h.mem[b].prev /\ g.mem[hi].prev
    BY <2>1 DEF Fills
  <2>3. g.mem[hi] \in Tags /\ h.mem[hi] \in Tags
    <3>1. g \in Heaps
      BY <2>1, HeapTypes
    <3>2. QED
      BY <3>1, <1>1, <1>2 DEF Heaps
  <2>4. hi \in K => g.mem[hi] = h.mem[hi]
    <3>1. SUFFICES ASSUME hi \in K PROVE g.mem[hi] = h.mem[hi]
      OBVIOUS
    <3>2. h.mem[hi].prev
      BY <1>3, <3>1
    <3>3. g.mem[hi].prev = h.mem[hi].prev
      <4>1. g.mem[hi].prev \in BOOLEAN /\ h.mem[hi].prev \in BOOLEAN
        BY <2>3 DEF Tags
      <4>2. QED
        BY <4>1, <3>2, <2>2
    <3>4. /\ g.mem[hi].size = h.mem[hi].size /\ g.mem[hi].alloc = h.mem[hi].alloc
          /\ g.mem[hi].inq = h.mem[hi].inq
      BY <2>2 DEF Frame
    <3>5. QED
      BY <2>3, <3>3, <3>4 DEF Tags
  <2>5. InFree(g) = K
    BY <2>2 DEF SameLists, InFree
  <2> HIDE DEF K, hi
  <2>6. Merged(h.mem, K)
    BY DEF K
  <2>7. Merged(g.mem, K)
    BY <2>6, <1>1, <1>2, <2>2, <2>4, MergedInside
  <2>8. QED
    BY <2>5, <2>7 DEF g
<1>6. QED
  BY <1>4, <1>5

\* A block is cut down in place.
Shortens(h, g, A, U, b, size) ==
    /\ \E V : V \subseteq U /\ HeapOK(g, A, V) /\ (V = U \/ g.wild)
    /\ Keeps(h, g, A \ {b})
    /\ ~g.mem[b].inq /\ (size <= Size(h, b) => size <= Size(g, b))
    /\ Size(g, b) <= Size(h, b)
    /\ Tidy(h) => Tidy(g)

\* The in-place shrinking of sf_realloc keeps the heap sound and the block large enough.
LEMMA CutOffOK ==
    ASSUME NEW h, NEW A, NEW U, HeapOK(h, A, U), NEW b \in A,
           NEW size \in Nat, M <= size, ~h.mem[b].inq
    PROVE  Shortens(h, CutOff(h, b, size), A, U, b, size)
<1> DEFINE m == h.mem
           rest == Size(h, b) - size
           mid == b + size
           g == CutOff(h, b, size)
           k == Split(Put(h, b, Tag(size, TRUE, m[b].prev, FALSE)), mid, rest)
           w == k.stale \/ h.mem[NextBlock(h, b)].alloc
           s == [k EXCEPT !.stale = w]
<1>1. b \in A \cup U /\ A \subseteq AllBlocks(h, A, U) /\ Kinds(h, A, U)
  BY DEF AllBlocks, HeapOK
<1>2. Size(h, b) \in Nat /\ b \in Int /\ b \in Rows
  BY <1>1, UnlistedOne DEF Size
<1>3. CASE ~(rest >= M)
  <2>1. g = h
    BY <1>3 DEF CutOff
  <2>2. U \subseteq U /\ Keeps(h, h, A \ {b})
    BY DEF Keeps, Spares
  <2>3. Size(h, b) <= Size(h, b)
    BY <1>2
  <2>4. QED
    BY <2>1, <2>2, <2>3 DEF Shortens
<1>4. CASE rest >= M
  <2>1. g = Insert(MergeNext(s, mid), mid)
    BY <1>4 DEF CutOff
  <2>2. rest \in Nat /\ M <= rest /\ Size(h, b) = size + rest
    BY <1>2, <1>4
  <2> HIDE DEF rest
  <2>3. Divides(h, k, A, U, b, mid)
    BY <1>1, <2>2, SplitOK
  <2> HIDE DEF k
  <2>4. /\ HeapOK(k, A \cup {b}, (U \ {b}) \cup {mid})
        /\ mid \notin AllBlocks(h, A, U) /\ k.mem[mid].prev
        /\ SameLists(h, k) /\ Spares(h, k, AllBlocks(h, A, U) \ {b})
        /\ NextBlock(k, b) = mid /\ ~k.mem[b].inq
    BY <2>3 DEF Divides
  <2> HIDE DEF mid
  <2>5. A \cup {b} = A /\ (U \ {b}) \cup {mid} = U \cup {mid} /\ mid \notin U
    BY <1>1, <2>4 DEF Kinds, AllBlocks
  <2>6. HeapOK(k, A, U \cup {mid}) /\ k \in Heaps
    BY <2>4, <2>5, HeapTypes
  <2>7. /\ s \in Heaps /\ s.mem = k.mem /\ s.free = k.free /\ s.quick = k.quick /\ s.end = k.end
        /\ s.lost = k.lost /\ s.wild = k.wild /\ s.stale = w
    <3>1. w \in BOOLEAN
      OBVIOUS
    <3> HIDE DEF w
    <3>2. QED
      BY <2>6, <3>1 DEF Heaps
  <2>8. k.stale => s.stale
    BY <2>7
  <2> HIDE DEF s
  <2>9. HeapOK(s, A, U \cup {mid})
    <3>1. InFree(s) = InFree(k) /\ InQuick(s) = InQuick(k)
      BY <2>7 DEF InFree, InQuick
    <3>2. Lists(s) /\ Kinds(s, A, U \cup {mid})
      BY <2>6, <2>7, <3>1 DEF HeapOK, Lists, FreeListOK, QuickListOK, Size, Kinds
    <3>3. QED
      BY <2>6, <2>7, <3>1, <3>2 DEF HeapOK, AllBlocks
  <2>10. Rejoin(s, mid) = Insert(MergeNext(s, mid), mid)
    BY <2>4, <2>7 DEF Rejoin, MergePrev, PrevBlock
  <2>11. PICK V : Frees(s, g, A, U, V)
    <3>1. mid \in U \cup {mid} /\ (U \cup {mid}) \ {mid} = U
      BY <2>5
    <3>2. \E V : Frees(s, Rejoin(s, mid), A, U, V)
      BY <2>9, <3>1, RejoinOK
    <3>3. QED
      BY <2>1, <2>10, <3>2
  <2> HIDE DEF g
  <2>12. HeapOK(g, A, V) /\ V \subseteq U /\ (V = U \/ g.wild) /\ Keeps(s, g, A)
    BY <2>11 DEF Frees
  <2>13. Keeps(h, g, A \ {b})
    <3>1. Keeps(h, s, A \ {b})
      <4>1. A \ {b} \subseteq AllBlocks(h, A, U) \ {b}
        BY <1>1
      <4>2. h.stale => s.stale
        BY <2>4, <2>8 DEF SameLists
      <4>3. QED
        BY <4>1, <4>2, <2>4, <2>7 DEF Keeps, Spares, SameLists, Size
    <3>2. Keeps(s, g, A \ {b})
      BY <2>12 DEF Keeps, Spares
    <3>3. A \ {b} \subseteq A \ {b}
      OBVIOUS
    <3>4. QED
      BY <3>1, <3>2, <3>3, KeepsTwice
  <2>14. Size(k, b) = size
    <3>1. b + Size(k, b) = b + size /\ b \in AllBlocks(k, A, U \cup {mid})
      BY <2>4 DEF NextBlock, AllBlocks, mid
    <3>2. Size(k, b) \in Nat
      BY <2>6, <3>1, NextIsBlock
    <3>3. QED
      BY <1>2, <3>1, <3>2
  <2>15. g.mem[b].inq = k.mem[b].inq /\ Size(g, b) = size
    BY <2>7, <2>12, <2>14 DEF Keeps, Spares, Size
  <2>16. size <= Size(h, b) /\ size <= size
    BY <2>2, <1>2
  <2>17. Tidy(h) => Tidy(g)
    <3> DEFINE K == InFree(h)
               hi == NextBlock(h, b)
    <3>1. SUFFICES ASSUME Tidy(h), ~g.wild, ~g.stale PROVE Merged(g.mem, InFree(g))
      BY DEF Tidy
    <3>2. ~h.wild /\ ~h.stale /\ ~h.mem[hi].alloc
      <4>1. (s.wild => g.wild) /\ g.stale = s.stale
        BY <2>11 DEF Frees, Keeps
      <4>2. k.wild = h.wild /\ k.stale = h.stale
        BY <2>4 DEF SameLists
      <4>3. s.wild = k.wild /\ s.stale = (k.stale \/ h.mem[hi].alloc)
        BY <2>7
      <4>4. QED
        BY <4>1, <4>2, <4>3, <3>1
    <3>3. Merged(h.mem, K)
      BY <3>1, <3>2 DEF Tidy
    <3>4. /\ b \in AllBlocks(h, A, U) /\ b < hi
          /\ hi \in AllBlocks(h, A, U) \cup {h.end - 1}
          /\ \A c \in K : c < b \/ hi <= c
      BY <1>1, UnlistedOne
    <3>5. K \subseteq AllBlocks(h, A, U)
      BY DEF AllBlocks
    <3>6. /\ Frame(h.mem, s.mem, b, hi) /\ s.mem[hi] = h.mem[hi]
          /\ s.mem[b].prev = h.mem[b].prev
          /\ NextBlock(s, mid) = hi /\ s.mem[hi - 1] = s.mem[mid]
      <4>1. /\ Frame(h.mem, k.mem, b, hi) /\ k.mem[hi] = h.mem[hi]
            /\ k.mem[b].prev = h.mem[b].prev
            /\ NextBlock(k, mid) = hi /\ k.mem[hi - 1] = k.mem[mid]
        BY <2>3 DEF Divides, SameRows
      <4>2. QED
        BY <4>1, <2>7 DEF NextBlock, Size
    <3>7. InFree(s) = K
      BY <2>4, <2>7 DEF SameLists, InFree
    <3> HIDE DEF K, hi
    <3>8. Merged(s.mem, K)
      BY <3>3, <3>4, <3>5, <3>6, MergedInside
    <3>9. Loosened(s, mid)
      BY <3>2, <3>6, <3>7, <3>8 DEF Loosened, Merged, Apart
    <3>10. mid \in U \cup {mid} /\ ~Rejoin(s, mid).wild /\ g = Rejoin(s, mid)
      BY <2>1, <2>10, <3>1
    <3>11. Merged(Rejoin(s, mid).mem, InFree(Rejoin(s, mid)))
      BY <2>9, <3>9, <3>10, RejoinTidy
    <3>12. QED
      BY <3>10, <3>11
  <2>18. Shortens(h, g, A, U, b, size)
    BY <2>4, <2>12, <2>13, <2>15, <2>16, <2>17 DEF Shortens
  <2>19. QED
    BY <2>18 DEF g
<1>5. QED
  BY <1>3, <1>4

\* The rows before an aligned block are freed.
Fronts(h, g, A, U, b, offset) ==
    /\ \E V : V \subseteq U /\ HeapOK(g, (A \ {b}) \cup {b + offset}, V) /\ (V = U \/ g.wild)
    /\ Keeps(h, g, A \ {b}) /\ g.stale = h.stale
    /\ ~g.mem[b + offset].inq /\ Size(g, b + offset) = Size(h, b) - offset
    /\ b + offset \notin AllBlocks(h, A, U)
    /\ Tidy(h) => Tidy(g)

\* Freeing the rows before the aligned block, in sf_memalign, keeps the heap sound.
LEMMA CutLeftOK ==
    ASSUME NEW h, NEW A, NEW U, HeapOK(h, A, U), NEW b \in A,
           NEW offset \in Nat, M <= offset, M <= Size(h, b) - offset
    PROVE  Fronts(h, CutLeft(h, b, offset), A, U, b, offset)
<1> DEFINE m == h.mem
           hi == NextBlock(h, b)
           size == Size(h, b) - offset
           mid == b + offset
           tag == Tag(size, TRUE, FALSE, FALSE)
           front == Tag(offset, FALSE, m[b].prev, FALSE)
           h1 == Put(h, mid, tag)
           h2 == Put(h1, b, front)
           k == PutFooter(h2, b)
           g == CutLeft(h, b, offset)
           C == (A \ {b}) \cup {mid}
<1>1. /\ b \in AllBlocks(h, A, U) /\ b \in Rows /\ b \in Int /\ hi \in Int
      /\ hi \in AllBlocks(h, A, U) \cup {h.end - 1}
      /\ hi \in Rows /\ hi - 1 \in Rows /\ hi = b + m[b].size
      /\ m[b].size \in Nat /\ M <= m[b].size /\ b < hi /\ hi <= h.end - 1
      /\ \A c \in InFree(h) \cup InQuick(h) : c < b \/ hi <= c
      /\ Outside(A, b, hi) = A \ {b} /\ Outside(U, b, hi) = U \ {b}
      /\ Outside(AllBlocks(h, A, U), b, hi) = AllBlocks(h, A, U) \ {b}
  <2>1. b \in A \cup U
    OBVIOUS
  <2>2. QED
    BY <2>1, UnlistedOne
<1>2. /\ h \in Heaps /\ m \in Mems /\ PAGE * MaxPages \in Nat /\ h.end <= PAGE * MaxPages
      /\ h.end \in Nat /\ A \cap U = {} /\ AllBlocks(h, A, U) \subseteq Rows
      /\ A \subseteq AllBlocks(h, A, U) /\ U \subseteq AllBlocks(h, A, U)
  BY HeapTypes DEF HeapOK, Kinds, AllBlocks
<1>3. /\ size \in Nat /\ m[b].size = size + offset /\ mid \in Int /\ b < mid
      /\ mid + size = hi /\ mid < hi /\ M <= size
      /\ 0 <= b /\ size <= PAGE * MaxPages /\ offset <= PAGE * MaxPages
  <2>1. m[b].size = Size(h, b)
    BY DEF Size
  <2>2. 0 <= b
    BY <1>1 DEF Rows
  <2>3. QED
    BY <2>1, <2>2, <1>1, <1>2
<1>4. mid \in Rows /\ mid \notin AllBlocks(h, A, U)
  <2>1. mid \in Rows
    BY <1>1, <1>2, <1>3 DEF Rows
  <2>2. ASSUME mid \in AllBlocks(h, A, U) PROVE FALSE
    <3>1. mid \in Outside(AllBlocks(h, A, U), b, hi)
      BY <1>1, <1>3, <2>2
    <3>2. QED
      BY <3>1, <1>1, <1>3 DEF Outside
  <2>3. QED
    BY <2>1, <2>2
<1>5. offset # 0 /\ mid - b = offset /\ hi - mid = size
  BY <1>1, <1>3
<1>6. g = Insert(MergePrev(k, b), PrevBlock(k, b))
  BY <1>5 DEF CutLeft
<1>7. mid = b + offset
  OBVIOUS
<1> HIDE DEF mid, size
<1>8. /\ tag \in Tags /\ tag.size = size /\ tag.alloc /\ tag.prev = FALSE /\ ~tag.inq
      /\ front \in Tags /\ front.size = offset /\ ~front.alloc /\ front.prev = m[b].prev
  <2>1. m[b].prev \in BOOLEAN
    BY <1>1, <1>2, MemTypes
  <2>2. QED
    BY <2>1, <1>2, <1>3 DEF Tags, Tag
<1> HIDE DEF tag, front
<1>9. h1 \in Heaps /\ SameLists(h, h1) /\ \A r \in Rows : h1.mem[r] = IF r = mid THEN tag ELSE m[r]
  <2>1. h \in Heaps /\ mid \in Rows /\ tag \in Tags
    BY <1>2, <1>4, <1>8
  <2>2. QED
    BY <2>1, PutType
<1> HIDE DEF h1
<1>10. h2 \in Heaps /\ SameLists(h1, h2) /\ \A r \in Rows : h2.mem[r] = IF r = b THEN front ELSE h1.mem[r]
  <2>1. h1 \in Heaps /\ b \in Rows /\ front \in Tags
    BY <1>1, <1>8, <1>9
  <2>2. QED
    BY <2>1, PutType
<1> HIDE DEF h2
<1>11. NextBlock(h2, b) = mid /\ h2.mem[b] = front /\ mid - 1 \in Rows
  <2>1. mid - 1 \in Rows
    BY <1>1, <1>2, <1>3, <1>4 DEF Rows
  <2>2. QED
    BY <2>1, <1>1, <1>7, <1>8, <1>10 DEF NextBlock, Size
<1>12. /\ k \in Heaps /\ SameLists(h2, k)
       /\ \A r \in Rows : k.mem[r] = IF r = mid - 1 THEN front ELSE h2.mem[r]
  BY <1>1, <1>10, <1>11, PutFooterType
<1> HIDE DEF k, hi
<1>13. b # mid /\ b # mid - 1 /\ mid # mid - 1 /\ hi # b /\ hi # mid /\ hi # mid - 1
  BY <1>1, <1>3, <1>5
<1>14. /\ k.mem[b] = front /\ k.mem[mid] = tag /\ k.mem[mid - 1] = front /\ k.mem[hi] = m[hi]
       /\ \A r \in Rows : r # b /\ r # mid /\ r # mid - 1 => k.mem[r] = m[r]
  BY <1>1, <1>4, <1>9, <1>10, <1>11, <1>12, <1>13
<1>15. Frame(m, k.mem, b, hi)
  <2>1. \A r \in Rows : r < b \/ hi < r => r # b /\ r # mid - 1 /\ r # mid
    BY <1>1, <1>3 DEF Rows
  <2>2. QED
    BY <1>14, <2>1 DEF Frame
<1>16. SameLists(h, k)
  BY <1>9, <1>10, <1>12 DEF SameLists
<1>17. Changed(h, k, A, U, b, hi)
  BY <1>1, <1>8, <1>12, <1>14, <1>15, <1>16 DEF Changed, SameLists
<1>18. FreeTags(k.mem, b)
  <2>1. b + k.mem[b].size - 1 = mid - 1
    BY <1>1, <1>7, <1>8, <1>14
  <2>2. QED
    BY <2>1, <1>8, <1>14 DEF FreeTags
<1>19. /\ k.mem[b].size = mid - b /\ M <= mid - b /\ k.mem[mid].size = hi - mid /\ M <= hi - mid
       /\ k.mem[mid].alloc /\ k.mem[hi].prev
  BY <1>3, <1>5, <1>8, <1>14, BitOfNext DEF hi
<1>20. /\ HeapOK(k, Outside(A, b, hi) \cup {mid}, Outside(U, b, hi) \cup {b})
       /\ Spares(h, k, Outside(AllBlocks(h, A, U), b, hi))
  <2>1. b \in {b, mid} /\ mid \in {b, mid} /\ b # mid /\ (b = mid => k.mem[mid].prev)
    BY <1>13
  <2>2. QED
    BY <1>3, <1>17, <1>18, <1>19, <2>1, TwoBlocks
<1>21. Outside(A, b, hi) \cup {mid} = C /\ Outside(U, b, hi) \cup {b} = U \cup {b}
  BY <1>1, <1>2
<1>22. HeapOK(k, C, U \cup {b})
  BY <1>20, <1>21
<1>23. Spares(h, k, A \ {b})
  BY <1>1, <1>2, <1>20 DEF Spares
<1>24. b \in U \cup {b} /\ (U \cup {b}) \ {b} = U
  BY <1>2
<1>25. MergeNext(MergePrev(k, b), PrevBlock(k, b)) = MergePrev(k, b)
  <2> DEFINE p == PrevBlock(k, b)
             x == MergePrev(k, b)
  <2>1. NextBlock(k, b) = mid
    BY <1>7, <1>8, <1>14 DEF NextBlock, Size
  <2>2. NextBlock(x, p) = mid /\ x.mem[mid].alloc
    <3>1. CASE p = b /\ x = k
      BY <3>1, <2>1, <1>19
    <3>2. CASE Absorbs(k, x, C, U \cup {b}, p, b, p)
      <4>1. NextBlock(x, p) = mid /\ Frame(k.mem, x.mem, p, mid)
        BY <3>2, <2>1 DEF Absorbs
      <4>2. x.mem[mid].alloc = k.mem[mid].alloc
        BY <4>1 DEF Frame
      <4>3. QED
        BY <4>1, <4>2, <1>19
    <3>3. QED
      BY <3>1, <3>2, <1>22, <1>24, MergePrevOK
  <2> HIDE DEF x, p
  <2>3. MergeNext(x, p) = x
    BY <2>2 DEF MergeNext
  <2>4. QED
    BY <2>3 DEF x, p
<1>26. g = Rejoin(k, b)
  BY <1>6, <1>25 DEF Rejoin
<1> HIDE DEF g, C
<1>27. PICK V : Frees(k, g, C, U, V)
  <2>1. \E V : Frees(k, Rejoin(k, b), C, (U \cup {b}) \ {b}, V)
    BY <1>22, <1>24, RejoinOK
  <2>2. QED
    BY <2>1, <1>24, <1>26
<1>28. HeapOK(g, C, V) /\ V \subseteq U /\ (V = U \/ g.wild) /\ Keeps(k, g, C) /\ g.stale = k.stale
  BY <1>27 DEF Frees
<1>29. mid \in C /\ A \ {b} \subseteq C
  BY DEF C
<1>30. Keeps(h, g, A \ {b})
  <2>1. Keeps(h, k, A \ {b})
    BY <1>16, <1>23 DEF Keeps, SameLists
  <2>2. Keeps(k, g, A \ {b})
    BY <1>28, <1>29 DEF Keeps, Spares
  <2>3. A \ {b} \subseteq A \ {b}
    OBVIOUS
  <2>4. QED
    BY <2>1, <2>2, <2>3, KeepsTwice
<1>31. ~g.mem[mid].inq /\ Size(g, mid) = size
  BY <1>5, <1>8, <1>14, <1>19, <1>28, <1>29 DEF Keeps, Spares, Size
<1>32. g.stale = h.stale
  BY <1>16, <1>28 DEF SameLists
<1>33. Tidy(h) => Tidy(g)
  <2> DEFINE K == InFree(h)
  <2>1. SUFFICES ASSUME Tidy(h), ~g.wild, ~g.stale PROVE Merged(g.mem, InFree(g))
    BY DEF Tidy
  <2>2. ~h.wild /\ ~h.stale
    BY <1>16, <1>28, <1>32, <2>1 DEF SameLists, Keeps
  <2>3. Merged(h.mem, K)
    BY <2>1, <2>2 DEF Tidy
  <2>4. K \subseteq AllBlocks(h, A, U) /\ \A c \in K : c < b \/ hi <= c
    BY <1>1 DEF AllBlocks
  <2>5. InFree(k) = K
    BY <1>16 DEF SameLists, InFree
  <2>6. /\ NextBlock(k, b) = mid /\ k.mem[mid - 1] = k.mem[b] /\ ~k.mem[mid].prev
        /\ k.mem[b].prev = h.mem[b].prev /\ k.mem[hi] = h.mem[hi]
    BY <1>7, <1>8, <1>14 DEF NextBlock, Size
  <2> HIDE DEF K
  <2>7. Merged(k.mem, K)
    BY <1>1, <1>15, <2>3, <2>4, <2>6, MergedInside
  <2>8. Loosened(k, b)
    BY <2>5, <2>6, <2>7 DEF Loosened, Merged, Apart
  <2>9. Merged(Rejoin(k, b).mem, InFree(Rejoin(k, b)))
    BY <1>22, <1>24, <1>26, <2>1, <2>8, RejoinTidy
  <2>10. QED
    BY <1>26, <2>9
<1>34. Fronts(h, g, A, U, b, offset)
  BY <1>4, <1>28, <1>30, <1>31, <1>32, <1>33 DEF mid, size, C, Fronts
<1>35. QED
  BY <1>34 DEF g

\* A heap without pages: nothing is in a list.
Bare(h) == h \in Heaps /\ NoHeap(h)

\* The first page is one free block.
LEMMA FirstPageOK ==
    ASSUME NEW h, Bare(h), PAGE <= PAGE * MaxPages
    PROVE  LET g == FirstPage(h) IN
           /\ HeapOK(g, {}, {}) /\ g.end = PAGE /\ g.lost = {} /\ ~g.wild /\ g.stale = h.stale
           /\ Merged(g.mem, InFree(g))
<1> DEFINE size == PAGE - M - 1
           h0 == [h EXCEPT !.end = PAGE]
           front == Tag(M, TRUE, FALSE, FALSE)
           h1 == Put(h0, 0, front)
           h2 == Put(h1, PAGE - 1, Epilogue)
           tag == Tag(size, FALSE, TRUE, FALSE)
           h3 == Put(h2, M, tag)
           k == PutFooter(h3, M)
           g == FirstPage(h)
<1>1. g = Insert(k, M)
  BY DEF FirstPage, Split
<1>2. /\ PAGE \in Nat /\ PAGE > 13 /\ PAGE * MaxPages \in Nat /\ size = PAGE - 5
      /\ size \in 0..(PAGE * MaxPages) /\ M \in 0..(PAGE * MaxPages) /\ PAGE \in 0..(PAGE * MaxPages)
      /\ M \in Rows /\ 0 \in Rows /\ PAGE - 1 \in Rows /\ PAGE - 2 \in Rows
  <2>1. PAGE \in Nat /\ PAGE > 13 /\ PAGE * MaxPages \in Nat
    BY SizeAssumption
  <2>2. QED
    BY <2>1 DEF Rows
<1>3. /\ h \in Heaps /\ h.wild = FALSE /\ h.lost = {}
      /\ \A i \in FreeLists : h.free[i] = << >>
      /\ \A q \in QuickLists : h.quick[q] = << >>
  BY DEF Bare, NoHeap, Heaps
<1>4. /\ h0 \in Heaps /\ h0.end = PAGE /\ h0.free = h.free /\ h0.quick = h.quick
      /\ h0.wild = h.wild /\ h0.stale = h.stale /\ h0.lost = h.lost
  BY <1>2, <1>3 DEF Heaps
<1> HIDE DEF h0
<1>5. /\ front \in Tags /\ Epilogue \in Tags /\ tag \in Tags
      /\ Epilogue.alloc /\ ~Epilogue.prev
      /\ tag.size = size /\ ~tag.alloc /\ tag.prev
  BY <1>2 DEF Tags, Tag, Epilogue
<1> HIDE DEF front, tag
<1>6. h1 \in Heaps /\ SameLists(h0, h1)
  BY <1>2, <1>4, <1>5, PutType
<1> HIDE DEF h1
<1>7. h2 \in Heaps /\ SameLists(h1, h2) /\ h2.mem[PAGE - 1] = Epilogue
  <2>1. h1 \in Heaps /\ PAGE - 1 \in Rows /\ Epilogue \in Tags
    BY <1>2, <1>5, <1>6
  <2>2. QED
    BY <2>1, PutType
<1> HIDE DEF h2
<1>8. h3 \in Heaps /\ SameLists(h2, h3) /\ \A r \in Rows : h3.mem[r] = IF r = M THEN tag ELSE h2.mem[r]
  <2>1. h2 \in Heaps /\ M \in Rows /\ tag \in Tags
    BY <1>2, <1>5, <1>7
  <2>2. QED
    BY <2>1, PutType
<1> HIDE DEF h3
<1>9. NextBlock(h3, M) = PAGE - 1
  BY <1>2, <1>5, <1>8 DEF NextBlock, Size
<1>10. k \in Heaps /\ SameLists(h3, k) /\ \A r \in Rows : k.mem[r] = IF r = PAGE - 2 THEN h3.mem[M] ELSE h3.mem[r]
  <2>1. NextBlock(h3, M) - 1 = PAGE - 2
    BY <1>2, <1>9
  <2>2. QED
    BY <2>1, <1>2, <1>8, PutFooterType
<1> HIDE DEF k
<1>11. k.mem[M] = tag /\ k.mem[PAGE - 2] = tag /\ k.mem[PAGE - 1] = Epilogue
  <2>1. M # PAGE - 1 /\ M # PAGE - 2 /\ PAGE - 1 # PAGE - 2
    BY <1>2
  <2>2. QED
    BY <2>1, <1>2, <1>7, <1>8, <1>10
<1>12. SameLists(h0, k)
  BY <1>6, <1>7, <1>8, <1>10 DEF SameLists
<1>13. /\ k.free = h.free /\ k.quick = h.quick /\ k.end = PAGE /\ k.lost = {} /\ ~k.wild
       /\ k.stale = h.stale
  BY <1>3, <1>4, <1>12 DEF SameLists
<1>14. InFree(k) = {} /\ InQuick(k) = {}
  BY <1>3, <1>13 DEF InFree, InQuick, Range
<1>15. Lists(k)
  BY <1>3, <1>13, SizeAssumption DEF Lists, FreeListOK, QuickListOK, IsInjective, Range
<1>16. Sound(k.mem, PAGE, {M}, {M})
  <2>1. Tiles(k.mem, M, PAGE - 1, {M})
    BY <1>2, <1>5, <1>11 DEF Tiles
  <2>2. FreeTags(k.mem, M)
    <3>1. M + k.mem[M].size - 1 = PAGE - 2
      BY <1>2, <1>5, <1>11
    <3>2. QED
      BY <3>1, <1>5, <1>11 DEF FreeTags
  <2>3. Ends(k.mem, {M}, PAGE - 1)
    BY <1>2, <1>5, <1>11 DEF Ends
  <2>4. QED
    BY <2>1, <2>2, <2>3, <1>2, <1>5, <1>11 DEF Sound
<1>17. HeapOK(k, {}, {M})
  <2>1. AllBlocks(k, {}, {M}) = {M} /\ {M} \cup InFree(k) = {M} /\ Kinds(k, {}, {M})
    BY <1>14 DEF AllBlocks, Kinds
  <2>2. Sound(k.mem, k.end, AllBlocks(k, {}, {M}), {M} \cup InFree(k))
    BY <2>1, <1>13, <1>16
  <2>3. k.end >= PAGE
    BY <1>2, <1>13
  <2>4. QED
    BY <2>1, <2>2, <2>3, <1>10, <1>15 DEF HeapOK
<1>18. /\ HeapOK(g, {}, {M} \ {M}) /\ SameRest(k, g) /\ InFree(g) = InFree(k) \cup {M}
       /\ SameRows(k, g, AllBlocks(k, {}, {M}) \cup {k.end - 1})
       /\ SameRows(k, g, Outside(Rows, M + 1, NextBlock(k, M) - 1))
  <2> DEFINE A == {}
             U == {M}
  <2>1. M \in U /\ HeapOK(k, A, U)
    BY <1>17
  <2> HIDE DEF A, U
  <2>2. /\ HeapOK(Insert(k, M), A, U \ {M}) /\ SameRest(k, Insert(k, M))
        /\ InFree(Insert(k, M)) = InFree(k) \cup {M}
        /\ SameRows(k, Insert(k, M), AllBlocks(k, A, U) \cup {k.end - 1})
        /\ SameRows(k, Insert(k, M), Outside(Rows, M + 1, NextBlock(k, M) - 1))
    BY <2>1, InsertOK
  <2>3. QED
    BY <1>1, <2>2 DEF A, U
<1> HIDE DEF g
<1>19. NextBlock(k, M) - 1 = PAGE - 2
  BY <1>2, <1>5, <1>11 DEF NextBlock, Size
<1>20. g.mem[M] = tag /\ g.mem[PAGE - 2] = tag /\ g.mem[PAGE - 1] = Epilogue
  <2>1. M \in AllBlocks(k, {}, {M}) /\ PAGE - 1 \in {k.end - 1}
    BY <1>13 DEF AllBlocks
  <2>2. PAGE - 2 \in Outside(Rows, M + 1, NextBlock(k, M) - 1)
    BY <1>2, <1>19 DEF Outside
  <2>3. QED
    BY <2>1, <2>2, <1>11, <1>18 DEF SameRows
<1>21. Merged(g.mem, InFree(g))
  <2>1. M + g.mem[M].size = PAGE - 1 /\ PAGE - 1 # M /\ (M + g.mem[M].size) - 1 = PAGE - 2
    BY <1>2, <1>5, <1>20
  <2>2. InFree(g) = {M}
    BY <1>14, <1>18
  <2>3. QED
    BY <2>1, <2>2, <1>5, <1>20 DEF Merged
<1>22. {M} \ {M} = {}
  OBVIOUS
<1>23. QED
  BY <1>13, <1>18, <1>21, <1>22 DEF SameRest, g

\* A heap h with another page, as g: the old epilogue b is a free block, in no list.
Extends(h, g, A, U, b) ==
    /\ HeapOK(g, A, U \cup {b}) /\ b \notin AllBlocks(h, A, U) /\ b \in Rows /\ b > M
    /\ g.end = h.end + PAGE /\ g.free = h.free /\ g.quick = h.quick
    /\ g.wild = h.wild /\ g.stale = h.stale /\ g.lost = h.lost
    /\ \A r \in Rows : r < b => g.mem[r] = h.mem[r]
    /\ g.mem[b].prev = h.mem[b].prev /\ Size(g, b) = PAGE
    /\ NextBlock(g, b) = g.end - 1 /\ g.mem[g.end - 2] = g.mem[b]
    /\ g.mem[g.end - 1].alloc /\ ~g.mem[g.end - 1].prev

\* One more page.
LEMMA NewPageOK ==
    ASSUME NEW h, NEW A, NEW U, HeapOK(h, A, U), h.end + PAGE <= PAGE * MaxPages
    PROVE  Extends(h, NewPage(h), A, U, h.end - 1)
<1> DEFINE m == h.mem
           b == h.end - 1
           e == h.end + PAGE
           h0 == [h EXCEPT !.end = @ + PAGE]
           h1 == Put(h0, e - 1, Epilogue)
           tag == Tag(PAGE, FALSE, m[b].prev, FALSE)
           h2 == Put(h1, b, tag)
           k == PutFooter(h2, b)
           B == AllBlocks(h, A, U)
           G == U \cup InFree(h)
<1>1. k = NewPage(h)
  <2>1. h.end + PAGE - 1 = e - 1
    <3>1. h.end \in Nat /\ PAGE \in Nat
      BY HeapTypes, SizeAssumption
    <3>2. QED
      BY <3>1
  <2>2. QED
    BY <2>1 DEF NewPage
<1>2. /\ h \in Heaps /\ m \in Mems /\ h.end \in Nat /\ b \in Rows /\ h.end >= PAGE
      /\ B \subseteq Rows /\ A \subseteq B /\ U \subseteq B
      /\ PAGE \in Nat /\ PAGE > 13 /\ PAGE * MaxPages \in Nat
  BY HeapTypes, SizeAssumption DEF AllBlocks
<1>3. /\ e \in 0..(PAGE * MaxPages) /\ e - 1 \in Rows /\ e - 2 \in Rows /\ b \in Nat
      /\ PAGE \in 0..(PAGE * MaxPages) /\ b > M /\ b + PAGE = e - 1
  BY <1>2 DEF Rows
<1>4. /\ h0 \in Heaps /\ h0.end = e /\ h0.free = h.free /\ h0.quick = h.quick /\ h0.mem = m
      /\ h0.wild = h.wild /\ h0.stale = h.stale /\ h0.lost = h.lost
  BY <1>2, <1>3 DEF Heaps
<1> HIDE DEF h0
<1>5. /\ Epilogue \in Tags /\ Epilogue.alloc /\ ~Epilogue.prev
      /\ tag \in Tags /\ tag.size = PAGE /\ ~tag.alloc /\ tag.prev = m[b].prev
  <2>1. m[b].prev \in BOOLEAN
    BY <1>2, MemTypes
  <2>2. QED
    BY <2>1, <1>2, <1>3 DEF Tags, Tag, Epilogue
<1> HIDE DEF tag
<1>6. h1 \in Heaps /\ SameLists(h0, h1) /\ \A r \in Rows : h1.mem[r] = IF r = e - 1 THEN Epilogue ELSE m[r]
  <2>1. h0 \in Heaps /\ e - 1 \in Rows /\ Epilogue \in Tags
    BY <1>3, <1>4, <1>5
  <2>2. QED
    BY <2>1, <1>4, PutType
<1> HIDE DEF h1
<1>7. h2 \in Heaps /\ SameLists(h1, h2) /\ \A r \in Rows : h2.mem[r] = IF r = b THEN tag ELSE h1.mem[r]
  <2>1. h1 \in Heaps /\ b \in Rows /\ tag \in Tags
    BY <1>2, <1>5, <1>6
  <2>2. QED
    BY <2>1, PutType
<1> HIDE DEF h2
<1>8. NextBlock(h2, b) - 1 = e - 2 /\ h2.mem[b] = tag
  BY <1>2, <1>3, <1>5, <1>7 DEF NextBlock, Size
<1>9. k \in Heaps /\ SameLists(h2, k) /\ \A r \in Rows : k.mem[r] = IF r = e - 2 THEN tag ELSE h2.mem[r]
  <2>1. h2 \in Heaps /\ b \in Rows /\ NextBlock(h2, b) - 1 \in Rows
    BY <1>2, <1>3, <1>7, <1>8
  <2>2. QED
    BY <2>1, <1>8, PutFooterType
<1> HIDE DEF k
<1>10. b # e - 2 /\ b # e - 1 /\ e - 1 # e - 2
  BY <1>2, <1>3
<1>11. k.mem[b] = tag /\ k.mem[e - 2] = tag /\ k.mem[e - 1] = Epilogue
  BY <1>2, <1>3, <1>6, <1>7, <1>9, <1>10
<1>12. \A r \in Rows : r < b => k.mem[r] = m[r]
  <2>1. \A r \in Rows : r < b => r # b /\ r # e - 2 /\ r # e - 1
    BY <1>2, <1>3 DEF Rows
  <2>2. QED
    BY <2>1, <1>6, <1>7, <1>9
<1>13. SameLists(h0, k)
  BY <1>6, <1>7, <1>9 DEF SameLists
<1>14. /\ k.free = h.free /\ k.quick = h.quick /\ k.end = e /\ k.lost = h.lost
       /\ k.wild = h.wild /\ k.stale = h.stale
  BY <1>4, <1>13 DEF SameLists
<1>15. InFree(k) = InFree(h) /\ InQuick(k) = InQuick(h)
  BY <1>14 DEF InFree, InQuick
<1>16. \A c \in B : /\ c < b /\ k.mem[c] = m[c] /\ c \in Int /\ c + m[c].size <= b
                    /\ m[c].size \in Int /\ M <= m[c].size /\ M <= c
  <2>1. \A c \in B : c < b /\ c \in Int /\ c + m[c].size <= b /\ M <= m[c].size /\ M <= c /\ m[c].size \in Int
    <3> TAKE c \in B
    <3>1. c \in Int /\ M <= c /\ M <= Size(h, c) /\ Size(h, c) \in Nat /\ c < NextBlock(h, c)
          /\ NextBlock(h, c) = c + Size(h, c) /\ NextBlock(h, c) <= b
      BY NextIsBlock DEF Rows
    <3>2. QED
      BY <3>1, <1>3 DEF Size
  <2>2. QED
    BY <2>1, <1>2, <1>12
<1>17. b \notin B
  BY <1>3, <1>16
<1>18. Lists(k)
  <2>1. \A i \in FreeLists : Range(h.free[i]) \subseteq B
    BY DEF AllBlocks, InFree
  <2>2. \A q \in QuickLists : Range(h.quick[q]) \subseteq B
    BY DEF AllBlocks, InQuick
  <2>3. \A c \in B : k.mem[c] = h.mem[c]
    BY <1>16
  <2>4. Lists(h)
    BY DEF HeapOK
  <2>5. ASSUME NEW i \in FreeLists PROVE FreeListOK(k, i)
    BY <2>1, <2>3, <2>4, <1>14 DEF Lists, FreeListOK, Size
  <2>6. ASSUME NEW q \in QuickLists PROVE QuickListOK(k, q)
    BY <2>2, <2>3, <2>4, <1>14 DEF Lists, QuickListOK, Size
  <2>7. QED
    BY <2>5, <2>6 DEF Lists
<1>19. Kinds(k, A, U \cup {b})
  BY <1>15, <1>17 DEF HeapOK, Kinds, AllBlocks
<1>20. AllBlocks(k, A, U \cup {b}) = B \cup {b} /\ (U \cup {b}) \cup InFree(k) = G \cup {b}
  BY <1>15 DEF AllBlocks
<1>21. Sound(m, h.end, B, G)
  BY DEF HeapOK
<1>22. Tiles(k.mem, M, e - 1, B \cup {b})
  <2>1. Tiles(m, M, b, B)
    BY <1>21 DEF Sound
  <2>2. \A c \in B \cup {b} : M <= c /\ M <= k.mem[c].size /\ c + k.mem[c].size <= e - 1
    BY <1>2, <1>3, <1>5, <1>11, <1>16
  <2>3. ASSUME NEW c \in B \cup {b}, NEW d \in B \cup {b}, c < d
        PROVE  c + k.mem[c].size <= d
    <3>1. CASE c \in B /\ d \in B
      BY <3>1, <2>1, <2>3, <1>16 DEF Tiles
    <3>2. CASE c \in B /\ d = b
      BY <3>2, <1>16
    <3>3. CASE c = b
      BY <3>3, <2>3, <1>3, <1>16
    <3>4. QED
      BY <3>1, <3>2, <3>3
  <2>4. ASSUME NEW r \in M..(e - 2)
        PROVE  \E c \in B \cup {b} : c <= r /\ r < c + k.mem[c].size
    <3>1. CASE r < b
      <4>1. r \in M..(b - 1)
        BY <3>1, <1>3
      <4>2. QED
        BY <4>1, <2>1, <1>16 DEF Tiles
    <3>2. CASE r >= b
      BY <3>2, <1>3, <1>5, <1>11
    <3>3. QED
      BY <3>1, <3>2, <1>3
  <2>5. (e - 1) - 1 = e - 2
    BY <1>2
  <2>6. QED
    BY <2>2, <2>3, <2>4, <2>5 DEF Tiles
<1>23. \A c \in G \cup {b} : FreeTags(k.mem, c)
  <2>1. ASSUME NEW c \in G PROVE FreeTags(k.mem, c)
    <3>1. c \in B /\ FreeTags(m, c)
      BY <1>21 DEF Sound
    <3>2. c + m[c].size - 1 \in Rows /\ c + m[c].size - 1 < b
      BY <3>1, <1>2, <1>3, <1>16 DEF Rows
    <3>3. k.mem[c] = m[c] /\ k.mem[c + m[c].size - 1] = m[c + m[c].size - 1]
      BY <3>1, <3>2, <1>12, <1>16
    <3>4. QED
      BY <3>1, <3>3 DEF FreeTags
  <2>2. FreeTags(k.mem, b)
    <3>1. b + k.mem[b].size - 1 = e - 2
      BY <1>2, <1>3, <1>5, <1>11
    <3>2. QED
      BY <3>1, <1>5, <1>11 DEF FreeTags
  <2>3. QED
    BY <2>1, <2>2
<1>24. \A c \in ((B \cup {b}) \ (G \cup {b})) \cup {e - 1} : k.mem[c].alloc
  BY <1>5, <1>11, <1>16, <1>21 DEF Sound
<1>25. ASSUME NEW c \in B \cup {b}
       PROVE  k.mem[c].prev \/ Ends(k.mem, G \cup {b}, c)
  <2>1. k.mem[c].prev = m[c].prev
    BY <1>5, <1>11, <1>16
  <2>2. m[c].prev \/ Ends(m, G, c)
    BY <1>21 DEF Sound
  <2>3. G \subseteq B
    BY <1>21 DEF Sound
  <2>4. Ends(m, G, c) => Ends(k.mem, G \cup {b}, c)
    BY <2>3, <1>16 DEF Ends
  <2>5. QED
    BY <2>1, <2>2, <2>4
<1>26. Ends(k.mem, G \cup {b}, e - 1)
  BY <1>3, <1>5, <1>11 DEF Ends
<1>27. Sound(k.mem, e, B \cup {b}, G \cup {b})
  <2>1. G \cup {b} \subseteq B \cup {b} /\ B \cup {b} \subseteq Rows
    BY <1>2, <1>21 DEF Sound
  <2>2. QED
    BY <2>1, <1>22, <1>23, <1>24, <1>25, <1>26 DEF Sound
<1>28. HeapOK(k, A, U \cup {b})
  <2>1. k.end >= PAGE
    BY <1>2, <1>14
  <2>2. Sound(k.mem, k.end, AllBlocks(k, A, U \cup {b}), (U \cup {b}) \cup InFree(k))
    BY <1>14, <1>20, <1>27
  <2>3. QED
    BY <2>1, <2>2, <1>9, <1>18, <1>19 DEF HeapOK
<1>29. Size(k, b) = PAGE /\ NextBlock(k, b) = k.end - 1 /\ k.mem[b].prev = m[b].prev
  BY <1>3, <1>5, <1>11, <1>14 DEF Size, NextBlock
<1>30. k.end - 2 = e - 2 /\ k.end - 1 = e - 1
  BY <1>14
<1> HIDE DEF e, b
<1>31. /\ HeapOK(k, A, U \cup {b}) /\ b \notin AllBlocks(h, A, U) /\ b \in Rows /\ b > M
       /\ k.end = h.end + PAGE
  BY <1>2, <1>3, <1>14, <1>17, <1>28 DEF e
<1>32. /\ k.mem[k.end - 2] = k.mem[b] /\ k.mem[k.end - 1].alloc /\ ~k.mem[k.end - 1].prev
  BY <1>5, <1>11, <1>30
<1>33. Extends(h, k, A, U, b)
  BY <1>12, <1>14, <1>29, <1>31, <1>32 DEF Extends
<1>34. QED
  BY <1>1, <1>33 DEF b

\* The heap h has grown by a page, as k, where p is the last block, in no list.
Grows(h, k, A, U, p) ==
    /\ HeapOK(k, A, U \cup {p}) /\ Spares(h, k, A)
    /\ k.end = h.end + PAGE /\ k.lost = h.lost /\ k.stale = h.stale /\ k.quick = h.quick
    /\ InFree(k) = InFree(h) \ {p}
    /\ NextBlock(k, p) = k.end - 1 /\ ~k.mem[k.end - 1].prev
    /\ k.mem[k.end - 2] = k.mem[p]
    /\ \A r \in Rows : r < p => k.mem[r] = h.mem[r]
    /\ \/ p = h.end - 1 /\ h.mem[p].prev
       \/ p \in U \cup InFree(h) /\ NextBlock(h, p) = h.end - 1 /\ p # h.end - 1
    /\ p \in U /\ p # request.block => k.wild
    /\ p \notin U \/ p = request.block => k.wild = h.wild

\* What is in memory before the epilogue.
LEMMA LastBit ==
    ASSUME NEW h, NEW g, NEW A, NEW U, NEW b, HeapOK(h, A, U), Extends(h, g, A, U, b), b = h.end - 1
    PROVE  LET p == PrevBlock(g, b) IN
           \/ p = b /\ h.mem[b].prev
           \/ /\ p \in U \cup InFree(h) /\ NextBlock(h, p) = b /\ p < b
              /\ NextBlock(g, p) = b /\ p \in Rows /\ g.mem[p] = h.mem[p]
<1>1. CASE h.mem[b].prev
  BY <1>1 DEF Extends, PrevBlock
<1>2. CASE ~h.mem[b].prev
  <2>1. /\ PrevBlock(h, b) \in U \cup InFree(h) /\ NextBlock(h, PrevBlock(h, b)) = b
        /\ PrevBlock(h, b) < b
    BY <1>2, PrevFound
  <2>2. b - 1 \in Rows /\ b - 1 < b
    <3>1. b \in Rows /\ b > M /\ PAGE * MaxPages \in Nat
      BY SizeAssumption DEF Extends
    <3>2. QED
      BY <3>1 DEF Rows
  <2>3. PrevBlock(g, b) = PrevBlock(h, b)
    BY <2>2, <1>2 DEF Extends, PrevBlock
  <2>4. PrevBlock(h, b) \in Rows
    BY <2>1, HeapTypes
  <2>5. g.mem[PrevBlock(h, b)] = h.mem[PrevBlock(h, b)]
    BY <2>1, <2>4 DEF Extends
  <2>6. QED
    BY <2>1, <2>3, <2>4, <2>5 DEF NextBlock, Size
<1>3. QED
  BY <1>1, <1>2

\* sf_mem_grow and the merge with the block before the new page.
LEMMA GrownOK ==
    ASSUME NEW h, NEW A, NEW U, HeapOK(h, A, U), h.end + PAGE <= PAGE * MaxPages,
           request.block \in U \cup {0}
    PROVE  Grows(h, Grown(h), A, U, GrownBlock(h))
<1> DEFINE b == h.end - 1
           g == NewPage(h)
           p == PrevBlock(g, b)
           x == IF p = request.block THEN g ELSE Unlink(g, p)
           size == Size(g, p) + Size(g, b)
           k == Joined(x, p, size)
<1>1. GrownBlock(h) = p /\ Grown(h) = IF p = b THEN g ELSE k
  BY DEF GrownBlock, Grown, Joined
<1>2. Extends(h, g, A, U, b)
  BY NewPageOK
<1>3. b = h.end - 1
  OBVIOUS
<1>4. /\ h \in Heaps /\ h.end \in Nat /\ PAGE \in Nat /\ A \subseteq AllBlocks(h, A, U)
      /\ U \subseteq AllBlocks(h, A, U) /\ U \cap InFree(h) = {} /\ h.end - 1 \in Int
  <2>1. h \in Heaps /\ h.end \in Nat /\ PAGE \in Nat
    BY HeapTypes, SizeAssumption
  <2>2. U \cap InFree(h) = {}
    BY DEF HeapOK, Kinds
  <2>3. QED
    BY <2>1, <2>2 DEF AllBlocks
<1> HIDE DEF b, g
<1>5. \/ p = b /\ h.mem[b].prev
      \/ /\ p \in U \cup InFree(h) /\ NextBlock(h, p) = b /\ p < b
         /\ NextBlock(g, p) = b /\ p \in Rows /\ g.mem[p] = h.mem[p]
  BY <1>2, <1>3, LastBit
<1> HIDE DEF p
<1>6. InFree(g) = InFree(h) /\ InQuick(g) = InQuick(h)
  BY <1>2 DEF Extends, InFree, InQuick
<1>7. Spares(h, g, A)
  <2>1. ASSUME NEW c \in A PROVE g.mem[c] = h.mem[c]
    <3>1. c \in AllBlocks(h, A, U)
      BY <1>4
    <3>2. c \in Rows /\ c < NextBlock(h, c) /\ NextBlock(h, c) <= b /\ NextBlock(h, c) \in Rows
      BY <3>1, <1>3, NextIsBlock
    <3>3. c < b
      BY <3>2, <1>3, <1>4 DEF Rows
    <3>4. QED
      BY <3>2, <3>3, <1>2 DEF Extends
  <2>2. QED
    BY <2>1 DEF Spares, Size
<1>8. b \notin AllBlocks(h, A, U) /\ b \in Rows /\ b > 0
  BY <1>2 DEF Extends, Rows
<1>9. CASE p = b
  <2>1. b \notin InFree(h) /\ b \notin U
    BY <1>8 DEF AllBlocks
  <2>2. b # request.block
    BY <2>1, <1>8
  <2>3. Grown(h) = g
    BY <1>1, <1>9
  <2>4. /\ HeapOK(g, A, U \cup {b}) /\ g.end = h.end + PAGE /\ g.lost = h.lost /\ g.stale = h.stale
        /\ g.quick = h.quick /\ InFree(g) = InFree(h) \ {b} /\ g.wild = h.wild
    BY <2>1, <1>2, <1>6 DEF Extends
  <2>5. /\ NextBlock(g, b) = g.end - 1 /\ ~g.mem[g.end - 1].prev /\ g.mem[g.end - 2] = g.mem[b]
        /\ \A r \in Rows : r < b => g.mem[r] = h.mem[r]
    BY <1>2 DEF Extends
  <2>6. Grows(h, g, A, U, b)
    BY <2>1, <2>4, <2>5, <1>3, <1>5, <1>7, <1>9 DEF Grows
  <2>7. QED
    BY <2>3, <2>6, <1>1, <1>9
<1>10. CASE p # b
  <2>1. /\ p \in U \cup InFree(h) /\ NextBlock(h, p) = b /\ p < b
        /\ NextBlock(g, p) = b /\ p \in Rows /\ g.mem[p] = h.mem[p]
    BY <1>5, <1>10
  <2>2. HeapOK(g, A, U \cup {b})
    BY <1>2 DEF Extends
  <2>3. /\ HeapOK(x, A, U \cup {b} \cup {p})
        /\ x.mem = g.mem /\ x.quick = g.quick /\ x.end = g.end /\ x.lost = g.lost
        /\ x.stale = g.stale /\ InFree(x) = InFree(g) \ {p}
        /\ p \in U /\ p # request.block => x.wild
        /\ p \notin U \/ p = request.block => x.wild = g.wild
    <3>1. CASE p = request.block
      <4>1. 0 \notin InFree(h) /\ p # 0
        <5>1. p \in AllBlocks(h, A, U)
          BY <2>1 DEF AllBlocks
        <5>2. M <= p
          BY <5>1, NextIsBlock
        <5>3. ASSUME 0 \in InFree(h) PROVE FALSE
          <6>1. 0 \in AllBlocks(h, A, U)
            BY <5>3 DEF AllBlocks
          <6>2. M <= 0
            BY <6>1, NextIsBlock
          <6>3. QED
            BY <6>2
        <5>4. QED
          BY <5>2, <5>3
      <4>2. p \in U
        BY <4>1, <3>1
      <4>3. U \cup {b} \cup {p} = U \cup {b} /\ p \notin InFree(g)
        BY <4>2, <1>4, <1>6
      <4>4. x = g
        BY <3>1
      <4>5. QED
        BY <2>2, <3>1, <4>3, <4>4
    <3>2. CASE p # request.block
      <4>1. p \in (U \cup {b}) \cup InFree(g)
        BY <2>1, <1>6
      <4> DEFINE y == Unlink(g, p)
                 V == U \cup {b}
      <4>2. HeapOK(g, A, V) /\ p \in V \cup InFree(g)
        BY <2>2, <4>1
      <4> HIDE DEF V
      <4>3. /\ HeapOK(y, A, V \cup {p})
            /\ y.mem = g.mem /\ y.quick = g.quick /\ y.end = g.end /\ y.lost = g.lost
            /\ y.stale = g.stale /\ (g.wild => y.wild) /\ (p \in V => y.wild)
            /\ (p \in InFree(g) => y.wild = g.wild)
            /\ InFree(y) = InFree(g) \ {p}
        BY <4>2, UnlinkOK
      <4>4. x = y
        BY <3>2
      <4> HIDE DEF y, x
      <4>5. p \in U => p \in V
        BY DEF V
      <4>6. p \notin U => p \in InFree(g)
        BY <2>1, <1>6
      <4>7. QED
        BY <4>3, <4>4, <4>5, <4>6, <3>2 DEF V
    <3>3. QED
      BY <3>1, <3>2
  <2> HIDE DEF x
  <2> DEFINE W == U \cup {b} \cup {p}
  <2>4. /\ HeapOK(x, A, W) /\ p \in W /\ b \in W /\ NextBlock(x, p) = b
        /\ size = Size(x, p) + Size(x, b)
    BY <2>1, <2>3 DEF NextBlock, Size
  <2>5. W \ {b} = U \cup {p}
    BY <1>8, <1>10 DEF AllBlocks
  <2> HIDE DEF W, size
  <2>6. /\ HeapOK(k, A, W \ {b}) /\ Joins(x, k, A, p, b) /\ SameRows(x, k, {NextBlock(x, b)})
    BY <2>4, JoinOK
  <2> HIDE DEF k
  <2>7. Grown(h) = k
    BY <1>1, <1>10
  <2>8. HeapOK(k, A, U \cup {p})
    BY <2>5, <2>6
  <2>9. /\ k.free = x.free /\ k.quick = x.quick /\ k.end = x.end /\ k.wild = x.wild
        /\ k.stale = x.stale /\ k.lost = x.lost /\ InFree(k) = InFree(x)
        /\ Spares(x, k, A)
    BY <2>6 DEF Joins, SameLists, InFree
  <2>10. Spares(h, k, A)
    BY <2>3, <2>9, <1>7 DEF Spares, Size
  <2>11. NextBlock(x, b) = k.end - 1 /\ k.end = h.end + PAGE /\ k.lost = h.lost /\ k.stale = h.stale
         /\ k.quick = h.quick /\ InFree(k) = InFree(h) \ {p}
    BY <2>3, <2>9, <1>2, <1>6 DEF Extends, NextBlock, Size
  <2>12. NextBlock(k, p) = k.end - 1 /\ ~k.mem[k.end - 1].prev
    <3>1. NextBlock(k, p) = NextBlock(x, b)
      BY <2>6 DEF Joins
    <3>2. k.mem[k.end - 1] = g.mem[k.end - 1] /\ k.end = g.end
      BY <2>3, <2>6, <2>9, <2>11 DEF SameRows
    <3>3. QED
      BY <3>1, <3>2, <2>11, <1>2 DEF Extends
  <2>13. k.mem[k.end - 2] = k.mem[p]
    <3>1. k.mem[NextBlock(k, p) - 1] = k.mem[p]
      BY <2>6 DEF Joins
    <3>2. NextBlock(k, p) - 1 = k.end - 2
      BY <2>11, <2>12, <1>4
    <3>3. QED
      BY <3>1, <3>2
  <2>14. ASSUME NEW r \in Rows, r < p PROVE k.mem[r] = h.mem[r]
    <3>1. r < b
      BY <2>1, <2>14, <1>8 DEF Rows
    <3>2. k.mem[r] = x.mem[r]
      BY <2>6, <2>14 DEF Joins, Frame
    <3>3. g.mem[r] = h.mem[r]
      BY <3>1, <1>2 DEF Extends
    <3>4. QED
      BY <3>2, <3>3, <2>3
  <2>15. /\ p \in U /\ p # request.block => k.wild
         /\ p \notin U \/ p = request.block => k.wild = h.wild
    BY <2>3, <2>9, <1>2 DEF Extends
  <2>16. Grows(h, k, A, U, p)
    BY <2>1, <2>8, <2>10, <2>11, <2>12, <2>13, <2>14, <2>15, <1>3, <1>10 DEF Grows
  <2>17. QED
    BY <2>7, <2>16, <1>1
<1>11. QED
  BY <1>9, <1>10

\* Division with remainder.
LEMMA Euclid ==
    ASSUME NEW x \in Nat, NEW n \in Nat, n > 0
    PROVE  x = n * (x \div n) + (x % n) /\ x % n \in 0..(n - 1) /\ x \div n \in Nat
OBVIOUS

\* A multiple has no remainder.
LEMMA MultipleOf ==
    ASSUME NEW k \in Nat, NEW n \in Nat, n > 0
    PROVE  (n * k) % n = 0
OBVIOUS

\* Going to the next multiple.
LEMMA RoundedUp ==
    ASSUME NEW x \in Nat, NEW n \in Nat, n > 0
    PROVE  (x + n - (x % n)) % n = 0
<1> DEFINE k == x \div n
<1>1. x = n * k + (x % n) /\ k \in Nat /\ x % n \in Nat
  BY Euclid
<1> HIDE DEF k
<1>2. n * k \in Nat /\ n * (k + 1) = n * k + n
  BY <1>1
<1>3. x + n - (x % n) = n * (k + 1)
  BY <1>1, <1>2
<1>4. k + 1 \in Nat
  BY <1>1
<1>5. QED
  BY <1>3, <1>4, MultipleOf

\* A multiple in rows is one in bytes.
LEMMA InBytes ==
    ASSUME NEW x \in Nat, NEW n \in Nat, n > 0, x % n = 0
    PROVE  (8 * x) % (8 * n) = 0
<1> DEFINE k == x \div n
<1>1. x = n * k /\ k \in Nat
  BY Euclid
<1> HIDE DEF k
<1>2. 8 * x = (8 * n) * k /\ 8 * n \in Nat /\ 8 * n > 0
  BY <1>1
<1>3. ((8 * n) * k) % (8 * n) = 0
  BY <1>1, <1>2, MultipleOf
<1>4. QED
  BY <1>2, <1>3

\* A block of the size that a request is rounded to holds what was asked for.
LEMMA RowsForOK ==
    ASSUME NEW bytes \in Nat
    PROVE  /\ RowsFor(bytes) \in Nat /\ M <= RowsFor(bytes)
           /\ 8 * (RowsFor(bytes) - 1) >= bytes
           /\ 8 * RowsFor(bytes) <= bytes + 15 \/ RowsFor(bytes) = M
BY DEF RowsFor

\* The rows that are cut off in front of an aligned block.
LEMMA OffsetOK ==
    ASSUME NEW b \in Nat, NEW align \in Nat, align > 0, align % 8 = 0
    PROVE  LET o == Offset(b, align) IN
           /\ o \in Nat /\ (o = 0 \/ M <= o) /\ 8 * o <= align + 24
           /\ (8 * (b + o + 1)) % align = 0
<1> DEFINE rows == align \div 8
           o == Offset(b, align)
           over == (b + 1 + M) % rows
<1>1. rows \in Nat /\ align = 8 * rows /\ rows > 0
  BY Euclid
<1>2. o = IF (b + 1) % rows = 0 THEN 0 ELSE IF over = 0 THEN M ELSE M + rows - over
  BY DEF Offset
<1> HIDE DEF rows, o
<1>3. over \in 0..(rows - 1)
  BY <1>1, Euclid
<1>4. o \in Nat /\ (o = 0 \/ M <= o) /\ o <= M + rows - 1
  <2> HIDE DEF over
  <2>1. QED
    BY <1>1, <1>2, <1>3
<1>5. (b + o + 1) % rows = 0
  <2>1. CASE (b + 1) % rows = 0
    <3>1. b + o + 1 = b + 1
      BY <2>1, <1>2
    <3>2. QED
      BY <2>1, <3>1
  <2>2. CASE (b + 1) % rows # 0 /\ over = 0
    <3>1. b + o + 1 = b + 1 + M
      BY <2>2, <1>2
    <3>2. QED
      BY <2>2, <3>1
  <2>3. CASE (b + 1) % rows # 0 /\ over # 0
    <3> DEFINE x == b + 1 + M
    <3>0. x \in Nat /\ x = b + 1 + M /\ over = x % rows
      OBVIOUS
    <3> HIDE DEF x, over
    <3>1. (x + rows - (x % rows)) % rows = 0
      BY <1>1, <3>0, RoundedUp
    <3>2. o = M + rows - over
      BY <1>2, <2>3
    <3>3. b + o + 1 = x + rows - over
      BY <3>0, <3>2, <1>1, <1>3
    <3>4. QED
      BY <3>0, <3>1, <3>3
  <2>4. QED
    BY <2>1, <2>2, <2>3
<1>6. (8 * (b + o + 1)) % (8 * rows) = 0
  <2>1. b + o + 1 \in Nat
    BY <1>4
  <2>2. QED
    BY <2>1, <1>1, <1>5, InBytes
<1>7. 8 * o <= align + 24
  BY <1>1, <1>4
<1>8. QED
  BY <1>1, <1>4, <1>6, <1>7 DEF o

\* The room that sf_memalign asks for is enough behind the rows cut off.
LEMMA RoomToAlign ==
    ASSUME NEW bytes \in Nat, bytes > 0, NEW align \in Nat,
           NEW size \in Nat, size >= RowsFor(bytes + align + 40), NEW o \in Nat, 8 * o <= align + 24
    PROVE  RowsFor(bytes) <= size - o /\ 8 * (size - o - 1) >= bytes
<1>1. 8 * (RowsFor(bytes + align + 40) - 1) >= bytes + align + 40 /\ RowsFor(bytes + align + 40) \in Nat
  BY RowsForOK
<1>2. 8 * RowsFor(bytes) <= bytes + 15 \/ RowsFor(bytes) = 4
  BY RowsForOK
<1>3. RowsFor(bytes) \in Nat
  BY RowsForOK
<1>4. 8 * (size - o) >= bytes + 24
  BY <1>1
<1>5. QED
  BY <1>2, <1>3, <1>4

\* The block is handed out; the user may write anything into it.
LEMMA HandOutOK ==
    ASSUME NEW h, NEW A, NEW U, HeapOK(h, A, U), NEW b \in A
    PROVE  LET g == Forget(h, (b + 1)..(NextBlock(h, b) - 1)) IN
           /\ HeapOK(g, A, U) /\ Keeps(h, g, A) /\ g.wild = h.wild /\ g.stale = h.stale /\ g.free = h.free
           /\ Tidy(h) => Tidy(g)
<1> DEFINE g == Forget(h, (b + 1)..(NextBlock(h, b) - 1))
<1>1. /\ HeapOK(g, A, U) /\ SameLists(h, g)
      /\ SameRows(h, g, AllBlocks(h, A, U) \cup {h.end - 1})
      /\ SameRows(h, g, Outside(Rows, b + 1, NextBlock(h, b)))
  BY ForgetOK
<1> HIDE DEF g
<1>2. A \subseteq AllBlocks(h, A, U)
  BY DEF AllBlocks
<1>3. Keeps(h, g, A)
  BY <1>1, <1>2 DEF Keeps, Spares, SameLists, SameRows, Size
<1>4. Tidy(h) => Tidy(g)
  <2> DEFINE K == InFree(h)
             hi == NextBlock(h, b)
  <2>1. SUFFICES ASSUME Merged(h.mem, K) PROVE Merged(g.mem, K)
    BY <1>1 DEF Tidy, SameLists, InFree
  <2>2. K \subseteq AllBlocks(h, A, U) /\ b \in A \cup U
    BY DEF AllBlocks
  <2>3. b \in Int /\ hi \in Int /\ b < hi /\ \A c \in K : c < b \/ hi <= c
    BY <2>2, UnlistedOne
  <2>4. ASSUME NEW k \in K
        PROVE  g.mem[NextBlock(h, k) - 1] = h.mem[NextBlock(h, k) - 1]
    <3> DEFINE r == NextBlock(h, k) - 1
    <3>1. k \in AllBlocks(h, A, U) /\ b \in AllBlocks(h, A, U)
      BY <2>2, <1>2
    <3>2. /\ k \in Int /\ NextBlock(h, k) \in Rows /\ NextBlock(h, k) = k + Size(h, k)
          /\ Size(h, k) \in Nat /\ M <= Size(h, k) /\ M <= k
          /\ hi = b + Size(h, b) /\ M <= Size(h, b) /\ Size(h, b) \in Nat
      BY <3>1, NextIsBlock DEF Rows
    <3>3. PAGE * MaxPages \in Nat
      BY SizeAssumption
    <3>4. r \in Rows /\ r \in Int /\ r = k + Size(h, k) - 1
      BY <3>2, <3>3 DEF Rows
    <3>5. k # b
      BY <2>3
    <3>6. b + Size(h, b) <= k \/ k + Size(h, k) <= b
      BY <3>1, <3>5, BlocksApart
    <3> HIDE DEF r, hi
    <3>7. r < b + 1 \/ hi <= r
      BY <2>3, <3>2, <3>4, <3>6
    <3>8. r \in Outside(Rows, b + 1, hi)
      BY <3>4, <3>7 DEF Outside
    <3>9. QED
      BY <3>8, <1>1 DEF SameRows, r, hi
  <2> HIDE DEF K
  <2>5. QED
    BY <2>1, <2>2, <2>4, <1>1, MergedRows
<1>5. QED
  BY <1>1, <1>3, <1>4 DEF SameLists, g

\* The search looks at the head of a free list.
LEMMA SearchedOK ==
    ASSUME NEW h \in Heaps, NEW size, Candidates(h, size) # {}
    PROVE  Searched(h, size) \in InFree(h)
<1> DEFINE C == Candidates(h, size)
           i == CHOOSE i \in C : \A j \in C : i <= j
<1>1. C \in SUBSET Nat /\ C \subseteq FreeLists /\ \A j \in C : h.free[j] # << >>
  BY DEF Candidates, FreeLists
<1> HIDE DEF C
<1>2. \E n \in C : \A j \in C : n <= j
  BY <1>1, LeastExists DEF C
<1>3. i \in C
  BY <1>2
<1>4. Searched(h, size) = Head(h.free[i])
  BY DEF Searched, C
<1> HIDE DEF i
<1>5. i \in FreeLists /\ h.free[i] \in Seq(Rows) /\ h.free[i] # << >>
  BY <1>1, <1>3 DEF Heaps
<1>6. Head(h.free[i]) \in Range(h.free[i])
  BY <1>5, FirstTaken
<1>7. QED
  BY <1>4, <1>5, <1>6 DEF InFree

\* What the invariant says of the heap and the blocks that are held, without the call.
Safe(h, A, U) ==
    /\ HeapOK(h, A, U)
    /\ \A b \in A : ~h.mem[b].inq

\* What the user asks for when a search begins.
Requested(r) ==
    /\ r \in [op : {"malloc", "realloc", "memalign"}, bytes : Nat, align : Nat,
              old : Nat, size : Nat, block : Nat]
    /\ r.bytes > 0 /\ r.block = 0 /\ M <= r.size
    /\ r.op = "memalign" => /\ r.align \in Alignments
                            /\ r.size = RowsFor(r.bytes + r.align + 40)
    /\ r.op # "memalign" => r.align = 8 /\ r.size = RowsFor(r.bytes)
    /\ r.op = "realloc" => r.old \in Owned

\* The calls ask for something.
LEMMA MallocAsks ==
    ASSUME TypeOK, NEW bytes \in Sizes
    PROVE  Requested(Request("malloc", bytes, 8, 0, RowsFor(bytes)))
<1>1. bytes \in Nat /\ bytes > 0
  BY RequestAssumption
<1>2. RowsFor(bytes) \in Nat /\ M <= RowsFor(bytes)
  BY <1>1, RowsForOK
<1>3. QED
  BY <1>1, <1>2 DEF Requested, Request

\* What sf_memalign asks of sf_malloc is a proper request.
LEMMA MemalignAsks ==
    ASSUME TypeOK, NEW bytes \in AlignedSizes, NEW align \in Alignments
    PROVE  Requested(Request("memalign", bytes, align, 0, RowsFor(bytes + align + 40)))
<1>1. bytes \in Nat /\ bytes > 0 /\ align \in Nat
  BY RequestAssumption
<1>2. bytes + align + 40 \in Nat
  BY <1>1
<1>3. RowsFor(bytes + align + 40) \in Nat /\ M <= RowsFor(bytes + align + 40)
  BY <1>2, RowsForOK
<1>4. QED
  BY <1>1, <1>3 DEF Requested, Request

\* What sf_realloc asks of sf_malloc is a proper request.
LEMMA ReallocAsks ==
    ASSUME TypeOK, NEW bytes \in Resizes, NEW b \in Owned
    PROVE  Requested(Request("realloc", bytes, 8, b, RowsFor(bytes)))
<1>1. bytes \in Nat /\ bytes > 0 /\ b \in Nat
  BY RequestAssumption DEF Owned, Rows
<1>2. RowsFor(bytes) \in Nat /\ M <= RowsFor(bytes)
  BY <1>1, RowsForOK
<1>3. QED
  BY <1>1, <1>2 DEF Requested, Request

\* A block b, in no list any more, can be used for a request; L are the free blocks in no
\* list then.
Usable(h, A, U, b, O, L, size) ==
    /\ HeapOK(h, A, U) /\ O \subseteq A
    /\ b \in A \cup U /\ b \notin O /\ O \cup {b} = A \cup {b} /\ U \ {b} = L
    /\ \A c \in O : ~h.mem[c].inq
    /\ size \in Nat /\ M <= size /\ size <= Size(h, b)

Used(h, g, b, O, L, size) ==
    /\ Safe(g, O \cup {b}, L) /\ Keeps(h, g, O) /\ g.stale = h.stale /\ g.wild = h.wild
    /\ b \notin O /\ size <= Size(g, b) /\ b \in Rows

\* A block that is large enough is placed, and the user's other blocks stay as they are.
LEMMA UseOK ==
    ASSUME NEW h, NEW A, NEW U, NEW b, NEW O, NEW L, NEW size, Usable(h, A, U, b, O, L, size)
    PROVE  Used(h, Place(h, b, size), b, O, L, size)
<1> DEFINE g == Place(h, b, size)
<1>0. /\ HeapOK(h, A, U) /\ O \subseteq A
      /\ b \in A \cup U /\ b \notin O /\ O \cup {b} = A \cup {b} /\ U \ {b} = L
      /\ \A c \in O : ~h.mem[c].inq
      /\ size \in Nat /\ M <= size /\ size <= Size(h, b)
  BY DEF Usable
<1>1. /\ HeapOK(g, A \cup {b}, U \ {b})
      /\ Keeps(h, g, A \ {b}) /\ g.stale = h.stale /\ g.wild = h.wild
      /\ ~g.mem[b].inq /\ size <= Size(g, b)
      /\ ~(Size(h, b) - size >= M) => Fills(h, g, b)
  BY <1>0, PlaceOK
<1> HIDE DEF g
<1>2. O \subseteq A \ {b}
  BY <1>0
<1>3. Keeps(h, g, O)
  BY <1>1, <1>2 DEF Keeps, Spares
<1>4. \A c \in O \cup {b} : ~g.mem[c].inq
  BY <1>0, <1>1, <1>3 DEF Keeps, Spares
<1>5. HeapOK(g, O \cup {b}, L)
  BY <1>0, <1>1
<1>6. b \in Rows
  BY <1>0, HeapTypes
<1>7. Used(h, g, b, O, L, size)
  BY <1>0, <1>1, <1>3, <1>4, <1>5, <1>6 DEF Safe, Used
<1>8. QED
  BY <1>7 DEF g

\* ... and free blocks stay merged, if the one that is used was.
LEMMA UseTidy ==
    ASSUME NEW h, NEW A, NEW U, NEW b, NEW O, NEW L, NEW size, Usable(h, A, U, b, O, L, size),
           ~h.wild /\ ~h.stale => Merged(h.mem, InFree(h)) /\ Fitting(h, b, size)
    PROVE  Tidy(Place(h, b, size))
<1> DEFINE g == Place(h, b, size)
<1>1. /\ HeapOK(h, A, U) /\ b \in A \cup U
      /\ size \in Nat /\ M <= size /\ size <= Size(h, b)
  BY DEF Usable
<1>2. /\ HeapOK(g, A \cup {b}, U \ {b})
      /\ Keeps(h, g, A \ {b}) /\ g.stale = h.stale /\ g.wild = h.wild
      /\ ~g.mem[b].inq /\ size <= Size(g, b)
      /\ ~(Size(h, b) - size >= M) => Fills(h, g, b)
  BY <1>1, PlaceOK
<1>3. ASSUME ~g.wild, ~g.stale PROVE Merged(g.mem, InFree(g))
  <2>1. Merged(h.mem, InFree(h)) /\ Fitting(h, b, size)
    BY <1>2, <1>3
  <2>2. QED
    BY <1>1, <2>1, PlaceTidy
<1>4. QED
  BY <1>3 DEF Tidy

\* The heap that a search starts with.
Ready(h, l) ==
    /\ Safe(h, Owned, heap.lost) /\ h.lost = heap.lost /\ h.wild = FALSE
    /\ h.end + PAGE * l <= PAGE * MaxPages
    /\ l \in 0..MaxPages
    /\ Spares(heap, h, Owned) /\ h.stale = heap.stale
    /\ Tidy(heap) => Tidy(h)

\* There is room for a page as long as one is left.
LEMMA PagesLeft ==
    ASSUME NEW l \in 0..MaxPages, l > 0, NEW e \in Nat, e + PAGE * l <= PAGE * MaxPages
    PROVE  /\ e + PAGE <= PAGE * MaxPages
           /\ (e + PAGE) + PAGE * (l - 1) <= PAGE * MaxPages
           /\ l - 1 \in 0..MaxPages
<1>1. PAGE \in Nat /\ MaxPages \in Nat
  BY SizeAssumption
<1>2. PAGE * (l - 1) = PAGE * l - PAGE /\ PAGE * l \in Nat /\ PAGE * MaxPages \in Nat
      /\ l - 1 \in Nat
  BY <1>1
<1>3. PAGE * (l - 1) \in Nat
  BY <1>1, <1>2
<1>4. QED
  BY <1>1, <1>2, <1>3

\* A search starts with a sound heap: the one there is, or the first page.
LEMMA SearchStart ==
    ASSUME IInv, pc = "user", ~heap.wild, heap.end = 0 => left > 0
    PROVE  Ready(IF heap.end = 0 THEN FirstPage(heap) ELSE heap,
                 IF heap.end = 0 THEN left - 1 ELSE left)
<1>1. HeapInv /\ heap \in Heaps /\ left \in 0..MaxPages /\ heap.wild = FALSE
  BY DEF IInv, TypeOK, Heaps
<1>2. Held = Owned /\ Loose = heap.lost
  BY DEF Held, Loose
<1>3. CASE heap.end = 0
  <2>1. Owned = {} /\ heap.lost = {} /\ Bare(heap)
    BY <1>1, <1>3 DEF HeapInv, NoHeap, Bare
  <2>2. left > 0 /\ 0 + PAGE * left <= PAGE * MaxPages
    BY <1>1, <1>3 DEF HeapInv
  <2>3. 0 + PAGE <= PAGE * MaxPages /\ (0 + PAGE) + PAGE * (left - 1) <= PAGE * MaxPages
        /\ left - 1 \in 0..MaxPages
    BY <2>2, <1>1, PagesLeft
  <2>4. PAGE <= PAGE * MaxPages /\ PAGE + PAGE * (left - 1) <= PAGE * MaxPages
    BY <2>3, SizeAssumption
  <2> DEFINE g == FirstPage(heap)
  <2>5. /\ HeapOK(g, {}, {}) /\ g.end = PAGE /\ g.lost = {} /\ ~g.wild /\ g.stale = heap.stale
        /\ Merged(g.mem, InFree(g))
    BY <2>1, <2>4, FirstPageOK
  <2> HIDE DEF g
  <2>6. g.wild = FALSE
    BY <2>5 DEF HeapOK, Heaps
  <2>7. Ready(g, left - 1)
    BY <2>1, <2>3, <2>4, <2>5, <2>6 DEF Ready, Safe, Spares, Tidy
  <2>8. QED
    BY <2>7, <1>3 DEF g
<1>4. CASE heap.end # 0
  <2>1. Safe(heap, Owned, heap.lost)
    BY <1>1, <1>2, <1>4 DEF HeapInv, Safe
  <2>2. Ready(heap, left)
    BY <2>1, <1>1 DEF Ready, Spares, HeapInv
  <2>3. QED
    BY <2>2, <1>4
<1>5. QED
  BY <1>3, <1>4

\* The ways in which a search finds a block.
LEMMA TakesQuick ==
    ASSUME NEW h, NEW l, Ready(h, l), NEW size \in Nat, M <= size,
           NEW q \in QuickLists, size = q + M, h.quick[q] # << >>
    PROVE  LET b == Head(h.quick[q]) IN
           /\ Used(h, Place(TakeQuick(h, q), b, size), b, Owned, heap.lost, size)
           /\ Tidy(h) => Tidy(Place(TakeQuick(h, q), b, size))
<1> DEFINE b == Head(h.quick[q])
           t == TakeQuick(h, q)
           g == Place(t, b, size)
           L == heap.lost
           A == Owned \cup {b}
<1>1. HeapOK(h, Owned, L) /\ \A c \in Owned : ~h.mem[c].inq
  BY DEF Ready, Safe
<1>2. Takes(h, t, Owned, L, q, b)
  <2> HIDE DEF L
  <2>1. QED
    BY <1>1, TakeQuickOK
<1> HIDE DEF b, t, L
<1>3. /\ HeapOK(t, A, L) /\ b \notin Owned /\ b \in AllBlocks(h, Owned, L)
      /\ Size(h, b) = size /\ t.mem = h.mem
      /\ Keeps(h, t, Owned) /\ t.stale = h.stale /\ t.wild = h.wild
      /\ InFree(t) = InFree(h)
  BY <1>2 DEF Takes
<1>4. b \notin L
  BY <1>3 DEF HeapOK, Kinds
<1>5. size <= Size(t, b) /\ \A c \in Owned : ~t.mem[c].inq
  BY <1>1, <1>3 DEF Size
<1>6. Usable(t, A, L, b, Owned, L, size)
  BY <1>3, <1>4, <1>5 DEF Usable
<1>6a. Fitting(t, b, size)
  <2>1. b \in A
    BY DEF A
  <2>2. t.mem[NextBlock(t, b)].prev
    BY <2>1, <1>3, BitOfNext
  <2>3. ~(Size(t, b) - size >= M)
    BY <1>3 DEF Size
  <2>4. QED
    BY <2>2, <2>3 DEF Fitting
<1> HIDE DEF A
<1>6b. ASSUME Tidy(h) PROVE Tidy(g)
  <2>1. ~t.wild /\ ~t.stale => Merged(t.mem, InFree(t)) /\ Fitting(t, b, size)
    BY <1>3, <1>6a, <1>6b DEF Tidy
  <2>2. QED
    BY <2>1, <1>6, UseTidy
<1>7. Used(t, g, b, Owned, L, size)
  BY <1>6, UseOK
<1> HIDE DEF g
<1>8. Keeps(h, g, Owned)
  <2>1. Owned \subseteq Owned /\ Keeps(t, g, Owned)
    BY <1>7 DEF Used
  <2>2. QED
    BY <2>1, <1>3, KeepsTwice
<1>9. Used(h, g, b, Owned, L, size)
  BY <1>3, <1>7, <1>8 DEF Used
<1>10. QED
  BY <1>6b, <1>9 DEF b, t, L, g

\* A block of a free list that is large enough serves a request.
LEMMA TakesFree ==
    ASSUME NEW h, NEW l, Ready(h, l), NEW size \in Nat, M <= size,
           NEW b \in InFree(h), size <= Size(h, b)
    PROVE  /\ Used(h, Place(Unlink(h, b), b, size), b, Owned, heap.lost, size)
           /\ Tidy(h) => Tidy(Place(Unlink(h, b), b, size))
<1> DEFINE t == Unlink(h, b)
           g == Place(t, b, size)
           L == heap.lost
           U == L \cup {b}
<1>1. HeapOK(h, Owned, L) /\ \A c \in Owned : ~h.mem[c].inq
  BY DEF Ready, Safe
<1> HIDE DEF L
<1>2. b \in L \cup InFree(h)
  OBVIOUS
<1>3. /\ HeapOK(t, Owned, U)
      /\ t.mem = h.mem /\ t.quick = h.quick /\ t.end = h.end /\ t.lost = h.lost
      /\ t.stale = h.stale /\ t.wild = h.wild /\ InFree(t) = InFree(h) \ {b}
  BY <1>1, <1>2, UnlinkOK
<1> HIDE DEF t
<1>4. b \notin Owned /\ b \notin L
  BY <1>1 DEF HeapOK, Kinds
<1>5. size <= Size(t, b) /\ \A c \in Owned : ~t.mem[c].inq
  BY <1>1, <1>3 DEF Size
<1>6. Usable(t, Owned, U, b, Owned, L, size)
  BY <1>3, <1>4, <1>5 DEF Usable
<1> HIDE DEF U
<1>6a. ASSUME Tidy(h) PROVE Tidy(g)
  <2>1. ASSUME ~t.wild, ~t.stale PROVE Merged(t.mem, InFree(t)) /\ Fitting(t, b, size)
    <3>1. Merged(h.mem, InFree(h))
      BY <1>3, <1>6a, <2>1 DEF Tidy
    <3>2. Merged(t.mem, InFree(t))
      BY <3>1, <1>3 DEF Merged
    <3>3. ~t.mem[NextBlock(t, b)].prev /\ NextBlock(t, b) \notin InFree(t)
      BY <3>1, <1>3 DEF Merged, NextBlock, Size
    <3>4. QED
      BY <3>2, <3>3 DEF Fitting
  <2>2. QED
    BY <2>1, <1>6, UseTidy
<1>7. Used(t, g, b, Owned, L, size)
  BY <1>6, UseOK
<1> HIDE DEF g
<1>8. Keeps(h, g, Owned)
  BY <1>3, <1>7 DEF Used, Keeps, Spares, Size
<1>9. Used(h, g, b, Owned, L, size)
  BY <1>3, <1>7, <1>8 DEF Used
<1>10. QED
  BY <1>6a, <1>9 DEF t, L, g

\* What the invariant says when the user's blocks have not changed.
Follows(h, r, p, l) ==
    /\ h.wild = FALSE /\ h.lost = heap.lost
    /\ h.end + PAGE * l <= PAGE * MaxPages /\ l \in 0..MaxPages
    /\ Spares(heap, h, Owned) /\ p \in {"found", "grow", "hung"}
    /\ Tidy(heap) => Tidy(h)
    /\ IF p = "found"
       THEN /\ Safe(h, Owned \cup {r.block}, heap.lost)
            /\ r.block \in Rows \ Owned /\ r.size <= Size(h, r.block)
       ELSE Safe(h, Owned, heap.lost) /\ r.block = 0

\* The searches of sf_malloc end with a block in hand or with none, and a sound heap.
LEMMA SearchFollows ==
    ASSUME IInv, NEW r, Requested(r), Search(r)
    PROVE  /\ Follows(heap', request', pc', left') /\ UNCHANGED owned
           /\ request' = [r EXCEPT !.block = request'.block]
<1> DEFINE h == IF heap.end = 0 THEN FirstPage(heap) ELSE heap
           l == IF heap.end = 0 THEN left - 1 ELSE left
           q == r.size - M
           c == Searched(h, r.size)
           Uses(g, b) == /\ heap' = Place(g, b, r.size)
                         /\ request' = [r EXCEPT !.block = b]
                         /\ pc' = "found"
           Result == /\ Follows(heap', request', pc', left')
                     /\ request' = [r EXCEPT !.block = request'.block]
<1>1. /\ pc = "user" /\ ~heap.wild /\ (heap.end = 0 => left > 0) /\ left' = l /\ UNCHANGED owned
  BY DEF Search
<1>2. Ready(h, l)
  BY <1>1, SearchStart
<1>3. \/ q \in QuickLists /\ h.quick[q] # << >> /\ Uses(TakeQuick(h, q), Head(h.quick[q]))
      \/ heap' = h /\ request' = r /\ pc' \in {"grow", "hung"}
      \/ Candidates(h, r.size) # {} /\ Size(h, c) >= r.size /\ Uses(Unlink(h, c), c)
  BY DEF Search
<1> HIDE DEF h, l
<1>4. /\ Safe(h, Owned, heap.lost) /\ h.lost = heap.lost /\ h.wild = FALSE
      /\ h.end + PAGE * l <= PAGE * MaxPages /\ l \in 0..MaxPages
      /\ Spares(heap, h, Owned) /\ (Tidy(heap) => Tidy(h))
  BY <1>2 DEF Ready
<1>5. HeapOK(h, Owned, heap.lost)
  BY <1>4 DEF Safe
<1>6. r.size \in Nat /\ M <= r.size /\ r.block = 0 /\ r = [r EXCEPT !.block = 0]
      /\ \A b \in Nat : /\ [r EXCEPT !.block = b].block = b /\ [r EXCEPT !.block = b].size = r.size
  BY DEF Requested
<1>7. ASSUME NEW t, NEW b, Used(h, Place(t, b, r.size), b, Owned, heap.lost, r.size), Uses(t, b),
             Tidy(h) => Tidy(Place(t, b, r.size))
      PROVE  Result
  <2> DEFINE g == Place(t, b, r.size)
  <2>1. /\ Safe(g, Owned \cup {b}, heap.lost) /\ Keeps(h, g, Owned) /\ g.wild = h.wild
        /\ b \notin Owned /\ r.size <= Size(g, b) /\ b \in Rows /\ (Tidy(h) => Tidy(g))
    BY <1>7 DEF Used
  <2>2. heap' = g /\ request' = [r EXCEPT !.block = b] /\ pc' = "found"
    BY <1>7
  <2> HIDE DEF g
  <2>3. b \in Nat
    BY <2>1 DEF Rows
  <2>4. request'.block = b /\ request'.size = r.size
    BY <2>2, <2>3, <1>6
  <2>5. Spares(heap, g, Owned) /\ g.end = h.end /\ g.lost = heap.lost
    BY <2>1, <1>4 DEF Keeps, Spares
  <2>6. QED
    BY <2>1, <2>2, <2>4, <2>5, <1>1, <1>4 DEF Follows
<1>8. ASSUME q \in QuickLists /\ h.quick[q] # << >> /\ Uses(TakeQuick(h, q), Head(h.quick[q]))
      PROVE  Result
  <2> DEFINE b == Head(h.quick[q])
  <2>1. q \in QuickLists /\ h.quick[q] # << >> /\ r.size = q + M
    BY <1>6, <1>8
  <2>2. Uses(TakeQuick(h, q), b)
    BY <1>8
  <2> HIDE DEF q, Uses, Result
  <2>3. /\ Used(h, Place(TakeQuick(h, q), b, r.size), b, Owned, heap.lost, r.size)
        /\ Tidy(h) => Tidy(Place(TakeQuick(h, q), b, r.size))
    BY <2>1, <1>2, <1>6, TakesQuick
  <2> HIDE DEF b
  <2>4. QED
    BY <2>2, <2>3, <1>7
<1>9. CASE heap' = h /\ request' = r /\ pc' \in {"grow", "hung"}
  <2>1. pc' # "found" /\ pc' \in {"found", "grow", "hung"}
    BY <1>9
  <2>2. QED
    BY <2>1, <1>1, <1>4, <1>6, <1>9 DEF Follows
<1>10. ASSUME Candidates(h, r.size) # {} /\ Size(h, c) >= r.size /\ Uses(Unlink(h, c), c)
      PROVE  Result
  <2>1. c \in InFree(h)
    BY <1>5, <1>10, HeapTypes, SearchedOK
  <2> HIDE DEF c, Uses, Result
  <2>2. r.size <= Size(h, c)
    <3>1. c \in AllBlocks(h, Owned, heap.lost)
      BY <2>1 DEF AllBlocks
    <3>2. Size(h, c) \in Nat
      BY <3>1, <1>5, NextIsBlock
    <3>3. QED
      BY <3>2, <1>6, <1>10
  <2>3. /\ Used(h, Place(Unlink(h, c), c, r.size), c, Owned, heap.lost, r.size)
        /\ Tidy(h) => Tidy(Place(Unlink(h, c), c, r.size))
    BY <2>1, <2>2, <1>2, <1>6, TakesFree
  <2>4. QED
    BY <2>3, <1>7, <1>10
<1>11. QED
  BY <1>1, <1>3, <1>8, <1>9, <1>10

\* The types of a call in progress.
Calls == [op : {"none", "malloc", "realloc", "memalign"}, bytes : Nat, align : Nat,
          old : Nat, size : Nat, block : Nat]

\* The state after the searches of sf_malloc.
LEMMA SearchOK ==
    ASSUME IInv, NEW r, Requested(r), Search(r)
    PROVE  IInv'
<1>1. Follows(heap', request', pc', left') /\ owned' = owned
  BY SearchFollows
<1>2. request' = [r EXCEPT !.block = request'.block]
  BY SearchFollows
<1>3. /\ heap'.wild = FALSE /\ heap'.lost = heap.lost
      /\ heap'.end + PAGE * left' <= PAGE * MaxPages /\ left' \in 0..MaxPages
      /\ Spares(heap, heap', Owned) /\ pc' \in {"found", "grow", "hung"}
  BY <1>1 DEF Follows
<1>4. Owned' = Owned /\ heap \in Heaps /\ owned \in [Rows -> [bytes : Nat, align : Nat]]
  BY <1>1 DEF Owned, IInv, TypeOK
<1>5. HeapInv
  <2>1. ~heap.wild
    BY DEF Search
  <2>2. QED
    BY <2>1 DEF IInv
<1>6. IF pc' = "found"
      THEN /\ Safe(heap', Owned \cup {request'.block}, heap.lost)
           /\ request'.block \in Rows \ Owned /\ request'.size <= Size(heap', request'.block)
      ELSE Safe(heap', Owned, heap.lost) /\ request'.block = 0
  BY <1>1 DEF Follows
<1>7. /\ HeapOK(heap', Held', Loose')
      /\ \A b \in Held' : ~heap'.mem[b].inq
  <2>1. CASE pc' = "found"
    <3>1. Held' = Owned \cup {request'.block} /\ Loose' = heap.lost
      BY <2>1, <1>3, <1>4 DEF Held, Loose
    <3>2. QED
      BY <2>1, <3>1, <1>6 DEF Safe
  <2>2. CASE pc' # "found"
    <3>1. Held' = Owned /\ Loose' = heap.lost
      BY <2>2, <1>3, <1>4, <1>6 DEF Held, Loose
    <3>2. QED
      BY <2>2, <3>1, <1>6 DEF Safe
  <2>3. QED
    BY <2>1, <2>2
<1>8. heap' \in Heaps /\ heap'.end # 0
  BY <1>7, SizeAssumption DEF HeapOK
<1>9. request'.block \in Nat
  BY <1>6 DEF Rows
<1>10. /\ r \in [op : {"malloc", "realloc", "memalign"}, bytes : Nat, align : Nat,
              old : Nat, size : Nat, block : Nat]
       /\ r.bytes > 0
       /\ r.op = "memalign" => /\ r.align \in Alignments
                               /\ r.size = RowsFor(r.bytes + r.align + 40)
       /\ r.op # "memalign" => r.align = 8 /\ r.size = RowsFor(r.bytes)
       /\ r.op = "realloc" => r.old \in Owned
  BY DEF Requested
<1>11. /\ request'.op = r.op /\ request'.bytes = r.bytes /\ request'.align = r.align
       /\ request'.old = r.old /\ request'.size = r.size
       /\ request' \in Calls
  <2> DEFINE x == request'.block
  <2>1. x \in Nat /\ request' = [r EXCEPT !.block = x]
    BY <1>2, <1>9
  <2> HIDE DEF x
  <2>2. QED
    BY <2>1, <1>10 DEF Calls
<1>12. TypeOK'
  BY <1>1, <1>3, <1>4, <1>8, <1>11 DEF TypeOK, Calls
<1>13. Asked'
  <2>1. request'.op # "none"
    BY <1>10, <1>11
  <2>2. QED
    BY <2>1, <1>4, <1>10, <1>11 DEF Asked
<1>14. CallOK'
  <2>1. pc' # "user" /\ (pc' = "found" => request'.block \notin Owned' /\ request'.size <= Size(heap', request'.block))
        /\ (pc' # "found" => request'.block = 0)
    BY <1>3, <1>4, <1>6
  <2>2. QED
    BY <2>1, <1>13 DEF CallOK
<1>15. PayloadFits'
  <2>1. \A b \in Owned : /\ Payload(heap, b) >= owned[b].bytes
                         /\ (8 * (b + 1)) % owned[b].align = 0
    BY <1>5 DEF HeapInv, PayloadFits
  <2>2. \A b \in Owned : /\ Payload(heap', b) >= owned[b].bytes
                         /\ (8 * (b + 1)) % owned[b].align = 0
    BY <2>1, <1>3 DEF Spares, Payload
  <2>3. QED
    BY <2>2, <1>1, <1>4 DEF PayloadFits
<1>16. HeapInv'
  BY <1>3, <1>7, <1>8, <1>14, <1>15 DEF HeapInv
<1>17. QED
  BY <1>12, <1>16 DEF IInv

\* Losing a block changes nothing else.
LEMMA LostOK ==
    ASSUME NEW h, NEW A, NEW U, HeapOK(h, A, U), NEW L \in SUBSET Rows
    PROVE  LET g == [h EXCEPT !.lost = L] IN
           /\ HeapOK(g, A, U) /\ g.lost = L /\ g.mem = h.mem /\ g.end = h.end
           /\ g.wild = h.wild /\ g.stale = h.stale /\ g.free = h.free /\ g.quick = h.quick
<1> DEFINE g == [h EXCEPT !.lost = L]
<1>1. h \in Heaps
  BY DEF HeapOK
<1>2. /\ g \in Heaps /\ g.lost = L /\ g.mem = h.mem /\ g.end = h.end
      /\ g.wild = h.wild /\ g.stale = h.stale /\ g.free = h.free /\ g.quick = h.quick
  BY <1>1 DEF Heaps
<1> HIDE DEF g
<1>3. InFree(g) = InFree(h) /\ InQuick(g) = InQuick(h)
  BY <1>2 DEF InFree, InQuick
<1>4. Lists(g) /\ Kinds(g, A, U)
  BY <1>2, <1>3 DEF HeapOK, Lists, FreeListOK, QuickListOK, Size, Kinds
<1>5. HeapOK(g, A, U)
  BY <1>2, <1>3, <1>4 DEF HeapOK, AllBlocks
<1>6. QED
  BY <1>2, <1>5 DEF g

\* The size that is searched for.
LEMMA AskedSize ==
    ASSUME TypeOK, Asked
    PROVE  /\ request.size \in Nat /\ M <= request.size
           /\ RowsFor(request.bytes) <= request.size
<1>1. request \in Calls
  BY DEF TypeOK, Calls
<1>2. request.bytes \in Nat /\ request.align \in Nat /\ request.size \in Nat
  BY <1>1 DEF Calls
<1>3. CASE request.op = "memalign"
  <2>1. request.size = RowsFor(request.bytes + request.align + 40)
    BY <1>3 DEF Asked
  <2>2. RowsFor(request.bytes) <= request.size - 0
    <3>1. /\ request.bytes > 0 /\ request.size >= RowsFor(request.bytes + request.align + 40)
          /\ 0 \in Nat /\ 8 * 0 <= request.align + 24
      BY <2>1, <1>2 DEF Asked
    <3>2. QED
      BY <3>1, <1>2, RoomToAlign
  <2>3. M <= RowsFor(request.bytes) /\ RowsFor(request.bytes) \in Nat
    BY <1>2, RowsForOK
  <2>4. QED
    BY <2>2, <2>3, <1>2
<1>4. CASE request.op # "memalign"
  <2>1. request.size = RowsFor(request.bytes)
    BY <1>4 DEF Asked
  <2>2. M <= RowsFor(request.bytes) /\ RowsFor(request.bytes) \in Nat
    BY <1>2, RowsForOK
  <2>3. QED
    BY <2>1, <2>2
<1>5. QED
  BY <1>3, <1>4

\* The block that the call holds is the one before the epilogue.
LEMMA LastBlock ==
    ASSUME NEW h, NEW g, NEW A, NEW U, NEW p, HeapOK(h, A, U), Grows(h, g, A, U, p), NEW b \in U,
           NextBlock(h, b) = h.end - 1, ~h.mem[h.end - 1].prev
    PROVE  p = b /\ p # h.end - 1
<1>1. p \in U \cup InFree(h) /\ NextBlock(h, p) = h.end - 1 /\ p # h.end - 1
  BY DEF Grows
<1>2. p \in AllBlocks(h, A, U) /\ b \in AllBlocks(h, A, U)
  BY <1>1 DEF AllBlocks
<1>3. /\ p \in Int /\ b \in Int /\ M <= Size(h, b) /\ M <= Size(h, p)
      /\ Size(h, b) \in Int /\ Size(h, p) \in Int
      /\ NextBlock(h, p) = p + Size(h, p) /\ NextBlock(h, b) = b + Size(h, b)
  BY <1>2, NextIsBlock DEF Rows
<1>4. p # b => b + Size(h, b) <= p \/ p + Size(h, p) <= b
  BY <1>2, BlocksApart
<1>5. QED
  BY <1>1, <1>3, <1>4

\* The invariant while the heap grows.
LEMMA GrowingHeap ==
    ASSUME IInv, pc = "grow", ~heap.wild
    PROVE  /\ HeapInv /\ heap \in Heaps /\ heap.wild = FALSE /\ heap.end \in Nat
           /\ HeapOK(heap, Owned, Loose) /\ Loose = heap.lost \cup ({request.block} \ {0})
           /\ \A b \in Owned : ~heap.mem[b].inq
           /\ Asked /\ request.block \notin heap.lost
           /\ request.block # 0 => /\ request.block \in Loose
                                   /\ NextBlock(heap, request.block) = heap.end - 1
                                   /\ ~heap.mem[heap.end - 1].prev
           /\ \A b \in AllBlocks(heap, Owned, Loose) : b # 0
<1>1. HeapInv /\ heap \in Heaps
  BY DEF IInv, TypeOK
<1>2. heap.wild = FALSE /\ heap.end \in Nat
  <2>1. PAGE * MaxPages \in Nat
    BY SizeAssumption
  <2>2. QED
    BY <2>1, <1>1 DEF Heaps
<1>3. Held = Owned /\ Loose = heap.lost \cup ({request.block} \ {0})
  BY DEF Held, Loose
<1>4. HeapOK(heap, Owned, Loose) /\ \A b \in Owned : ~heap.mem[b].inq
  BY <1>1, <1>3 DEF HeapInv
<1>5. \A b \in AllBlocks(heap, Owned, Loose) : b # 0
  <2>1. ASSUME NEW b \in AllBlocks(heap, Owned, Loose) PROVE b # 0
    <3>1. M <= b
      BY <1>4, NextIsBlock
    <3>2. QED
      BY <3>1
  <2>2. QED
    BY <2>1
<1>6. request.block \notin heap.lost
  <2>1. CASE request.block = 0
    <3>1. heap.lost \subseteq AllBlocks(heap, Owned, Loose)
      BY <1>3 DEF AllBlocks
    <3>2. QED
      BY <3>1, <2>1, <1>5
  <2>2. CASE request.block # 0
    BY <2>2, <1>1 DEF HeapInv, CallOK
  <2>3. QED
    BY <2>1, <2>2
<1>7. QED
  BY <1>1, <1>2, <1>3, <1>4, <1>5, <1>6 DEF HeapInv, CallOK

\* The heap after a growth.
LEMMA GrownHeap ==
    ASSUME IInv, pc = "grow", ~heap.wild, left > 0
    PROVE  LET g == Grown(heap)
               p == GrownBlock(heap) IN
           /\ Grows(heap, g, Owned, Loose, p)
           /\ g.end + PAGE * (left - 1) <= PAGE * MaxPages /\ left - 1 \in 0..MaxPages
           /\ p \notin Owned /\ p # 0 /\ p \in Rows
           /\ request.block # 0 => p = request.block /\ p # heap.end - 1
           /\ ~g.wild => p \notin heap.lost
<1> DEFINE g == Grown(heap)
           p == GrownBlock(heap)
           U == Loose
<1>1. /\ HeapInv /\ heap.end \in Nat /\ HeapOK(heap, Owned, U)
      /\ Loose = heap.lost \cup ({request.block} \ {0})
      /\ request.block \notin heap.lost
      /\ request.block # 0 => /\ request.block \in U
                              /\ NextBlock(heap, request.block) = heap.end - 1
                              /\ ~heap.mem[heap.end - 1].prev
      /\ \A b \in AllBlocks(heap, Owned, U) : b # 0
  BY GrowingHeap
<1>2. left \in 0..MaxPages /\ heap.end + PAGE * left <= PAGE * MaxPages
  BY <1>1 DEF IInv, TypeOK, HeapInv
<1>3. /\ heap.end + PAGE <= PAGE * MaxPages
      /\ (heap.end + PAGE) + PAGE * (left - 1) <= PAGE * MaxPages
      /\ left - 1 \in 0..MaxPages
  BY <1>1, <1>2, PagesLeft
<1> HIDE DEF U
<1>4. Grows(heap, g, Owned, U, p)
  <2>1. request.block \in U \cup {0}
    BY <1>1
  <2>2. QED
    BY <2>1, <1>1, <1>3, GrownOK
<1> HIDE DEF g, p
<1>5. HeapOK(g, Owned, U \cup {p}) /\ g.end = heap.end + PAGE
  BY <1>4 DEF Grows
<1>6. p \notin Owned /\ p \in Rows
  <2>1. p \in U \cup {p}
    OBVIOUS
  <2>2. U \cup {p} \subseteq Rows
    BY <1>5, HeapTypes
  <2>3. QED
    BY <2>2, <1>5 DEF HeapOK, Kinds
<1>7. p # 0
  <2>1. p \in AllBlocks(g, Owned, U \cup {p})
    BY DEF AllBlocks
  <2>2. M <= p
    BY <2>1, <1>5, NextIsBlock
  <2>3. QED
    BY <2>2
<1>8. request.block # 0 => p = request.block /\ p # heap.end - 1
  BY <1>1, <1>4, LastBlock
<1>9. ~g.wild => p \notin heap.lost
  <2>1. p \in U /\ p # request.block => g.wild
    BY <1>4 DEF Grows
  <2>2. heap.lost \subseteq U
    BY <1>1 DEF U
  <2>3. QED
    BY <2>1, <2>2, <1>1
<1>10. QED
  BY <1>3, <1>4, <1>5, <1>6, <1>7, <1>8, <1>9 DEF g, p, U

\* What the invariant says of an owned block, whose size has not changed.
LEMMA FitsAfter ==
    ASSUME HeapInv, owned' = owned, Spares(heap, heap', Owned)
    PROVE  PayloadFits' /\ Owned' = Owned /\ \A b \in Owned : ~heap'.mem[b].inq
<1>1. Owned' = Owned
  BY DEF Owned
<1>2. \A b \in Owned : b \in Held
  BY DEF Held
<1>3. \A b \in Owned : ~heap'.mem[b].inq
  BY <1>2 DEF HeapInv, Spares
<1>4. \A b \in Owned : Payload(heap', b) = Payload(heap, b)
  BY DEF Spares, Payload
<1>5. PayloadFits'
  BY <1>1, <1>4 DEF HeapInv, PayloadFits
<1>6. QED
  BY <1>1, <1>3, <1>5

\* The heap has grown by a page.
LEMMA GrowOK ==
    ASSUME IInv, Grow
    PROVE  IInv' /\ owned' = owned /\ Spares(heap, heap', Owned)
<1> DEFINE g == Grown(heap)
           p == GrownBlock(heap)
           U == Loose
           L == IF p = heap.end - 1 THEN g.lost \cup {p} ELSE g.lost
<1>1. /\ pc = "grow" /\ ~heap.wild /\ left > 0 /\ left' = left - 1 /\ owned' = owned
      /\ \/ /\ Size(g, p) >= request.size
            /\ heap' = Place(g, p, request.size)
            /\ request' = [request EXCEPT !.block = p]
            /\ pc' = "found"
         \/ /\ heap' = [g EXCEPT !.lost = L]
            /\ request' = [request EXCEPT !.block = IF p = heap.end - 1 THEN @ ELSE p]
            /\ pc' = pc
  BY DEF Grow
<1>2. /\ Grows(heap, g, Owned, U, p)
      /\ g.end + PAGE * (left - 1) <= PAGE * MaxPages /\ left - 1 \in 0..MaxPages
      /\ p \notin Owned /\ p # 0 /\ p \in Rows
      /\ request.block # 0 => p = request.block /\ p # heap.end - 1
      /\ ~g.wild => p \notin heap.lost
  BY <1>1, GrownHeap
<1>3. /\ HeapInv /\ HeapOK(heap, Owned, Loose) /\ Loose = heap.lost \cup ({request.block} \ {0})
      /\ \A b \in Owned : ~heap.mem[b].inq
      /\ Asked /\ request.block \notin heap.lost
  BY <1>1, GrowingHeap
<1>4. U = heap.lost \cup ({request.block} \ {0})
  BY <1>3
<1> HIDE DEF g, p, U, L
<1>5. /\ HeapOK(g, Owned, U \cup {p}) /\ Spares(heap, g, Owned)
      /\ g.lost = heap.lost
      /\ NextBlock(g, p) = g.end - 1 /\ ~g.mem[g.end - 1].prev
  BY <1>2 DEF Grows
<1>6. TypeOK /\ request \in Calls /\ request.size \in Nat /\ M <= request.size /\ p \in Nat
  BY <1>2, <1>3, AskedSize DEF IInv, TypeOK, Calls, Rows
<1>7. \A x \in Nat : LET r == [request EXCEPT !.block = x] IN
                     /\ r \in Calls /\ r.block = x /\ r.op = request.op /\ r.bytes = request.bytes
                     /\ r.align = request.align /\ r.old = request.old /\ r.size = request.size
  BY <1>6 DEF Calls
<1>8. ASSUME NEW x \in Nat, request' = [request EXCEPT !.block = x]
      PROVE  /\ request' \in Calls /\ request'.block = x /\ request'.size = request.size
             /\ Asked'
  <2>1. /\ request' \in Calls /\ request'.block = x
        /\ request'.op = request.op /\ request'.bytes = request.bytes
        /\ request'.align = request.align /\ request'.old = request.old
        /\ request'.size = request.size
    BY <1>7, <1>8
  <2>2. Owned' = Owned
    BY <1>1 DEF Owned
  <2>3. QED
    BY <2>1, <2>2, <1>3 DEF Asked
<1>9. ASSUME NEW x \in Nat, request' = [request EXCEPT !.block = x], heap' \in Heaps,
             pc' \in {"user", "grow", "found", "hung"}
      PROVE  TypeOK'
  <2>1. request' \in Calls
    BY <1>8, <1>9
  <2>2. owned' \in [Rows -> [bytes : Nat, align : Nat]] /\ left' \in 0..MaxPages
    BY <1>1, <1>2, <1>6 DEF TypeOK
  <2>3. QED
    BY <2>1, <2>2, <1>9 DEF TypeOK, Calls
<1>10. ASSUME Size(g, p) >= request.size,
              heap' = Place(g, p, request.size),
              request' = [request EXCEPT !.block = p],
              pc' = "found"
       PROVE  IInv' /\ Spares(heap, heap', Owned)
  <2> DEFINE W == U \cup {p}
             V == W \ {p}
  <2>1. request.size <= Size(g, p)
    <3>1. p \in AllBlocks(g, Owned, U \cup {p})
      BY DEF AllBlocks
    <3>2. Size(g, p) \in Nat
      BY <3>1, <1>5, NextIsBlock
    <3>3. QED
      BY <3>2, <1>6, <1>10
  <2>2. Usable(g, Owned, W, p, Owned, V, request.size)
    BY <2>1, <1>2, <1>3, <1>5, <1>6 DEF Usable, Spares
  <2> HIDE DEF W, V
  <2>3. Used(g, heap', p, Owned, V, request.size)
    BY <2>2, <1>10, UseOK
  <2>4. /\ Safe(heap', Owned \cup {p}, V) /\ Keeps(g, heap', Owned) /\ heap'.wild = g.wild
        /\ request.size <= Size(heap', p)
    BY <2>3 DEF Used
  <2>5. HeapOK(heap', Owned \cup {p}, V) /\ heap' \in Heaps
    BY <2>4, HeapTypes DEF Safe
  <2>6. TypeOK'
    BY <2>5, <1>6, <1>9, <1>10
  <2>7. Spares(heap, heap', Owned) /\ heap'.end = g.end /\ heap'.lost = heap.lost
    BY <2>4, <1>5 DEF Keeps, Spares
  <2>8. ASSUME ~heap'.wild PROVE HeapInv'
    <3>1. PayloadFits' /\ Owned' = Owned
      BY <2>7, <1>1, <1>3, FitsAfter
    <3>2. /\ request'.block = p /\ request'.size = request.size /\ Asked'
      BY <1>6, <1>8, <1>10
    <3>3. Held' = Owned \cup {p} /\ Loose' = heap.lost
      BY <3>1, <3>2, <2>7, <1>10 DEF Held, Loose
    <3>4. V = heap.lost
      <4>1. p \notin heap.lost
        BY <2>4, <2>8, <1>2
      <4>2. QED
        BY <4>1, <1>2, <1>4 DEF V, W
    <3>5. HeapOK(heap', Held', Loose') /\ \A b \in Held' : ~heap'.mem[b].inq
      BY <3>3, <3>4, <2>4 DEF Safe
    <3>6. heap'.end # 0
      BY <2>5, SizeAssumption DEF HeapOK
    <3>7. heap'.end + PAGE * left' <= PAGE * MaxPages
      BY <2>7, <1>1, <1>2
    <3>8. CallOK'
      BY <3>1, <3>2, <2>4, <1>2, <1>10 DEF CallOK
    <3>9. QED
      BY <3>1, <3>5, <3>6, <3>7, <3>8 DEF HeapInv
  <2>9. QED
    BY <2>6, <2>7, <2>8 DEF IInv
<1>11. ASSUME heap' = [g EXCEPT !.lost = L],
              request' = [request EXCEPT !.block = IF p = heap.end - 1 THEN @ ELSE p],
              pc' = pc
       PROVE  IInv' /\ Spares(heap, heap', Owned)
  <2> DEFINE x == IF p = heap.end - 1 THEN request.block ELSE p
             W == U \cup {p}
  <2>1. x \in Nat /\ request' = [request EXCEPT !.block = x]
    BY <1>6, <1>11 DEF Calls
  <2>2. L \in SUBSET Rows
    <3>1. g.lost \in SUBSET Rows
      BY <1>5, HeapTypes DEF Heaps
    <3>2. QED
      BY <3>1, <1>2 DEF L
  <2>3. HeapOK(g, Owned, W)
    BY <1>5
  <2> HIDE DEF W
  <2>4. /\ HeapOK(heap', Owned, W) /\ heap'.lost = L /\ heap'.mem = g.mem /\ heap'.end = g.end
        /\ heap'.wild = g.wild
    BY <2>2, <2>3, <1>11, LostOK
  <2>5. heap' \in Heaps
    BY <2>4, HeapTypes
  <2>6. TypeOK'
    BY <2>1, <2>5, <1>1, <1>9, <1>11
  <2>7. Spares(heap, heap', Owned)
    BY <2>4, <1>5 DEF Spares, Size
  <2>8. ASSUME ~heap'.wild PROVE HeapInv'
    <3>1. PayloadFits' /\ Owned' = Owned /\ \A b \in Owned : ~heap'.mem[b].inq
      BY <2>7, <1>1, <1>3, FitsAfter
    <3>2. /\ request'.block = x /\ Asked'
      BY <2>1, <1>8
    <3>3. p \notin heap.lost
      BY <2>4, <2>8, <1>2
    <3>4. Held' = Owned /\ Loose' = L \cup ({x} \ {0})
      BY <3>1, <3>2, <2>4, <1>1, <1>11 DEF Held, Loose
    <3>5. L \cup ({x} \ {0}) = W
      <4>1. CASE p = heap.end - 1
        <5>1. request.block = 0
          BY <4>1, <1>2
        <5>2. QED
          BY <5>1, <4>1, <1>4, <1>5 DEF L, W
      <4>2. CASE p # heap.end - 1
        BY <4>2, <1>2, <1>4, <1>5 DEF L, W
      <4>3. QED
        BY <4>1, <4>2
    <3>6. HeapOK(heap', Held', Loose') /\ \A b \in Held' : ~heap'.mem[b].inq
      BY <3>1, <3>4, <3>5, <2>4
    <3>7. heap'.end # 0
      BY <2>4, SizeAssumption DEF HeapOK
    <3>8. heap'.end + PAGE * left' <= PAGE * MaxPages
      BY <2>4, <1>1, <1>2
    <3>9. x # 0 => x = p /\ L = heap.lost
      BY <1>2, <1>5 DEF L
    <3>10. x # 0 => /\ NextBlock(heap', x) = heap'.end - 1
                    /\ ~heap'.mem[heap'.end - 1].prev
                    /\ x \notin heap'.lost
      BY <3>3, <3>9, <2>4, <1>5 DEF NextBlock, Size
    <3>11. CallOK'
      BY <3>2, <3>10, <1>1, <1>11 DEF CallOK
    <3>12. QED
      BY <3>1, <3>6, <3>7, <3>8, <3>11 DEF HeapInv
  <2>9. QED
    BY <2>6, <2>7, <2>8 DEF IInv
<1>12. QED
  BY <1>1, <1>10, <1>11

\* The invariant between two calls.
LEMMA UserAgain ==
    ASSUME pc' = "user", request' = NoRequest, heap'.end + PAGE * left' <= PAGE * MaxPages,
           Safe(heap', Owned', heap'.lost), PayloadFits'
    PROVE  HeapInv'
<1>1. Held' = Owned' /\ Loose' = heap'.lost
  BY DEF Held, Loose
<1>2. HeapOK(heap', Held', Loose') /\ \A b \in Held' : ~heap'.mem[b].inq
  BY <1>1 DEF Safe
<1>3. heap'.end # 0
  BY <1>2, SizeAssumption DEF HeapOK
<1>4. CallOK'
  BY DEF CallOK
<1>5. QED
  BY <1>2, <1>3, <1>4 DEF HeapInv

\* The empty request is a request.
LEMMA NoRequestType == NoRequest \in Calls
BY DEF NoRequest, Request, Calls

\* sf_mem_grow has failed.
LEMMA GrowFailsOK ==
    ASSUME IInv, GrowFails
    PROVE  IInv' /\ owned' = owned /\ Spares(heap, heap', Owned)
<1> DEFINE L == heap.lost \cup ({request.block} \ {0})
<1>1. /\ pc = "grow" /\ ~heap.wild /\ left' = left /\ owned' = owned
      /\ request' = NoRequest /\ pc' = "user"
      /\ \/ heap' = [heap EXCEPT !.lost = L]
         \/ heap' = heap /\ request.block = 0
         \/ heap' = Insert(heap, request.block) /\ request.block # 0
         \/ heap' = [heap EXCEPT !.wild = TRUE]
  BY DEF GrowFails
<1>2. /\ HeapInv /\ heap \in Heaps /\ HeapOK(heap, Owned, Loose)
      /\ Loose = L
      /\ \A b \in Owned : ~heap.mem[b].inq
      /\ request.block \notin heap.lost
      /\ request.block # 0 => request.block \in Loose
  BY <1>1, GrowingHeap
<1> HIDE DEF L
<1>3. ASSUME heap' \in Heaps
      PROVE  TypeOK'
  <2>1. owned' \in [Rows -> [bytes : Nat, align : Nat]] /\ left' \in 0..MaxPages
    BY <1>1 DEF IInv, TypeOK
  <2>2. QED
    BY <2>1, <1>1, <1>3, NoRequestType DEF TypeOK, Calls
<1>4. CASE heap' = [heap EXCEPT !.wild = TRUE]
  <2>1. heap' \in Heaps /\ heap'.wild /\ heap'.mem = heap.mem
    BY <1>2, <1>4 DEF Heaps
  <2>2. Spares(heap, heap', Owned)
    BY <2>1 DEF Spares, Size
  <2>3. QED
    BY <2>1, <2>2, <1>1, <1>3 DEF IInv
<1>5. ASSUME HeapOK(heap', Owned, heap'.lost), heap'.end = heap.end, Spares(heap, heap', Owned)
      PROVE  IInv'
  <2>1. PayloadFits' /\ Owned' = Owned /\ \A b \in Owned : ~heap'.mem[b].inq
    BY <1>1, <1>2, <1>5, FitsAfter
  <2>2. Safe(heap', Owned', heap'.lost)
    BY <2>1, <1>5 DEF Safe
  <2>3. heap'.end + PAGE * left' <= PAGE * MaxPages
    BY <1>1, <1>2, <1>5 DEF HeapInv
  <2>4. HeapInv'
    BY <2>1, <2>2, <2>3, <1>1, UserAgain
  <2>5. QED
    BY <2>4, <1>3, <1>5, HeapTypes DEF IInv
<1>6. CASE heap' = [heap EXCEPT !.lost = L]
  <2>1. L \in SUBSET Rows
    BY <1>2, HeapTypes
  <2>2. /\ HeapOK(heap', Owned, L) /\ heap'.lost = L /\ heap'.mem = heap.mem
        /\ heap'.end = heap.end
    BY <2>1, <1>2, <1>6, LostOK
  <2>3. Spares(heap, heap', Owned)
    BY <2>2 DEF Spares, Size
  <2>4. QED
    BY <2>2, <2>3, <1>1, <1>5
<1>7. CASE heap' = heap /\ request.block = 0
  <2>1. L = heap.lost /\ Spares(heap, heap', Owned)
    BY <1>7 DEF L, Spares
  <2>2. QED
    BY <2>1, <1>1, <1>2, <1>5, <1>7
<1>8. CASE heap' = Insert(heap, request.block) /\ request.block # 0
  <2>1. request.block \in L
    BY <1>2, <1>8
  <2>2. L \ {request.block} = heap.lost
    BY <1>2, <1>8 DEF L
  <2>3. /\ HeapOK(heap', Owned, L \ {request.block}) /\ SameRest(heap, heap')
        /\ SameRows(heap, heap', AllBlocks(heap, Owned, L) \cup {heap.end - 1})
    BY <2>1, <1>2, <1>8, InsertOK
  <2>4. Spares(heap, heap', Owned)
    BY <2>3 DEF Spares, SameRows, AllBlocks, Size
  <2>5. QED
    BY <2>2, <2>3, <2>4, <1>1, <1>5 DEF SameRest
<1>9. QED
  BY <1>1, <1>4, <1>6, <1>7, <1>8

\* Owned blocks between two calls.
LEMMA OwnedHeap ==
    ASSUME IInv, pc = "user", ~heap.wild, Owned # {}
    PROVE  /\ HeapInv /\ heap \in Heaps /\ TypeOK
           /\ HeapOK(heap, Owned, heap.lost) /\ \A b \in Owned : ~heap.mem[b].inq
<1>1. HeapInv /\ heap \in Heaps /\ TypeOK
  BY DEF IInv, TypeOK
<1>2. Held = Owned /\ Loose = heap.lost
  BY DEF Held, Loose
<1>3. QED
  BY <1>1, <1>2 DEF HeapInv

\* sf_free.
LEMMA FreeOK ==
    ASSUME IInv, NEW b \in Rows, Free(b)
    PROVE  /\ IInv' /\ Owned' = Owned \ {b} /\ Spares(heap, heap', Owned \ {b})
           /\ Tidy(heap) => Tidy(heap')
<1>1. /\ pc = "user" /\ ~heap.wild /\ b \in Owned /\ heap' = Freed(heap, b)
      /\ owned' = [owned EXCEPT ![b] = NotOwned]
      /\ left' = left /\ request' = request /\ pc' = pc
  BY DEF Free
<1>2. /\ HeapInv /\ TypeOK /\ HeapOK(heap, Owned, heap.lost)
      /\ \A c \in Owned : ~heap.mem[c].inq
  BY <1>1, OwnedHeap
<1>3. request = NoRequest
  BY <1>1, <1>2 DEF HeapInv, CallOK
<1>4. PICK V : Frees(heap, heap', Owned \ {b}, heap.lost, V) /\ (Tidy(heap) => Tidy(heap'))
  <2> DEFINE L == heap.lost
  <2>1. HeapOK(heap, Owned, L)
    BY <1>2
  <2> HIDE DEF L
  <2>2. /\ \E V : Frees(heap, Freed(heap, b), Owned \ {b}, L, V)
        /\ Tidy(heap) => Tidy(Freed(heap, b))
    BY <2>1, <1>1, FreedOK
  <2>3. QED
    BY <2>2, <1>1 DEF L
<1>5. /\ HeapOK(heap', Owned \ {b}, V) /\ (V = heap.lost \/ heap'.wild)
      /\ heap'.end = heap.end /\ heap'.lost = heap.lost /\ Spares(heap, heap', Owned \ {b})
  BY <1>4 DEF Frees, Keeps
<1>6. owned \in [Rows -> [bytes : Nat, align : Nat]] /\ NotOwned \in [bytes : Nat, align : Nat]
  BY <1>2 DEF TypeOK, NotOwned
<1>7. Owned' = Owned \ {b} /\ \A c \in Owned \ {b} : owned'[c] = owned[c]
  BY <1>1, <1>6 DEF Owned
<1>8. TypeOK'
  <2>1. owned' \in [Rows -> [bytes : Nat, align : Nat]]
    BY <1>1, <1>6
  <2>2. heap' \in Heaps
    BY <1>5, HeapTypes
  <2>3. QED
    BY <2>1, <2>2, <1>1, <1>2 DEF TypeOK
<1>9. ASSUME ~heap'.wild PROVE HeapInv'
  <2>1. Safe(heap', Owned', heap'.lost)
    BY <1>2, <1>5, <1>7, <1>9 DEF Safe, Spares
  <2>2. PayloadFits'
    <3>1. \A c \in Owned \ {b} : Payload(heap', c) = Payload(heap, c)
      BY <1>5 DEF Spares, Payload
    <3>2. QED
      BY <3>1, <1>2, <1>7 DEF PayloadFits, HeapInv
  <2>3. heap'.end + PAGE * left' <= PAGE * MaxPages
    BY <1>1, <1>2, <1>5 DEF HeapInv
  <2>4. QED
    BY <2>1, <2>2, <2>3, <1>1, <1>3, UserAgain
<1>10. QED
  BY <1>4, <1>5, <1>7, <1>8, <1>9 DEF IInv

\* The rows for fewer bytes than a block holds are no more than the block has.
LEMMA RowsShrink ==
    ASSUME NEW size \in Nat, M <= size, NEW bytes \in Nat, bytes <= 8 * (size - 1)
    PROVE  RowsFor(bytes) <= size
BY DEF RowsFor

\* sf_realloc in place.
LEMMA ShrinkOK ==
    ASSUME IInv, NEW b \in Rows, Shrink(b)
    PROVE  /\ IInv' /\ Owned' = Owned /\ Spares(heap, heap', Owned \ {b})
           /\ Size(heap', b) <= Size(heap, b)
           /\ Tidy(heap) => Tidy(heap')
<1>1. PICK bytes \in Resizes :
         /\ bytes \in 1..Payload(heap, b)
         /\ pc = "user" /\ ~heap.wild /\ b \in Owned
         /\ heap' = CutOff(heap, b, RowsFor(bytes))
         /\ owned' = [owned EXCEPT ![b].bytes = bytes]
         /\ left' = left /\ request' = request /\ pc' = pc
  BY DEF Shrink
<1>2. /\ HeapInv /\ TypeOK /\ HeapOK(heap, Owned, heap.lost)
      /\ \A c \in Owned : ~heap.mem[c].inq
  BY <1>1, OwnedHeap
<1>3. request = NoRequest
  BY <1>1, <1>2 DEF HeapInv, CallOK
<1>4. Size(heap, b) \in Nat /\ M <= Size(heap, b)
  <2>1. b \in AllBlocks(heap, Owned, heap.lost)
    BY <1>1 DEF AllBlocks
  <2>2. QED
    BY <2>1, <1>2, NextIsBlock
<1>5. bytes \in Nat /\ bytes > 0 /\ bytes <= 8 * (Size(heap, b) - 1)
  BY <1>1, <1>4 DEF Payload
<1> DEFINE rows == RowsFor(bytes)
<1>6. /\ rows \in Nat /\ M <= rows /\ 8 * (rows - 1) >= bytes /\ rows <= Size(heap, b)
  BY <1>4, <1>5, RowsForOK, RowsShrink
<1> HIDE DEF rows
<1>7. /\ \E V : V \subseteq heap.lost /\ HeapOK(heap', Owned, V) /\ (V = heap.lost \/ heap'.wild)
      /\ Keeps(heap, heap', Owned \ {b})
      /\ ~heap'.mem[b].inq /\ (rows <= Size(heap, b) => rows <= Size(heap', b))
      /\ Size(heap', b) <= Size(heap, b)
      /\ Tidy(heap) => Tidy(heap')
  <2> DEFINE L == heap.lost
  <2>1. HeapOK(heap, Owned, L) /\ ~heap.mem[b].inq /\ heap' = CutOff(heap, b, rows)
    BY <1>1, <1>2 DEF rows
  <2> HIDE DEF L
  <2>2. Shortens(heap, heap', Owned, L, b, rows)
    BY <2>1, <1>1, <1>6, CutOffOK
  <2>3. QED
    BY <2>2 DEF L, Shortens
<1>8. PICK V : V \subseteq heap.lost /\ HeapOK(heap', Owned, V) /\ (V = heap.lost \/ heap'.wild)
  BY <1>7
<1>9. /\ heap'.end = heap.end /\ heap'.lost = heap.lost /\ Spares(heap, heap', Owned \ {b})
      /\ ~heap'.mem[b].inq /\ rows <= Size(heap', b)
  BY <1>6, <1>7 DEF Keeps
<1>10. owned \in [Rows -> [bytes : Nat, align : Nat]]
  BY <1>2 DEF TypeOK
<1>11. /\ owned' \in [Rows -> [bytes : Nat, align : Nat]]
       /\ owned'[b].bytes = bytes /\ owned'[b].align = owned[b].align
       /\ \A c \in Rows \ {b} : owned'[c] = owned[c]
  BY <1>1, <1>5, <1>10
<1>12. Owned' = Owned
  <2>1. owned'[b] # NotOwned
    BY <1>5, <1>11 DEF NotOwned
  <2>2. QED
    BY <2>1, <1>1, <1>11 DEF Owned
<1>13. TypeOK'
  <2>1. heap' \in Heaps
    BY <1>8, HeapTypes
  <2>2. QED
    BY <2>1, <1>1, <1>2, <1>11 DEF TypeOK
<1>14. ASSUME ~heap'.wild PROVE HeapInv'
  <2>1. Safe(heap', Owned', heap'.lost)
    BY <1>2, <1>8, <1>9, <1>12, <1>14 DEF Safe, Spares
  <2>2. PayloadFits'
    <3>1. ASSUME NEW c \in Owned
          PROVE  /\ Payload(heap', c) >= owned'[c].bytes
                 /\ (8 * (c + 1)) % owned'[c].align = 0
      <4>1. CASE c = b
        <5>1. Size(heap', b) \in Nat
          <6>1. b \in AllBlocks(heap', Owned, V)
            BY <1>1 DEF AllBlocks
          <6>2. QED
            BY <6>1, <1>8, NextIsBlock
        <5>2. 8 * (Size(heap', b) - 1) >= bytes
          BY <5>1, <1>5, <1>6, <1>9
        <5>3. (8 * (b + 1)) % owned[b].align = 0
          BY <1>1, <1>2 DEF HeapInv, PayloadFits
        <5>4. QED
          BY <5>2, <5>3, <4>1, <1>11 DEF Payload
      <4>2. CASE c # b
        <5>1. Payload(heap', c) = Payload(heap, c) /\ owned'[c] = owned[c]
          BY <4>2, <1>9, <1>11 DEF Spares, Payload, Owned
        <5>2. QED
          BY <5>1, <1>2 DEF HeapInv, PayloadFits
      <4>3. QED
        BY <4>1, <4>2
    <3>2. QED
      BY <3>1, <1>12 DEF PayloadFits
  <2>3. heap'.end + PAGE * left' <= PAGE * MaxPages
    BY <1>1, <1>2, <1>9 DEF HeapInv
  <2>4. QED
    BY <2>1, <2>2, <2>3, <1>1, <1>3, UserAgain
<1>15. QED
  BY <1>7, <1>9, <1>12, <1>13, <1>14 DEF IInv

\* The call has a block in its hands.
LEMMA FoundHeap ==
    ASSUME IInv, pc = "found", ~heap.wild
    PROVE  LET b == request.block IN
           /\ HeapInv /\ TypeOK /\ heap.end + PAGE * left <= PAGE * MaxPages
           /\ b \in Rows /\ b \notin Owned /\ b \in Nat
           /\ HeapOK(heap, Owned \cup {b}, heap.lost)
           /\ \A c \in Owned \cup {b} : ~heap.mem[c].inq
           /\ Asked /\ request.bytes \in Nat /\ request.bytes > 0
           /\ request.size \in Nat /\ request.size <= Size(heap, b) /\ Size(heap, b) \in Nat
           /\ RowsFor(request.bytes) <= Size(heap, b) /\ M <= RowsFor(request.bytes)
           /\ RowsFor(request.bytes) \in Nat
<1> DEFINE b == request.block
<1>1. HeapInv /\ TypeOK /\ heap.end + PAGE * left <= PAGE * MaxPages
  BY DEF IInv, HeapInv
<1>2. Held = Owned \cup {b} /\ Loose = heap.lost
  BY DEF Held, Loose
<1>3. HeapOK(heap, Owned \cup {b}, heap.lost) /\ \A c \in Owned \cup {b} : ~heap.mem[c].inq
  BY <1>1, <1>2 DEF HeapInv
<1>4. Asked /\ b \notin Owned /\ request.size <= Size(heap, b)
  BY <1>1 DEF HeapInv, CallOK
<1>5. request.bytes \in Nat /\ request.bytes > 0 /\ request.size \in Nat
      /\ RowsFor(request.bytes) <= request.size
  BY <1>1, <1>4, AskedSize DEF TypeOK, Asked
<1>6. M <= RowsFor(request.bytes) /\ RowsFor(request.bytes) \in Nat
  BY <1>5, RowsForOK
<1>7. b \in Rows /\ Size(heap, b) \in Nat
  <2>1. b \in AllBlocks(heap, Owned \cup {b}, heap.lost)
    BY DEF AllBlocks
  <2>2. QED
    BY <2>1, <1>3, NextIsBlock
<1>8. b \in Nat
  BY <1>7 DEF Rows
<1> HIDE DEF b
<1>9. RowsFor(request.bytes) <= Size(heap, b)
  BY <1>4, <1>5, <1>6, <1>7
<1>10. QED
  BY <1>1, <1>3, <1>4, <1>5, <1>6, <1>7, <1>8, <1>9 DEF b

\* What a call gives to the user: the block x instead of those that are not in O.
Gives(x, O, own) ==
    /\ own \in [bytes : Nat, align : Nat] /\ own.bytes > 0 /\ x \in Rows /\ x \notin O
    /\ O \subseteq Owned
    /\ owned' \in [Rows -> [bytes : Nat, align : Nat]]
    /\ owned'[x] = own /\ \A c \in O : owned'[c] = owned[c]
    /\ \A c \in Rows \ (O \cup {x}) : owned'[c] = NotOwned

\* The call has returned to the user, who has the block x.
LEMMA Returned ==
    ASSUME IInv, pc = "found", ~heap.wild, NEW x, NEW O, NEW own, Gives(x, O, own),
           pc' = "user", request' = NoRequest, left' = left,
           heap' \in Heaps,
           ~heap'.wild => /\ HeapOK(heap', O \cup {x}, heap.lost)
                          /\ heap'.end = heap.end /\ heap'.lost = heap.lost
                          /\ Spares(heap, heap', O) /\ ~heap'.mem[x].inq
                          /\ Payload(heap', x) >= own.bytes
                          /\ (8 * (x + 1)) % own.align = 0
    PROVE  IInv' /\ Owned' = O \cup {x}
<1>1. /\ HeapInv /\ TypeOK /\ heap.end + PAGE * left <= PAGE * MaxPages
      /\ \A c \in Owned : ~heap.mem[c].inq
  BY FoundHeap
<1>2. Owned' = O \cup {x}
  <2>1. ASSUME NEW c \in Rows PROVE owned'[c] # NotOwned <=> c \in O \cup {x}
    <3>1. CASE c = x
      BY <3>1 DEF Gives, NotOwned
    <3>2. CASE c \in O
      BY <3>2 DEF Gives, Owned
    <3>3. CASE c \notin O \cup {x}
      BY <3>3 DEF Gives
    <3>4. QED
      BY <3>1, <3>2, <3>3
  <2>2. O \cup {x} \subseteq Rows
    BY DEF Gives, Owned
  <2>3. QED
    BY <2>1, <2>2 DEF Owned
<1>3. TypeOK'
  BY <1>1, NoRequestType DEF TypeOK, Gives, Calls
<1>4. ASSUME ~heap'.wild PROVE HeapInv'
  <2>1. /\ HeapOK(heap', O \cup {x}, heap.lost)
        /\ heap'.end = heap.end /\ heap'.lost = heap.lost
        /\ Spares(heap, heap', O) /\ ~heap'.mem[x].inq
        /\ Payload(heap', x) >= own.bytes
        /\ (8 * (x + 1)) % own.align = 0
    BY <1>4
  <2>2. Safe(heap', Owned', heap'.lost)
    BY <2>1, <1>1, <1>2 DEF Safe, Spares, Gives
  <2>3. PayloadFits'
    <3>1. ASSUME NEW c \in O
          PROVE  /\ Payload(heap', c) >= owned'[c].bytes
                 /\ (8 * (c + 1)) % owned'[c].align = 0
      <4>1. Payload(heap', c) = Payload(heap, c) /\ owned'[c] = owned[c] /\ c \in Owned
        BY <2>1 DEF Spares, Payload, Gives
      <4>2. QED
        BY <4>1, <1>1 DEF HeapInv, PayloadFits
    <3>2. /\ Payload(heap', x) >= owned'[x].bytes
          /\ (8 * (x + 1)) % owned'[x].align = 0
      BY <2>1 DEF Gives
    <3>3. QED
      BY <3>1, <3>2, <1>2 DEF PayloadFits
  <2>4. heap'.end + PAGE * left' <= PAGE * MaxPages
    BY <2>1, <1>1
  <2>5. QED
    BY <2>2, <2>3, <2>4, UserAgain
<1>5. QED
  BY <1>2, <1>3, <1>4 DEF IInv

\* The block is large enough for the request that has found it.
LEMMA HoldsRequest ==
    ASSUME NEW h, NEW b, NEW bytes \in Nat, Size(h, b) \in Nat, RowsFor(bytes) <= Size(h, b)
    PROVE  Payload(h, b) >= bytes
<1>1. 8 * (RowsFor(bytes) - 1) >= bytes /\ RowsFor(bytes) \in Nat
  BY RowsForOK
<1>2. QED
  BY <1>1 DEF Payload

\* The parts of Return.
Own == [bytes |-> request.bytes, align |-> request.align]
HandedOut(h, b) == Forget(h, (b + 1)..(NextBlock(h, b) - 1))
Aligned == request.block + Offset(request.block, request.align)

\* The three ways in which sf_malloc's block reaches the user.
LEMMA ReturnCases ==
    ASSUME Return
    PROVE  /\ pc = "found" /\ ~heap.wild
           /\ request' = NoRequest /\ pc' = "user" /\ left' = left
           /\ \/ /\ request.op = "malloc"
                 /\ owned' = [owned EXCEPT ![request.block] = Own]
                 /\ heap' = HandedOut(heap, request.block)
              \/ /\ request.op = "realloc"
                 /\ owned' = [owned EXCEPT ![request.old] = NotOwned, ![request.block] = Own]
                 /\ heap' = Freed(HandedOut(heap, request.block), request.old)
              \/ /\ request.op = "memalign"
                 /\ owned' = [owned EXCEPT ![Aligned] = Own]
                 /\ heap' = HandedOut(CutRight(CutLeft(heap, request.block, Aligned - request.block),
                                               Aligned, request.bytes), Aligned)
BY DEF Return, Own, HandedOut, Aligned

\* What is noted for the new block is what was asked for.
LEMMA OwnType ==
    ASSUME TypeOK, Asked
    PROVE  Own \in [bytes : Nat, align : Nat] /\ Own.bytes > 0
           /\ Own.bytes = request.bytes /\ Own.align = request.align
BY DEF TypeOK, Asked, Own

\* Blocks are multiples of eight bytes.
LEMMA AlignedByEight ==
    ASSUME NEW b \in Nat
    PROVE  (8 * (b + 1)) % 8 = 0
OBVIOUS

\* A block is handed out and nothing else happens.
LEMMA HandedOutOK ==
    ASSUME NEW h, NEW A, NEW U, HeapOK(h, A, U), NEW b \in A
    PROVE  LET g == HandedOut(h, b) IN
           /\ HeapOK(g, A, U) /\ Keeps(h, g, A) /\ g.wild = h.wild /\ g.stale = h.stale /\ g.free = h.free
           /\ Tidy(h) => Tidy(g)
BY HandOutOK DEF HandedOut

\* sf_malloc returns to the user.
LEMMA MallocReturns ==
    ASSUME IInv, Return, request.op = "malloc",
           owned' = [owned EXCEPT ![request.block] = Own],
           heap' = HandedOut(heap, request.block)
    PROVE  /\ IInv' /\ Owned' = Owned \cup {request.block} /\ Spares(heap, heap', Owned)
           /\ Tidy(heap) => Tidy(heap')
<1> DEFINE b == request.block
           A == Owned \cup {b}
<1>1. /\ pc = "found" /\ ~heap.wild
      /\ request' = NoRequest /\ pc' = "user" /\ left' = left
  BY ReturnCases
<1>2. /\ HeapInv /\ TypeOK
      /\ b \in Rows /\ b \notin Owned /\ b \in Nat
      /\ HeapOK(heap, A, heap.lost) /\ \A c \in A : ~heap.mem[c].inq
      /\ Asked /\ request.bytes \in Nat
      /\ Size(heap, b) \in Nat /\ RowsFor(request.bytes) <= Size(heap, b)
  BY <1>1, FoundHeap
<1>3. b \in A /\ Owned \subseteq A
  OBVIOUS
<1>4. /\ HeapOK(heap', A, heap.lost) /\ Keeps(heap, heap', A) /\ (Tidy(heap) => Tidy(heap'))
  <2> DEFINE L == heap.lost
  <2>1. HeapOK(heap, A, L)
    BY <1>2
  <2> HIDE DEF L, A, b
  <2>2. /\ HeapOK(HandedOut(heap, b), A, L) /\ Keeps(heap, HandedOut(heap, b), A)
        /\ Tidy(heap) => Tidy(HandedOut(heap, b))
    BY <2>1, <1>3, HandedOutOK
  <2>3. QED
    BY <2>2 DEF L, b
<1>5. Own \in [bytes : Nat, align : Nat] /\ Own.bytes > 0
      /\ Own.bytes = request.bytes /\ Own.align = 8
  BY <1>2, OwnType DEF Asked
<1>6. owned \in [Rows -> [bytes : Nat, align : Nat]]
  BY <1>2 DEF TypeOK
<1> HIDE DEF b
<1>7. Gives(b, Owned, Own)
  <2>1. owned' = [owned EXCEPT ![b] = Own]
    BY DEF b
  <2>2. \A c \in Rows \ (Owned \cup {b}) : owned[c] = NotOwned
    BY DEF Owned
  <2>3. Owned \subseteq Rows
    BY DEF Owned
  <2> HIDE DEF A
  <2>4. QED
    BY <2>1, <2>2, <2>3, <1>2, <1>5, <1>6 DEF Gives
<1>8. /\ heap'.end = heap.end /\ heap'.lost = heap.lost /\ Spares(heap, heap', A)
  BY <1>4 DEF Keeps
<1>9. Spares(heap, heap', Owned) /\ ~heap'.mem[b].inq /\ Size(heap', b) = Size(heap, b)
  BY <1>2, <1>3, <1>8 DEF Spares
<1>10. Payload(heap', b) >= Own.bytes
  <2>1. Size(heap', b) \in Nat /\ RowsFor(request.bytes) <= Size(heap', b)
    BY <1>2, <1>9
  <2>2. QED
    BY <2>1, <1>2, <1>5, HoldsRequest
<1>11. (8 * (b + 1)) % Own.align = 0
  <2>1. (8 * (b + 1)) % 8 = 0
    BY <1>2, AlignedByEight
  <2>2. QED
    BY <2>1, <1>5
<1>12. heap' \in Heaps
  BY <1>4, HeapTypes
<1>13. IInv' /\ Owned' = Owned \cup {b}
  BY <1>1, <1>4, <1>7, <1>8, <1>9, <1>10, <1>11, <1>12, Returned
<1>14. QED
  BY <1>4, <1>9, <1>13 DEF b

\* ... or to sf_realloc, which frees the old block.
LEMMA ReallocReturns ==
    ASSUME IInv, Return, request.op = "realloc",
           owned' = [owned EXCEPT ![request.old] = NotOwned, ![request.block] = Own],
           heap' = Freed(HandedOut(heap, request.block), request.old)
    PROVE  /\ IInv' /\ Owned' = (Owned \ {request.old}) \cup {request.block}
           /\ request.old \in Owned /\ request.block \notin Owned
           /\ Spares(heap, heap', Owned \ {request.old})
           /\ Size(heap', request.block) = Size(heap, request.block)
           /\ Tidy(heap) => Tidy(heap')
<1> DEFINE b == request.block
           old == request.old
           A == Owned \cup {b}
           O == Owned \ {old}
           h == HandedOut(heap, b)
<1>1. /\ pc = "found" /\ ~heap.wild
      /\ request' = NoRequest /\ pc' = "user" /\ left' = left
  BY ReturnCases
<1>2. /\ HeapInv /\ TypeOK
      /\ b \in Rows /\ b \notin Owned /\ b \in Nat
      /\ HeapOK(heap, A, heap.lost) /\ \A c \in A : ~heap.mem[c].inq
      /\ Asked /\ request.bytes \in Nat
      /\ Size(heap, b) \in Nat /\ RowsFor(request.bytes) <= Size(heap, b)
  BY <1>1, FoundHeap
<1>3. old \in Owned /\ b # old /\ A \ {old} = O \cup {b} /\ b \in A /\ old \in A
  BY <1>2 DEF Asked
<1>4. /\ HeapOK(h, A, heap.lost) /\ Keeps(heap, h, A) /\ (Tidy(heap) => Tidy(h))
  <2> DEFINE L == heap.lost
  <2>1. HeapOK(heap, A, L)
    BY <1>2
  <2> HIDE DEF L, A, b
  <2>2. /\ HeapOK(HandedOut(heap, b), A, L) /\ Keeps(heap, HandedOut(heap, b), A)
        /\ Tidy(heap) => Tidy(HandedOut(heap, b))
    BY <2>1, <1>3, HandedOutOK
  <2>3. QED
    BY <2>2 DEF L, b
<1>5. PICK V : Frees(h, heap', A \ {old}, heap.lost, V) /\ (Tidy(h) => Tidy(heap'))
  <2> DEFINE L == heap.lost
  <2>1. HeapOK(h, A, L) /\ heap' = Freed(h, old)
    BY <1>4
  <2> HIDE DEF L, A, h, old
  <2>2. /\ \E V : Frees(h, Freed(h, old), A \ {old}, L, V)
        /\ Tidy(h) => Tidy(Freed(h, old))
    BY <2>1, <1>3, FreedOK
  <2>3. QED
    BY <2>1, <2>2 DEF L
<1> HIDE DEF h, b, old, A
<1>6. /\ HeapOK(heap', O \cup {b}, V) /\ (V = heap.lost \/ heap'.wild) /\ Keeps(h, heap', O \cup {b})
  BY <1>3, <1>5 DEF Frees
<1>7. Keeps(heap, heap', O \cup {b})
  <2>1. O \cup {b} \subseteq A
    BY <1>3
  <2>2. QED
    BY <2>1, <1>4, <1>6, KeepsTwice
<1>8. heap'.end = heap.end /\ heap'.lost = heap.lost /\ Spares(heap, heap', O \cup {b})
  BY <1>7 DEF Keeps
<1>9. /\ Spares(heap, heap', O) /\ ~heap'.mem[b].inq /\ Size(heap', b) = Size(heap, b)
  BY <1>2, <1>3, <1>8 DEF Spares
<1>10. Own \in [bytes : Nat, align : Nat] /\ Own.bytes > 0
       /\ Own.bytes = request.bytes /\ Own.align = 8
  BY <1>2, OwnType DEF Asked
<1>11. owned \in [Rows -> [bytes : Nat, align : Nat]] /\ NotOwned \in [bytes : Nat, align : Nat]
  BY <1>2 DEF TypeOK, NotOwned
<1>12. Gives(b, O, Own)
  <2>1. owned' = [owned EXCEPT ![old] = NotOwned, ![b] = Own]
    BY DEF b, old
  <2>2. \A c \in Rows \ (O \cup {b, old}) : owned[c] = NotOwned
    BY DEF Owned
  <2>3. O \subseteq Rows /\ old \in Rows /\ old \notin O /\ O \subseteq Owned
    BY <1>3 DEF Owned
  <2>4. b \notin O
    BY <1>2
  <2> HIDE DEF O
  <2>5. owned' \in [Rows -> [bytes : Nat, align : Nat]]
    BY <2>1, <2>3, <1>2, <1>10, <1>11
  <2>6. owned'[b] = Own /\ owned'[old] = NotOwned /\ \A c \in Rows \ {b, old} : owned'[c] = owned[c]
    BY <2>1, <2>3, <1>2, <1>3, <1>10, <1>11
  <2>7. QED
    BY <2>2, <2>3, <2>4, <2>5, <2>6, <1>2, <1>10 DEF Gives
<1>13. Payload(heap', b) >= Own.bytes
  <2>1. Size(heap', b) \in Nat /\ RowsFor(request.bytes) <= Size(heap', b)
    BY <1>2, <1>9
  <2>2. QED
    BY <2>1, <1>2, <1>10, HoldsRequest
<1>14. (8 * (b + 1)) % Own.align = 0
  <2>1. (8 * (b + 1)) % 8 = 0
    BY <1>2, AlignedByEight
  <2>2. QED
    BY <2>1, <1>10
<1>15. heap' \in Heaps
  BY <1>6, HeapTypes
<1> HIDE DEF O
<1>16. ~heap'.wild => HeapOK(heap', O \cup {b}, heap.lost)
  BY <1>6
<1>17. IInv' /\ Owned' = O \cup {b}
  BY <1>1, <1>8, <1>9, <1>12, <1>13, <1>14, <1>15, <1>16, Returned
<1>18. QED
  BY <1>2, <1>3, <1>4, <1>5, <1>9, <1>17 DEF b, O, old

\* The block b is cut at the row x in front, and the rest of it is allocated.
CutInFront(h, g, O, L, b, x) ==
    /\ \E V : V \subseteq L /\ HeapOK(g, O \cup {x}, V) /\ (V = L \/ g.wild)
    /\ Keeps(h, g, O)
    /\ ~g.mem[x].inq /\ Size(g, x) = Size(h, b) - (x - b)
    /\ x \notin O
    /\ Tidy(h) => Tidy(g)

\* sf_memalign's cut in front, where there may be nothing to cut.
LEMMA FrontOK ==
    ASSUME NEW h, NEW O, NEW L, NEW b \in Nat, HeapOK(h, O \cup {b}, L), ~h.mem[b].inq, b \notin O,
           NEW o \in Nat, o = 0 \/ (M <= o /\ M <= Size(h, b) - o), Size(h, b) \in Nat
    PROVE  CutInFront(h, CutLeft(h, b, o), O, L, b, b + o)
<1> DEFINE A == O \cup {b}
           g == CutLeft(h, b, o)
           x == b + o
<1>1. x - b = o
  OBVIOUS
<1>2. CASE o = 0
  <2>1. g = h /\ x = b
    BY <1>2 DEF CutLeft
  <2>2. L \subseteq L /\ Keeps(h, h, O)
    BY DEF Keeps, Spares
  <2>3. CutInFront(h, h, O, L, b, b)
    BY <2>2 DEF CutInFront
  <2>4. QED
    BY <2>1, <2>3
<1>3. CASE o # 0
  <2>1. HeapOK(h, A, L) /\ b \in A /\ M <= o /\ M <= Size(h, b) - o /\ A \ {b} = O
    BY <1>3
  <2> HIDE DEF A
  <2>2. Fronts(h, g, A, L, b, o)
    BY <2>1, CutLeftOK
  <2> HIDE DEF g
  <2>3. /\ \E V : V \subseteq L /\ HeapOK(g, O \cup {x}, V) /\ (V = L \/ g.wild)
        /\ Keeps(h, g, O) /\ ~g.mem[x].inq /\ Size(g, x) = Size(h, b) - o
        /\ x \notin AllBlocks(h, A, L) /\ (Tidy(h) => Tidy(g))
    BY <2>1, <2>2 DEF Fronts
  <2>4. x \notin O
    BY <2>3 DEF AllBlocks, A
  <2>5. CutInFront(h, g, O, L, b, x)
    BY <1>1, <2>3, <2>4 DEF CutInFront
  <2>6. QED
    BY <2>5 DEF g
<1>4. QED
  BY <1>2, <1>3

\* The block x is cut behind what is asked for, unless its size is not a multiple of eight.
CutBehind(h, g, O, L, x, bytes) ==
    \/ /\ g \in Heaps /\ g.wild
    \/ /\ \E V : V \subseteq L /\ HeapOK(g, O \cup {x}, V) /\ (V = L \/ g.wild)
       /\ Keeps(h, g, O)
       /\ ~g.mem[x].inq /\ RowsFor(bytes) <= Size(g, x)
       /\ Tidy(h) => Tidy(g)

\* sf_memalign's cut behind leaves enough for the request, or goes wild.
LEMMA BehindOK ==
    ASSUME NEW h, NEW O, NEW L, NEW x, HeapOK(h, O \cup {x}, L), ~h.mem[x].inq, x \notin O,
           NEW bytes \in Nat, RowsFor(bytes) <= Size(h, x)
    PROVE  CutBehind(h, CutRight(h, x, bytes), O, L, x, bytes)
<1> DEFINE A == O \cup {x}
           g == CutRight(h, x, bytes)
           p == h.mem[x].prev \/ (bytes \div 2) % 2 = 1
           i == (bytes \div 4) % 2 = 1
           tag == Tag((bytes + 8) \div 8, TRUE, p, i)
           put == Put(h, x, tag)
<1>1. \/ g = CutOff(h, x, RowsFor(bytes))
      \/ g = h
      \/ ~(8 * Size(h, x) - (bytes + 8) < 8 * M) /\ g = [put EXCEPT !.wild = TRUE]
  BY DEF CutRight
<1>2. HeapOK(h, A, L) /\ x \in A /\ A \ {x} = O
  OBVIOUS
<1> HIDE DEF A
<1>3. /\ x \in Rows /\ Size(h, x) \in Nat /\ h \in Heaps /\ x + Size(h, x) < PAGE * MaxPages
      /\ PAGE * MaxPages \in Nat /\ h.mem \in Mems
  <2>1. x \in AllBlocks(h, A, L)
    BY <1>2 DEF AllBlocks
  <2>2. /\ x \in Rows /\ Size(h, x) \in Nat /\ NextBlock(h, x) = x + Size(h, x)
        /\ NextBlock(h, x) \in Rows
    BY <2>1, <1>2, NextIsBlock
  <2>3. PAGE * MaxPages \in Nat
    BY SizeAssumption
  <2>4. QED
    BY <2>2, <2>3, <1>2, HeapTypes DEF Rows
<1>4. CASE g = CutOff(h, x, RowsFor(bytes))
  <2>1. RowsFor(bytes) \in Nat /\ M <= RowsFor(bytes)
    BY RowsForOK
  <2>2. Shortens(h, CutOff(h, x, RowsFor(bytes)), A, L, x, RowsFor(bytes))
    BY <2>1, <1>2, CutOffOK
  <2>3. Shortens(h, g, A, L, x, RowsFor(bytes))
    BY <2>2, <1>4
  <2> HIDE DEF g
  <2>4. CutBehind(h, g, O, L, x, bytes)
    BY <2>3, <1>2 DEF Shortens, CutBehind, A
  <2>5. QED
    BY <2>4 DEF g
<1>5. CASE g = h
  <2>1. L \subseteq L /\ Keeps(h, h, O)
    BY DEF Keeps, Spares
  <2>2. CutBehind(h, h, O, L, x, bytes)
    BY <2>1 DEF CutBehind
  <2>3. QED
    BY <2>2, <1>5
<1>6. CASE ~(8 * Size(h, x) - (bytes + 8) < 8 * M) /\ g = [put EXCEPT !.wild = TRUE]
  <2>1. (bytes + 8) \div 8 \in 0..(PAGE * MaxPages)
    <3> DEFINE s == Size(h, x)
    <3>1. x >= 0 /\ s \in Nat /\ x + s < PAGE * MaxPages /\ x \in Nat
      BY <1>3 DEF Rows
    <3>2. bytes + 8 <= 8 * s
      BY <3>1, <1>6
    <3> HIDE DEF s
    <3>3. (bytes + 8) \div 8 \in Nat /\ (bytes + 8) \div 8 <= s
      BY <3>1, <3>2
    <3>4. s <= PAGE * MaxPages
      BY <3>1, <1>3
    <3>5. QED
      BY <3>1, <3>3, <3>4, <1>3
  <2>2. p \in BOOLEAN /\ i \in BOOLEAN
    OBVIOUS
  <2> HIDE DEF p, i
  <2>3. tag \in Tags
    BY <2>1, <2>2 DEF Tags, Tag
  <2> HIDE DEF tag
  <2>4. put \in Heaps
    BY <2>3, <1>3, PutType
  <2> HIDE DEF put
  <2>5. [put EXCEPT !.wild = TRUE] \in Heaps /\ [put EXCEPT !.wild = TRUE].wild
    BY <2>4 DEF Heaps
  <2>6. g \in Heaps /\ g.wild
    BY <2>5, <1>6
  <2> HIDE DEF g
  <2>7. CutBehind(h, g, O, L, x, bytes)
    BY <2>6 DEF CutBehind
  <2>8. QED
    BY <2>7 DEF g
<1>7. QED
  BY <1>1, <1>4, <1>5, <1>6

\* ... or to sf_memalign, which cuts the block that it has got.
LEMMA MemalignReturns ==
    ASSUME IInv, Return, request.op = "memalign",
           owned' = [owned EXCEPT ![Aligned] = Own],
           heap' = HandedOut(CutRight(CutLeft(heap, request.block, Aligned - request.block),
                                      Aligned, request.bytes), Aligned)
    PROVE  /\ IInv' /\ Owned' = Owned \cup {Aligned} /\ Aligned \notin Owned
           /\ ~heap'.wild => Spares(heap, heap', Owned)
           /\ Tidy(heap) => Tidy(heap')
<1> DEFINE b == request.block
           o == Offset(b, request.align)
           x == b + o
           bytes == request.bytes
           L == heap.lost
           A == Owned \cup {x}
           h == CutLeft(heap, b, o)
           k == CutRight(h, x, bytes)
<1>1. /\ pc = "found" /\ ~heap.wild
      /\ request' = NoRequest /\ pc' = "user" /\ left' = left
  BY ReturnCases
<1>2. /\ HeapInv /\ TypeOK
      /\ b \in Rows /\ b \notin Owned /\ b \in Nat
      /\ HeapOK(heap, Owned \cup {b}, L) /\ \A c \in Owned \cup {b} : ~heap.mem[c].inq
      /\ Asked /\ bytes \in Nat /\ bytes > 0
      /\ Size(heap, b) \in Nat /\ request.size \in Nat /\ request.size <= Size(heap, b)
      /\ RowsFor(bytes) \in Nat /\ M <= RowsFor(bytes)
  BY <1>1, FoundHeap
<1>3. /\ request.align \in Alignments /\ request.align \in Nat /\ request.align > 0
      /\ request.align % 8 = 0
      /\ request.size = RowsFor(bytes + request.align + 40)
  BY <1>2, RequestAssumption DEF Asked
<1>4. /\ o \in Nat /\ (o = 0 \/ M <= o) /\ 8 * o <= request.align + 24
      /\ (8 * (b + o + 1)) % request.align = 0
  BY <1>2, <1>3, OffsetOK
<1> HIDE DEF o
<1>5. RowsFor(bytes) <= Size(heap, b) - o
  <2> DEFINE size == Size(heap, b)
             align == request.align
  <2>1. size \in Nat /\ size >= RowsFor(bytes + align + 40) /\ bytes \in Nat /\ bytes > 0
        /\ align \in Nat /\ o \in Nat /\ 8 * o <= align + 24
    <3>1. request.size \in Nat /\ request.size <= size /\ request.size = RowsFor(bytes + align + 40)
      BY <1>2, <1>3
    <3>2. QED
      BY <3>1, <1>2, <1>3, <1>4
  <2> HIDE DEF size, align, bytes
  <2>2. RowsFor(bytes) <= size - o
    BY <2>1, RoomToAlign
  <2>3. QED
    BY <2>2 DEF size
<1>6. o = 0 \/ (M <= o /\ M <= Size(heap, b) - o)
  BY <1>2, <1>4, <1>5
<1>7. Aligned = x /\ Aligned - b = o /\ x \in Nat /\ x - b = o
  BY <1>2, <1>4 DEF Aligned, o
<1>8. heap' = HandedOut(k, x)
  BY <1>7
<1>9. CutInFront(heap, h, Owned, L, b, x)
  <2>1. ~heap.mem[b].inq
    BY <1>2
  <2> HIDE DEF L, b, x, h
  <2>2. CutInFront(heap, CutLeft(heap, b, o), Owned, L, b, b + o)
    BY <2>1, <1>2, <1>4, <1>6, FrontOK
  <2>3. QED
    BY <2>2 DEF x, h
<1> HIDE DEF h, L, b, x, bytes, A
<1>10. PICK V : V \subseteq L /\ HeapOK(h, A, V) /\ (V = L \/ h.wild)
  BY <1>9 DEF CutInFront, A
<1>11. /\ Keeps(heap, h, Owned) /\ ~h.mem[x].inq /\ RowsFor(bytes) <= Size(h, x) /\ x \notin Owned
       /\ Tidy(heap) => Tidy(h)
  BY <1>5, <1>7, <1>9 DEF CutInFront
<1>12. CutBehind(h, k, Owned, V, x, bytes)
  <2>1. HeapOK(h, Owned \cup {x}, V)
    BY <1>10 DEF A
  <2>2. QED
    BY <2>1, <1>2, <1>11, BehindOK
<1> HIDE DEF k
<1>13. /\ Own \in [bytes : Nat, align : Nat] /\ Own.bytes > 0
       /\ Own.bytes = bytes /\ Own.align = request.align
  BY <1>2, OwnType DEF bytes
<1>14. owned \in [Rows -> [bytes : Nat, align : Nat]]
  BY <1>2 DEF TypeOK
<1>15. x \in Rows
  <2>1. x \in AllBlocks(h, A, V)
    BY DEF AllBlocks, A
  <2>2. QED
    BY <2>1, <1>10, NextIsBlock
<1>16. Gives(x, Owned, Own)
  <2>1. owned' = [owned EXCEPT ![x] = Own]
    BY <1>7
  <2>2. \A c \in Rows \ (Owned \cup {x}) : owned[c] = NotOwned
    BY DEF Owned
  <2>3. Owned \subseteq Rows
    BY DEF Owned
  <2>4. QED
    BY <2>1, <2>2, <2>3, <1>11, <1>13, <1>14, <1>15 DEF Gives
<1>17. (8 * (x + 1)) % Own.align = 0
  <2>1. b + o + 1 = x + 1
    BY DEF x
  <2>2. QED
    BY <2>1, <1>4, <1>13
<1>18. CASE k \in Heaps /\ k.wild
  <2> DEFINE R == (x + 1)..(NextBlock(k, x) - 1)
  <2>0. Forget(k, R) \in Heaps /\ Forget(k, R).wild
    <3> HIDE DEF R
    <3>1. Forget(k, R) \in Heaps /\ SameLists(k, Forget(k, R))
      BY <1>18, ForgetType
    <3>2. QED
      BY <3>1, <1>18 DEF SameLists
  <2>1. heap' \in Heaps /\ heap'.wild
    BY <2>0, <1>8 DEF HandedOut
  <2>2. IInv' /\ Owned' = Owned \cup {x}
    BY <2>1, <1>1, <1>16, Returned
  <2>3. Tidy(heap')
    BY <2>1 DEF Tidy
  <2>4. QED
    BY <2>1, <2>2, <2>3, <1>7, <1>11
<1>19. CASE /\ \E W : W \subseteq V /\ HeapOK(k, Owned \cup {x}, W) /\ (W = V \/ k.wild)
            /\ Keeps(h, k, Owned)
            /\ ~k.mem[x].inq /\ RowsFor(bytes) <= Size(k, x)
            /\ Tidy(h) => Tidy(k)
  <2>1. PICK W : HeapOK(k, A, W) /\ (W = V \/ k.wild)
    BY <1>19 DEF A
  <2>2. x \in A
    BY DEF A
  <2>3. /\ HeapOK(heap', A, W) /\ Keeps(k, heap', A) /\ heap'.wild = k.wild
        /\ Tidy(k) => Tidy(heap')
    BY <2>1, <2>2, <1>8, HandedOutOK
  <2>4. heap' \in Heaps
    BY <2>3, HeapTypes
  <2>5. /\ Keeps(heap, heap', Owned) /\ ~heap'.mem[x].inq /\ Size(heap', x) = Size(k, x)
    <3>1. Owned \subseteq Owned /\ Keeps(k, heap', Owned)
      BY <2>3 DEF Keeps, Spares, A
    <3>2. Keeps(heap, k, Owned)
      BY <3>1, <1>11, <1>19, KeepsTwice
    <3>3. Keeps(heap, heap', Owned)
      BY <3>1, <3>2, KeepsTwice
    <3>4. QED
      BY <3>3, <2>2, <2>3, <1>19 DEF Keeps, Spares
  <2>6. ASSUME ~heap'.wild PROVE HeapOK(heap', Owned \cup {x}, heap.lost)
    <3>1. ~k.wild /\ ~h.wild
      BY <2>3, <2>6, <1>19 DEF Keeps
    <3>2. W = heap.lost
      BY <3>1, <2>1, <1>10 DEF L
    <3>3. QED
      BY <3>2, <2>3 DEF A
  <2>7. Payload(heap', x) >= Own.bytes
    <3>1. x \in AllBlocks(heap', A, W)
      BY <2>2 DEF AllBlocks
    <3>2. Size(heap', x) \in Nat /\ RowsFor(bytes) <= Size(heap', x)
      BY <3>1, <2>3, <2>5, <1>19, NextIsBlock
    <3>3. QED
      BY <3>2, <1>2, <1>13, HoldsRequest DEF bytes
  <2>8. heap'.end = heap.end /\ heap'.lost = heap.lost /\ Spares(heap, heap', Owned)
    BY <2>5 DEF Keeps
  <2>9. IInv' /\ Owned' = Owned \cup {x}
    BY <2>4, <2>5, <2>6, <2>7, <2>8, <1>1, <1>16, <1>17, Returned
  <2>10. QED
    BY <2>3, <2>8, <2>9, <1>7, <1>11, <1>19
<1>20. QED
  BY <1>12, <1>18, <1>19 DEF CutBehind

\* The heap of the initial states.
LEMMA InitOK ==
    ASSUME Init
    PROVE  IInv
<1>1. /\ PAGE \in Nat /\ MaxPages \in Nat /\ PAGE * MaxPages \in Nat
  BY SizeAssumption
<1>2. Owned = {}
  BY DEF Init, Owned
<1>3. [r \in Rows |-> NoTag] \in [Rows -> Tags]
  BY <1>1 DEF Tags, NoTag, Tag
<1>4. heap \in Heaps
  BY <1>1, <1>3 DEF Init, Heaps
<1>5. TypeOK
  <2>1. owned \in [Rows -> [bytes : Nat, align : Nat]]
    BY DEF Init, NotOwned
  <2>2. QED
    BY <2>1, <1>4, NoRequestType DEF Init, TypeOK, Calls
<1>6. NoHeap(heap) /\ heap.end = 0
  BY DEF Init, NoHeap
<1>7. Held = {}
  BY <1>2 DEF Held, Init
<1>8. 0 + PAGE * left <= PAGE * MaxPages
  <2>1. left \in Nat /\ left <= MaxPages
    BY <1>1 DEF Init
  <2>2. MaxPages - left \in Nat /\ PAGE * (MaxPages - left) = PAGE * MaxPages - PAGE * left
        /\ PAGE * left \in Nat
    BY <2>1, <1>1
  <2>3. PAGE * (MaxPages - left) \in Nat
    BY <2>2, <1>1
  <2>4. QED
    BY <2>2, <2>3, <1>1
<1>9. PayloadFits /\ CallOK
  BY <1>2 DEF PayloadFits, CallOK, Init
<1>10. HeapInv
  BY <1>2, <1>6, <1>7, <1>8, <1>9 DEF HeapInv, Init
<1>11. QED
  BY <1>5, <1>10 DEF IInv

\* The return of sf_malloc, sf_realloc and sf_memalign preserves the invariant.
LEMMA ReturnOK ==
    ASSUME IInv, Return
    PROVE  IInv'
<1>1. CASE /\ request.op = "malloc"
           /\ owned' = [owned EXCEPT ![request.block] = Own]
           /\ heap' = HandedOut(heap, request.block)
  BY <1>1, MallocReturns
<1>2. CASE /\ request.op = "realloc"
           /\ owned' = [owned EXCEPT ![request.old] = NotOwned, ![request.block] = Own]
           /\ heap' = Freed(HandedOut(heap, request.block), request.old)
  BY <1>2, ReallocReturns
<1>3. CASE /\ request.op = "memalign"
           /\ owned' = [owned EXCEPT ![Aligned] = Own]
           /\ heap' = HandedOut(CutRight(CutLeft(heap, request.block, Aligned - request.block),
                                         Aligned, request.bytes), Aligned)
  BY <1>3, MemalignReturns
<1>4. QED
  BY <1>1, <1>2, <1>3, ReturnCases

\* The searches of the three calls.
LEMMA Searches ==
    ASSUME IInv, Malloc \/ Memalign \/ \E b \in Rows : Enlarge(b)
    PROVE  \E r : Requested(r) /\ Search(r)
<1>0. TypeOK
  BY DEF IInv
<1>1. CASE Malloc
  BY <1>0, <1>1, MallocAsks DEF Malloc
<1>2. CASE Memalign
  BY <1>0, <1>2, MemalignAsks DEF Memalign
<1>3. ASSUME NEW b \in Rows, Enlarge(b)
      PROVE  \E r : Requested(r) /\ Search(r)
  <2>1. PICK bytes \in Resizes : b \in Owned /\ Search(Request("realloc", bytes, 8, b, RowsFor(bytes)))
    BY <1>3 DEF Enlarge
  <2>2. Requested(Request("realloc", bytes, 8, b, RowsFor(bytes)))
    BY <2>1, <1>0, ReallocAsks
  <2>3. QED
    BY <2>1, <2>2
<1>4. QED
  BY <1>1, <1>2, <1>3

\* Every step keeps the invariant.
LEMMA NextOK ==
    ASSUME IInv, [Next]_vars
    PROVE  IInv'
<1>1. CASE Malloc \/ Memalign \/ \E b \in Rows : Enlarge(b)
  BY <1>1, Searches, SearchOK
<1>2. CASE Grow
  BY <1>2, GrowOK
<1>3. CASE GrowFails
  BY <1>3, GrowFailsOK
<1>4. CASE Return
  BY <1>4, ReturnOK
<1>5. CASE \E b \in Rows : Free(b)
  BY <1>5, FreeOK
<1>6. CASE \E b \in Rows : Shrink(b)
  BY <1>6, ShrinkOK
<1>7. CASE UNCHANGED vars
  <2>1. heap' = heap /\ left' = left /\ owned' = owned /\ request' = request /\ pc' = pc
    BY <1>7 DEF vars
  <2>2. Owned' = Owned
    BY <2>1 DEF Owned
  <2>3. Held' = Held /\ Loose' = Loose
    BY <2>1, <2>2 DEF Held, Loose
  <2>4. PayloadFits' = PayloadFits /\ Asked' = Asked
    BY <2>1, <2>2 DEF PayloadFits, Asked
  <2>5. CallOK' = CallOK
    BY <2>1, <2>2, <2>4 DEF CallOK
  <2>6. HeapInv' = HeapInv
    BY <2>1, <2>2, <2>3, <2>4, <2>5 DEF HeapInv
  <2>7. TypeOK' = TypeOK
    BY <2>1 DEF TypeOK
  <2>8. QED
    BY <2>1, <2>6, <2>7 DEF IInv
<1>8. QED
  BY <1>1, <1>2, <1>3, <1>4, <1>5, <1>6, <1>7 DEF Next

\* The heap is sound, whatever is allocated, resized and freed, as long as the code has
\* not written through a link or a header that is not there.
THEOREM Soundness == Spec => []IInv
<1>1. Init => IInv
  BY InitOK
<1>2. IInv /\ [Next]_vars => IInv'
  BY NextOK
<1>3. QED
  BY <1>1, <1>2, PTL DEF Spec

\* The blocks that the properties speak of are those of the invariant.
LEMMA BlocksAre ==
    ASSUME IInv, ~heap.wild
    PROVE  /\ heap.end = 0 => Blocks = {}
           /\ heap.end # 0 => /\ HeapOK(heap, Held, Loose)
                              /\ Blocks = AllBlocks(heap, Held, Loose)
                              /\ Loose \subseteq heap.lost \cup {request.block}
<1>1. HeapInv /\ TypeOK
  BY DEF IInv
<1>2. CASE heap.end = 0
  <2>1. NoHeap(heap) /\ Owned = {} /\ pc = "user" /\ request = NoRequest
    BY <1>1, <1>2 DEF HeapInv, CallOK
  <2>2. InFree(heap) = {} /\ InQuick(heap) = {} /\ heap.lost = {}
    BY <2>1 DEF NoHeap, InFree, InQuick, Range
  <2>3. request.block = 0
    BY <2>1 DEF NoRequest, Request
  <2>4. QED
    BY <1>2, <2>1, <2>2, <2>3 DEF Blocks
<1>3. CASE heap.end # 0
  <2>1. HeapOK(heap, Held, Loose)
    BY <1>1, <1>3 DEF HeapInv
  <2>2. Held \cup Loose = Owned \cup ({request.block} \ {0}) \cup heap.lost
    <3>1. CASE pc = "user"
      <4>1. request.block = 0
        BY <3>1, <1>1 DEF HeapInv, CallOK, NoRequest, Request
      <4>2. QED
        BY <3>1, <4>1 DEF Held, Loose
    <3>2. CASE pc = "found"
      <4>1. request.block \in AllBlocks(heap, Held, Loose)
        BY <3>2 DEF AllBlocks, Held
      <4>2. M <= request.block
        BY <2>1, <4>1, NextIsBlock
      <4>3. request.block # 0
        BY <4>2
      <4>4. QED
        BY <3>2, <4>3 DEF Held, Loose
    <3>3. CASE pc = "grow"
      BY <3>3 DEF Held, Loose
    <3>4. CASE pc = "hung"
      BY <3>4, <1>1 DEF HeapInv, CallOK, Held, Loose
    <3>5. QED
      BY <1>1, <3>1, <3>2, <3>3, <3>4 DEF TypeOK
  <2>3. Blocks = AllBlocks(heap, Held, Loose)
    BY <2>2 DEF Blocks, AllBlocks
  <2>4. Loose \subseteq heap.lost \cup {request.block}
    BY DEF Loose
  <2>5. QED
    BY <1>3, <2>1, <2>3, <2>4
<1>4. QED
  BY <1>2, <1>3

\* The blocks of the invariant are the rows' account.
LEMMA RowsHold ==
    ASSUME IInv
    PROVE  EveryRowAccounted
<1>1. TypeOK
  BY DEF IInv
<1>2. ASSUME ~heap.wild, NEW r \in M..(heap.end - 2)
      PROVE  \E b \in Blocks :
                /\ r \in b..(NextBlock(heap, b) - 1)
                /\ \A c \in Blocks \ {b} : r \notin c..(NextBlock(heap, c) - 1)
  <2>1. heap.end # 0
    BY <1>2
  <2>2. HeapOK(heap, Held, Loose) /\ Blocks = AllBlocks(heap, Held, Loose)
    BY <1>2, <2>1, BlocksAre
  <2>3. \A b \in Blocks : /\ b \in Int /\ Size(heap, b) \in Nat /\ M <= Size(heap, b)
                          /\ NextBlock(heap, b) = b + Size(heap, b)
    BY <2>2, NextIsBlock DEF Rows
  <2>4. PICK b \in Blocks : b <= r /\ r < b + Size(heap, b)
    <3>1. Tiles(heap.mem, M, heap.end - 1, Blocks)
      BY <2>2 DEF HeapOK, Sound
    <3>2. heap.end \in Nat
      BY <2>2, HeapTypes
    <3>3. r \in M..((heap.end - 1) - 1)
      BY <3>2
    <3>4. QED
      BY <3>1, <3>3 DEF Tiles, Size
  <2>5. r \in Int
    OBVIOUS
  <2>6. r \in b..(NextBlock(heap, b) - 1)
    BY <2>3, <2>4, <2>5
  <2>7. ASSUME NEW c \in Blocks \ {b}
        PROVE  r \notin c..(NextBlock(heap, c) - 1)
    <3>1. c + Size(heap, c) <= b \/ b + Size(heap, b) <= c
      BY <2>2, BlocksApart
    <3>2. QED
      BY <3>1, <2>3, <2>4, <2>5
  <2>8. QED
    BY <2>6, <2>7
<1>3. QED
  BY <1>1, <1>2 DEF EveryRowAccounted

\* The free blocks of the invariant have the tags of free blocks, the others do not.
LEMMA TagsOfBlocks ==
    ASSUME NEW h, NEW A, NEW U, HeapOK(h, A, U)
    PROVE  /\ \A b \in U \cup InFree(h) :
                 LET footer == h.mem[NextBlock(h, b) - 1] IN
                 ~h.mem[b].alloc /\ ~footer.alloc /\ footer.size = Size(h, b)
           /\ \A b \in A \cup InQuick(h) : h.mem[b].alloc
<1>1. Sound(h.mem, h.end, AllBlocks(h, A, U), U \cup InFree(h)) /\ Kinds(h, A, U)
  BY DEF HeapOK
<1>2. ASSUME NEW b \in U \cup InFree(h)
      PROVE  LET footer == h.mem[NextBlock(h, b) - 1] IN
             ~h.mem[b].alloc /\ ~footer.alloc /\ footer.size = Size(h, b)
  <2>1. FreeTags(h.mem, b)
    BY <1>1 DEF Sound
  <2>2. b + h.mem[b].size - 1 = NextBlock(h, b) - 1
    <3>1. b \in AllBlocks(h, A, U)
      BY DEF AllBlocks
    <3>2. b \in Int /\ Size(h, b) \in Int
      BY <3>1, NextIsBlock DEF Rows
    <3>3. QED
      BY <3>2 DEF NextBlock, Size
  <2>3. QED
    BY <2>1, <2>2 DEF FreeTags, Size
<1>3. ASSUME NEW b \in A \cup InQuick(h)
      PROVE  h.mem[b].alloc
  <2>1. b \in AllBlocks(h, A, U) \ (U \cup InFree(h))
    BY <1>1 DEF AllBlocks, Kinds
  <2>2. QED
    BY <1>1, <2>1 DEF Sound
<1>4. QED
  BY <1>2, <1>3

\* What the lists hold is what the tags say.
LEMMA TagsHold ==
    ASSUME IInv
    PROVE  ListsMatchTags
<1>1. SUFFICES ASSUME ~heap.wild
               PROVE  /\ PrevBitIsSafe
                      /\ \A i \in FreeLists : IsInjective(heap.free[i]) /\
                            \A b \in Range(heap.free[i]) :
                                LET footer == heap.mem[NextBlock(heap, b) - 1] IN
                                /\ ~heap.mem[b].alloc /\ ListOf(Size(heap, b)) = i
                                /\ ~footer.alloc /\ footer.size = Size(heap, b)
                      /\ \A q \in QuickLists : IsInjective(heap.quick[q]) /\
                            Len(heap.quick[q]) <= QUICK_LIST_MAX /\
                            \A b \in Range(heap.quick[q]) :
                                heap.mem[b].alloc /\ heap.mem[b].inq /\ Size(heap, b) = q + M
  BY DEF ListsMatchTags
<1>2. CASE heap.end = 0
  <2>1. NoHeap(heap) /\ Blocks = {}
    BY <1>1, <1>2, BlocksAre DEF IInv, HeapInv
  <2>2. PrevBitIsSafe
    BY <2>1, <1>2 DEF PrevBitIsSafe
  <2>3. QED
    BY <2>1, <2>2, SizeAssumption DEF NoHeap, IsInjective, Range
<1>3. CASE heap.end # 0
  <2>1. /\ HeapOK(heap, Held, Loose) /\ Blocks = AllBlocks(heap, Held, Loose)
        /\ Loose \subseteq heap.lost \cup {request.block}
    BY <1>1, <1>3, BlocksAre
  <2>2. PrevBitIsSafe
    <3>1. ASSUME NEW b \in Blocks \cup ({heap.end - 1} \ {-1}), ~heap.mem[b].prev
          PROVE  /\ PrevBlock(heap, b) \in InFree(heap) \cup {request.block} \cup heap.lost
                 /\ NextBlock(heap, PrevBlock(heap, b)) = b
      <4>1. b \in AllBlocks(heap, Held, Loose) \cup {heap.end - 1}
        BY <2>1
      <4>2. /\ PrevBlock(heap, b) \in Loose \cup InFree(heap)
            /\ NextBlock(heap, PrevBlock(heap, b)) = b
        BY <2>1, <3>1, <4>1, PrevFound
      <4>3. QED
        BY <2>1, <4>2
    <3>2. QED
      BY <3>1 DEF PrevBitIsSafe
  <2>3. Lists(heap)
    BY <2>1 DEF HeapOK
  <2>4. ASSUME NEW i \in FreeLists
        PROVE  /\ IsInjective(heap.free[i])
               /\ \A b \in Range(heap.free[i]) :
                     LET footer == heap.mem[NextBlock(heap, b) - 1] IN
                     /\ ~heap.mem[b].alloc /\ ListOf(Size(heap, b)) = i
                     /\ ~footer.alloc /\ footer.size = Size(heap, b)
    <3>1. FreeListOK(heap, i) /\ Range(heap.free[i]) \subseteq InFree(heap)
      BY <2>3 DEF Lists, InFree
    <3>2. \A b \in InFree(heap) :
             LET footer == heap.mem[NextBlock(heap, b) - 1] IN
             ~heap.mem[b].alloc /\ ~footer.alloc /\ footer.size = Size(heap, b)
      BY <2>1, TagsOfBlocks
    <3>3. QED
      BY <3>1, <3>2 DEF FreeListOK
  <2>5. ASSUME NEW q \in QuickLists
        PROVE  /\ IsInjective(heap.quick[q]) /\ Len(heap.quick[q]) <= QUICK_LIST_MAX
               /\ \A b \in Range(heap.quick[q]) :
                     heap.mem[b].alloc /\ heap.mem[b].inq /\ Size(heap, b) = q + M
    <3>1. QuickListOK(heap, q) /\ Range(heap.quick[q]) \subseteq InQuick(heap)
      BY <2>3 DEF Lists, InQuick
    <3>2. \A b \in InQuick(heap) : heap.mem[b].alloc
      BY <2>1, TagsOfBlocks
    <3>3. QED
      BY <3>1, <3>2 DEF QuickListOK
  <2>6. QED
    BY <2>2, <2>4, <2>5
<1>4. QED
  BY <1>2, <1>3

\* The blocks of the user are valid, apart, and as large as asked for.
LEMMA OwnedHold ==
    ASSUME IInv
    PROVE  OwnedAreValid
<1>1. SUFFICES ASSUME ~heap.wild, NEW b \in Owned
               PROVE  Valid(heap, b)
  BY DEF OwnedAreValid, IInv, HeapInv
<1>2. HeapInv
  BY <1>1 DEF IInv
<1>3. heap.end # 0
  BY <1>1, <1>2 DEF HeapInv
<1>4. HeapOK(heap, Held, Loose) /\ b \in Held /\ ~heap.mem[b].inq /\ b \in AllBlocks(heap, Held, Loose)
  BY <1>1, <1>2, <1>3 DEF HeapInv, Held, AllBlocks
<1>5. Size(heap, b) >= M /\ b >= M /\ NextBlock(heap, b) <= heap.end - 1
  BY <1>4, NextIsBlock DEF Rows
<1>6. heap.mem[b].alloc
  BY <1>4, TagsOfBlocks
<1>7. heap.mem[b].prev \/ ~heap.mem[b - 1].alloc
  <2>1. SUFFICES ASSUME ~heap.mem[b].prev PROVE ~heap.mem[b - 1].alloc
    OBVIOUS
  <2>2. /\ PrevBlock(heap, b) \in Loose \cup InFree(heap)
        /\ NextBlock(heap, PrevBlock(heap, b)) = b
    BY <1>4, <2>1, PrevFound
  <2>3. QED
    BY <1>4, <2>2, TagsOfBlocks
<1>8. QED
  BY <1>4, <1>5, <1>6, <1>7 DEF Valid

\* Every row of the heap belongs to exactly one block that the user, a list or the call in
\* progress knows, or that sf_malloc has lost: nothing else leaks, and no two blocks overlap.
THEOREM RowsAlways == Spec => []EveryRowAccounted
BY Soundness, RowsHold, PTL

\* A block is where its tags say: in the free list of its size, once, with a footer that
\* leads back to it, or in the quick list of its size, and a previous-allocated bit of 0
\* can be trusted: sf_free and the merging never follow a tag that is not there.
THEOREM TagsAlways == Spec => []ListsMatchTags
BY Soundness, TagsHold, PTL

\* Every block that the user holds is one that sf_free accepts, with room for the bytes asked
\* for, at a multiple of the alignment asked for.
THEOREM ValidAlways == Spec => []OwnedAreValid
BY Soundness, OwnedHold, PTL

\* What the user has: the regions of the abstract allocator.
Area(h, b) == b..(NextBlock(h, b) - 1)
Region == [b \in IF heap.wild THEN {} ELSE Owned |->
              [bytes |-> owned[b].bytes, align |-> owned[b].align,
               rows |-> b..(NextBlock(heap, b) - 1)]]

\* A block has as many rows as its header says.
LEMMA AreaSize ==
    ASSUME NEW h, NEW A, NEW U, HeapOK(h, A, U), NEW b \in A
    PROVE  Cardinality(Area(h, b)) = Size(h, b)
<1> DEFINE n == Size(h, b)
<1>1. b \in AllBlocks(h, A, U)
  BY DEF AllBlocks
<1>2. b \in Int /\ n \in Nat /\ NextBlock(h, b) = b + n /\ M <= n
  BY <1>1, NextIsBlock DEF Rows
<1>3. Area(h, b) = b..(b + n - 1)
  BY <1>2 DEF Area
<1> HIDE DEF n
<1>4. b + n - 1 \in Int /\ (b + n - 1) - b + 1 = n /\ ~(b > b + n - 1)
  BY <1>2
<1>5. Cardinality(b..(b + n - 1)) = IF b > b + n - 1 THEN 0 ELSE (b + n - 1) - b + 1
  BY <1>2, <1>4, FS_Interval
<1>6. QED
  BY <1>3, <1>4, <1>5 DEF n

\* The blocks of the user have no row in common.
LEMMA AreasApart ==
    ASSUME NEW h, NEW A, NEW U, HeapOK(h, A, U), NEW b \in A, NEW c \in A, b # c
    PROVE  Area(h, b) \cap Area(h, c) = {}
<1>1. b \in AllBlocks(h, A, U) /\ c \in AllBlocks(h, A, U)
  BY DEF AllBlocks
<1>2. /\ b \in Int /\ Size(h, b) \in Nat /\ NextBlock(h, b) = b + Size(h, b)
      /\ c \in Int /\ Size(h, c) \in Nat /\ NextBlock(h, c) = c + Size(h, c)
  BY <1>1, NextIsBlock DEF Rows
<1>3. c + Size(h, c) <= b \/ b + Size(h, b) <= c
  BY <1>1, BlocksApart
<1>4. QED
  BY <1>2, <1>3 DEF Area

\* A block of the same size has the same rows.
LEMMA SameArea ==
    ASSUME NEW h, NEW g, NEW b, Size(g, b) = Size(h, b)
    PROVE  Area(g, b) = Area(h, b)
BY DEF Area, NextBlock

\* What one owned block is to the user.
LEMMA RegionOf ==
    ASSUME ~heap.wild
    PROVE  /\ DOMAIN Region = Owned
           /\ \A b \in Owned : Region[b] = [bytes |-> owned[b].bytes, align |-> owned[b].align,
                                            rows |-> Area(heap, b)]
BY DEF Region, Area

\* A step that changes neither the owned blocks nor their sizes.
LEMMA RegionStays ==
    ASSUME ~heap.wild, ~heap'.wild, owned' = owned, Spares(heap, heap', Owned)
    PROVE  Region' = Region
<1>1. Owned' = Owned
  BY DEF Owned
<1>2. \A b \in Owned : Area(heap', b) = Area(heap, b)
  BY SameArea DEF Spares
<1>3. Region = [b \in Owned |-> [bytes |-> owned[b].bytes, align |-> owned[b].align,
                                 rows |-> Area(heap, b)]]
  BY DEF Region, Area
<1>4. Region' = [b \in Owned' |-> [bytes |-> owned'[b].bytes, align |-> owned'[b].align,
                                   rows |-> Area(heap', b)]]
  BY DEF Region, Area
<1>5. QED
  BY <1>1, <1>2, <1>3, <1>4

\* A block is given to the user, who keeps the blocks O.
HandsOut(O, b) ==
    /\ DOMAIN Region' = O \cup {b}
    /\ 8 * (Cardinality(Region'[b].rows) - 1) >= Region'[b].bytes
    /\ (8 * (b + 1)) % Region'[b].align = 0
    /\ \A x \in O : Region'[x] = Region[x] /\ Region'[b].rows \cap Region[x].rows = {}

\* A valid block given to the user is apart from the others and large enough.
LEMMA Handing ==
    ASSUME IInv, IInv', ~heap.wild, ~heap'.wild, NEW O, O \subseteq Owned, NEW b, b \notin O,
           Owned' = O \cup {b}, \A c \in O : owned'[c] = owned[c], Spares(heap, heap', O)
    PROVE  HandsOut(O, b)
<1>1. /\ DOMAIN Region' = O \cup {b}
      /\ \A x \in O \cup {b} : Region'[x] = [bytes |-> owned'[x].bytes, align |-> owned'[x].align,
                                             rows |-> Area(heap', x)]
  <2>1. Region' = [x \in Owned' |-> [bytes |-> owned'[x].bytes, align |-> owned'[x].align,
                                     rows |-> Area(heap', x)]]
    BY DEF Region, Area
  <2>2. QED
    BY <2>1
<1>2. \A x \in Owned : Region[x] = [bytes |-> owned[x].bytes, align |-> owned[x].align,
                                    rows |-> Area(heap, x)]
  BY RegionOf
<1>3. \A x \in O : Area(heap', x) = Area(heap, x)
  BY SameArea DEF Spares
<1>4. \A x \in O : Region'[x] = Region[x]
  BY <1>1, <1>2, <1>3
<1>5. HeapInv' /\ b \in Owned'
  BY DEF IInv
<1>6. heap'.end # 0 /\ HeapOK(heap', Held', Loose')
  BY <1>5 DEF HeapInv
<1>7. b \in Held' /\ O \subseteq Held'
  BY <1>5 DEF Held
<1>8. Cardinality(Area(heap', b)) = Size(heap', b)
  BY <1>6, <1>7, AreaSize
<1>9. 8 * (Size(heap', b) - 1) >= owned'[b].bytes /\ (8 * (b + 1)) % owned'[b].align = 0
  BY <1>5 DEF HeapInv, PayloadFits, Payload
<1>10. \A x \in O : Area(heap', b) \cap Area(heap', x) = {}
  BY <1>6, <1>7, AreasApart
<1> DEFINE r == Region'[b]
<1>11. r.bytes = owned'[b].bytes /\ r.align = owned'[b].align /\ r.rows = Area(heap', b)
  <2>1. r = [bytes |-> owned'[b].bytes, align |-> owned'[b].align, rows |-> Area(heap', b)]
    BY <1>1
  <2> HIDE DEF r
  <2>2. QED
    BY <2>1
<1> HIDE DEF r
<1>12. ASSUME NEW x \in O
       PROVE  Region[x].rows = Area(heap, x)
  <2>1. Region[x] = [bytes |-> owned[x].bytes, align |-> owned[x].align, rows |-> Area(heap, x)]
    BY <1>2
  <2>2. QED
    BY <2>1
<1>13. /\ 8 * (Cardinality(r.rows) - 1) >= r.bytes /\ (8 * (b + 1)) % r.align = 0
       /\ \A x \in O : r.rows \cap Region[x].rows = {}
  BY <1>3, <1>8, <1>9, <1>10, <1>11, <1>12
<1>14. QED
  BY <1>1, <1>4, <1>13 DEF HandsOut, r

\* The abstract allocator counts as we do.
LEMMA SameCardinality ==
    ASSUME NEW S
    PROVE  Promise!Cardinality(S) = Cardinality(S)
BY Zenon DEF Promise!Cardinality, Cardinality

\* The same in the terms of the abstract allocator.
LEMMA HandingOut ==
    ASSUME NEW O, NEW b, NEW kept, HandsOut(O, b), kept = [x \in O |-> Region[x]]
    PROVE  Promise!HandOut(kept, b)
<1>1. DOMAIN kept = O /\ \A x \in O : kept[x] = Region[x]
  OBVIOUS
<1> DEFINE r == Region'[b]
<1>2. /\ DOMAIN Region' = O \cup {b}
      /\ 8 * (Cardinality(r.rows) - 1) >= r.bytes /\ (8 * (b + 1)) % r.align = 0
      /\ \A x \in O : Region'[x] = Region[x] /\ r.rows \cap Region[x].rows = {}
  BY DEF HandsOut
<1> HIDE DEF r
<1>3. Promise!Fits(b, r)
  <2>1. Promise!Cardinality(r.rows) = Cardinality(r.rows)
    BY SameCardinality
  <2>2. QED
    BY <2>1, <1>2 DEF Promise!Fits
<1>4. /\ DOMAIN Region' = DOMAIN kept \cup {b} /\ Promise!Fits(b, r)
      /\ \A x \in DOMAIN kept : Region'[x] = kept[x] /\ r.rows \cap kept[x].rows = {}
  BY <1>1, <1>2, <1>3
<1> HIDE DEF r
<1>5. QED
  BY <1>4 DEF Promise!HandOut, Region, r

\* A step after which nothing is promised.
LEMMA FaultStep ==
    ASSUME heap'.wild = TRUE
    PROVE  Promise!Next
<1>1. Region' = [x \in {} |-> x]
  BY DEF Region
<1>2. (~heap'.wild) = FALSE
  OBVIOUS
<1>3. Promise!Fault
  BY <1>1, <1>2 DEF Promise!Fault, Region
<1>4. QED
  BY <1>3 DEF Promise!Next

\* A step that gives nothing to the user and takes nothing away.
LEMMA QuietStep ==
    ASSUME IInv, IInv', ~heap.wild, owned' = owned, Spares(heap, heap', Owned),
           heap'.wild \in BOOLEAN
    PROVE  [Promise!Next]_(Promise!vars)
<1>1. CASE heap'.wild
  BY <1>1, FaultStep
<1>2. CASE ~heap'.wild
  <2>1. Region' = Region
    BY <1>2, RegionStays
  <2>2. (~heap'.wild) = (~heap.wild)
    BY <1>2
  <2>3. QED
    BY <2>1, <2>2 DEF Promise!vars, Region
<1>3. QED
  BY <1>1, <1>2

\* A block that the user did not have is handed out.
LEMMA AllocateStep ==
    ASSUME IInv, IInv', ~heap.wild, ~heap'.wild, NEW b, b \notin Owned,
           Owned' = Owned \cup {b}, \A c \in Owned : owned'[c] = owned[c],
           Spares(heap, heap', Owned)
    PROVE  Promise!Next
<1>1. HandsOut(Owned, b)
  BY Handing
<1>2. Region = [x \in Owned |-> Region[x]]
  BY DEF Region
<1>3. Promise!HandOut(Region, b)
  BY <1>1, <1>2, HandingOut
<1>4. DOMAIN Region' = Owned \cup {b} /\ DOMAIN Region = Owned
  BY <1>1, RegionOf DEF HandsOut
<1>5. b \in DOMAIN Region' \ DOMAIN Region
  BY <1>4
<1>6. Promise!Allocate
  BY <1>3, <1>5 DEF Promise!Allocate, Promise!InUse, Region
<1>7. (~heap'.wild) = (~heap.wild)
  OBVIOUS
<1>8. QED
  BY <1>6, <1>7 DEF Promise!Next

\* The user gives a block back.
LEMMA FreeStep ==
    ASSUME IInv, ~heap.wild, ~heap'.wild, NEW b \in Owned, Owned' = Owned \ {b},
           \A c \in Owned \ {b} : owned'[c] = owned[c], Spares(heap, heap', Owned \ {b})
    PROVE  Promise!Next
<1>1. \A x \in Owned \ {b} : Area(heap', x) = Area(heap, x)
  BY SameArea DEF Spares
<1>2. Region' = [x \in Owned \ {b} |-> [bytes |-> owned'[x].bytes, align |-> owned'[x].align,
                                        rows |-> Area(heap', x)]]
  BY DEF Region, Area
<1>3. Region' = [x \in Owned \ {b} |-> Region[x]]
  BY <1>1, <1>2, RegionOf
<1>4. DOMAIN Region = Owned
  BY RegionOf
<1>5. Promise!Free
  BY <1>3, <1>4 DEF Promise!Free, Promise!Without, Promise!InUse, Region
<1>6. (~heap'.wild) = (~heap.wild)
  OBVIOUS
<1>7. QED
  BY <1>5, <1>6 DEF Promise!Next

\* A block is cut down in place.
LEMMA ShrinkStep ==
    ASSUME IInv, IInv', ~heap.wild, ~heap'.wild, NEW b \in Owned, Owned' = Owned,
           \A c \in Owned \ {b} : owned'[c] = owned[c], Spares(heap, heap', Owned \ {b}),
           Size(heap', b) <= Size(heap, b), Size(heap', b) \in Int, Size(heap, b) \in Int,
           b \in Int
    PROVE  Promise!Next
<1>1. HandsOut(Owned \ {b}, b)
  <2>1. Owned' = (Owned \ {b}) \cup {b} /\ b \notin Owned \ {b} /\ Owned \ {b} \subseteq Owned
    OBVIOUS
  <2>2. QED
    BY <2>1, Handing
<1>2. DOMAIN Region = Owned /\ DOMAIN Region' = Owned
  <2>1. DOMAIN Region' = (Owned \ {b}) \cup {b}
    BY <1>1 DEF HandsOut
  <2>2. QED
    BY <2>1, RegionOf
<1>3. Promise!HandOut(Promise!Without(b), b)
  <2>1. Promise!Without(b) = [x \in Owned \ {b} |-> Region[x]]
    BY <1>2 DEF Promise!Without, Promise!InUse, Region
  <2>2. QED
    BY <1>1, <2>1, HandingOut
<1>4. Region'[b].rows \subseteq Region[b].rows
  <2>1. Region[b].rows = Area(heap, b)
    <3>1. Region[b] = [bytes |-> owned[b].bytes, align |-> owned[b].align,
                       rows |-> Area(heap, b)]
      BY RegionOf
    <3>2. QED
      BY <3>1
  <2>2. Region'[b].rows = Area(heap', b)
    <3>1. Region' = [x \in Owned' |-> [bytes |-> owned'[x].bytes, align |-> owned'[x].align,
                                       rows |-> Area(heap', x)]]
      BY DEF Region, Area
    <3>2. Region'[b] = [bytes |-> owned'[b].bytes, align |-> owned'[b].align,
                        rows |-> Area(heap', b)]
      BY <3>1
    <3>3. QED
      BY <3>2
  <2>3. Area(heap', b) \subseteq Area(heap, b)
    BY DEF Area, NextBlock
  <2>4. QED
    BY <2>1, <2>2, <2>3
<1>5. Promise!Shrink
  BY <1>2, <1>3, <1>4 DEF Promise!Shrink, Promise!InUse, Region
<1>6. (~heap'.wild) = (~heap.wild)
  OBVIOUS
<1>7. QED
  BY <1>5, <1>6 DEF Promise!Next

\* Another block takes the place of one that is freed.
LEMMA MoveStep ==
    ASSUME IInv, IInv', ~heap.wild, ~heap'.wild, NEW b \in Owned, NEW c, c \notin Owned,
           Owned' = (Owned \ {b}) \cup {c},
           \A x \in Owned \ {b} : owned'[x] = owned[x], Spares(heap, heap', Owned \ {b}),
           Area(heap', c) \cap Area(heap, b) = {}
    PROVE  Promise!Next
<1>1. HandsOut(Owned \ {b}, c)
  <2>1. c \notin Owned \ {b} /\ Owned \ {b} \subseteq Owned
    OBVIOUS
  <2>2. QED
    BY <2>1, Handing
<1>2. DOMAIN Region = Owned /\ DOMAIN Region' = (Owned \ {b}) \cup {c}
  BY <1>1, RegionOf DEF HandsOut
<1>3. Promise!HandOut(Promise!Without(b), c)
  <2>1. Promise!Without(b) = [x \in Owned \ {b} |-> Region[x]]
    BY <1>2 DEF Promise!Without, Promise!InUse, Region
  <2>2. QED
    BY <1>1, <2>1, HandingOut
<1>4. Region'[c].rows \cap Region[b].rows = {}
  <2>1. Region[b].rows = Area(heap, b)
    <3>1. Region[b] = [bytes |-> owned[b].bytes, align |-> owned[b].align,
                       rows |-> Area(heap, b)]
      BY RegionOf
    <3>2. QED
      BY <3>1
  <2>2. Region'[c].rows = Area(heap', c)
    <3>1. Region' = [x \in Owned' |-> [bytes |-> owned'[x].bytes, align |-> owned'[x].align,
                                       rows |-> Area(heap', x)]]
      BY DEF Region, Area
    <3>2. Region'[c] = [bytes |-> owned'[c].bytes, align |-> owned'[c].align,
                        rows |-> Area(heap', c)]
      BY <3>1
    <3>3. QED
      BY <3>2
  <2>3. QED
    BY <2>1, <2>2
<1>5. c \in DOMAIN Region' \ DOMAIN Region
  BY <1>2
<1>6. Promise!Move
  BY <1>2, <1>3, <1>4, <1>5 DEF Promise!Move, Promise!InUse, Region
<1>7. (~heap'.wild) = (~heap.wild)
  OBVIOUS
<1>8. QED
  BY <1>6, <1>7 DEF Promise!Next

\* Every call does to the user's blocks what the abstract allocator says.
LEMMA StepImplements ==
    ASSUME IInv, IInv', [Next]_vars
    PROVE  [Promise!Next]_(Promise!vars)
<1>0. heap'.wild \in BOOLEAN
  BY DEF IInv, TypeOK, Heaps
<1>1. CASE Malloc \/ Memalign \/ \E b \in Rows : Enlarge(b)
  <2>1. PICK r : Requested(r) /\ Search(r)
    BY <1>1, Searches
  <2>2. Spares(heap, heap', Owned) /\ owned' = owned
    BY <2>1, SearchFollows DEF Follows
  <2>3. ~heap.wild
    BY <2>1 DEF Search
  <2>4. QED
    BY <1>0, <2>2, <2>3, QuietStep
<1>2. CASE Grow
  <2>1. ~heap.wild
    BY <1>2 DEF Grow
  <2>2. Spares(heap, heap', Owned) /\ owned' = owned
    BY <1>2, GrowOK
  <2>3. QED
    BY <1>0, <2>1, <2>2, QuietStep
<1>3. CASE GrowFails
  <2>1. ~heap.wild
    BY <1>3 DEF GrowFails
  <2>2. Spares(heap, heap', Owned) /\ owned' = owned
    BY <1>3, GrowFailsOK
  <2>3. QED
    BY <1>0, <2>1, <2>2, QuietStep
<1>4. CASE Return /\ ~heap'.wild
  <2>1. pc = "found" /\ ~heap.wild
    BY <1>4 DEF Return
  <2> DEFINE b == request.block
  <2>2. /\ HeapOK(heap, Owned \cup {b}, heap.lost) /\ b \notin Owned /\ b \in Rows /\ Asked
        /\ owned \in [Rows -> [bytes : Nat, align : Nat]]
    BY <2>1, FoundHeap DEF TypeOK
  <2>3. CASE /\ request.op = "malloc"
             /\ owned' = [owned EXCEPT ![request.block] = Own]
             /\ heap' = HandedOut(heap, request.block)
    <3>1. Owned' = Owned \cup {b} /\ Spares(heap, heap', Owned)
      BY <1>4, <2>3, MallocReturns
    <3>2. \A c \in Owned : owned'[c] = owned[c]
      BY <2>2, <2>3 DEF Owned
    <3> HIDE DEF b
    <3>3. Promise!Next
      BY <1>4, <2>1, <2>2, <3>1, <3>2, AllocateStep
    <3>4. QED
      BY <3>3
  <2>4. CASE /\ request.op = "realloc"
             /\ owned' = [owned EXCEPT ![request.old] = NotOwned, ![request.block] = Own]
             /\ heap' = Freed(HandedOut(heap, request.block), request.old)
    <3> DEFINE old == request.old
    <3>1. /\ Owned' = (Owned \ {old}) \cup {b} /\ old \in Owned
          /\ Spares(heap, heap', Owned \ {old})
          /\ Size(heap', b) = Size(heap, b)
      BY <1>4, <2>4, ReallocReturns
    <3>2. \A c \in Owned \ {old} : owned'[c] = owned[c]
      BY <2>2, <2>4 DEF Owned
    <3> HIDE DEF b, old
    <3>3. Area(heap', b) = Area(heap, b)
      BY <3>1, SameArea
    <3>4. Area(heap, b) \cap Area(heap, old) = {}
      <4>1. b \in Owned \cup {b} /\ old \in Owned \cup {b} /\ b # old
        BY <2>2, <3>1
      <4> DEFINE A == Owned \cup {b}
                 L == heap.lost
      <4>2. HeapOK(heap, A, L) /\ b \in A /\ old \in A
        BY <2>2, <4>1
      <4> HIDE DEF A, L
      <4>3. QED
        BY <4>1, <4>2, AreasApart
    <3>5. Area(heap', b) \cap Area(heap, old) = {}
      BY <3>3, <3>4
    <3>6. Promise!Next
      BY <1>4, <2>1, <2>2, <3>1, <3>2, <3>5, MoveStep
    <3>7. QED
      BY <3>6
  <2>5. CASE /\ request.op = "memalign"
             /\ owned' = [owned EXCEPT ![Aligned] = Own]
             /\ heap' = HandedOut(CutRight(CutLeft(heap, request.block, Aligned - request.block),
                                           Aligned, request.bytes), Aligned)
    <3>1. /\ Owned' = Owned \cup {Aligned} /\ Aligned \notin Owned
          /\ Spares(heap, heap', Owned)
      BY <1>4, <2>5, MemalignReturns
    <3>2. \A c \in Owned : owned'[c] = owned[c]
      BY <2>2, <2>5, <3>1 DEF Owned
    <3>3. Promise!Next
      BY <1>4, <2>1, <3>1, <3>2, AllocateStep
    <3>4. QED
      BY <3>3
  <2>6. QED
    BY <1>4, <2>3, <2>4, <2>5, ReturnCases
<1>5. CASE (\E b \in Rows : Free(b)) /\ ~heap'.wild
  <2>1. PICK b \in Rows : Free(b)
    BY <1>5
  <2>2. ~heap.wild /\ b \in Owned /\ owned' = [owned EXCEPT ![b] = NotOwned]
    BY <2>1 DEF Free
  <2>3. Owned' = Owned \ {b} /\ Spares(heap, heap', Owned \ {b})
    BY <2>1, FreeOK
  <2>4. \A c \in Owned \ {b} : owned'[c] = owned[c]
    BY <2>2 DEF IInv, TypeOK, Owned
  <2>5. Promise!Next
    BY <1>5, <2>2, <2>3, <2>4, FreeStep
  <2>6. QED
    BY <2>5
<1>6. CASE (\E b \in Rows : Shrink(b)) /\ ~heap'.wild
  <2>1. PICK b \in Rows : Shrink(b)
    BY <1>6
  <2>2. PICK bytes : owned' = [owned EXCEPT ![b].bytes = bytes]
    BY <2>1 DEF Shrink
  <2>3. ~heap.wild /\ b \in Owned /\ pc = "user"
    BY <2>1 DEF Shrink
  <2>4. Owned' = Owned /\ Spares(heap, heap', Owned \ {b}) /\ Size(heap', b) <= Size(heap, b)
    BY <2>1, ShrinkOK
  <2>5. \A c \in Owned \ {b} : owned'[c] = owned[c]
    BY <2>2 DEF IInv, TypeOK, Owned
  <2>6. b \in Int /\ Size(heap', b) \in Int /\ Size(heap, b) \in Int
    <3>1. heap \in Heaps /\ heap' \in Heaps
      BY DEF IInv, TypeOK
    <3>2. QED
      BY <3>1, SizeAssumption DEF Heaps, Size, Tags, Rows
  <2>7. Promise!Next
    BY <1>6, <2>3, <2>4, <2>5, <2>6, ShrinkStep
  <2>8. QED
    BY <2>7
<1>7. CASE UNCHANGED vars
  <2>1. heap' = heap /\ owned' = owned
    BY <1>7 DEF vars
  <2>2. Region' = Region
    BY <2>1 DEF Region, Owned
  <2>3. (~heap'.wild) = (~heap.wild)
    BY <2>1
  <2>4. QED
    BY <2>2, <2>3 DEF Promise!vars, Region
<1>8. CASE heap'.wild
  <2>1. Promise!Next
    BY <1>0, <1>8, FaultStep
  <2>2. QED
    BY <2>1
<1>9. QED
  BY <1>0, <1>1, <1>2, <1>3, <1>4, <1>5, <1>6, <1>7, <1>8 DEF Next

\* At first the user has nothing.
LEMMA StartImplements ==
    ASSUME Init
    PROVE  Promise!Init
<1>1. heap.wild = FALSE /\ Owned = {}
  BY DEF Init, Owned
<1>2. Region = [x \in {} |-> x]
  BY <1>1 DEF Region
<1>3. (~heap.wild) = TRUE
  BY <1>1
<1>4. QED
  BY <1>2, <1>3 DEF Promise!Init, Region

\* To its user the heap is a set of separate regions, whatever is allocated, freed, cut
\* and moved: sf_malloc, sf_realloc, sf_free and sf_memalign do what the header file says.
THEOREM SfmmImplementsAllocator == Spec => ImplementsAllocator
<1>1. Init => Promise!Init
  BY StartImplements
<1>2. IInv /\ IInv' /\ [Next]_vars => [Promise!Next]_(Promise!vars)
  BY StepImplements
<1>3. QED
  BY Soundness, <1>1, <1>2, PTL DEF Spec, ImplementsAllocator, Promise!Spec

\* The last block of a heap that has grown has no free neighbour, and the others still have none.
LEMMA GrownMerged ==
    ASSUME NEW h, NEW A, NEW U, NEW g, NEW p, HeapOK(h, A, U), Grows(h, g, A, U, p),
           NEW K, K \subseteq AllBlocks(h, A, U), Merged(h.mem, K), p # h.end - 1 => p \in K
    PROVE  Merged(g.mem, K \cup {p})
<1> DEFINE e == h.end - 1
<1>1. /\ HeapOK(g, A, U \cup {p}) /\ g.end = h.end + PAGE
      /\ NextBlock(g, p) = g.end - 1 /\ ~g.mem[g.end - 1].prev
      /\ g.mem[g.end - 2] = g.mem[p]
      /\ \A r \in Rows : r < p => g.mem[r] = h.mem[r]
      /\ \/ p = e /\ h.mem[p].prev
         \/ p \in U \cup InFree(h) /\ NextBlock(h, p) = e /\ p # e
  BY DEF Grows
<1>2. /\ h.end \in Nat /\ e \in Int /\ PAGE \in Nat /\ PAGE * MaxPages \in Nat /\ g.end \in Int
  BY <1>1, HeapTypes, SizeAssumption
<1>3. p \in Rows /\ p \in Int /\ p < g.end - 1
  <2>1. p \in AllBlocks(g, A, U \cup {p})
    BY DEF AllBlocks
  <2>2. p \in Rows /\ p < NextBlock(g, p)
    BY <2>1, <1>1, NextIsBlock
  <2>3. QED
    BY <2>2, <1>1 DEF Rows
<1>4. ASSUME NEW x \in K \ {p}
      PROVE  /\ x \in Rows /\ x \in Int /\ h.mem[x].size \in Nat /\ M <= h.mem[x].size
             /\ x + h.mem[x].size \in Rows /\ x + h.mem[x].size - 1 \in Rows
             /\ x + h.mem[x].size <= p
  <2>1. x \in AllBlocks(h, A, U)
    OBVIOUS
  <2>2. /\ x \in Rows /\ M <= x /\ M <= Size(h, x) /\ Size(h, x) \in Nat
        /\ NextBlock(h, x) \in Rows /\ NextBlock(h, x) = x + Size(h, x) /\ NextBlock(h, x) <= e
    BY <2>1, NextIsBlock
  <2>3. x \in Int /\ x + Size(h, x) - 1 \in Rows
    BY <2>2, <1>2 DEF Rows
  <2>4. x + Size(h, x) <= p
    <3>1. CASE p = e
      BY <3>1, <2>2
    <3>2. CASE p # e
      <4>1. p \in AllBlocks(h, A, U) /\ NextBlock(h, p) = e
        BY <3>2, <1>1 DEF AllBlocks
      <4>2. p + Size(h, p) <= x \/ x + Size(h, x) <= p
        BY <4>1, <2>1, BlocksApart
      <4>3. p + Size(h, p) = e
        BY <4>1, NextIsBlock
      <4>4. QED
        BY <4>2, <4>3, <2>2, <2>3, <1>2, <1>3
    <3>3. QED
      BY <3>1, <3>2
  <2>5. QED
    BY <2>2, <2>3, <2>4 DEF Size
<1>5. ASSUME NEW x \in K \ {p}
      PROVE  LET next == x + g.mem[x].size IN
             g.mem[next - 1] = g.mem[x] /\ ~g.mem[next].prev /\ next \notin K \cup {p}
  <2> DEFINE next == x + h.mem[x].size
  <2>1. /\ x \in Rows /\ x \in Int /\ next \in Rows /\ next - 1 \in Rows /\ next <= p
        /\ next \in Int /\ x < next /\ next - 1 < next
    BY <1>4 DEF Rows
  <2>2. h.mem[next - 1] = h.mem[x] /\ ~h.mem[next].prev /\ next \notin K
    BY DEF Merged
  <2> HIDE DEF next
  <2>3. next # p
    BY <2>2, <1>1
  <2>4. g.mem[x] = h.mem[x] /\ g.mem[next - 1] = h.mem[next - 1] /\ g.mem[next] = h.mem[next]
    BY <2>1, <2>3, <1>1, <1>3
  <2>5. x + g.mem[x].size = next
    BY <2>4 DEF next
  <2>6. QED
    BY <2>2, <2>3, <2>4, <2>5
<1>6. LET next == p + g.mem[p].size IN
      g.mem[next - 1] = g.mem[p] /\ ~g.mem[next].prev /\ next \notin K \cup {p}
  <2>1. p + g.mem[p].size = g.end - 1
    BY <1>1 DEF NextBlock, Size
  <2>2. (g.end - 1) - 1 = g.end - 2
    BY <1>2
  <2>3. g.end - 1 \notin K \cup {p}
    <3>1. SUFFICES ASSUME g.end - 1 \in K PROVE FALSE
      BY <1>3
    <3>2. g.end - 1 \in K \ {p}
      BY <3>1, <1>3
    <3>3. (g.end - 1) + h.mem[g.end - 1].size <= p /\ h.mem[g.end - 1].size \in Nat
      BY <3>2, <1>4
    <3>4. QED
      BY <3>3, <1>2, <1>3
  <2>4. QED
    BY <2>1, <2>2, <2>3, <1>1
<1>7. QED
  BY <1>5, <1>6 DEF Merged

\* The searches of sf_malloc leave the free blocks merged.
LEMMA SearchTidy ==
    ASSUME IInv, MInv, NEW r, Requested(r), Search(r)
    PROVE  MInv'
<1>1. Follows(heap', request', pc', left') /\ pc = "user"
  BY SearchFollows DEF Search
<1>2. /\ Tidy(heap) => Tidy(heap')
      /\ pc' # "found" => request'.block = 0
  BY <1>1 DEF Follows
<1>3. Tidy(heap)
  BY <1>1 DEF MInv, Tidy, Kept
<1>4. Kept' = InFree(heap')
  <2>1. CASE pc' = "grow"
    BY <2>1, <1>2 DEF Kept
  <2>2. CASE pc' # "grow"
    BY <2>2 DEF Kept
  <2>3. QED
    BY <2>1, <2>2
<1>5. QED
  BY <1>2, <1>3, <1>4 DEF MInv, Tidy

\* So does the growth of the heap, whether its last block is large enough or not.
LEMMA GrowTidy ==
    ASSUME IInv, MInv, Grow
    PROVE  MInv'
<1> DEFINE g == Grown(heap)
           p == GrownBlock(heap)
           U == Loose
           K == Kept
           W == U \cup {p}
           V == W \ {p}
           L == IF p = heap.end - 1 THEN g.lost \cup {p} ELSE g.lost
           x == IF p = heap.end - 1 THEN request.block ELSE p
<1>1. /\ pc = "grow" /\ ~heap.wild /\ left > 0
      /\ \/ /\ Size(g, p) >= request.size
            /\ heap' = Place(g, p, request.size)
            /\ pc' = "found"
         \/ /\ heap' = [g EXCEPT !.lost = L]
            /\ request' = [request EXCEPT !.block = x]
            /\ pc' = pc
  BY DEF Grow
<1>2. /\ Grows(heap, g, Owned, U, p) /\ p \notin Owned /\ p \in Rows
      /\ request.block # 0 => p = request.block /\ p # heap.end - 1
  BY <1>1, GrownHeap
<1>3. /\ HeapOK(heap, Owned, U) /\ U = heap.lost \cup ({request.block} \ {0})
      /\ \A b \in Owned : ~heap.mem[b].inq
      /\ Asked
  BY <1>1, GrowingHeap
<1>4. K = InFree(heap) \cup ({request.block} \ {0})
  BY <1>1 DEF Kept
<1>5. TypeOK /\ request \in Calls /\ request.size \in Nat /\ M <= request.size /\ p \in Nat
  BY <1>2, <1>3, AskedSize DEF IInv, TypeOK, Calls, Rows
<1> HIDE DEF g, p, U, K
<1>6. /\ HeapOK(g, Owned, W) /\ Spares(heap, g, Owned) /\ g.stale = heap.stale
      /\ InFree(g) = InFree(heap) \ {p}
      /\ NextBlock(g, p) = g.end - 1 /\ ~g.mem[g.end - 1].prev
      /\ p \in U /\ p # request.block => g.wild
      /\ p # heap.end - 1 => p \in U \cup InFree(heap)
  BY <1>2 DEF Grows
<1> HIDE DEF W
<1>7. ASSUME ~g.wild, ~g.stale
      PROVE  Merged(g.mem, K \cup {p})
  <2>1. Merged(heap.mem, K)
    BY <1>1, <1>6, <1>7 DEF MInv, K
  <2>2. K \subseteq AllBlocks(heap, Owned, U)
    BY <1>3, <1>4 DEF AllBlocks
  <2>3. p # heap.end - 1 => p \in K
    <3>1. 0 \notin U
      <4>1. SUFFICES ASSUME 0 \in AllBlocks(heap, Owned, U) PROVE FALSE
        BY DEF AllBlocks
      <4>2. M <= 0
        BY <4>1, <1>3, NextIsBlock
      <4>3. QED
        BY <4>2
    <3>2. QED
      BY <3>1, <1>4, <1>6, <1>7
  <2>4. QED
    BY <2>1, <2>2, <2>3, <1>2, <1>3, GrownMerged
<1>8. CASE /\ Size(g, p) >= request.size
           /\ heap' = Place(g, p, request.size)
           /\ pc' = "found"
  <2>1. p \in W
    BY DEF W
  <2>2. request.size <= Size(g, p)
    <3>1. p \in AllBlocks(g, Owned, W)
      BY <2>1 DEF AllBlocks
    <3>2. Size(g, p) \in Nat
      BY <3>1, <1>6, NextIsBlock
    <3>3. QED
      BY <3>2, <1>5, <1>8
  <2>3. Usable(g, Owned, W, p, Owned, V, request.size)
    BY <2>1, <2>2, <1>2, <1>3, <1>5, <1>6 DEF Usable, Spares
  <2> HIDE DEF V
  <2>4. ASSUME ~g.wild, ~g.stale
        PROVE  Merged(g.mem, InFree(g)) /\ Fitting(g, p, request.size)
    <3>1. Merged(g.mem, K \cup {p})
      BY <2>4, <1>7
    <3>2. InFree(g) \subseteq K \cup {p}
      BY <1>4, <1>6
    <3>3. Merged(g.mem, InFree(g))
      BY <3>1, <3>2 DEF Merged
    <3>4. NextBlock(g, p) \notin K \cup {p}
      BY <3>1 DEF Merged, NextBlock, Size
    <3>5. Fitting(g, p, request.size)
      BY <3>2, <3>4, <1>6 DEF Fitting
    <3>6. QED
      BY <3>3, <3>5
  <2>5. Tidy(Place(g, p, request.size))
    BY <2>3, <2>4, UseTidy
  <2>6. Kept' = InFree(heap')
    BY <1>8 DEF Kept
  <2>7. QED
    BY <2>5, <2>6, <1>8 DEF MInv, Tidy
<1>9. CASE /\ heap' = [g EXCEPT !.lost = L]
           /\ request' = [request EXCEPT !.block = x]
           /\ pc' = pc
  <2>1. L \in SUBSET Rows
    <3>1. g.lost \in SUBSET Rows
      BY <1>6, HeapTypes DEF Heaps
    <3>2. QED
      BY <3>1, <1>2 DEF L
  <2>2. /\ heap'.mem = g.mem /\ heap'.wild = g.wild /\ heap'.stale = g.stale
        /\ heap'.free = g.free
    BY <2>1, <1>6, <1>9, LostOK
  <2>3. request'.block = x
    BY <1>5, <1>9 DEF Calls
  <2>4. x = p \/ x = 0
    BY <1>2
  <2> HIDE DEF x, L
  <2>5. Kept' = InFree(heap') \cup ({x} \ {0}) /\ InFree(heap') = InFree(g)
    BY <2>2, <2>3, <1>1, <1>9 DEF Kept, InFree
  <2>6. Kept' \subseteq K \cup {p}
    BY <2>4, <2>5, <1>4, <1>6
  <2>7. ASSUME ~heap'.wild, ~heap'.stale PROVE Merged(heap'.mem, Kept')
    <3>1. Merged(g.mem, K \cup {p})
      BY <2>2, <2>7, <1>7
    <3>2. QED
      BY <3>1, <2>2, <2>6 DEF Merged
  <2>8. QED
    BY <2>7 DEF MInv
<1>10. QED
  BY <1>1, <1>8, <1>9

\* When the heap cannot grow, what has grown so far goes to the lists without a neighbour.
LEMMA GrowFailsTidy ==
    ASSUME IInv, MInv, GrowFails
    PROVE  MInv'
<1> DEFINE L == heap.lost \cup ({request.block} \ {0})
           b == request.block
           K == InFree(heap)
<1>1. /\ pc = "grow" /\ ~heap.wild /\ pc' = "user"
      /\ \/ heap' = [heap EXCEPT !.lost = L]
         \/ heap' = heap
         \/ heap' = Insert(heap, b) /\ b # 0
         \/ heap' = [heap EXCEPT !.wild = TRUE]
  BY DEF GrowFails
<1>2. /\ heap \in Heaps /\ HeapOK(heap, Owned, Loose) /\ Loose = L
      /\ b # 0 => b \in Loose
  BY <1>1, GrowingHeap
<1> HIDE DEF L
<1>3. Kept' = InFree(heap') /\ Kept = K \cup ({b} \ {0})
  BY <1>1 DEF Kept
<1>4. CASE heap' = [heap EXCEPT !.lost = L] \/ heap' = heap
  <2>1. /\ heap'.mem = heap.mem /\ heap'.free = heap.free /\ heap'.stale = heap.stale
        /\ heap'.wild = heap.wild
    BY <1>2, <1>4 DEF Heaps
  <2>2. InFree(heap') = K
    BY <2>1 DEF InFree
  <2>3. QED
    BY <2>1, <2>2, <1>3 DEF MInv, Merged
<1>5. CASE heap' = Insert(heap, b) /\ b # 0
  <2>1. SameRest(heap, heap')
    BY <1>2, <1>5, InsertOK
  <2>2. ASSUME ~heap'.wild, ~heap'.stale PROVE Merged(heap'.mem, InFree(heap'))
    <3>1. ~heap.wild /\ ~heap.stale
      BY <2>1, <2>2 DEF SameRest
    <3>2. Merged(heap.mem, K \cup {b})
      BY <3>1, <1>3, <1>5 DEF MInv
    <3> HIDE DEF b
    <3>3. Joinable(heap, b)
      BY <3>2 DEF Merged, Joinable, Alone, NextBlock, Size
    <3>4. QED
      BY <3>3, <1>2, <1>5, InsertTidy
  <2>3. QED
    BY <2>2, <1>3 DEF MInv
<1>6. CASE heap' = [heap EXCEPT !.wild = TRUE]
  <2>1. heap'.wild
    BY <1>2, <1>6 DEF Heaps
  <2>2. QED
    BY <2>1 DEF MInv
<1>7. QED
  BY <1>1, <1>4, <1>5, <1>6

\* Between two calls, and before a block is handed out, the lists are what is merged.
LEMMA StaysTidy ==
    ASSUME MInv, pc # "grow", pc' # "grow", Tidy(heap) => Tidy(heap')
    PROVE  MInv'
BY DEF MInv, Tidy, Kept

\* Every step leaves the free blocks merged.
LEMMA NextTidy ==
    ASSUME IInv, MInv, [Next]_vars
    PROVE  MInv'
<1>1. CASE Malloc \/ Memalign \/ \E b \in Rows : Enlarge(b)
  BY <1>1, Searches, SearchTidy
<1>2. CASE Grow
  BY <1>2, GrowTidy
<1>3. CASE GrowFails
  BY <1>3, GrowFailsTidy
<1>4. CASE Return
  <2>1. pc = "found" /\ pc' = "user"
    BY <1>4 DEF Return
  <2>2. Tidy(heap) => Tidy(heap')
    BY <1>4, ReturnCases, MallocReturns, ReallocReturns, MemalignReturns
  <2>3. QED
    BY <2>1, <2>2, StaysTidy
<1>5. CASE \E b \in Rows : Free(b)
  <2>1. pc = "user" /\ pc' = "user" /\ (Tidy(heap) => Tidy(heap'))
    BY <1>5, FreeOK DEF Free
  <2>2. QED
    BY <2>1, StaysTidy
<1>6. CASE \E b \in Rows : Shrink(b)
  <2>1. pc = "user" /\ pc' = "user" /\ (Tidy(heap) => Tidy(heap'))
    BY <1>6, ShrinkOK DEF Shrink
  <2>2. QED
    BY <2>1, StaysTidy
<1>7. CASE UNCHANGED vars
  BY <1>7 DEF vars, MInv, Kept
<1>8. QED
  BY <1>1, <1>2, <1>3, <1>4, <1>5, <1>6, <1>7 DEF Next

\* At first there is no free block.
LEMMA InitTidy ==
    ASSUME Init
    PROVE  MInv
<1>1. InFree(heap) = {} /\ pc = "user"
  BY DEF Init, InFree, Range
<1>2. QED
  BY <1>1 DEF MInv, Kept, Merged

\* The free blocks are merged in every state, those included that the growing heap holds.
THEOREM MergedAlways == Spec => []MInv
<1>1. Init => MInv
  BY InitTidy
<1>2. IInv /\ MInv /\ [Next]_vars => MInv'
  BY NextTidy
<1>3. QED
  BY Soundness, <1>1, <1>2, PTL DEF Spec

\* What is merged has no free neighbour and a footer like its header.
LEMMA CoalescedHolds ==
    ASSUME MInv
    PROVE  FullyCoalesced
<1>1. InFree(heap) \subseteq Kept
  BY DEF Kept
<1>2. ASSUME ~heap.wild, ~heap.stale, NEW b \in InFree(heap)
      PROVE  /\ heap.mem[NextBlock(heap, b) - 1] = heap.mem[b]
             /\ NextBlock(heap, b) \notin InFree(heap)
  BY <1>1, <1>2 DEF MInv, Merged, NextBlock, Size
<1>3. QED
  BY <1>2 DEF FullyCoalesced, Coalesced

\* As long as no split has left a stale bit, no two free blocks are neighbours, in whatever
\* order sf_free, the flush of a quick list and the growth of the heap have made them.
THEOREM CoalescedAlways == Spec => []FullyCoalesced
BY MergedAlways, CoalescedHolds, PTL
=============================================================================
