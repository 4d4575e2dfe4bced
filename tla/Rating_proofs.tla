---------------------------- MODULE Rating_proofs ----------------------------
(* Theorems about Rating, for every set of threads and of results and every   *)
(* finite set of players.                                                     *)
EXTENDS Rating, FiniteSetTheorems, TLAPS

(***************************************************************************)
(* Folds.  A fold takes the elements of a finite set one by one; its value *)
(* on every subset is a table that satisfies the recursion.  Induction is  *)
(* by the least counterexample.                                            *)
(***************************************************************************)
\* A set of natural numbers that is not empty has a least element.
LEMMA LeastExists ==
    ASSUME NEW S \in SUBSET Nat, S # {}
    PROVE  \E n \in S : \A m \in S : n <= m
<1>1. IsWellFoundedOn(OpToRel(<, Nat), Nat)
  BY NatLessThanWellFounded
<1>2. PICK n \in S : \A m \in S : ~ (<<m, n>> \in OpToRel(<, Nat))
  BY <1>1, WFMin
<1>3. \A m \in S : ~(m < n)
  BY <1>2 DEF OpToRel
<1>4. QED
  BY <1>3

\* g is the table of the fold that starts from base and takes pick[s] first.
Recurs(g, D, base, pick, step) ==
    \A s \in D : g[s] = IF s = {} THEN base ELSE step[pick[s]][g[s \ {pick[s]}]]

Small(S, n) == {s \in SUBSET S : Cardinality(s) <= n}

\* Taking an element out of a set that is not too large leaves a smaller one.
LEMMA SmallerSet ==
    ASSUME NEW S, IsFiniteSet(S), NEW s \in SUBSET S, NEW x \in s
    PROVE  /\ s \ {x} \in SUBSET S
           /\ Cardinality(s) \in Nat /\ Cardinality(s \ {x}) \in Nat
           /\ Cardinality(s \ {x}) = Cardinality(s) - 1
<1>1. IsFiniteSet(s)
  BY FS_Subset
<1>2. Cardinality(s) \in Nat
  BY <1>1, FS_CardinalityType
<1>3. IsFiniteSet(s \ {x}) /\ Cardinality(s \ {x}) = Cardinality(s) - 1
  BY <1>1, FS_RemoveElement
<1>4. Cardinality(s \ {x}) \in Nat
  BY <1>3, FS_CardinalityType
<1>5. QED
  BY <1>2, <1>3, <1>4

\* Every fold over a finite set has a table.
LEMMA TableExists ==
    ASSUME NEW S, IsFiniteSet(S), NEW V, NEW base \in V,
           NEW pick, \A s \in SUBSET S : s # {} => pick[s] \in s,
           NEW step, \A x \in S, v \in V : step[x][v] \in V
    PROVE  \E g \in [SUBSET S -> V] : Recurs(g, SUBSET S, base, pick, step)
<1> DEFINE Has(n) == \E g \in [Small(S, n) -> V] : Recurs(g, Small(S, n), base, pick, step)
           Bad == {n \in Nat : ~Has(n)}
<1>1. Has(0)
  <2> DEFINE g == [s \in Small(S, 0) |-> base]
  <2>1. \A s \in Small(S, 0) : s = {}
    <3> SUFFICES ASSUME NEW s \in Small(S, 0) PROVE s = {}
      OBVIOUS
    <3>1. IsFiniteSet(s) /\ Cardinality(s) <= 0
      BY FS_Subset DEF Small
    <3>2. Cardinality(s) \in Nat
      BY <3>1, FS_CardinalityType
    <3>3. QED
      BY <3>1, <3>2, FS_EmptySet
  <2>2. g \in [Small(S, 0) -> V]
    OBVIOUS
  <2>3. Recurs(g, Small(S, 0), base, pick, step)
    BY <2>1 DEF Recurs
  <2>4. QED
    BY <2>2, <2>3
<1>2. ASSUME NEW n \in Nat, Has(n)
      PROVE  Has(n + 1)
  <2>1. PICK g \in [Small(S, n) -> V] : Recurs(g, Small(S, n), base, pick, step)
    BY <1>2
  <2> DEFINE h == [s \in Small(S, n + 1) |->
                      IF s \in Small(S, n) THEN g[s]
                      ELSE step[pick[s]][g[s \ {pick[s]}]]]
  <2>2. ASSUME NEW s \in Small(S, n + 1), s # {}
        PROVE  pick[s] \in S /\ s \ {pick[s]} \in Small(S, n)
    <3>1. s \in SUBSET S /\ Cardinality(s) <= n + 1 /\ pick[s] \in s
      BY <2>2 DEF Small
    <3>2. QED
      BY <3>1, SmallerSet DEF Small
  <2>3. {} \in Small(S, n)
    BY FS_EmptySet DEF Small
  <2>4. h \in [Small(S, n + 1) -> V]
    <3> SUFFICES ASSUME NEW s \in Small(S, n + 1), s \notin Small(S, n)
                 PROVE  step[pick[s]][g[s \ {pick[s]}]] \in V
      OBVIOUS
    <3>1. pick[s] \in S /\ s \ {pick[s]} \in Small(S, n)
      BY <2>2, <2>3
    <3>2. QED
      BY <3>1
  <2>5. Small(S, n) \subseteq Small(S, n + 1)
    <3> SUFFICES ASSUME NEW s \in Small(S, n) PROVE s \in Small(S, n + 1)
      OBVIOUS
    <3>1. IsFiniteSet(s)
      BY FS_Subset DEF Small
    <3>2. Cardinality(s) \in Nat /\ Cardinality(s) <= n
      BY <3>1, FS_CardinalityType DEF Small
    <3>3. QED
      BY <3>2 DEF Small
  <2>6. \A s \in Small(S, n) : h[s] = g[s]
    BY <2>5
  <2>7. Recurs(h, Small(S, n + 1), base, pick, step)
    <3> SUFFICES ASSUME NEW s \in Small(S, n + 1)
                 PROVE  h[s] = IF s = {} THEN base ELSE step[pick[s]][h[s \ {pick[s]}]]
      BY DEF Recurs
    <3>1. CASE s = {}
      BY <2>1, <2>3, <2>6, <3>1 DEF Recurs
    <3>2. CASE s # {}
      <4>1. h[s] = step[pick[s]][g[s \ {pick[s]}]]
        BY <2>1, <3>2 DEF Recurs
      <4>2. h[s \ {pick[s]}] = g[s \ {pick[s]}]
        BY <2>2, <2>6, <3>2
      <4> HIDE DEF h
      <4>3. QED
        BY <3>2, <4>1, <4>2
    <3>3. QED
      BY <3>1, <3>2
  <2> HIDE DEF h
  <2>8. QED
    BY <2>4, <2>7
<1> HIDE DEF Has
<1>3. Bad = {}
  <2> SUFFICES ASSUME Bad # {} PROVE FALSE
    OBVIOUS
  <2>1. PICK n \in Bad : \A m \in Bad : n <= m
    BY LeastExists
  <2>2. n \in Nat /\ n # 0 /\ ~Has(n)
    BY <1>1
  <2>3. n - 1 \in Nat /\ n - 1 \notin Bad
    BY <2>1, <2>2
  <2>4. Has((n - 1) + 1)
    BY <1>2, <2>3
  <2>5. (n - 1) + 1 = n
    BY <2>2
  <2>6. QED
    BY <2>2, <2>4, <2>5
<1>4. Cardinality(S) \in Nat
  BY FS_CardinalityType
<1>5. Has(Cardinality(S))
  BY <1>3, <1>4
<1>6. Small(S, Cardinality(S)) = SUBSET S
  BY FS_Subset DEF Small
<1>7. QED
  BY <1>5, <1>6 DEF Has

\* Induction: what holds of a set when it holds of all the sets with one element less
\* holds of all subsets of a finite set.
LEMMA SubsetInduction ==
    ASSUME NEW S, IsFiniteSet(S), NEW P,
           \A s \in SUBSET S : (\A x \in s : s \ {x} \in P) => s \in P
    PROVE  SUBSET S \subseteq P
<1> DEFINE Bad == {n \in Nat : \E s \in SUBSET S : Cardinality(s) = n /\ s \notin P}
<1>1. Bad = {}
  <2> SUFFICES ASSUME Bad # {} PROVE FALSE
    OBVIOUS
  <2>1. PICK n \in Bad : \A m \in Bad : n <= m
    BY LeastExists
  <2>2. PICK s \in SUBSET S : Cardinality(s) = n /\ s \notin P
    OBVIOUS
  <2>3. PICK x \in s : s \ {x} \notin P
    BY <2>2
  <2>4. /\ s \ {x} \in SUBSET S
        /\ Cardinality(s \ {x}) \in Nat /\ Cardinality(s \ {x}) = n - 1
    BY <2>2, SmallerSet
  <2>5. n - 1 \in Bad /\ n \in Nat
    BY <2>3, <2>4
  <2> HIDE DEF Bad
  <2>6. QED
    BY <2>1, <2>5
<1>2. SUFFICES ASSUME NEW s \in SUBSET S PROVE s \in P
  OBVIOUS
<1>3. IsFiniteSet(s)
  BY FS_Subset
<1>4. Cardinality(s) \in Nat
  BY <1>3, FS_CardinalityType
<1>5. QED
  BY <1>1, <1>4

-----------------------------------------------------------------------------
(***************************************************************************)
(* The sum of the ratings.                                                 *)
(***************************************************************************)
Sum(rat) == MapThenSumSet(LAMBDA p : rat[p], Players)

Some(s) == CHOOSE p \in s : TRUE

\* The sum is the last entry of a table of partial sums.
SumTable(g, rat) ==
    g = [s \in SUBSET Players |-> IF s = {} THEN 0 ELSE rat[Some(s)] + g[s \ {Some(s)}]]

\* The community modules define the sum by such a table.
LEMMA SumIsFold ==
    ASSUME NEW rat
    PROVE  Sum(rat) = (CHOOSE g : SumTable(g, rat))[Players]
BY DEF Sum, MapThenSumSet, MapThenFoldSet, SumTable, Some

\* There is a table of partial sums, and its entries are integers.
LEMMA SumTableExists ==
    ASSUME IsFiniteSet(Players), NEW rat, \A p \in Players : rat[p] \in Int
    PROVE  \E g \in [SUBSET Players -> Int] : SumTable(g, rat)
<1> DEFINE first == [s \in SUBSET Players |-> Some(s)]
           plus == [p \in Players |-> [v \in Int |-> rat[p] + v]]
<1>1. \A s \in SUBSET Players : s # {} => first[s] \in s
  BY DEF Some
<1>2. \A p \in Players, v \in Int : plus[p][v] = rat[p] + v
  OBVIOUS
<1>3. \A p \in Players, v \in Int : plus[p][v] \in Int
  OBVIOUS
<1> HIDE DEF plus
<1>4. PICK g \in [SUBSET Players -> Int] : Recurs(g, SUBSET Players, 0, first, plus)
  <2>1. \A s \in SUBSET Players : s # {} => first[s] \in s
    BY <1>1
  <2> HIDE DEF first
  <2>2. \E g \in [SUBSET Players -> Int] : Recurs(g, SUBSET Players, 0, first, plus)
    BY <1>3, <2>1, 0 \in Int, TableExists
  <2>3. QED
    BY <2>2
<1>5. \A s \in SUBSET Players :
         g[s] = IF s = {} THEN 0 ELSE rat[Some(s)] + g[s \ {Some(s)}]
  <2> SUFFICES ASSUME NEW s \in SUBSET Players, s # {}
               PROVE  g[s] = rat[Some(s)] + g[s \ {Some(s)}]
    BY <1>4 DEF Recurs
  <2>1. g[s] = plus[Some(s)][g[s \ {Some(s)}]] /\ Some(s) \in s
    BY <1>1, <1>4 DEF Recurs
  <2>2. Some(s) \in Players /\ g[s \ {Some(s)}] \in Int
    BY <2>1
  <2>3. QED
    BY <1>2, <2>1, <2>2
<1>6. g = [s \in SUBSET Players |-> IF s = {} THEN 0 ELSE rat[Some(s)] + g[s \ {Some(s)}]]
  BY <1>5
<1>7. QED
  BY <1>6 DEF SumTable

Partial(rat) == CHOOSE g : SumTable(g, rat)

\* The partial sums satisfy the recursion and are integers.
LEMMA PartialSums ==
    ASSUME IsFiniteSet(Players), NEW rat, \A p \in Players : rat[p] \in Int
    PROVE  /\ Partial(rat)[{}] = 0
           /\ \A s \in SUBSET Players :
                 /\ Partial(rat)[s] \in Int
                 /\ s # {} => /\ Some(s) \in s
                              /\ Partial(rat)[s] = rat[Some(s)] + Partial(rat)[s \ {Some(s)}]
<1> DEFINE g == Partial(rat)
           P == {s \in SUBSET Players : g[s] \in Int}
<1>1. SumTable(g, rat)
  BY SumTableExists DEF Partial
<1> HIDE DEF g
<1>2. /\ g[{}] = 0
      /\ \A s \in SUBSET Players : s # {} =>
            Some(s) \in s /\ g[s] = rat[Some(s)] + g[s \ {Some(s)}]
  BY <1>1 DEF SumTable, Some
<1>3. SUBSET Players \subseteq P
  <2>1. ASSUME NEW s \in SUBSET Players, \A x \in s : s \ {x} \in P
        PROVE  s \in P
    <3>1. CASE s = {}
      BY <1>2, <3>1
    <3>2. CASE s # {}
      <4>1. g[s \ {Some(s)}] \in Int /\ rat[Some(s)] \in Int
        BY <1>2, <2>1, <3>2
      <4>2. g[s] = rat[Some(s)] + g[s \ {Some(s)}]
        BY <1>2, <3>2
      <4>3. g[s] \in Int
        BY <4>1, <4>2
      <4>4. QED
        BY <4>3
    <3>3. QED
      BY <3>1, <3>2
  <2> HIDE DEF P
  <2>2. QED
    BY <2>1, SubsetInduction
<1>4. QED
  BY <1>2, <1>3 DEF g

\* The sum of integer ratings is an integer.
LEMMA SumIsInteger ==
    ASSUME IsFiniteSet(Players), NEW rat, \A p \in Players : rat[p] \in Int
    PROVE  Sum(rat) \in Int
BY PartialSums, SumIsFold DEF Partial

\* The sum of ratings that are all the same.
LEMMA SumOfEqual ==
    ASSUME IsFiniteSet(Players), NEW rat,
           \A p \in Players : rat[p] = PLAYER_INITIAL_RATING
    PROVE  Sum(rat) = PLAYER_INITIAL_RATING * Cardinality(Players)
<1> DEFINE g == Partial(rat)
           P == {s \in SUBSET Players : g[s] = PLAYER_INITIAL_RATING * Cardinality(s)}
<1>1. /\ g[{}] = 0
      /\ \A s \in SUBSET Players : s # {} =>
            Some(s) \in s /\ g[s] = rat[Some(s)] + g[s \ {Some(s)}]
  BY PartialSums DEF PLAYER_INITIAL_RATING
<1> HIDE DEF g
<1>2. SUBSET Players \subseteq P
  <2>1. ASSUME NEW s \in SUBSET Players, \A x \in s : s \ {x} \in P
        PROVE  s \in P
    <3>1. CASE s = {}
      BY <1>1, <3>1, FS_EmptySet DEF PLAYER_INITIAL_RATING
    <3>2. CASE s # {}
      <4>1. /\ Some(s) \in s
            /\ g[s] = PLAYER_INITIAL_RATING + g[s \ {Some(s)}]
            /\ g[s \ {Some(s)}] = PLAYER_INITIAL_RATING * Cardinality(s \ {Some(s)})
        BY <1>1, <2>1, <3>2
      <4>2. Cardinality(s) \in Nat /\ Cardinality(s \ {Some(s)}) = Cardinality(s) - 1
        BY <4>1, SmallerSet
      <4>3. QED
        BY <4>1, <4>2 DEF PLAYER_INITIAL_RATING
    <3>3. QED
      BY <3>1, <3>2
  <2> HIDE DEF P
  <2>2. QED
    BY <2>1, SubsetInduction
<1>3. QED
  BY <1>2, SumIsFold DEF g, Partial

\* The rating of one player differs by a, which is an integer like all the ratings.
Shifted(rat, p, a, new) ==
    /\ p \in Players /\ a \in Int /\ \A q \in Players : rat[q] \in Int
    /\ \A q \in Players : new[q] = IF q = p THEN rat[q] + a ELSE rat[q]

\* When the rating of one player changes, the sum changes by as much.
LEMMA SumShifts ==
    ASSUME IsFiniteSet(Players), NEW rat, NEW p, NEW a, NEW new, Shifted(rat, p, a, new)
    PROVE  Sum(new) = Sum(rat) + a
<1> USE DEF Shifted
<1> DEFINE g == Partial(rat)
           h == Partial(new)
           P == {s \in SUBSET Players : h[s] = IF p \in s THEN g[s] + a ELSE g[s]}
<1>1. \A q \in Players : rat[q] \in Int /\ new[q] \in Int
  OBVIOUS
<1>2. /\ g[{}] = 0 /\ h[{}] = 0
      /\ \A s \in SUBSET Players :
            /\ g[s] \in Int /\ h[s] \in Int
            /\ s # {} => /\ Some(s) \in s
                         /\ g[s] = rat[Some(s)] + g[s \ {Some(s)}]
                         /\ h[s] = new[Some(s)] + h[s \ {Some(s)}]
  BY <1>1, PartialSums
<1> HIDE DEF g, h
<1>3. SUBSET Players \subseteq P
  <2>1. ASSUME NEW s \in SUBSET Players, \A x \in s : s \ {x} \in P
        PROVE  s \in P
    <3>1. CASE s = {}
      BY <1>2, <3>1
    <3>2. CASE s # {}
      <4> DEFINE x == Some(s)
                 t == s \ {Some(s)}
      <4>1. /\ x \in s /\ x \in Players /\ t \in SUBSET Players
            /\ g[s] = rat[x] + g[t] /\ h[s] = new[x] + h[t]
            /\ g[t] \in Int /\ h[t] \in Int
            /\ h[t] = IF p \in t THEN g[t] + a ELSE g[t]
        BY <1>2, <2>1, <3>2
      <4>2. (p \in t <=> p \in s /\ p # x) /\ rat[x] \in Int
        BY <4>1
      <4>3. new[x] = IF x = p THEN rat[x] + a ELSE rat[x]
        BY <4>1
      <4> HIDE DEF x, t
      <4>4. h[s] = IF p \in s THEN g[s] + a ELSE g[s]
        BY <4>1, <4>2, <4>3
      <4>5. QED
        BY <4>4
    <3>3. QED
      BY <3>1, <3>2
  <2> HIDE DEF P
  <2>2. QED
    BY <2>1, SubsetInduction
<1>4. h[Players] = g[Players] + a
  BY <1>3
<1>5. QED
  BY <1>4, SumIsFold DEF g, h, Partial

-----------------------------------------------------------------------------
(***************************************************************************)
(* The change of the ratings in one game.                                  *)
(***************************************************************************)
LEMMA EntriesFinite == IsFiniteSet(1..31) /\ Cardinality(1..31) = 31
<1>1. ASSUME NEW n \in Nat PROVE IsFiniteSet(1..n) /\ Cardinality(1..n) = n
  BY 1 \in Int, FS_Interval
<1>2. QED
  BY <1>1

\* What the stronger player gains is a natural number.
LEMMA GainIsNatural ==
    ASSUME NEW d
    PROVE  Gain(d) \in Nat
<1>1. IsFiniteSet(1..31)
  BY 1 \in Int, 31 \in Int, FS_Interval
<1>2. IsFiniteSet({k \in 1..31 : d <= Cutoffs[k]})
  BY <1>1, FS_Subset
<1>3. QED
  BY <1>2, FS_CardinalityType DEF Gain

\* The table of the gains is symmetric, except for its middle.
LEMMA CutoffsSymmetric ==
    ASSUME NEW k \in 1..31
    PROVE  /\ Cutoffs[k] \in Int
           /\ Cutoffs[16] = 0
           /\ k # 16 => Cutoffs[32 - k] = -Cutoffs[k] - 1
<1>1. k \in {1, 2, 3, 4, 5, 6, 7, 8, 9, 10, 11, 12, 13, 14, 15, 16, 17, 18, 19, 20, 21, 22, 23,
             24, 25, 26, 27, 28, 29, 30, 31}
  OBVIOUS
<1>2. QED
  BY <1>1 DEF Cutoffs

\* Of two players whose ratings differ, what the one would gain and what the other would
\* gain add up to 31: every entry counts for exactly one of them.
LEMMA GainsOfBoth ==
    ASSUME NEW d \in Int, d # 0
    PROVE  Gain(d) + Gain(-d) = 31
<1> DEFINE A == {k \in 1..31 : d <= Cutoffs[k]}
           B == {k \in 1..31 : -d <= Cutoffs[k]}
           C == (1..31) \ A
           f == [k \in B |-> 32 - k]
<1>1. IsFiniteSet(1..31) /\ Cardinality(1..31) = 31
  BY EntriesFinite
<1>2. IsFiniteSet(A) /\ IsFiniteSet(B)
  BY <1>1, FS_Subset
<1>3. Cardinality(C) = 31 - Cardinality(A)
  <2>1. (1..31) \cap A = A
    OBVIOUS
  <2> HIDE DEF A
  <2>2. QED
    BY <1>1, <2>1, FS_Difference
<1>4. \A k \in 1..31 : 32 - k \in 1..31 /\ (k \in B <=> 32 - k \in C)
  <2> SUFFICES ASSUME NEW k \in 1..31 PROVE -d <= Cutoffs[k] <=> ~(d <= Cutoffs[32 - k])
    OBVIOUS
  <2>1. 32 - k \in 1..31
    OBVIOUS
  <2>2. Cutoffs[k] \in Int /\ Cutoffs[32 - k] \in Int /\ Cutoffs[16] = 0
    BY <2>1, CutoffsSymmetric
  <2>3. CASE k = 16
    BY <2>2, <2>3
  <2>4. CASE k # 16
    <3>1. Cutoffs[32 - k] = -Cutoffs[k] - 1
      BY <2>4, CutoffsSymmetric
    <3>2. QED
      BY <2>2, <3>1
  <2>5. QED
    BY <2>3, <2>4
<1>5. f \in Bijection(B, C)
  <2>1. f \in [B -> C]
    BY <1>4
  <2>2. \A k, m \in B : f[k] = f[m] => k = m
    OBVIOUS
  <2>3. \A m \in C : \E k \in B : f[k] = m
    <3> SUFFICES ASSUME NEW m \in C PROVE \E k \in B : f[k] = m
      OBVIOUS
    <3>1. 32 - m \in 1..31 /\ 32 - (32 - m) = m
      OBVIOUS
    <3>2. 32 - m \in B
      BY <1>4, <3>1
    <3>3. f[32 - m] = m
      BY <3>1, <3>2
    <3>4. QED
      BY <3>2, <3>3
  <2> HIDE DEF f, B, C
  <2>4. QED
    BY <2>1, <2>2, <2>3 DEF Bijection, Injection, Surjection, IsInjective
<1>6. Cardinality(C) = Cardinality(B)
  <2> HIDE DEF f, B, C
  <2>1. QED
    BY <1>2, <1>5, FS_Bijection DEF ExistsBijection
<1>7. Gain(d) = Cardinality(A) /\ Gain(-d) = Cardinality(B)
  BY DEF Gain
<1>8. Gain(d) \in Nat /\ Gain(-d) \in Nat
  BY GainIsNatural
<1> HIDE DEF A, B, C
<1>9. QED
  BY <1>3, <1>6, <1>7, <1>8

\* What one player gains the other loses.
LEMMA ChangesCancel ==
    ASSUME NEW d \in Int, NEW result \in 0..2
    PROVE  /\ Change(d, Halves1(result)) \in Int
           /\ Change(-d, Halves2(result)) = -Change(d, Halves1(result))
<1>1. Gain(d) \in Nat /\ Gain(-d) \in Nat /\ -(-d) = d /\ -d \in Int
  BY GainIsNatural
<1>2. d # 0 => Gain(d) + Gain(-d) = 31
  BY GainsOfBoth
<1>3. CASE result = 0
  <2>1. Halves1(result) = 1 /\ Halves2(result) = 1
    BY <1>3 DEF Halves1, Halves2
  <2>2. QED
    BY <1>1, <1>2, <2>1 DEF Change
<1>4. CASE result = 1
  <2>1. Halves1(result) = 2 /\ Halves2(result) = 0
    BY <1>4 DEF Halves1, Halves2
  <2>2. QED
    BY <1>1, <2>1 DEF Change
<1>5. CASE result = 2
  <2>1. Halves1(result) = 0 /\ Halves2(result) = 2
    BY <1>5 DEF Halves1, Halves2
  <2>2. QED
    BY <1>1, <2>1 DEF Change
<1>6. QED
  BY <1>3, <1>4, <1>5

-----------------------------------------------------------------------------
(***************************************************************************)
(* The games posted one after the other.                                   *)
(***************************************************************************)
Initial == [p \in Players |-> PLAYER_INITIAL_RATING]

\* One more game gives every player an integer again.
LEMMA PostOnType ==
    ASSUME NEW ratings \in [Players -> Int], NEW r \in Results
    PROVE  PostOn(ratings, r) \in [Players -> Int]
<1> DEFINE d == ratings[r.player1] - ratings[r.player2]
<1>1. r.player1 \in Players /\ r.player2 \in Players /\ r.result \in 0..2
  BY ResultsAssumption
<1>2. d \in Int
  BY <1>1
<1> HIDE DEF d
<1>3. Change(d, Halves1(r.result)) \in Int /\ Change(-d, Halves2(r.result)) \in Int
  BY <1>1, <1>2, ChangesCancel
<1>4. PostOn(ratings, r) = [ratings EXCEPT ![r.player1] = @ + Change(d, Halves1(r.result)),
                                           ![r.player2] = @ + Change(-d, Halves2(r.result))]
  BY DEF PostOn, d
<1>5. QED
  BY <1>1, <1>3, <1>4

\* The greatest of a set of positions is one of them.
LEMMA MaxIsMember ==
    ASSUME NEW n \in Nat, NEW s \in SUBSET (1..n), s # {}
    PROVE  Max(s) \in s
<1> DEFINE T == {m \in Nat : n - m \in s}
<1>1. T # {}
  <2>1. PICK x \in s : TRUE
    OBVIOUS
  <2>2. n - x \in Nat /\ n - (n - x) = x
    OBVIOUS
  <2>3. QED
    BY <2>2
<1>2. PICK m \in T : \A k \in T : m <= k
  BY <1>1, LeastExists
<1>3. \A y \in s : n - m >= y
  <2> SUFFICES ASSUME NEW y \in s PROVE n - m >= y
    OBVIOUS
  <2>1. n - y \in Nat /\ n - (n - y) = y
    OBVIOUS
  <2>2. n - y \in T
    BY <2>1
  <2>3. m <= n - y
    BY <1>2, <2>2
  <2>4. QED
    BY <2>1, <2>3
<1>4. QED
  BY <1>3 DEF Max

\* The ratings after the games of a sequence are the last entry of a table.
Posts(seq) == FoldLeft(PostOn, Initial, seq)

PostTable(g, seq, n) ==
    g = [s \in SUBSET (1..n) |->
            IF s = {} THEN Initial ELSE PostOn(g[s \ {Max(s)}], seq[Max(s)])]

FirstGames(seq, n) == CHOOSE g : PostTable(g, seq, n)

\* The community modules define the ratings after a sequence of games by such a table.
LEMMA PostsIsFold ==
    ASSUME NEW n \in Nat, NEW seq \in [1..n -> Results]
    PROVE  Posts(seq) = FirstGames(seq, n)[1..n]
<1>1. DOMAIN seq = 1..n
  OBVIOUS
<1>2. QED
  BY <1>1 DEF Posts, FoldLeft, MapThenFoldSet, PostTable, FirstGames

\* There is a table of the ratings after the first games, for every set of games.
LEMMA PostTableExists ==
    ASSUME NEW n \in Nat, NEW seq, \A i \in 1..n : seq[i] \in Results
    PROVE  \E g : /\ PostTable(g, seq, n)
                  /\ \A s \in SUBSET (1..n) : g[s] \in [Players -> Int]
<1> DEFINE V == [Players -> Int]
           last == [s \in SUBSET (1..n) |-> Max(s)]
           post == [i \in 1..n |-> [v \in V |-> PostOn(v, seq[i])]]
<1>1. \A s \in SUBSET (1..n) : s # {} => last[s] \in s
  BY MaxIsMember
<1>2. Initial \in V
  BY DEF Initial, PLAYER_INITIAL_RATING
<1>3. \A v \in V, r \in Results : PostOn(v, r) \in V
  BY PostOnType
<1>4. IsFiniteSet(1..n)
  BY 1 \in Int, FS_Interval
<1> HIDE DEF V
<1>5. \A i \in 1..n, v \in V : post[i][v] = PostOn(v, seq[i])
  OBVIOUS
<1>6. \A i \in 1..n, v \in V : post[i][v] \in V
  BY <1>3, <1>5
<1>7. PICK g \in [SUBSET (1..n) -> V] : Recurs(g, SUBSET (1..n), Initial, last, post)
  <2> HIDE DEF last, post
  <2>1. QED
    BY <1>1, <1>2, <1>4, <1>6, TableExists
<1>8. \A s \in SUBSET (1..n) :
         g[s] = IF s = {} THEN Initial ELSE PostOn(g[s \ {Max(s)}], seq[Max(s)])
  <2> SUFFICES ASSUME NEW s \in SUBSET (1..n), s # {}
               PROVE  g[s] = PostOn(g[s \ {Max(s)}], seq[Max(s)])
    BY <1>7 DEF Recurs
  <2>1. g[s] = post[Max(s)][g[s \ {Max(s)}]] /\ Max(s) \in s
    BY <1>1, <1>7 DEF Recurs
  <2>2. Max(s) \in 1..n /\ g[s \ {Max(s)}] \in V
    BY <2>1
  <2>3. QED
    BY <1>5, <2>1, <2>2
<1>9. g = [s \in SUBSET (1..n) |->
            IF s = {} THEN Initial ELSE PostOn(g[s \ {Max(s)}], seq[Max(s)])]
  BY <1>8
<1>10. PostTable(g, seq, n) /\ \A s \in SUBSET (1..n) : g[s] \in V
  BY <1>9 DEF PostTable
<1>11. QED
  BY <1>10 DEF V

\* The table starts with the initial ratings and posts the last game of a set last.
LEMMA PrefixesRecur ==
    ASSUME NEW n \in Nat, NEW seq, \A i \in 1..n : seq[i] \in Results
    PROVE  /\ FirstGames(seq, n)[{}] = Initial
           /\ \A s \in SUBSET (1..n) : s # {} =>
                 /\ Max(s) \in s
                 /\ FirstGames(seq, n)[s] = PostOn(FirstGames(seq, n)[s \ {Max(s)}], seq[Max(s)])
<1>1. PostTable(FirstGames(seq, n), seq, n)
  BY PostTableExists DEF FirstGames
<1>2. QED
  BY <1>1, MaxIsMember DEF PostTable

\* No game: the initial ratings.
LEMMA PostsOfNone ==
    ASSUME NEW seq \in [1..0 -> Results]
    PROVE  Posts(seq) = Initial
<1>1. 1..0 = {}
  OBVIOUS
<1>2. QED
  BY <1>1, PostsIsFold, PrefixesRecur

\* The last of the first n + 1 numbers is n + 1.
LEMMA WithoutLast ==
    ASSUME NEW n \in Nat
    PROVE  /\ (1..(n + 1)) \ {n + 1} = 1..n
           /\ 1..(n + 1) # {}
           /\ Max(1..(n + 1)) = n + 1
<1>1. n + 1 \in 1..(n + 1) /\ \A i \in 1..(n + 1) : n + 1 >= i
  OBVIOUS
<1>2. Max(1..(n + 1)) = n + 1
  BY <1>1 DEF Max
<1>3. (1..(n + 1)) \ {n + 1} = 1..n
  OBVIOUS
<1>4. QED
  BY <1>1, <1>2, <1>3

\* The tables of a sequence and of one that is longer by one game.
LEMMA PrefixesOneMore ==
    ASSUME NEW n \in Nat,
           NEW seq, \A i \in 1..n : seq[i] \in Results,
           NEW more, \A i \in 1..(n + 1) : more[i] \in Results,
           \A i \in 1..n : more[i] = seq[i]
    PROVE  FirstGames(more, n + 1)[1..(n + 1)] = PostOn(FirstGames(seq, n)[1..n], more[n + 1])
<1> DEFINE g == FirstGames(seq, n)
           h == FirstGames(more, n + 1)
           P == {s \in SUBSET (1..n) : g[s] = h[s]}
<1>1. n + 1 \in Nat /\ (1..n) \subseteq 1..(n + 1)
  OBVIOUS
<1>2. /\ g[{}] = Initial
      /\ \A s \in SUBSET (1..n) : s # {} =>
            Max(s) \in s /\ g[s] = PostOn(g[s \ {Max(s)}], seq[Max(s)])
  BY PrefixesRecur
<1>3. /\ h[{}] = Initial
      /\ \A s \in SUBSET (1..(n + 1)) : s # {} =>
            Max(s) \in s /\ h[s] = PostOn(h[s \ {Max(s)}], more[Max(s)])
  BY <1>1, PrefixesRecur
<1> HIDE DEF g, h
<1>4. SUBSET (1..n) \subseteq P
  <2>1. ASSUME NEW s \in SUBSET (1..n), \A x \in s : s \ {x} \in P
        PROVE  s \in P
    <3>1. CASE s = {}
      BY <1>2, <1>3, <3>1
    <3>2. CASE s # {}
      <4>1. /\ Max(s) \in s
            /\ g[s] = PostOn(g[s \ {Max(s)}], seq[Max(s)])
            /\ h[s] = PostOn(h[s \ {Max(s)}], more[Max(s)])
        BY <1>1, <1>2, <1>3, <3>2
      <4>2. g[s \ {Max(s)}] = h[s \ {Max(s)}] /\ more[Max(s)] = seq[Max(s)]
        BY <2>1, <4>1
      <4>3. QED
        BY <4>1, <4>2
    <3>3. QED
      BY <3>1, <3>2
  <2>2. IsFiniteSet(1..n)
    BY 1 \in Int, FS_Interval
  <2> HIDE DEF P
  <2>3. QED
    BY <2>1, <2>2, SubsetInduction
<1>5. h[1..(n + 1)] = PostOn(h[1..n], more[n + 1])
  <2>1. /\ 1..(n + 1) # {} /\ Max(1..(n + 1)) = n + 1
        /\ (1..(n + 1)) \ {n + 1} = 1..n
    BY WithoutLast
  <2>2. QED
    BY <1>3, <2>1
<1>6. QED
  BY <1>4, <1>5 DEF g, h

\* One game more.
LEMMA PostsOneMore ==
    ASSUME NEW n \in Nat, NEW seq \in [1..n -> Results], NEW r \in Results,
           NEW more \in [1..(n + 1) -> Results],
           \A i \in 1..n : more[i] = seq[i], more[n + 1] = r
    PROVE  Posts(more) = PostOn(Posts(seq), r)
<1>1. /\ \A i \in 1..n : seq[i] \in Results
      /\ \A i \in 1..(n + 1) : more[i] \in Results
  OBVIOUS
<1>2. n + 1 \in Nat
  OBVIOUS
<1>3. Posts(seq) = FirstGames(seq, n)[1..n]
  BY PostsIsFold
<1>4. Posts(more) = FirstGames(more, n + 1)[1..(n + 1)]
  BY <1>2, PostsIsFold
<1>5. QED
  BY <1>1, <1>3, <1>4, PrefixesOneMore

-----------------------------------------------------------------------------
(***************************************************************************)
(* The inductive invariant.                                                *)
(***************************************************************************)
\* The threads that hold a call hold different ones, which are among the posted results.
CallsOK ==
    /\ call \in [Threads -> Results \cup {NULL}]
    /\ IsFiniteSet(posted)
    /\ \A t, u \in Threads :
          pc[t] # "idle" /\ pc[u] # "idle" /\ call[t] = call[u] => t = u

\* The mutexes that are held, which are those of two players.
Holding ==
    \A t \in Threads :
        /\ pc[t] \in {"lock2", "read", "update1", "update2", "unlock1"} =>
              mutex[call[t].player1] = t
        /\ pc[t] \in {"read", "update1", "update2", "unlock1", "unlock2"} =>
              mutex[call[t].player2] = t /\ call[t].player1 # call[t].player2

\* What a thread has read is not stale before it is used.
ReadingsCurrent ==
    \A t \in Threads :
        /\ pc[t] = "update1" => R1[t] = rating[call[t].player1]
        /\ pc[t] \in {"update1", "update2"} => R2[t] = rating[call[t].player2]

\* The ratings once the threads between the two updates have done the second.
InSecond(p) ==
    mutex[p] \in Threads /\ pc[mutex[p]] = "update2" /\ call[mutex[p]].player2 = p

Settled ==
    [p \in Players |->
        IF InSecond(p)
        THEN rating[p] + Change(R2[mutex[p]] - R1[mutex[p]], Halves2(call[mutex[p]].result))
        ELSE rating[p]]

\* The results whose first update is done.
Pending == {t \in Threads : pc[t] \in {"lock1", "lock2", "read", "update1"}}
Counted == posted \ {call[t] : t \in Pending}

\* The settled ratings are those of the counted games in some order, and their sum is what
\* it was.
Serialized == \E order \in SetToSeqs(Counted) : Settled = Posts(order)
Conserved == Sum(Settled) = PLAYER_INITIAL_RATING * Cardinality(Players)

IInv == /\ TypeOK
        /\ CallsOK
        /\ Holding
        /\ ReadingsCurrent
        /\ Serialized
        /\ Conserved

-----------------------------------------------------------------------------
(***************************************************************************)
(* Steps that leave the settled ratings and the counted games alone.       *)
(***************************************************************************)
LEMMA CallTypes ==
    ASSUME TypeOK, NEW t \in Threads, pc[t] # "idle"
    PROVE  /\ call[t] \in Results /\ call[t] \in posted
           /\ call[t].player1 \in Players /\ call[t].player2 \in Players
           /\ call[t].result \in 0..2
<1>1. call[t] \in posted /\ call[t] \in Results
  BY DEF TypeOK
<1>2. QED
  BY <1>1, ResultsAssumption

\* The settled ratings are integers.
LEMMA SettledType == IInv => \A p \in Players : Settled[p] \in Int
<1> SUFFICES ASSUME IInv, NEW p \in Players PROVE Settled[p] \in Int
  OBVIOUS
<1>1. rating[p] \in Int
  BY DEF IInv, TypeOK
<1>2. CASE ~InSecond(p)
  BY <1>1, <1>2 DEF Settled
<1>3. CASE InSecond(p)
  <2> DEFINE t == mutex[p]
  <2>1. t \in Threads /\ pc[t] = "update2"
    BY <1>3 DEF InSecond
  <2>2. R1[t] \in Int /\ R2[t] \in Int
    BY <2>1 DEF IInv, TypeOK
  <2>3. call[t].result \in 0..2
    BY <2>1, CallTypes DEF IInv
  <2> HIDE DEF t
  <2>4. R1[t] - R2[t] \in Int /\ -(R1[t] - R2[t]) = R2[t] - R1[t]
    BY <2>2
  <2>5. Change(R2[t] - R1[t], Halves2(call[t].result)) \in Int
    <3>1. /\ Change(R1[t] - R2[t], Halves1(call[t].result)) \in Int
          /\ Change(-(R1[t] - R2[t]), Halves2(call[t].result))
                = -Change(R1[t] - R2[t], Halves1(call[t].result))
      BY <2>3, <2>4, ChangesCancel
    <3>2. QED
      BY <2>4, <3>1
  <2>6. QED
    BY <1>1, <1>3, <2>5 DEF Settled, t
<1>4. QED
  BY <1>2, <1>3

\* A step that changes neither the settled ratings nor the games counted.
LEMMA StillSerialized ==
    ASSUME IInv, Settled' = Settled, Counted' = Counted
    PROVE  Serialized' /\ Conserved'
BY DEF IInv, Serialized, Conserved

\* A call of player_post_result begins.
LEMMA CallIInv ==
    ASSUME IInv, NEW t \in Threads, NEW r \in Results, Call(t, r)
    PROVE  IInv'
<1> USE DEF Call, Goto
<1>1. TypeOK'
  BY DEF IInv, TypeOK, CallsOK
<1>2. CallsOK'
  <2>1. call' \in [Threads -> Results \cup {NULL}]
    BY DEF IInv, CallsOK
  <2>2. IsFiniteSet(posted')
    BY FS_AddElement DEF IInv, CallsOK
  <2>3. \A u, v \in Threads :
           pc'[u] # "idle" /\ pc'[v] # "idle" /\ call'[u] = call'[v] => u = v
    BY DEF IInv, TypeOK, CallsOK
  <2>4. QED
    BY <2>1, <2>2, <2>3 DEF CallsOK
<1>3. Holding' /\ ReadingsCurrent'
  BY DEF IInv, TypeOK, CallsOK, Holding, ReadingsCurrent
<1>4. Settled' = Settled
  <2>1. ASSUME NEW p \in Players
        PROVE  /\ InSecond(p)' <=> InSecond(p)
               /\ InSecond(p) => mutex[p] \in Threads /\ call'[mutex[p]] = call[mutex[p]]
    BY DEF IInv, TypeOK, CallsOK, InSecond
  <2>2. QED
    BY <2>1 DEF Settled
<1>5. Counted' = Counted
  <2>1. Pending' = Pending \cup {t} /\ t \notin Pending
    BY DEF IInv, TypeOK, Pending
  <2>2. call'[t] = r /\ \A u \in Pending : call'[u] = call[u] /\ call[u] # r
    BY <2>1 DEF IInv, TypeOK, CallsOK, Pending
  <2>3. {call'[u] : u \in Pending'} = {call[u] : u \in Pending} \cup {r}
    BY <2>1, <2>2
  <2>4. posted' = posted \cup {r} /\ r \notin posted
    OBVIOUS
  <2>5. QED
    BY <2>3, <2>4 DEF Counted
<1>6. QED
  BY <1>1, <1>2, <1>3, <1>4, <1>5, StillSerialized DEF IInv

\* A step of a thread that neither does an update nor takes up a call.
Keeps(t) ==
    /\ UNCHANGED <<rating, call, posted>>
    /\ \A u \in Threads \ {t} : pc'[u] = pc[u] /\ R1'[u] = R1[u] /\ R2'[u] = R2[u]
    /\ pc[t] # "update2" /\ pc'[t] # "update2" /\ pc[t] # "idle"
    /\ t \in Pending <=> t \in Pending'
    /\ \A p \in Players : mutex'[p] = mutex[p] \/ {mutex[p], mutex'[p]} \subseteq {NULL, t}

\* A step that leaves ratings and calls as they are settles nothing.
LEMMA KeepsSettled ==
    ASSUME IInv, NEW t \in Threads, Keeps(t)
    PROVE  Serialized' /\ Conserved'
<1>1. Settled' = Settled
  <2> SUFFICES ASSUME NEW p \in Players PROVE Settled'[p] = Settled[p]
    BY DEF Settled
  <2>1. rating'[p] = rating[p] /\ call' = call
    BY DEF Keeps
  <2>2. CASE InSecond(p)
    <3>1. mutex[p] \in Threads /\ mutex[p] # t /\ mutex[p] # NULL
      BY <2>2, NullAssumption DEF InSecond, Keeps
    <3>2. mutex'[p] = mutex[p]
      BY <3>1 DEF Keeps
    <3>3. /\ pc'[mutex[p]] = pc[mutex[p]]
          /\ R1'[mutex[p]] = R1[mutex[p]] /\ R2'[mutex[p]] = R2[mutex[p]]
      BY <3>1 DEF Keeps
    <3>4. InSecond(p)'
      BY <2>1, <2>2, <3>2, <3>3 DEF InSecond
    <3>5. QED
      BY <2>1, <2>2, <3>2, <3>3, <3>4 DEF Settled
  <2>3. CASE ~InSecond(p)
    <3>1. ~InSecond(p)'
      <4> SUFFICES ASSUME InSecond(p)' PROVE FALSE
        OBVIOUS
      <4>1. mutex'[p] \in Threads /\ mutex'[p] # t /\ mutex'[p] # NULL
        BY NullAssumption DEF InSecond, Keeps
      <4>2. mutex'[p] = mutex[p] /\ pc'[mutex'[p]] = pc[mutex[p]]
        BY <4>1 DEF Keeps
      <4>3. QED
        BY <2>1, <2>3, <4>1, <4>2 DEF InSecond
    <3>2. QED
      BY <2>1, <2>3, <3>1 DEF Settled
  <2>4. QED
    BY <2>2, <2>3
<1>2. Counted' = Counted
  <2>1. Pending' = Pending
    BY DEF Keeps, Pending
  <2>2. QED
    BY <2>1 DEF Counted, Keeps
<1>3. QED
  BY <1>1, <1>2, StillSerialized

\* A mutex is taken.
LEMMA LockIInv ==
    ASSUME IInv, NEW t \in Threads, Lock1(t) \/ Lock2(t)
    PROVE  IInv'
<1>0. pc[t] \in {"lock1", "lock2"}
  BY DEF Lock1, Lock2, Goto
<1>1. /\ call[t] \in posted
      /\ call[t].player1 \in Players /\ call[t].player2 \in Players
  BY <1>0, CallTypes DEF IInv
<1> USE DEF Lock1, Lock2, Goto, Acquire
<1>2. TypeOK'
  BY <1>0, <1>1 DEF IInv, TypeOK
<1>3. CallsOK' /\ ReadingsCurrent'
  BY <1>0 DEF IInv, TypeOK, CallsOK, ReadingsCurrent
<1>4. Holding'
  <2> SUFFICES ASSUME NEW u \in Threads
               PROVE  /\ pc'[u] \in {"lock2", "read", "update1", "update2", "unlock1"} =>
                            mutex'[call[u].player1] = u
                      /\ pc'[u] \in {"read", "update1", "update2", "unlock1", "unlock2"} =>
                            mutex'[call[u].player2] = u /\ call[u].player1 # call[u].player2
    BY DEF Holding
  <2>1. u # NULL
    BY NullAssumption
  <2>2. CASE u # t
    <3>1. pc'[u] = pc[u]
      BY <2>2 DEF IInv, TypeOK
    <3>2. \A p \in Players : mutex[p] = u => mutex'[p] = u
      BY <1>1, <2>1, <2>2 DEF IInv, TypeOK
    <3>3. pc[u] # "idle" => call[u].player1 \in Players /\ call[u].player2 \in Players
      BY CallTypes DEF IInv
    <3>4. QED
      BY <3>1, <3>2, <3>3 DEF IInv, Holding
  <2>3. CASE u = t
    BY <1>1, <2>1, <2>3 DEF IInv, TypeOK, Holding
  <2>4. QED
    BY <2>2, <2>3
<1>5. Keeps(t)
  BY <1>0, <1>1 DEF IInv, TypeOK, Keeps, Pending
<1>6. QED
  BY <1>2, <1>3, <1>4, <1>5, KeepsSettled DEF IInv

\* The two ratings are read.
LEMMA ReadIInv ==
    ASSUME IInv, NEW t \in Threads, Read(t)
    PROVE  IInv'
<1>0. pc[t] = "read"
  BY DEF Read, Goto
<1>1. /\ call[t] \in posted
      /\ call[t].player1 \in Players /\ call[t].player2 \in Players
  BY <1>0, CallTypes DEF IInv
<1> USE DEF Read, Goto
<1>2. TypeOK'
  BY <1>0, <1>1 DEF IInv, TypeOK
<1>3. CallsOK' /\ Holding'
  BY <1>0 DEF IInv, TypeOK, CallsOK, Holding
<1>4. ReadingsCurrent'
  BY <1>0 DEF IInv, TypeOK, ReadingsCurrent
<1>5. Keeps(t)
  BY <1>0, <1>1 DEF IInv, TypeOK, Keeps, Pending
<1>6. QED
  BY <1>2, <1>3, <1>4, <1>5, KeepsSettled DEF IInv

\* A mutex is released.
LEMMA UnlockIInv ==
    ASSUME IInv, NEW t \in Threads, Unlock1(t) \/ Unlock2(t)
    PROVE  IInv'
<1>0. pc[t] \in {"unlock1", "unlock2"}
  BY DEF Unlock1, Unlock2, Goto
<1>1. /\ call[t] \in posted
      /\ call[t].player1 \in Players /\ call[t].player2 \in Players
  BY <1>0, CallTypes DEF IInv
<1>a. \A p \in Players : mutex'[p] = mutex[p] \/ (mutex[p] = t /\ mutex'[p] = NULL)
  BY <1>1 DEF Unlock1, Unlock2, Goto, Release, IInv, TypeOK, Holding
<1> USE DEF Unlock1, Unlock2, Goto, Release
<1>2. TypeOK'
  BY <1>0, <1>1 DEF IInv, TypeOK
<1>3. CallsOK' /\ ReadingsCurrent'
  BY <1>0 DEF IInv, TypeOK, CallsOK, ReadingsCurrent
<1>4. Holding'
  <2> SUFFICES ASSUME NEW u \in Threads
               PROVE  /\ pc'[u] \in {"lock2", "read", "update1", "update2", "unlock1"} =>
                            mutex'[call[u].player1] = u
                      /\ pc'[u] \in {"read", "update1", "update2", "unlock1", "unlock2"} =>
                            mutex'[call[u].player2] = u /\ call[u].player1 # call[u].player2
    BY DEF Holding
  <2>1. CASE u # t
    <3>1. pc'[u] = pc[u]
      BY <2>1 DEF IInv, TypeOK
    <3>2. \A p \in Players : mutex[p] = u => mutex'[p] = u
      BY <1>a, <2>1
    <3>3. pc[u] # "idle" => call[u].player1 \in Players /\ call[u].player2 \in Players
      BY CallTypes DEF IInv
    <3>4. QED
      BY <3>1, <3>2, <3>3 DEF IInv, Holding
  <2>2. CASE u = t
    BY <1>1, <2>2 DEF IInv, TypeOK, Holding
  <2>3. QED
    BY <2>1, <2>2
<1>5. Keeps(t)
  BY <1>0, <1>a DEF IInv, TypeOK, Keeps, Pending
<1>6. QED
  BY <1>2, <1>3, <1>4, <1>5, KeepsSettled DEF IInv

-----------------------------------------------------------------------------
(***************************************************************************)
(* The two updates.                                                        *)
(***************************************************************************)
\* The first update settles the game: the thread has both mutexes and what it has read
\* is still there.
LEMMA Update1Settles ==
    ASSUME IInv, NEW t \in Threads, Update1(t)
    PROVE  /\ Settled' = PostOn(Settled, call[t])
           /\ \A p \in Players : InSecond(p)' <=> (InSecond(p) \/ p = call[t].player2)
<1> DEFINE c == call[t]
           p1 == call[t].player1
           p2 == call[t].player2
           d == R1[t] - R2[t]
<1>1. /\ pc[t] = "update1" /\ pc' = [pc EXCEPT ![t] = "update2"]
      /\ UNCHANGED <<mutex, call, R1, R2, posted>>
      /\ rating' = [rating EXCEPT ![p1] = @ + Change(d, Halves1(c.result))]
  BY DEF Update1, Goto
<1>2. /\ c \in Results /\ p1 \in Players /\ p2 \in Players /\ c.result \in 0..2
  BY <1>1, CallTypes DEF IInv
<1>3. /\ mutex[p1] = t /\ mutex[p2] = t /\ p1 # p2
      /\ R1[t] = rating[p1] /\ R2[t] = rating[p2]
      /\ R1[t] \in Int /\ R2[t] \in Int
  BY <1>1 DEF IInv, Holding, ReadingsCurrent, TypeOK
<1>4. ~InSecond(p1) /\ ~InSecond(p2)
  BY <1>1, <1>3 DEF InSecond
<1>5. Settled[p1] = rating[p1] /\ Settled[p2] = rating[p2]
  BY <1>2, <1>4 DEF Settled
<1>6. pc'[t] = "update2" /\ \A u \in Threads \ {t} : pc'[u] = pc[u]
  BY <1>1 DEF IInv, TypeOK
<1>7. \A p \in Players : InSecond(p)' <=> (InSecond(p) \/ p = p2)
  <2> SUFFICES ASSUME NEW p \in Players PROVE InSecond(p)' <=> (InSecond(p) \/ p = p2)
    OBVIOUS
  <2>1. CASE mutex[p] = t
    BY <1>1, <1>3, <1>6, <2>1 DEF InSecond
  <2>2. CASE mutex[p] # t
    BY <1>1, <1>3, <1>6, <2>2 DEF InSecond
  <2>3. QED
    BY <2>1, <2>2
<1>8. /\ rating'[p1] = rating[p1] + Change(d, Halves1(c.result))
      /\ \A p \in Players \ {p1} : rating'[p] = rating[p]
  BY <1>1, <1>2 DEF IInv, TypeOK
<1>9. \A p \in Players : (p = p1 => ~InSecond(p)') /\ (p = p2 => InSecond(p)')
  BY <1>2, <1>3, <1>4, <1>7
<1>a. \A p \in Players :
         Settled'[p] =
            IF InSecond(p)'
            THEN rating'[p] + Change(R2'[mutex'[p]] - R1'[mutex'[p]],
                                     Halves2(call'[mutex'[p]].result))
            ELSE rating'[p]
  BY DEF Settled
<1>10. R2[t] - R1[t] = -d
  BY <1>3
<1> DEFINE next == PostOn(Settled, c)
<1>11. Settled[p1] - Settled[p2] = d
  BY <1>3, <1>5
<1>12. DOMAIN Settled = Players
  BY DEF Settled
<1>13. next = [Settled EXCEPT ![p1] = @ + Change(d, Halves1(c.result)),
                              ![p2] = @ + Change(-d, Halves2(c.result))]
  BY <1>11 DEF PostOn
<1> HIDE DEF d
<1>14. /\ next[p1] = Settled[p1] + Change(d, Halves1(c.result))
       /\ next[p2] = Settled[p2] + Change(-d, Halves2(c.result))
       /\ \A p \in Players \ {p1, p2} : next[p] = Settled[p]
       /\ next = [p \in Players |-> next[p]]
  BY <1>2, <1>3, <1>12, <1>13
<1> HIDE DEF next
<1>15. Settled'[p1] = next[p1]
  BY <1>2, <1>5, <1>8, <1>9, <1>a, <1>14
<1>16. Settled'[p2] = next[p2]
  <2>1. Settled'[p2] = rating'[p2] + Change(R2'[mutex'[p2]] - R1'[mutex'[p2]],
                                            Halves2(call'[mutex'[p2]].result))
    BY <1>2, <1>9, <1>a
  <2>2. rating'[p2] = rating[p2] /\ mutex'[p2] = t
    BY <1>1, <1>2, <1>3, <1>8
  <2>3. QED
    BY <1>1, <1>5, <1>10, <1>14, <2>1, <2>2
<1>17. ASSUME NEW p \in Players \ {p1, p2}
       PROVE  Settled'[p] = next[p]
  <2>1. rating'[p] = rating[p] /\ (InSecond(p)' <=> InSecond(p))
    BY <1>7, <1>8
  <2>2. QED
    BY <1>1, <1>14, <2>1 DEF Settled
<1>18. \A p \in Players : Settled'[p] = next[p]
  BY <1>15, <1>16, <1>17
<1>19. Settled' = [p \in Players |-> Settled'[p]]
  BY DEF Settled
<1>20. Settled' = next
  BY <1>14, <1>18, <1>19
<1>21. QED
  BY <1>7, <1>20 DEF next

\* A game that is settled after the others is the last one of a longer order.
LEMMA OrderExtends ==
    ASSUME NEW S, IsFiniteSet(S), S \subseteq Results, NEW r \in Results, r \notin S,
           NEW order \in SetToSeqs(S)
    PROVE  \E more \in SetToSeqs(S \cup {r}) : Posts(more) = PostOn(Posts(order), r)
<1> DEFINE n == Cardinality(S)
           more == [i \in 1..(n + 1) |-> IF i = n + 1 THEN r ELSE order[i]]
<1>1. n \in Nat /\ Cardinality(S \cup {r}) = n + 1
  BY FS_AddElement, FS_CardinalityType
<1>2. /\ order \in [1..n -> S]
      /\ \A i, j \in 1..n : i # j => order[i] # order[j]
  BY DEF SetToSeqs
<1> HIDE DEF n
<1>3. more \in [1..(n + 1) -> S \cup {r}]
  BY <1>1, <1>2
<1>4. \A i, j \in 1..(n + 1) : i # j => more[i] # more[j]
  <2> SUFFICES ASSUME NEW i \in 1..(n + 1), NEW j \in 1..(n + 1), i # j
               PROVE  more[i] # more[j]
    OBVIOUS
  <2>1. i = n + 1 \/ i \in 1..n
    BY <1>1
  <2>2. j = n + 1 \/ j \in 1..n
    BY <1>1
  <2>3. \A k \in 1..n : order[k] \in S /\ order[k] # r /\ more[k] = order[k]
    BY <1>1, <1>2
  <2>4. more[n + 1] = r
    BY <1>1
  <2>5. QED
    BY <1>2, <2>1, <2>2, <2>3, <2>4
<1>5. more \in SetToSeqs(S \cup {r})
  BY <1>1, <1>3, <1>4 DEF SetToSeqs
<1>6. /\ order \in [1..n -> Results] /\ more \in [1..(n + 1) -> Results]
      /\ more[n + 1] = r /\ \A i \in 1..n : more[i] = order[i]
  BY <1>1, <1>2, <1>3
<1> HIDE DEF more
<1>7. Posts(more) = PostOn(Posts(order), r)
  BY <1>1, <1>6, PostsOneMore
<1>8. QED
  BY <1>5, <1>7

\* One of the two players of r gains what the other loses; the others stay as they are.
Exchanged(rat, new, r) ==
    LET d == rat[r.player1] - rat[r.player2]
    IN  \A p \in Players :
           new[p] = rat[p] + (IF p = r.player1 THEN Change(d, Halves1(r.result)) ELSE 0)
                           + (IF p = r.player2 THEN Change(-d, Halves2(r.result)) ELSE 0)

\* A game that is posted changes no sum: what one player gains the other loses.
LEMMA ExchangeConserves ==
    ASSUME NEW rat, \A p \in Players : rat[p] \in Int,
           NEW r \in Results, r.player1 # r.player2,
           NEW new, Exchanged(rat, new, r)
    PROVE  Sum(new) = Sum(rat)
<1> DEFINE d == rat[r.player1] - rat[r.player2]
<1>1. PICK p1 \in Players, p2 \in Players : p1 = r.player1 /\ p2 = r.player2
  BY ResultsAssumption
<1>2. PICK a \in Int, b \in Int :
         a = Change(d, Halves1(r.result)) /\ b = Change(-d, Halves2(r.result)) /\ a + b = 0
  <2>1. d \in Int /\ r.result \in 0..2
    BY <1>1, ResultsAssumption
  <2> HIDE DEF d
  <2>2. /\ Change(d, Halves1(r.result)) \in Int
        /\ Change(-d, Halves2(r.result)) = -Change(d, Halves1(r.result))
    BY <2>1, ChangesCancel
  <2>3. QED
    BY <2>2
<1>3. \A p \in Players :
         new[p] = rat[p] + (IF p = p1 THEN a ELSE 0) + (IF p = p2 THEN b ELSE 0)
  BY <1>1, <1>2 DEF Exchanged
<1> DEFINE mid == [p \in Players |-> IF p = p1 THEN rat[p] + a ELSE rat[p]]
<1>4. Shifted(rat, p1, a, mid)
  BY <1>1, <1>2 DEF Shifted
<1>5. Shifted(mid, p2, b, new)
  BY <1>1, <1>2, <1>3 DEF Shifted
<1> HIDE DEF mid
<1>6. Sum(mid) = Sum(rat) + a /\ Sum(new) = Sum(mid) + b
  BY <1>4, <1>5, SumShifts, PlayersAssumption
<1>7. Sum(rat) \in Int
  BY SumIsInteger, PlayersAssumption
<1>8. QED
  BY <1>2, <1>6, <1>7

\* The call whose first update is done is counted from then on.
LEMMA Update1Counts ==
    ASSUME IInv, NEW t \in Threads, Update1(t)
    PROVE  /\ Counted' = Counted \cup {call[t]}
           /\ call[t] \notin Counted /\ call[t] \in Results
           /\ Counted \subseteq Results /\ IsFiniteSet(Counted)
<1>1. /\ pc[t] = "update1" /\ pc' = [pc EXCEPT ![t] = "update2"]
      /\ UNCHANGED <<mutex, call, R1, R2, posted>>
  BY DEF Update1, Goto
<1>2. t \in Pending /\ Pending' = Pending \ {t}
  BY <1>1 DEF Pending, IInv, TypeOK
<1>3. call[t] \in posted /\ call[t] \in Results
  BY <1>1, CallTypes DEF IInv
<1>4. \A u \in Pending \ {t} : call[u] # call[t]
  BY <1>1 DEF Pending, IInv, CallsOK
<1>5. {call[u] : u \in Pending} = {call[u] : u \in Pending \ {t}} \cup {call[t]}
  BY <1>2
<1>6. Counted' = posted \ {call[u] : u \in Pending \ {t}}
  BY <1>1, <1>2 DEF Counted
<1>7. Counted' = Counted \cup {call[t]} /\ call[t] \notin Counted
  BY <1>3, <1>4, <1>5, <1>6 DEF Counted
<1>8. Counted \subseteq posted /\ posted \subseteq Results /\ IsFiniteSet(posted)
  BY DEF Counted, IInv, TypeOK, CallsOK
<1>9. IsFiniteSet(Counted)
  BY <1>8, FS_Subset
<1>10. QED
  BY <1>3, <1>7, <1>8, <1>9

\* The first update of a call keeps the invariant.
LEMMA Update1IInv ==
    ASSUME IInv, NEW t \in Threads, Update1(t)
    PROVE  IInv'
<1> DEFINE c == call[t]
<1>1. /\ pc[t] = "update1" /\ pc' = [pc EXCEPT ![t] = "update2"]
      /\ UNCHANGED <<mutex, call, R1, R2, posted>>
      /\ rating' = [rating EXCEPT ![c.player1] = @ + Change(R1[t] - R2[t], Halves1(c.result))]
  BY DEF Update1, Goto
<1>2. /\ c.player1 \in Players /\ c.player2 \in Players /\ c.result \in 0..2
      /\ mutex[c.player1] = t /\ c.player1 # c.player2
  BY <1>1, CallTypes DEF IInv, Holding
<1>3. TypeOK'
  <2>1. R1[t] - R2[t] \in Int
    BY DEF IInv, TypeOK
  <2>2. Change(R1[t] - R2[t], Halves1(c.result)) \in Int
    BY <1>2, <2>1, ChangesCancel
  <2>3. rating' \in [Players -> Int]
    BY <1>1, <1>2, <2>2 DEF IInv, TypeOK
  <2>4. QED
    BY <1>1, <2>3 DEF IInv, TypeOK
<1>4. CallsOK' /\ Holding'
  BY <1>1 DEF IInv, TypeOK, CallsOK, Holding
<1>5. ReadingsCurrent'
  <2> SUFFICES ASSUME NEW u \in Threads
               PROVE  /\ pc'[u] = "update1" => R1[u] = rating'[call[u].player1]
                      /\ pc'[u] \in {"update1", "update2"} => R2[u] = rating'[call[u].player2]
    BY <1>1 DEF ReadingsCurrent
  <2>1. \A p \in Players \ {c.player1} : rating'[p] = rating[p]
    BY <1>1, <1>2 DEF IInv, TypeOK
  <2>2. CASE u # t
    <3>1. pc'[u] = pc[u]
      BY <1>1, <2>2 DEF IInv, TypeOK
    <3>2. pc[u] \in {"update1", "update2"} =>
             /\ call[u].player1 \in Players \ {c.player1}
             /\ call[u].player2 \in Players \ {c.player1}
      BY <1>2, <2>2, CallTypes DEF IInv, Holding
    <3>3. QED
      BY <2>1, <3>1, <3>2 DEF IInv, ReadingsCurrent
  <2>3. CASE u = t
    BY <1>1, <1>2, <2>1, <2>3 DEF IInv, TypeOK, ReadingsCurrent
  <2>4. QED
    BY <2>2, <2>3
<1>6. Settled' = PostOn(Settled, c)
  BY Update1Settles
<1>7. Serialized'
  <2>1. PICK order \in SetToSeqs(Counted) : Settled = Posts(order)
    BY DEF IInv, Serialized
  <2>2. \E more \in SetToSeqs(Counted \cup {c}) : Posts(more) = PostOn(Posts(order), c)
    BY Update1Counts, OrderExtends
  <2>3. PICK more \in SetToSeqs(Counted') : Posts(more) = PostOn(Posts(order), c)
    BY <2>2, Update1Counts
  <2>4. Settled' = Posts(more)
    BY <1>6, <2>1, <2>3
  <2>5. QED
    BY <2>3, <2>4 DEF Serialized
<1>8. Conserved'
  <2>1. Exchanged(Settled, PostOn(Settled, c), c)
    <3>1. DOMAIN Settled = Players /\ \A p \in Players : Settled[p] \in Int
      BY SettledType DEF Settled
    <3> DEFINE d == Settled[c.player1] - Settled[c.player2]
               a == Change(d, Halves1(c.result))
               b == Change(-d, Halves2(c.result))
               next == PostOn(Settled, c)
    <3>2. next = [Settled EXCEPT ![c.player1] = @ + a, ![c.player2] = @ + b]
      BY DEF PostOn
    <3>3. d \in Int
      BY <1>2, <3>1
    <3>4. a \in Int /\ b = -a
      BY <1>2, <3>3, ChangesCancel
    <3> HIDE DEF d, a, b, next
    <3>5. \A p \in Players :
             next[p] = Settled[p] + (IF p = c.player1 THEN a ELSE 0)
                                  + (IF p = c.player2 THEN b ELSE 0)
      BY <1>2, <3>1, <3>2, <3>4
    <3>6. QED
      BY <3>5 DEF Exchanged, d, a, b, next
  <2>2. Sum(PostOn(Settled, c)) = Sum(Settled)
    BY <1>2, <2>1, SettledType, Update1Counts, ExchangeConserves
  <2>3. QED
    BY <1>6, <2>2 DEF IInv, Conserved
<1>9. QED
  BY <1>3, <1>4, <1>5, <1>7, <1>8 DEF IInv

\* The second update writes what the settled ratings had already.
LEMMA Update2IInv ==
    ASSUME IInv, NEW t \in Threads, Update2(t)
    PROVE  IInv'
<1> DEFINE c == call[t]
           p2 == c.player2
           a == Change(R2[t] - R1[t], Halves2(c.result))
<1>1. /\ pc[t] = "update2" /\ pc' = [pc EXCEPT ![t] = "unlock1"]
      /\ UNCHANGED <<mutex, call, R1, R2, posted>>
      /\ rating' = [rating EXCEPT ![p2] = @ + a]
  BY DEF Update2, Goto
<1>2. /\ c.player1 \in Players /\ p2 \in Players /\ mutex[p2] = t
  BY <1>1, CallTypes DEF IInv, Holding
<1>3. InSecond(p2)
  BY <1>1, <1>2 DEF InSecond
<1>4. Settled[p2] = rating[p2] + a
  BY <1>2, <1>3 DEF Settled
<1>5. /\ rating'[p2] = Settled[p2]
      /\ \A p \in Players \ {p2} : rating'[p] = rating[p]
      /\ DOMAIN rating' = Players
  BY <1>1, <1>2, <1>4 DEF IInv, TypeOK
<1>6. TypeOK'
  <2>1. Settled[p2] \in Int
    BY <1>2, SettledType
  <2>2. rating' = [p \in Players |-> rating'[p]]
    BY <1>1 DEF IInv, TypeOK
  <2>3. rating' \in [Players -> Int]
    BY <1>5, <2>1, <2>2 DEF IInv, TypeOK
  <2>4. QED
    BY <1>1, <2>3 DEF IInv, TypeOK
<1>7. CallsOK' /\ Holding'
  BY <1>1 DEF IInv, TypeOK, CallsOK, Holding
<1>8. ReadingsCurrent'
  <2> SUFFICES ASSUME NEW u \in Threads
               PROVE  /\ pc'[u] = "update1" => R1[u] = rating'[call[u].player1]
                      /\ pc'[u] \in {"update1", "update2"} => R2[u] = rating'[call[u].player2]
    BY <1>1 DEF ReadingsCurrent
  <2>1. CASE u # t
    <3>1. pc'[u] = pc[u]
      BY <1>1, <2>1 DEF IInv, TypeOK
    <3>2. pc[u] \in {"update1", "update2"} =>
             /\ call[u].player1 \in Players \ {p2}
             /\ call[u].player2 \in Players \ {p2}
      BY <1>2, <2>1, CallTypes DEF IInv, Holding
    <3>3. QED
      BY <1>5, <3>1, <3>2 DEF IInv, ReadingsCurrent
  <2>2. CASE u = t
    BY <1>1, <2>2 DEF IInv, TypeOK
  <2>3. QED
    BY <2>1, <2>2
<1>9. Settled' = Settled
  <2> SUFFICES ASSUME NEW p \in Players PROVE Settled'[p] = Settled[p]
    BY DEF Settled
  <2>1. pc'[t] = "unlock1" /\ \A u \in Threads \ {t} : pc'[u] = pc[u]
    BY <1>1 DEF IInv, TypeOK
  <2>2. CASE p = p2
    <3>1. ~InSecond(p)'
      BY <1>1, <1>2, <2>1, <2>2 DEF InSecond
    <3>2. QED
      BY <1>5, <2>2, <3>1 DEF Settled
  <2>3. CASE p # p2
    <3>1. InSecond(p)' <=> InSecond(p)
      BY <1>1, <2>1, <2>3 DEF InSecond
    <3>2. QED
      BY <1>1, <1>5, <2>3, <3>1 DEF Settled
  <2>4. QED
    BY <2>2, <2>3
<1>10. Counted' = Counted
  <2>1. Pending' = Pending
    BY <1>1 DEF IInv, TypeOK, Pending
  <2>2. QED
    BY <1>1, <2>1 DEF Counted
<1>11. QED
  BY <1>6, <1>7, <1>8, <1>9, <1>10, StillSerialized DEF IInv

-----------------------------------------------------------------------------
(***************************************************************************)
(* The theorems.                                                           *)
(***************************************************************************)
\* No game has been played: the ratings are the initial ones.
LEMMA InitIInv ==
    ASSUME Init
    PROVE  IInv
<1> USE DEF Init
<1>1. TypeOK /\ Holding /\ ReadingsCurrent
  BY DEF TypeOK, Holding, ReadingsCurrent, PLAYER_INITIAL_RATING
<1>2. CallsOK
  BY FS_EmptySet DEF CallsOK
<1>3. \A p \in Players : ~InSecond(p)
  BY NullAssumption DEF InSecond
<1>4. Settled = Initial
  BY <1>3 DEF Settled, Initial
<1>5. Serialized
  <2>1. Counted = {} /\ Cardinality(Counted) = 0
    BY FS_EmptySet DEF Counted
  <2> DEFINE none == [i \in 1..0 |-> NULL]
  <2>2. none \in [1..0 -> {}] /\ none \in [1..0 -> Results]
    OBVIOUS
  <2>3. none \in SetToSeqs(Counted)
    BY <2>1, <2>2 DEF SetToSeqs
  <2> HIDE DEF none
  <2>4. Posts(none) = Initial
    BY <2>2, PostsOfNone
  <2>5. QED
    BY <1>4, <2>3, <2>4 DEF Serialized
<1>6. Conserved
  <2>1. \A p \in Players : Initial[p] = PLAYER_INITIAL_RATING
    BY DEF Initial
  <2>2. QED
    BY <1>4, <2>1, SumOfEqual, PlayersAssumption DEF Conserved
<1>7. QED
  BY <1>1, <1>2, <1>5, <1>6 DEF IInv

\* Every step keeps the invariant.
LEMMA NextIInv ==
    ASSUME IInv, [Next]_vars
    PROVE  IInv'
<1>1. CASE UNCHANGED vars
  <2>1. TypeOK' /\ CallsOK' /\ Holding' /\ ReadingsCurrent'
    BY <1>1 DEF vars, IInv, TypeOK, CallsOK, Holding, ReadingsCurrent
  <2>2. Settled' = Settled
    BY <1>1 DEF vars, Settled, InSecond
  <2>3. Counted' = Counted
    BY <1>1 DEF vars, Counted, Pending
  <2>4. QED
    BY <2>1, <2>2, <2>3, StillSerialized DEF IInv
<1>2. CASE Next
  <2>1. PICK t \in Threads : Step(t) \/ \E r \in Results : Call(t, r)
    BY <1>2 DEF Next
  <2>2. CASE \E r \in Results : Call(t, r)
    BY <2>2, CallIInv
  <2>3. CASE Lock1(t) \/ Lock2(t)
    BY <2>3, LockIInv
  <2>4. CASE Read(t)
    BY <2>4, ReadIInv
  <2>5. CASE Update1(t)
    BY <2>5, Update1IInv
  <2>6. CASE Update2(t)
    BY <2>6, Update2IInv
  <2>7. CASE Unlock1(t) \/ Unlock2(t)
    BY <2>7, UnlockIInv
  <2>8. QED
    BY <2>1, <2>2, <2>3, <2>4, <2>5, <2>6, <2>7 DEF Step
<1>3. QED
  BY <1>1, <1>2

\* The invariant holds always.
LEMMA SpecIInv == Spec => []IInv
<1>1. Init => IInv
  BY InitIInv
<1>2. IInv /\ [Next]_vars => IInv'
  BY NextIInv
<1>3. QED
  BY <1>1, <1>2, PTL DEF Spec

\* With no thread between its two updates the settled ratings are the ratings.
LEMMA SettledAtRest ==
    ASSUME IInv, \A t \in Threads : pc[t] # "update2"
    PROVE  Settled = rating
<1>1. \A p \in Players : ~InSecond(p)
  BY DEF InSecond
<1>2. QED
  BY <1>1 DEF Settled, IInv, TypeOK

\* What one player gains the other loses, whichever threads post results at once: no
\* update is lost, and the two truncations cancel, for every rating and every number of
\* players.
THEOREM RatingsAreConserved == Spec => []RatingsConserved
<1>1. IInv => RatingsConserved
  <2> SUFFICES ASSUME IInv PROVE RatingsConserved
    OBVIOUS
  <2>1. TypeOK
    BY DEF IInv
  <2>2. ASSUME \A t \in Threads : pc[t] # "update2"
        PROVE  Sum(rating) = PLAYER_INITIAL_RATING * Cardinality(Players)
    BY <2>2, SettledAtRest DEF IInv, Conserved
  <2>3. QED
    BY <2>1, <2>2 DEF RatingsConserved, Sum
<1>2. QED
  BY <1>1, SpecIInv, PTL

\* The ratings at rest are those of the posted games played one after the other, however
\* the calls interleave: no game is rated from ratings that were stale.
THEOREM PostsAreSerialized == Spec => []PostsSerialize
<1>1. IInv => PostsSerialize
  <2> SUFFICES ASSUME IInv, \A t \in Threads : pc[t] = "idle"
               PROVE  \E order \in SetToSeqs(posted) : rating = Posts(order)
    BY DEF PostsSerialize, Posts, Initial
  <2>1. Settled = rating
    BY SettledAtRest
  <2>2. Counted = posted
    BY DEF Counted, Pending
  <2>3. QED
    BY <2>1, <2>2 DEF IInv, Serialized
<1>2. QED
  BY <1>1, SpecIInv, PTL
=============================================================================
