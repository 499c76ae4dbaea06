---------------------------- MODULE SharedLemmas ----------------------------
(***************************************************************************)
(* What the proofs of several components rest on: induction over the       *)
(* naturals with a set in place of a predicate, for loops and recursive    *)
(* functions, what Sorting makes of a finite set, lists, the glyphs of a   *)
(* tree drawn row by row, and sums over a finite set.                      *)
(***************************************************************************)
EXTENDS Sorting, SequencesExt, SequenceTheorems, FiniteSetTheorems, TLAPS

NatLess == {ss \in Nat \X Nat : ss[1] < ss[2]}

\* The order of the naturals has no infinite descent.
LEMMA NatLessWellFounded == IsWellFoundedOn(NatLess, Nat)
  BY NatLessThanWellFounded, Zenon DEF NatLess, OpToRel

\* A nonempty set of naturals has a least element (poolResult's scan of errs
\* from index 0 stops at it; a counterexample to an induction has a first one).
LEMMA LeastElement ==
  ASSUME NEW T, T \subseteq Nat, T # {}
  PROVE  \E x \in T : \A y \in T : x <= y
<1>1. PICK x \in T : \A y \in T : ~ (<<y, x>> \in NatLess)
  BY NatLessWellFounded, WFMin, Zenon
<1>2. ASSUME NEW y \in T PROVE x <= y
  <2>1. x \in Nat /\ y \in Nat
    OBVIOUS
  <2>2. <<y, x>> \in Nat \X Nat /\ <<y, x>>[1] = y /\ <<y, x>>[2] = x
    BY <2>1
  <2>3. ~ (<<y, x>>[1] < <<y, x>>[2])
    <3> DEFINE p == <<y, x>>
    <3>1. p \in Nat \X Nat /\ p \notin NatLess
      BY <1>1, <2>2
    <3> HIDE DEF p
    <3>2. ~ (p[1] < p[2])
      BY <3>1 DEF NatLess
    <3> QED BY <3>2 DEF p
  <2> QED
    BY <2>1, <2>2, <2>3
<1> QED
  BY <1>2

\* Induction up to a bound: the rows of a table, the rounds of a loop.
LEMMA UpTo ==
  ASSUME NEW N \in Nat, NEW T, 0 \in T, \A n \in 0 .. N - 1 : n \in T => n + 1 \in T
  PROVE  0 .. N \subseteq T
<1> SUFFICES ASSUME (0 .. N) \ T # {} PROVE FALSE
  OBVIOUS
<1>1. PICK x \in (0 .. N) \ T : \A y \in (0 .. N) \ T : x <= y
  <2>1. (0 .. N) \ T \subseteq Nat
    OBVIOUS
  <2> QED BY <2>1, LeastElement
<1>2. x - 1 \in 0 .. N - 1 /\ x - 1 \in T
  BY <1>1
<1> QED BY <1>1, <1>2

\* The values a loop of N rounds goes through when step computes the next one from
\* the number of the round and the value before.
IsHistory(f, N, V, base, step) ==
  /\ f \in [0 .. N -> V]
  /\ f[0] = base
  /\ \A n \in 1 .. N : f[n] = step[<<n, f[n - 1]>>]

\* There are such values: recursive functions over 0 .. N exist.
LEMMA Iteration ==
  ASSUME NEW N \in Nat, NEW V, NEW base \in V, NEW step \in [(1 .. N) \X V -> V]
  PROVE  \E f : IsHistory(f, N, V, base, step)
<1> DEFINE History(f, m) ==
             f[0] = base /\ \A n \in 1 .. m : f[n] = step[<<n, f[n - 1]>>]
           T == {m \in 0 .. N : \E f \in [0 .. m -> V] : History(f, m)}
<1>1. 0 \in T
  <2> DEFINE f == [n \in 0 .. 0 |-> base]
  <2>1. f \in [0 .. 0 -> V] /\ History(f, 0)
    OBVIOUS
  <2>2. \E h \in [0 .. 0 -> V] : History(h, 0)
    <3> HIDE DEF f, History
    <3> QED BY <2>1
  <2> HIDE DEF History
  <2> QED BY <2>2
<1>2. ASSUME NEW m \in 0 .. N - 1, m \in T PROVE m + 1 \in T
  <2>1. PICK f \in [0 .. m -> V] : History(f, m)
    BY <1>2
  <2> DEFINE next == step[<<m + 1, f[m]>>]
             g == [n \in 0 .. m + 1 |-> IF n = m + 1 THEN next ELSE f[n]]
  <2>2. next \in V
    <3>1. m + 1 \in 1 .. N /\ f[m] \in V
      BY <2>1
    <3>2. <<m + 1, f[m]>> \in (1 .. N) \X V
      BY <3>1
    <3> QED BY <3>2
  <2>3. g \in [0 .. m + 1 -> V]
    <3> HIDE DEF next
    <3> QED BY <2>1, <2>2
  <2>4. g[0] = base
    BY <2>1
  <2>5. ASSUME NEW n \in 1 .. m + 1 PROVE g[n] = step[<<n, g[n - 1]>>]
    <3>1. n - 1 \in 0 .. m /\ g[n - 1] = f[n - 1]
      OBVIOUS
    <3>2. CASE n = m + 1
      <4>1. n - 1 = m /\ g[n] = next
        BY <3>2
      <4> QED BY <3>1, <3>2, <4>1
    <3>3. CASE n # m + 1
      <4>1. n \in 1 .. m /\ g[n] = f[n]
        BY <3>3
      <4>2. f[n] = step[<<n, f[n - 1]>>]
        BY <2>1, <4>1
      <4> HIDE DEF g, next
      <4> QED BY <3>1, <4>1, <4>2
    <3> QED BY <3>2, <3>3
  <2>6. m + 1 \in 0 .. N
    OBVIOUS
  <2> HIDE DEF g
  <2> QED BY <2>3, <2>4, <2>5, <2>6
<1>3. N \in T
  <2> HIDE DEF T
  <2>1. 0 .. N \subseteq T
    BY <1>1, <1>2, UpTo
  <2> QED BY <2>1
<1> QED BY <1>3 DEF IsHistory

-----------------------------------------------------------------------------
\* Elements with different keys can be sorted: an element's place is one more than
\* the number of those with smaller keys.
LEMMA SortedExists ==
  ASSUME NEW S, IsFiniteSet(S), NEW key \in [S -> Int],
         \A x, y \in S : key[x] = key[y] => x = y
  PROVE  \E s \in [1 .. Cardinality(S) -> S] : Ascending(s, key)
<1> DEFINE N == Cardinality(S)
           Below(x) == {y \in S : key[y] < key[x]}
           rank == [x \in S |-> Cardinality(Below(x)) + 1]
<1>1. N \in Nat /\ IsFiniteSet(1 .. N) /\ Cardinality(1 .. N) = N
  BY FS_CardinalityType, FS_Interval
<1>2. ASSUME NEW x \in S PROVE IsFiniteSet(Below(x)) /\ Cardinality(Below(x)) \in 0 .. N - 1
  <2>1. Below(x) \in SUBSET S /\ x \notin Below(x)
    OBVIOUS
  <2>2. IsFiniteSet(Below(x)) /\ Cardinality(Below(x)) <= N /\ Cardinality(Below(x)) # N
    BY <2>1, FS_Subset
  <2> QED BY <1>1, <2>2, FS_CardinalityType
<1>3. ASSUME NEW x \in S, NEW y \in S, key[x] < key[y]
      PROVE  rank[x] < rank[y]
  <2>1. Below(x) \in SUBSET Below(y) /\ x \in Below(y) /\ x \notin Below(x)
    BY <1>3
  <2>2. Cardinality(Below(x)) <= Cardinality(Below(y)) /\ Cardinality(Below(x)) # Cardinality(Below(y))
    BY <1>2, <2>1, FS_Subset
  <2> HIDE DEF Below, N
  <2>3. Cardinality(Below(x)) \in Int /\ Cardinality(Below(y)) \in Int
    BY <1>1, <1>2
  <2>4. rank[x] = Cardinality(Below(x)) + 1 /\ rank[y] = Cardinality(Below(y)) + 1
    OBVIOUS
  <2> HIDE DEF rank
  <2> QED BY <2>2, <2>3, <2>4
<1>4. rank \in [S -> 1 .. N]
  <2> HIDE DEF Below, N
  <2>1. \A x \in S : Cardinality(Below(x)) + 1 \in 1 .. N
    BY <1>1, <1>2
  <2> QED BY <2>1
<1>5. \A x, y \in S : rank[x] = rank[y] => x = y
  <2> SUFFICES ASSUME NEW x \in S, NEW y \in S, rank[x] = rank[y], x # y PROVE FALSE
    OBVIOUS
  <2>1. key[x] < key[y] \/ key[y] < key[x]
    OBVIOUS
  <2>2. rank[x] \in Int /\ rank[y] \in Int
    BY <1>4
  <2>3. rank[x] < rank[y] \/ rank[y] < rank[x]
    BY <1>3, <2>1
  <2> HIDE DEF rank
  <2> QED BY <2>2, <2>3
<1>6. \A n \in 1 .. N : \E x \in S : rank[x] = n
  <2> HIDE DEF rank
  <2>1. rank \in Injection(S, 1 .. N)
    BY <1>4, <1>5 DEF Injection, IsInjective
  <2>2. rank \in Surjection(S, 1 .. N)
    BY <1>1, <2>1, FS_Injection
  <2> QED BY <2>2 DEF Surjection
<1> DEFINE s == [n \in 1 .. N |-> CHOOSE x \in S : rank[x] = n]
<1>7. \A n \in 1 .. N : s[n] \in S /\ rank[s[n]] = n
  BY <1>6
<1>8. ASSUME NEW i \in 1 .. N, NEW j \in 1 .. N, i < j
      PROVE  key[s[i]] < key[s[j]]
  <2> HIDE DEF s, rank
  <2> DEFINE x == s[i]  y == s[j]
  <2>1. x \in S /\ y \in S /\ rank[x] < rank[y]
    BY <1>7, <1>8
  <2>2. key[x] = key[y] => rank[x] = rank[y]
    BY <2>1
  <2>3. key[y] < key[x] => rank[y] < rank[x]
    BY <1>3, <2>1
  <2>4. rank[x] \in Int /\ rank[y] \in Int /\ key[x] \in Int /\ key[y] \in Int
    BY <1>4, <2>1
  <2> QED BY <2>1, <2>2, <2>3, <2>4
<1> HIDE DEF s, rank, Below
<1>9. s \in [1 .. N -> S]
  BY <1>7 DEF s
<1> QED BY <1>8, <1>9 DEF Ascending

\* What sorting such a set gives: each element once, in order.
LEMMA SortedIs ==
  ASSUME NEW S, IsFiniteSet(S), NEW key \in [S -> Int],
         \A x, y \in S : key[x] = key[y] => x = y
  PROVE  /\ Cardinality(S) \in Nat
         /\ Sorted(S, key) \in [1 .. Cardinality(S) -> S]
         /\ Ascending(Sorted(S, key), key)
         /\ \A x \in S : \E n \in 1 .. Cardinality(S) : Sorted(S, key)[n] = x
<1> DEFINE N == Cardinality(S)
           s == Sorted(S, key)
<1>1. s \in [1 .. N -> S] /\ Ascending(s, key)
  BY SortedExists DEF Sorted
<1>2. N \in Nat /\ IsFiniteSet(1 .. N) /\ Cardinality(1 .. N) = N
  BY FS_CardinalityType, FS_Interval
<1> HIDE DEF s
<1>3. \A i, j \in 1 .. N : s[i] = s[j] => i = j
  <2> SUFFICES ASSUME NEW i \in 1 .. N, NEW j \in 1 .. N, s[i] = s[j], i # j PROVE FALSE
    OBVIOUS
  <2>1. key[s[i]] \in Int /\ key[s[i]] = key[s[j]]
    BY <1>1
  <2>2. i < j \/ j < i
    BY <1>2
  <2>3. key[s[i]] < key[s[j]] \/ key[s[j]] < key[s[i]]
    BY <1>1, <2>2 DEF Ascending
  <2> QED BY <2>1, <2>3
<1>4. s \in Injection(1 .. N, S)
  BY <1>1, <1>3 DEF Injection, IsInjective
<1>5. s \in Surjection(1 .. N, S)
  BY <1>2, <1>4, FS_Injection
<1>6. \A x \in S : \E n \in 1 .. N : s[n] = x
  BY <1>5 DEF Surjection
<1> QED BY <1>1, <1>2, <1>6 DEF s

\* kept has the elements of s (which has n) that are in T, at increasing places.
IsKept(kept, s, n, T) ==
  \E N \in Nat : \E pos \in [1 .. N -> 1 .. n] :
    /\ kept = [i \in 1 .. N |-> s[pos[i]]]
    /\ \A i, j \in 1 .. N : i < j => pos[i] < pos[j]
    /\ \A m \in 1 .. n : s[m] \in T <=> \E i \in 1 .. N : pos[i] = m

\* That is what a loop that appends some elements leaves.
LEMMA KeepIs ==
  ASSUME NEW n \in Nat, NEW U, NEW s \in [1 .. n -> U], NEW T
  PROVE  IsKept(Keep(s, T), s, n, T)
<1> DEFINE K == {m \in DOMAIN s : s[m] \in T}
           key == [m \in K |-> m]
           pos == SortedNumbers(K)
<1>1. K \in SUBSET (1 .. n) /\ IsFiniteSet(K)
  <2>1. IsFiniteSet(1 .. n) /\ K \in SUBSET (1 .. n)
    BY FS_Interval
  <2> QED BY <2>1, FS_Subset
<1>2. /\ Cardinality(K) \in Nat
      /\ Sorted(K, key) \in [1 .. Cardinality(K) -> K]
      /\ Ascending(Sorted(K, key), key)
      /\ \A x \in K : \E i \in 1 .. Cardinality(K) : Sorted(K, key)[i] = x
  <2>1. key \in [K -> Int] /\ \A x, y \in K : key[x] = key[y] => x = y
    BY <1>1
  <2>2. IsFiniteSet(K)
    BY <1>1
  <2> HIDE DEF K, key, pos
  <2>3. Cardinality(K) \in Nat
    BY <2>1, <2>2, SortedIs
  <2>4. Sorted(K, key) \in [1 .. Cardinality(K) -> K]
    BY <2>1, <2>2, SortedIs
  <2>5. Ascending(Sorted(K, key), key)
    BY <2>1, <2>2, SortedIs
  <2>6. \A x \in K : \E i \in 1 .. Cardinality(K) : Sorted(K, key)[i] = x
    BY <2>1, <2>2, SortedIs
  <2> QED BY <2>3, <2>4, <2>5, <2>6
<1>3. pos = Sorted(K, key) /\ Keep(s, T) = [i \in DOMAIN pos |-> s[pos[i]]]
  BY DEF SortedNumbers, Keep
<1> DEFINE N == Cardinality(K)
<1>4. \A m \in K : key[m] = m
  OBVIOUS
<1>5. \A m \in 1 .. n : s[m] \in T <=> m \in K
  OBVIOUS
<1> HIDE DEF K, key, pos
<1>6. pos \in [1 .. N -> 1 .. n] /\ DOMAIN pos = 1 .. N
  BY <1>1, <1>2, <1>3
<1>7. \A i, j \in 1 .. N : i < j => pos[i] < pos[j]
  <2>1. \A i \in 1 .. N : key[pos[i]] = pos[i]
    BY <1>2, <1>3, <1>4
  <2> QED BY <1>2, <1>3, <1>6, <2>1 DEF Ascending
<1>8. \A m \in 1 .. n : s[m] \in T <=> \E i \in 1 .. N : pos[i] = m
  BY <1>2, <1>3, <1>5
<1>9. N \in Nat /\ Keep(s, T) = [i \in 1 .. N |-> s[pos[i]]]
  BY <1>2, <1>3, <1>6
<1> HIDE DEF N
<1> QED BY <1>6, <1>7, <1>8, <1>9, Zenon DEF IsKept

\* A sequence has finitely many elements.
LEMMA RangeIsFinite ==
  ASSUME NEW n \in Nat, NEW U, NEW s \in [1 .. n -> U]
  PROVE  IsFiniteSet(Range(s))
<1>1. IsFiniteSet(1 .. n)
  BY FS_Interval
<1>2. s \in Surjection(1 .. n, Range(s))
  BY DEF Surjection, Range
<1> QED BY <1>1, <1>2, FS_Surjection

\* The sorted elements are a sequence that has the same elements.
LEMMA SortedHasAll ==
  ASSUME NEW S, IsFiniteSet(S), NEW key \in [S -> Int],
         \A x, y \in S : key[x] = key[y] => x = y
  PROVE  /\ Sorted(S, key) \in Seq(S)
         /\ Range(Sorted(S, key)) = S
         /\ Ascending(Sorted(S, key), key)
<1> DEFINE N == Cardinality(S)
           s == Sorted(S, key)
<1>1. \A x \in S : \E n \in 1 .. N : s[n] = x
  BY SortedIs
<1>2. N \in Nat /\ s \in [1 .. N -> S] /\ Ascending(s, key)
  BY SortedIs
<1> HIDE DEF N, s
<1>3. s \in Seq(S)
  BY <1>2
<1>4. Range(s) = S
  BY <1>1, <1>2 DEF Range
<1> QED
  BY <1>2, <1>3, <1>4 DEF s

\* Numbers sorted are the same numbers.
LEMMA SortedNumbersAre ==
  ASSUME NEW S, IsFiniteSet(S), S \subseteq Nat
  PROVE  SortedNumbers(S) \in Seq(S) /\ Range(SortedNumbers(S)) = S
<1> DEFINE key == [n \in S |-> n]
<1>1. key \in [S -> Int] /\ \A x, y \in S : key[x] = key[y] => x = y
  OBVIOUS
<1>2. SortedNumbers(S) = Sorted(S, key)
  BY DEF SortedNumbers
<1> HIDE DEF key
<1>3. Sorted(S, key) \in Seq(S)
  BY <1>1, SortedHasAll
<1>4. Range(Sorted(S, key)) = S
  BY <1>1, SortedHasAll
<1> QED
  BY <1>2, <1>3, <1>4

\* O[p] tells how many elements the first p sequences of ss have.
IsOffsets(O, ss) ==
  /\ O \in [0 .. Len(ss) -> Nat]
  /\ O[0] = 0
  /\ \A p \in 1 .. Len(ss) : O[p] = O[p - 1] + Len(ss[p])

\* Going through the sequences one after the other puts element t of the p-th
\* behind those of the sequences before (the loops of indexTypeKeys and of
\* appendPackages).
LEMMA FlattenUnfolds ==
  ASSUME NEW T, NEW ss \in Seq(Seq(T)), ss # <<>>
  PROVE  \E f \in [0 .. Len(ss) -> Seq(T)] :
           /\ f[0] = <<>>
           /\ \A p \in 1 .. Len(ss) : f[p] = f[p - 1] \o ss[p]
           /\ FlattenSeq(ss) = f[Len(ss)]
<1> DEFINE N == Len(ss)
           Row(f, i) == IF i = 1 THEN ss[i] ELSE f[i - 1] \o ss[i]
           Solves(f) == f = [i \in 1 .. N |-> Row(f, i)]
           step == [x \in (1 .. N) \X Seq(T) |-> x[2] \o ss[x[1]]]
<1>1. N \in Nat \ {0} /\ <<>> \in Seq(T) /\ \A n \in 1 .. N : ss[n] \in Seq(T)
  OBVIOUS
<1>2. step \in [(1 .. N) \X Seq(T) -> Seq(T)]
  <2> SUFFICES ASSUME NEW x \in (1 .. N) \X Seq(T) PROVE x[2] \o ss[x[1]] \in Seq(T)
    OBVIOUS
  <2>1. x[1] \in 1 .. N /\ x[2] \in Seq(T) /\ ss[x[1]] \in Seq(T)
    BY <1>1
  <2> QED BY <2>1, ConcatProperties
<1> HIDE DEF step, N
<1>3. PICK h : IsHistory(h, N, Seq(T), <<>>, step)
  BY <1>1, <1>2, Iteration
<1>4. h \in [0 .. N -> Seq(T)] /\ h[0] = <<>> /\ \A n \in 1 .. N : h[n] = step[<<n, h[n - 1]>>]
  BY <1>3 DEF IsHistory
<1>5. \A n \in 1 .. N : h[n] = h[n - 1] \o ss[n]
  <2> SUFFICES ASSUME NEW n \in 1 .. N PROVE h[n] = h[n - 1] \o ss[n]
    OBVIOUS
  <2>1. <<n, h[n - 1]>> \in (1 .. N) \X Seq(T)
    <3>1. n - 1 \in 0 .. N
      BY <1>1
    <3> QED BY <1>4, <3>1
  <2>2. step[<<n, h[n - 1]>>] = h[n - 1] \o ss[n]
    BY <2>1 DEF step
  <2> QED BY <1>4, <2>2
<1>6. 1 \in 1 .. N /\ ss[1] \in Seq(T) /\ h[1] = h[0] \o ss[1]
  <2>1. 1 \in 1 .. N /\ 1 - 1 = 0
    BY <1>1
  <2> QED BY <1>1, <1>5, <2>1
<1> DEFINE g == [i \in 1 .. N |-> h[i]]
<1>7. Solves(g)
  <2>1. \A i \in 1 .. N : h[i] = Row(g, i)
    <3> SUFFICES ASSUME NEW i \in 1 .. N PROVE h[i] = Row(g, i)
      OBVIOUS
    <3>1. CASE i = 1
      <4>1. h[1] = <<>> \o ss[1] /\ ss[1] \in Seq(T)
        BY <1>4, <1>6
      <4> HIDE DEF g
      <4> QED BY <3>1, <4>1, ConcatEmptySeq
    <3>2. CASE i # 1
      <4>1. i - 1 \in 1 .. N
        BY <1>1, <3>2
      <4>2. g[i - 1] = h[i - 1]
        BY <4>1
      <4> HIDE DEF g
      <4> QED BY <1>5, <3>2, <4>2
    <3> QED BY <3>1, <3>2
  <2> QED BY <2>1
<1> DEFINE F == CHOOSE f : Solves(f)
<1>8. Solves(F)
  <2> HIDE DEF Solves, g
  <2> QED BY <1>7
<1>9. FlattenSeq(ss) = F[N]
  BY <1>1 DEF FlattenSeq, N
<1>10. \A i \in 1 .. N : F[i] = Row(F, i)
  <2> HIDE DEF F
  <2> QED BY <1>8
<1>11. \A i \in 1 .. N : F[i] = h[i]
  <2> HIDE DEF F, Solves, g, step
  <2> DEFINE Same == {m \in 0 .. N : m > 0 => F[m] = h[m]}
  <2>1. 0 \in Same
    BY <1>1
  <2>2. ASSUME NEW m \in 0 .. N - 1, m \in Same PROVE m + 1 \in Same
    <3>1. m \in Nat /\ m + 1 \in 1 .. N /\ (m + 1) - 1 = m
      BY <1>1
    <3>2. h[m + 1] = h[m] \o ss[m + 1]
      BY <1>5, <3>1
    <3>3. F[m + 1] = Row(F, m + 1)
      BY <1>10, <3>1
    <3>4. CASE m = 0
      <4>1. F[1] = ss[1] /\ h[1] = <<>> \o ss[1] /\ ss[1] \in Seq(T)
        <5>1. F[1] = Row(F, 1)
          BY <1>10, <1>6
        <5> QED BY <1>4, <1>6, <5>1
      <4>2. F[1] = h[1]
        BY <4>1, ConcatEmptySeq
      <4> QED BY <3>1, <3>4, <4>2
    <3>5. CASE m # 0
      <4>1. F[m + 1] = F[m] \o ss[m + 1]
        <5>1. m + 1 # 1
          BY <3>1, <3>5
        <5>2. Row(F, m + 1) = F[(m + 1) - 1] \o ss[m + 1]
          BY <5>1
        <5> QED BY <3>1, <3>3, <5>2
      <4>2. F[m] = h[m]
        BY <2>2, <3>1, <3>5
      <4>3. F[m + 1] = h[m + 1]
        BY <3>2, <4>1, <4>2
      <4>4. m + 1 \in 0 .. N
        BY <1>1, <3>1
      <4> QED BY <4>3, <4>4
    <3> QED BY <3>4, <3>5
  <2>3. 0 .. N \subseteq Same
    <3> HIDE DEF Same
    <3> QED BY <1>1, <2>1, <2>2, UpTo
  <2> QED BY <2>3
<1>12. FlattenSeq(ss) = h[N]
  <2> HIDE DEF F
  <2> QED BY <1>1, <1>9, <1>11
<1> QED BY <1>4, <1>5, <1>12 DEF N

\* flat has the elements of the sequences of ss, at those offsets.
IsFlat(flat, O, ss, T) ==
  /\ IsOffsets(O, ss)
  /\ flat \in Seq(T) /\ Len(flat) = O[Len(ss)]
  /\ \A p \in 1 .. Len(ss) : \A t \in 1 .. Len(ss[p]) :
       O[p - 1] + t \in 1 .. O[Len(ss)] /\ flat[O[p - 1] + t] = ss[p][t]

LEMMA Flattened ==
  ASSUME NEW T, NEW ss \in Seq(Seq(T))
  PROVE  \E O : IsFlat(FlattenSeq(ss), O, ss, T)
<1>1. CASE ss = <<>>
  <2> DEFINE O == [p \in 0 .. 0 |-> 0]
  <2>1. Len(ss) = 0 /\ FlattenSeq(ss) = <<>>
    BY <1>1 DEF FlattenSeq
  <2>2. IsOffsets(O, ss) /\ O[0] = 0
    BY <2>1 DEF IsOffsets
  <2>3. <<>> \in Seq(T) /\ Len(<<>>) = 0 /\ 1 .. 0 = {}
    OBVIOUS
  <2> HIDE DEF O
  <2> QED BY <2>1, <2>2, <2>3 DEF IsFlat
<1>2. CASE ss # <<>>
  <2> DEFINE N == Len(ss)
  <2>1. N \in Nat /\ \A p \in 1 .. N : ss[p] \in Seq(T) /\ Len(ss[p]) \in Nat
    OBVIOUS
  <2>2. PICK f \in [0 .. N -> Seq(T)] :
          f[0] = <<>> /\ (\A p \in 1 .. N : f[p] = f[p - 1] \o ss[p]) /\ FlattenSeq(ss) = f[N]
    BY <1>2, FlattenUnfolds
  <2> DEFINE O == [p \in 0 .. N |-> Len(f[p])]
  <2> HIDE DEF N
  <2>3. O \in [0 .. N -> Nat] /\ \A p \in 0 .. N : O[p] = Len(f[p]) /\ f[p] \in Seq(T)
    <3>1. \A p \in 0 .. N : f[p] \in Seq(T) /\ Len(f[p]) \in Nat
      BY <2>2, LenProperties
    <3> QED BY <3>1
  <2> HIDE DEF O
  <2>4. \A p \in 1 .. N : p - 1 \in 0 .. N /\ p \in 0 .. N
    BY <2>1
  <2>5. \A p \in 1 .. N : O[p] = O[p - 1] + Len(ss[p])
    <3> SUFFICES ASSUME NEW p \in 1 .. N PROVE O[p] = O[p - 1] + Len(ss[p])
      OBVIOUS
    <3>1. f[p - 1] \in Seq(T) /\ ss[p] \in Seq(T) /\ f[p] = f[p - 1] \o ss[p]
      BY <2>1, <2>2, <2>4
    <3>2. Len(f[p]) = Len(f[p - 1]) + Len(ss[p])
      BY <3>1, ConcatProperties
    <3> QED BY <2>3, <2>4, <3>2
  <2>6. O[0] = 0
    BY <2>1, <2>2, <2>3
  <2>7. IsOffsets(O, ss)
    BY <2>3, <2>5, <2>6 DEF IsOffsets, N
  <2> DEFINE Placed == {m \in 0 .. N : \A p \in 1 .. m : \A t \in 1 .. Len(ss[p]) :
                          O[p - 1] + t \in 1 .. O[m] /\ f[m][O[p - 1] + t] = ss[p][t]}
  <2>8. 0 \in Placed
    BY <2>1
  <2>9. ASSUME NEW m \in 0 .. N - 1, m \in Placed PROVE m + 1 \in Placed
    <3>1. m \in Nat /\ m \in 0 .. N /\ m + 1 \in 1 .. N /\ m + 1 \in 0 .. N /\ (m + 1) - 1 = m
      BY <2>1
    <3>2. f[m + 1] = f[m] \o ss[m + 1] /\ O[m + 1] = O[m] + Len(ss[m + 1])
      BY <2>2, <2>5, <3>1
    <3>3. /\ f[m] \in Seq(T) /\ ss[m + 1] \in Seq(T)
          /\ O[m] = Len(f[m]) /\ O[m] \in Nat /\ Len(ss[m + 1]) \in Nat
      BY <2>1, <2>3, <3>1
    <3>4. \A i \in 1 .. O[m + 1] : f[m + 1][i] = IF i <= O[m] THEN f[m][i] ELSE ss[m + 1][i - O[m]]
      BY <3>2, <3>3, ConcatProperties
    <3>5. O[m] \in Nat /\ O[m + 1] \in Nat /\ O[m] <= O[m + 1]
      <4> DEFINE small == O[m]
                 large == O[m + 1]
                 length == Len(ss[m + 1])
      <4>1. small \in Nat /\ length \in Nat /\ large = small + length
        BY <3>2, <3>3
      <4> HIDE DEF small, large, length
      <4>2. small \in Nat /\ large \in Nat /\ small <= large
        BY <4>1
      <4> QED BY <4>2 DEF small, large
    <3>7. ASSUME NEW p \in 1 .. m + 1, NEW t \in 1 .. Len(ss[p])
          PROVE  O[p - 1] + t \in 1 .. O[m + 1] /\ f[m + 1][O[p - 1] + t] = ss[p][t]
      <4>1. CASE p = m + 1
        <5>1. O[p - 1] + t \in 1 .. O[m + 1] /\ ~ (O[m] + t <= O[m]) /\ (O[m] + t) - O[m] = t
          BY <3>1, <3>2, <3>3, <4>1
        <5>2. f[m + 1][O[m] + t] = ss[m + 1][(O[m] + t) - O[m]]
          BY <3>1, <3>4, <4>1, <5>1
        <5> QED BY <3>1, <4>1, <5>1, <5>2
      <4>2. CASE p # m + 1
        <5>1. p \in 1 .. m
          BY <3>1, <4>2
        <5>2. O[p - 1] + t \in 1 .. O[m] /\ f[m][O[p - 1] + t] = ss[p][t]
          BY <2>9, <5>1
        <5>3. O[p - 1] + t \in 1 .. O[m + 1] /\ O[p - 1] + t <= O[m]
          <6> DEFINE at == O[p - 1] + t
                     small == O[m]
                     large == O[m + 1]
          <6>1. at \in 1 .. small /\ small \in Nat /\ large \in Nat /\ small <= large
            BY <3>5, <5>2
          <6> HIDE DEF at, small, large
          <6>2. at \in 1 .. large /\ at <= small
            BY <6>1
          <6> QED BY <6>2 DEF at, small, large
        <5> QED BY <3>4, <5>2, <5>3
      <4> QED BY <4>1, <4>2
    <3> QED BY <3>1, <3>7
  <2>10. N \in Placed
    <3> HIDE DEF Placed
    <3>1. 0 .. N \subseteq Placed
      BY <2>1, <2>8, <2>9, UpTo
    <3> QED BY <2>1, <3>1
  <2>11. FlattenSeq(ss) \in Seq(T) /\ Len(FlattenSeq(ss)) = O[N]
    BY <2>1, <2>2, <2>3
  <2> HIDE DEF O
  <2>12. \A p \in 1 .. N : \A t \in 1 .. Len(ss[p]) :
           O[p - 1] + t \in 1 .. O[N] /\ FlattenSeq(ss)[O[p - 1] + t] = ss[p][t]
    BY <2>2, <2>10
  <2> QED BY <2>7, <2>11, <2>12 DEF N, IsFlat
<1> QED BY <1>1, <1>2

-----------------------------------------------------------------------------
(***************************************************************************)
(* Lists: what is a sequence of its own elements.                          *)
(***************************************************************************)
IsList(s) == s \in Seq(Range(s))

LEMMA ListIs ==
  ASSUME NEW s, IsList(s)
  PROVE  Len(s) \in Nat /\ DOMAIN s = 1 .. Len(s) /\ s \in [1 .. Len(s) -> Range(s)]
  BY DEF IsList

LEMMA FunctionIsList ==
  ASSUME NEW n \in Nat, NEW U, NEW s \in [1 .. n -> U]
  PROVE  IsList(s) /\ Len(s) = n
<1>1. s \in [1 .. n -> Range(s)]
  BY DEF Range
<1> QED BY <1>1 DEF IsList

LEMMA SequenceIsList == ASSUME NEW U, NEW s \in Seq(U) PROVE IsList(s)
<1>1. Len(s) \in Nat /\ s \in [1 .. Len(s) -> U]
  OBVIOUS
<1> QED BY <1>1, FunctionIsList

LEMMA ListConcat ==
  ASSUME NEW s, NEW t, IsList(s), IsList(t)
  PROVE  IsList(s \o t) /\ Len(s \o t) = Len(s) + Len(t)
<1> DEFINE U == Range(s) \cup Range(t)
<1>1. s \in [1 .. Len(s) -> U] /\ t \in [1 .. Len(t) -> U] /\ Len(s) \in Nat /\ Len(t) \in Nat
  BY ListIs
<1> HIDE DEF U
<1>2. s \in Seq(U) /\ t \in Seq(U)
  BY <1>1
<1>3. s \o t \in Seq(U) /\ Len(s \o t) = Len(s) + Len(t)
  BY <1>2, ConcatProperties
<1> QED BY <1>3, SequenceIsList

LEMMA OneInSeq == ASSUME NEW U, NEW x \in U PROVE <<x>> \in Seq(U)
  OBVIOUS

LEMMA OneIsList == \A x : IsList(<<x>>) /\ Len(<<x>>) = 1
<1> SUFFICES ASSUME NEW x PROVE IsList(<<x>>) /\ Len(<<x>>) = 1
  OBVIOUS
<1>1. <<x>> \in Seq({x}) /\ Len(<<x>>) = 1
  OBVIOUS
<1> QED BY <1>1, SequenceIsList

LEMMA EmptyIsList == IsList(<<>>) /\ Len(<<>>) = 0
<1>1. <<>> \in Seq({}) /\ Len(<<>>) = 0
  OBVIOUS
<1> QED BY <1>1, SequenceIsList

LEMMA ListsFlatten ==
  ASSUME NEW ss, IsList(ss), \A k \in DOMAIN ss : IsList(ss[k])
  PROVE  IsList(FlattenSeq(ss)) /\ \E O, T : IsFlat(FlattenSeq(ss), O, ss, T)
<1> DEFINE T == UNION {Range(ss[k]) : k \in DOMAIN ss}
<1>1. \A k \in DOMAIN ss : ss[k] \in Seq(T)
  <2> SUFFICES ASSUME NEW k \in DOMAIN ss PROVE ss[k] \in Seq(T)
    OBVIOUS
  <2>1. Range(ss[k]) \subseteq T
    OBVIOUS
  <2>2. Len(ss[k]) \in Nat /\ ss[k] \in [1 .. Len(ss[k]) -> Range(ss[k])]
    BY ListIs
  <2> HIDE DEF T
  <2>3. ss[k] \in [1 .. Len(ss[k]) -> T]
    BY <2>1, <2>2
  <2> QED BY <2>2, <2>3
<1> HIDE DEF T
<1>2. Len(ss) \in Nat /\ ss \in [1 .. Len(ss) -> Seq(T)]
  <2>1. Len(ss) \in Nat /\ DOMAIN ss = 1 .. Len(ss) /\ ss \in [1 .. Len(ss) -> Range(ss)]
    BY ListIs
  <2> QED BY <1>1, <2>1
<1>3. ss \in Seq(Seq(T))
  BY <1>2
<1>4. PICK O : IsFlat(FlattenSeq(ss), O, ss, T)
  BY <1>3, Flattened
<1> QED BY <1>4, SequenceIsList DEF IsFlat

\* What is made of each element of a list is a list of the same length.
LEMMA MappedIsList ==
  ASSUME NEW s, IsList(s), NEW f, DOMAIN f = DOMAIN s, f = [k \in DOMAIN s |-> f[k]]
  PROVE  IsList(f) /\ Len(f) = Len(s)
<1>1. Len(s) \in Nat /\ DOMAIN s = 1 .. Len(s)
  BY ListIs
<1>2. f \in [1 .. Len(s) -> Range(f)]
  BY <1>1 DEF Range
<1> QED BY <1>1, <1>2, FunctionIsList

\* The lists of each element, one after the other.
LEMMA FlatMapIsList ==
  ASSUME NEW s, IsList(s), NEW f, DOMAIN f = DOMAIN s, f = [k \in DOMAIN s |-> f[k]],
         \A k \in DOMAIN s : IsList(f[k])
  PROVE  IsList(FlattenSeq(f))
<1>1. IsList(f)
  BY MappedIsList
<1> QED BY <1>1, ListsFlatten

-----------------------------------------------------------------------------
(***************************************************************************)
(* The branch glyphs.  The calls of emitNode left never go deeper from one *)
(* to the next, and each hangs from a row that no row after it has closed; *)
(* the row of a branch has a corner unless another branch of its parent    *)
(* follows, as a row or, while the parent is not closed, as a call.        *)
(***************************************************************************)
IsBare(row) == row.connector = ""
DepthOf(row) == Len(row.prefix) + (IF IsBare(row) THEN 0 ELSE 1)
HasGlyph(row) == row.connector \in {"", "tee", "corner"}
IsBranch(row) == row.kind # "gap"

\* From place i on up to place j no row is shallower than d.
NoneAbove(r, i, j, d) == \A m \in i .. j : IsBranch(r[m]) => DepthOf(r[m]) >= d

\* Row j is the one that a branch at depth d in place i hangs from.
HangsFrom(r, i, d, j) ==
  j < i /\ r[j].kind = "node" /\ DepthOf(r[j]) = d - 1 /\ NoneAbove(r, j + 1, i - 1, d)
Follows(r, i, j) == i < j /\ IsBranch(r[j]) /\ DepthOf(r[j]) = DepthOf(r[i]) /\ NoneAbove(r, i + 1, j, DepthOf(r[i]))

CallsNest(p) ==
  \A k \in DOMAIN p :
    /\ DepthOf(p[k]) \in Nat /\ HasGlyph(p[k]) /\ (DepthOf(p[k]) = 0 <=> IsBare(p[k]))
    /\ \A g \in DOMAIN p[k].gap : p[k].gap[g].kind = "gap"
    /\ \A l \in DOMAIN p : k < l => DepthOf(p[k]) >= DepthOf(p[l])
    /\ p[k].connector = "corner" <=> DepthOf(p[k]) # 0 /\ \A l \in DOMAIN p : k < l => DepthOf(p[l]) # DepthOf(p[k])
CallsHang(r, p) ==
  \A k \in DOMAIN p : DepthOf(p[k]) # 0 => \E j \in DOMAIN r : HangsFrom(r, Len(r) + 1, DepthOf(p[k]), j)
RowsHang(r) ==
  \A i \in DOMAIN r : IsBranch(r[i]) =>
    DepthOf(r[i]) \in Nat /\ (DepthOf(r[i]) # 0 => \E j \in DOMAIN r : HangsFrom(r, i, DepthOf(r[i]), j))
CornersClose(r, p) ==
  \A i \in DOMAIN r : IsBranch(r[i]) /\ DepthOf(r[i]) # 0 =>
    (r[i].connector = "corner" <=>
       /\ ~ \E j \in DOMAIN r : Follows(r, i, j)
       /\ ~ /\ NoneAbove(r, i + 1, Len(r), DepthOf(r[i]))
            /\ \E k \in DOMAIN p : DepthOf(p[k]) = DepthOf(r[i]))
GlyphInv(r, p) == CallsNest(p) /\ CallsHang(r, p) /\ RowsHang(r) /\ CornersClose(r, p)

\* s holds the row of a node with its types, after l others; d is its depth.
NodeRows(s, l, T, C, d) ==
  /\ s[l].kind = "node" /\ DepthOf(s[l]) = d
  /\ \A t \in 1 .. T : /\ s[l + t].kind = "type" /\ DepthOf(s[l + t]) = d + 1
                       /\ s[l + t].connector = "corner" <=> t = T /\ C = 0
\* p starts with the calls for the children of such a node.
ChildCallsFirst(p, C, d) ==
  \A c \in 1 .. C :
    /\ DepthOf(p[c]) = d + 1 /\ p[c].connector \in {"tee", "corner"}
    /\ \A g \in DOMAIN p[c].gap : p[c].gap[g].kind = "gap"
    /\ p[c].connector = "corner" <=> c = C

LEMMA PlacesSplit ==
  ASSUME NEW L \in Nat, NEW N \in Nat, NEW M \in Nat, L < N, N <= M, NEW j \in Nat, NEW m \in j .. M
  PROVE  m \in j .. L \/ m \in L + 1 .. N - 1 \/ m = N \/ m \in N + 1 .. M
  OBVIOUS

\* One round of emitNode: r and p are the rows and calls before, s and q those
\* after, with the call's row in place N, its T types and its C children.
GrowsBy(r, p, s, q, L, G, T, C, P, N, d) ==
  /\ N = L + G + 1 /\ d = DepthOf(p[1])
  /\ DOMAIN r = 1 .. L /\ Len(r) = L /\ DOMAIN p = 1 .. P + 1
  /\ DOMAIN s = 1 .. N + T /\ Len(s) = N + T /\ DOMAIN q = 1 .. C + P
  /\ \A i \in 1 .. L : s[i] = r[i]
  /\ \A i \in 1 .. G : s[L + i].kind = "gap"
  /\ NodeRows(s, N, T, C, d) /\ s[N].connector = p[1].connector
  /\ ChildCallsFirst(q, C, d)
  /\ \A k \in 1 .. P : q[C + k] = p[k + 1]

\* Such a round keeps the glyphs right.
LEMMA GlyphsGrow ==
  ASSUME NEW r, NEW p, GlyphInv(r, p), NEW s, NEW q,
         NEW L \in Nat, NEW G \in Nat, NEW T \in Nat, NEW C \in Nat, NEW P \in Nat, NEW N \in Nat, NEW d \in Nat,
         GrowsBy(r, p, s, q, L, G, T, C, P, N, d)
  PROVE  GlyphInv(s, q)
<1>0. /\ N = L + G + 1 /\ d = DepthOf(p[1])
      /\ DOMAIN r = 1 .. L /\ Len(r) = L /\ DOMAIN p = 1 .. P + 1
      /\ DOMAIN s = 1 .. N + T /\ Len(s) = N + T /\ DOMAIN q = 1 .. C + P
      /\ \A i \in 1 .. L : s[i] = r[i]
      /\ \A i \in 1 .. G : s[L + i].kind = "gap"
      /\ NodeRows(s, N, T, C, d) /\ s[N].connector = p[1].connector
      /\ ChildCallsFirst(q, C, d)
      /\ \A k \in 1 .. P : q[C + k] = p[k + 1]
  BY DEF GrowsBy
<1> USE <1>0
<1> DEFINE E(i) == DepthOf(s[i])
           B(i) == IsBranch(s[i])
           F(k) == DepthOf(q[k])
           Corner(i) == s[i].connector = "corner"
           Left(e) == \E k \in C + 1 .. C + P : F(k) = e
           None(i, j, e) == \A m \in i .. j : B(m) => E(m) >= e
           Hangs(i, e, j) == j < i /\ s[j].kind = "node" /\ E(j) = e - 1 /\ None(j + 1, i - 1, e)
           After(i, j) == i < j /\ B(j) /\ E(j) = E(i) /\ None(i + 1, j, E(i))
<1>1. \A i \in L + 1 .. N - 1 : ~ B(i)
  <2> SUFFICES ASSUME NEW i \in L + 1 .. N - 1 PROVE s[i].kind = "gap"
    BY DEF IsBranch
  <2>1. i - L \in 1 .. G /\ L + (i - L) = i
    OBVIOUS
  <2> QED BY <2>1
<1>2. B(N) /\ E(N) = d /\ s[N].kind = "node"
  BY DEF NodeRows, IsBranch
<1>3. \A i \in N + 1 .. N + T : B(i) /\ E(i) = d + 1 /\ (Corner(i) <=> i = N + T /\ C = 0)
  <2> SUFFICES ASSUME NEW i \in N + 1 .. N + T
               PROVE  B(i) /\ E(i) = d + 1 /\ (Corner(i) <=> i = N + T /\ C = 0)
    OBVIOUS
  <2>1. PICK t \in 1 .. T : i = N + t
    <3>1. i - N \in 1 .. T /\ i = N + (i - N)
      OBVIOUS
    <3> QED BY <3>1
  <2>2. s[i].kind = "type" /\ E(i) = d + 1 /\ (Corner(i) <=> t = T /\ C = 0)
    BY <2>1 DEF NodeRows
  <2>3. B(i)
    BY <2>2 DEF IsBranch
  <2>4. t = T <=> i = N + T
    BY <2>1
  <2> QED BY <2>2, <2>3, <2>4
<1>4. \A k \in 1 .. C : F(k) = d + 1
  BY DEF ChildCallsFirst
<1>5. \A k \in C + 1 .. C + P : k - C \in 1 .. P /\ k - C + 1 \in 2 .. P + 1 /\ q[k] = p[k - C + 1]
  <2> SUFFICES ASSUME NEW k \in C + 1 .. C + P
               PROVE  k - C \in 1 .. P /\ k - C + 1 \in 2 .. P + 1 /\ q[k] = p[k - C + 1]
    OBVIOUS
  <2>1. k - C \in 1 .. P /\ k - C + 1 \in 2 .. P + 1 /\ C + (k - C) = k
    OBVIOUS
  <2> QED BY <2>1
<1>6. \A k \in 1 .. P + 1 : DepthOf(p[k]) \in Nat /\ DepthOf(p[k]) <= d
  <2> SUFFICES ASSUME NEW k \in 1 .. P + 1 PROVE DepthOf(p[k]) \in Nat /\ DepthOf(p[k]) <= d
    OBVIOUS
  <2>1. CallsNest(p) /\ 1 \in 1 .. P + 1
    BY DEF GlyphInv
  <2>2. DepthOf(p[k]) \in Nat /\ (1 < k => d >= DepthOf(p[k]))
    BY <2>1, Zenon DEF CallsNest
  <2>3. k = 1 => DepthOf(p[k]) = d
    OBVIOUS
  <2> QED BY <2>2, <2>3
<1>7. \A k \in C + 1 .. C + P : F(k) \in Nat /\ F(k) <= d
  BY <1>5, <1>6
<1>8. CallsNest(q)
  <2> SUFFICES ASSUME NEW k \in 1 .. C + P
               PROVE  /\ F(k) \in Nat /\ HasGlyph(q[k]) /\ (F(k) = 0 <=> IsBare(q[k]))
                      /\ \A g \in DOMAIN q[k].gap : q[k].gap[g].kind = "gap"
                      /\ \A l \in 1 .. C + P : k < l => F(k) >= F(l)
                      /\ q[k].connector = "corner" <=> F(k) # 0 /\ \A l \in 1 .. C + P : k < l => F(l) # F(k)
    BY DEF CallsNest
  <2>1. CASE k \in 1 .. C
    <3>1. F(k) = d + 1 /\ q[k].connector \in {"tee", "corner"} /\ (q[k].connector = "corner" <=> k = C)
          /\ \A g \in DOMAIN q[k].gap : q[k].gap[g].kind = "gap"
      BY <2>1 DEF ChildCallsFirst
    <3>2. \A l \in 1 .. C + P : F(l) \in Nat /\ F(l) <= d + 1 /\ (F(l) = d + 1 <=> l \in 1 .. C)
      <4> SUFFICES ASSUME NEW l \in 1 .. C + P PROVE F(l) \in Nat /\ F(l) <= d + 1 /\ (F(l) = d + 1 <=> l \in 1 .. C)
        OBVIOUS
      <4>1. l \in 1 .. C \/ l \in C + 1 .. C + P
        OBVIOUS
      <4>2. l \in 1 .. C => F(l) = d + 1
        BY <1>4
      <4>3. l \in C + 1 .. C + P => F(l) \in Nat /\ F(l) <= d /\ l \notin 1 .. C
        BY <1>7
      <4> HIDE DEF F
      <4> QED BY <4>1, <4>2, <4>3
    <3> HIDE DEF F
    <3>3. k = C <=> \A l \in 1 .. C + P : k < l => F(l) # F(k)
      <4>1. k # C => k + 1 \in 1 .. C + P /\ k < k + 1 /\ k + 1 \in 1 .. C
        BY <2>1
      <4>2. k # C => F(k + 1) = F(k)
        BY <3>1, <3>2, <4>1
      <4>3. k = C => \A l \in 1 .. C + P : k < l => l \notin 1 .. C
        OBVIOUS
      <4> QED BY <3>1, <3>2, <4>1, <4>2, <4>3
    <3>4. F(k) # 0 /\ F(k) \in Nat
      BY <3>1
    <3>5. ~ IsBare(q[k]) /\ HasGlyph(q[k])
      <4>1. q[k].connector = "tee" \/ q[k].connector = "corner"
        BY <3>1
      <4> QED BY <4>1, Zenon DEF IsBare, HasGlyph
    <3>6. \A l \in 1 .. C + P : F(k) >= F(l)
      BY <3>1, <3>2
    <3> QED BY <3>1, <3>3, <3>4, <3>5, <3>6, Zenon
  <2>2. CASE k \in C + 1 .. C + P
    <3>1. PICK k1 \in 2 .. P + 1 : k1 = k - C + 1 /\ q[k] = p[k1]
      BY <1>5, <2>2
    <3>2. /\ F(k) \in Nat /\ HasGlyph(q[k]) /\ (F(k) = 0 <=> IsBare(q[k]))
          /\ \A g \in DOMAIN q[k].gap : q[k].gap[g].kind = "gap"
          /\ \A l \in 1 .. P + 1 : k1 < l => F(k) >= DepthOf(p[l])
          /\ q[k].connector = "corner" <=> F(k) # 0 /\ \A l \in 1 .. P + 1 : k1 < l => DepthOf(p[l]) # F(k)
      <4>1. k1 \in 1 .. P + 1
        OBVIOUS
      <4>2. CallsNest(p)
        BY DEF GlyphInv
      <4>3. /\ DepthOf(p[k1]) \in Nat /\ HasGlyph(p[k1]) /\ (DepthOf(p[k1]) = 0 <=> IsBare(p[k1]))
            /\ \A g \in DOMAIN p[k1].gap : p[k1].gap[g].kind = "gap"
            /\ \A l \in 1 .. P + 1 : k1 < l => DepthOf(p[k1]) >= DepthOf(p[l])
            /\ p[k1].connector = "corner"
                 <=> DepthOf(p[k1]) # 0 /\ \A l \in 1 .. P + 1 : k1 < l => DepthOf(p[l]) # DepthOf(p[k1])
        BY <4>1, <4>2, Zenon DEF CallsNest
      <4>4. F(k) = DepthOf(p[k1])
        BY <3>1
      <4> HIDE DEF F
      <4> QED BY <3>1, <4>3, <4>4, Zenon
    <3>3. \A l \in 1 .. C + P : k < l => l - C + 1 \in 1 .. P + 1 /\ k1 < l - C + 1 /\ q[l] = p[l - C + 1]
      <4> SUFFICES ASSUME NEW l \in 1 .. C + P, k < l
                   PROVE  l - C + 1 \in 1 .. P + 1 /\ k1 < l - C + 1 /\ q[l] = p[l - C + 1]
        OBVIOUS
      <4>1. l \in C + 1 .. C + P
        BY <2>2
      <4> QED BY <1>5, <3>1, <4>1
    <3>4. \A l \in 1 .. P + 1 : k1 < l => \E m \in 1 .. C + P : k < m /\ q[m] = p[l]
      <4> SUFFICES ASSUME NEW l \in 1 .. P + 1, k1 < l PROVE \E m \in 1 .. C + P : k < m /\ q[m] = p[l]
        OBVIOUS
      <4>1. C + l - 1 \in C + 1 .. C + P /\ (C + l - 1) - C + 1 = l /\ k < C + l - 1 /\ C + l - 1 \in 1 .. C + P
        BY <3>1
      <4> QED BY <1>5, <4>1
    <3>5. \A l \in 1 .. C + P : k < l => F(k) >= F(l)
      BY <3>2, <3>3
    <3>6. (\A l \in 1 .. P + 1 : k1 < l => DepthOf(p[l]) # F(k)) <=> \A l \in 1 .. C + P : k < l => F(l) # F(k)
      <4>1. PICK e : e = F(k)
        OBVIOUS
      <4>2. ASSUME \A l \in 1 .. P + 1 : k1 < l => DepthOf(p[l]) # e, NEW l \in 1 .. C + P, k < l
            PROVE  DepthOf(q[l]) # e
        BY <3>3, <4>2
      <4>3. ASSUME \A l \in 1 .. C + P : k < l => DepthOf(q[l]) # e, NEW l \in 1 .. P + 1, k1 < l
            PROVE  DepthOf(p[l]) # e
        <5>1. PICK m \in 1 .. C + P : k < m /\ q[m] = p[l]
          BY <3>4, <4>3
        <5> QED BY <4>3, <5>1
      <4> QED BY <4>1, <4>2, <4>3, Zenon
    <3> HIDE DEF F
    <3> QED BY <3>2, <3>5, <3>6, Zenon
  <2>3. k \in 1 .. C \/ k \in C + 1 .. C + P
    OBVIOUS
  <2> QED BY <2>1, <2>2, <2>3
<1>9. \A i \in 1 .. L : B(i) = IsBranch(r[i]) /\ E(i) = DepthOf(r[i]) /\ s[i] = r[i]
  OBVIOUS
<1>10. \A i, j, e : HangsFrom(s, i, e, j) <=> Hangs(i, e, j)
  BY DEF HangsFrom, NoneAbove
<1>11. \A i, j : Follows(s, i, j) <=> After(i, j)
  BY DEF Follows, NoneAbove
\* The old invariant, in terms of the new rows.
<1>12. \A i \in 1 .. L : B(i) => E(i) \in Nat /\ (E(i) # 0 => \E j \in 1 .. L : Hangs(i, E(i), j))
  <2> SUFFICES ASSUME NEW i \in 1 .. L, B(i)
               PROVE  E(i) \in Nat /\ (E(i) # 0 => \E j \in 1 .. L : Hangs(i, E(i), j))
    OBVIOUS
  <2>1. E(i) \in Nat /\ (E(i) # 0 => \E j \in 1 .. L : HangsFrom(r, i, E(i), j))
    BY <1>9 DEF GlyphInv, RowsHang
  <2>2. ASSUME NEW j \in 1 .. L, HangsFrom(r, i, E(i), j) PROVE Hangs(i, E(i), j)
    <3>1. /\ j < i /\ r[j].kind = "node" /\ DepthOf(r[j]) = E(i) - 1
          /\ \A m \in j + 1 .. i - 1 : IsBranch(r[m]) => DepthOf(r[m]) >= E(i)
      BY <2>2 DEF HangsFrom, NoneAbove
    <3>2. \A m \in j + 1 .. i - 1 : m \in 1 .. L
      OBVIOUS
    <3>3. s[j] = r[j] /\ E(j) = DepthOf(r[j])
      OBVIOUS
    <3>4. None(j + 1, i - 1, E(i))
      BY <1>9, <3>1, <3>2
    <3> QED BY <3>1, <3>3, <3>4
  <2> HIDE DEF Hangs
  <2> QED BY <2>1, <2>2
<1>13. \A k \in 1 .. P + 1 : DepthOf(p[k]) # 0 =>
          \E j \in 1 .. L : s[j].kind = "node" /\ E(j) = DepthOf(p[k]) - 1 /\ None(j + 1, L, DepthOf(p[k]))
  <2> SUFFICES ASSUME NEW k \in 1 .. P + 1, DepthOf(p[k]) # 0
               PROVE  \E j \in 1 .. L : s[j].kind = "node" /\ E(j) = DepthOf(p[k]) - 1 /\ None(j + 1, L, DepthOf(p[k]))
    OBVIOUS
  <2>1. PICK j \in 1 .. L : HangsFrom(r, L + 1, DepthOf(p[k]), j)
    BY DEF GlyphInv, CallsHang
  <2>2. /\ r[j].kind = "node" /\ DepthOf(r[j]) = DepthOf(p[k]) - 1
        /\ \A m \in j + 1 .. L : IsBranch(r[m]) => DepthOf(r[m]) >= DepthOf(p[k])
    <3>1. (L + 1) - 1 = L
      OBVIOUS
    <3> QED BY <2>1, <3>1 DEF HangsFrom, NoneAbove
  <2>3. s[j] = r[j] /\ E(j) = DepthOf(r[j])
    OBVIOUS
  <2>4. None(j + 1, L, DepthOf(p[k]))
    <3>1. \A m \in j + 1 .. L : m \in 1 .. L
      OBVIOUS
    <3> QED BY <1>9, <2>2, <3>1
  <2> HIDE DEF None
  <2> QED BY <2>2, <2>3, <2>4
<1>14. \A i \in 1 .. L : B(i) /\ E(i) # 0 =>
          (Corner(i) <=> /\ ~ \E j \in 1 .. L : After(i, j)
                         /\ ~ (None(i + 1, L, E(i)) /\ \E k \in 1 .. P + 1 : DepthOf(p[k]) = E(i)))
  <2> SUFFICES ASSUME NEW i \in 1 .. L, B(i), E(i) # 0
               PROVE  Corner(i) <=> /\ ~ \E j \in 1 .. L : After(i, j)
                                    /\ ~ (None(i + 1, L, E(i)) /\ \E k \in 1 .. P + 1 : DepthOf(p[k]) = E(i))
    OBVIOUS
  <2>1. Corner(i) <=> /\ ~ \E j \in 1 .. L : Follows(r, i, j)
                      /\ ~ (NoneAbove(r, i + 1, L, E(i)) /\ \E k \in 1 .. P + 1 : DepthOf(p[k]) = E(i))
    BY <1>9, ZenonT(30) DEF GlyphInv, CornersClose
  <2>2. ASSUME NEW j \in 1 .. L PROVE NoneAbove(r, i + 1, j, E(i)) <=> None(i + 1, j, E(i))
    <3>1. \A m \in i + 1 .. j : m \in 1 .. L
      BY SMTT(30)
    <3> QED BY <1>9, <3>1 DEF NoneAbove
  <2>3. L \in 1 .. L
    OBVIOUS
  <2>4. \A j \in 1 .. L : Follows(r, i, j) <=> After(i, j)
    <3> HIDE DEF None
    <3> QED BY <1>9, <2>2 DEF Follows
  <2> HIDE DEF None, After, Corner
  <2> QED BY <2>1, <2>2, <2>3, <2>4
\* From here on the rows are looked at through their depths only.
<1>15. \A i \in 1 .. N + T : i \in 1 .. L \/ i \in L + 1 .. N - 1 \/ i = N \/ i \in N + 1 .. N + T
  OBVIOUS
<1>16. L < N /\ N \in 1 .. N + T
  OBVIOUS
<1>17. (Corner(N) <=> d # 0 /\ ~ Left(d)) /\ \A e : Left(e) <=> \E k \in 2 .. P + 1 : DepthOf(p[k]) = e
  <2>1. ASSUME NEW e PROVE Left(e) <=> \E k \in 2 .. P + 1 : DepthOf(p[k]) = e
    <3>1. Left(e) => \E k \in 2 .. P + 1 : DepthOf(p[k]) = e
      BY <1>5
    <3>2. ASSUME NEW k \in 2 .. P + 1, DepthOf(p[k]) = e PROVE Left(e)
      <4>1. C + k - 1 \in C + 1 .. C + P /\ (C + k - 1) - C + 1 = k
        OBVIOUS
      <4>2. q[C + k - 1] = p[k]
        BY <1>5, <4>1
      <4> QED BY <3>2, <4>1, <4>2
    <3> HIDE DEF Left
    <3> QED BY <3>1, <3>2
  <2>2. p[1].connector = "corner" <=> d # 0 /\ \A l \in 1 .. P + 1 : 1 < l => DepthOf(p[l]) # d
    <3>1. 1 \in 1 .. P + 1
      OBVIOUS
    <3> QED BY <3>1 DEF GlyphInv, CallsNest
  <2>3. (\A l \in 1 .. P + 1 : 1 < l => DepthOf(p[l]) # d) <=> ~ \E k \in 2 .. P + 1 : DepthOf(p[k]) = d
    <3>1. \A l \in 1 .. P + 1 : 1 < l <=> l \in 2 .. P + 1
      OBVIOUS
    <3>2. \A l \in 2 .. P + 1 : l \in 1 .. P + 1
      OBVIOUS
    <3> QED BY <3>1, <3>2
  <2> HIDE DEF Left
  <2> QED BY <2>1, <2>2, <2>3
<1>18. \A e : Left(e) => e \in Nat /\ e <= d
  BY <1>7
<1>19. \A e : (\E k \in 1 .. P + 1 : DepthOf(p[k]) = e) <=> e = d \/ Left(e)
  <2> HIDE DEF Left
  <2>1. \A k \in 1 .. P + 1 : k = 1 \/ k \in 2 .. P + 1
    OBVIOUS
  <2>2. 1 \in 1 .. P + 1 /\ \A k \in 2 .. P + 1 : k \in 1 .. P + 1
    OBVIOUS
  <2> QED BY <1>17, <2>1, <2>2
<1>20. \A e : (\E k \in 1 .. C + P : F(k) = e) <=> (e = d + 1 /\ C # 0) \/ Left(e)
  <2>1. \A k \in 1 .. C + P : k \in 1 .. C \/ k \in C + 1 .. C + P
    OBVIOUS
  <2>2. (\A k \in 1 .. C : k \in 1 .. C + P /\ C # 0) /\ (\A k \in C + 1 .. C + P : k \in 1 .. C + P)
    OBVIOUS
  <2>3. C # 0 => 1 \in 1 .. C
    OBVIOUS
  <2> HIDE DEF F
  <2> QED BY <1>4, <2>1, <2>2, <2>3
<1> HIDE DEF E, B, F, Corner, Left
<1>21. CallsHang(s, q)
  <2> SUFFICES ASSUME NEW k \in 1 .. C + P, F(k) # 0 PROVE \E j \in 1 .. N + T : Hangs(N + T + 1, F(k), j)
    BY <1>10 DEF CallsHang, F
  <2>1. CASE k \in 1 .. C
    <3>1. F(k) = d + 1
      BY <1>4, <2>1
    <3>2. None(N + 1, N + T, d + 1)
      BY <1>3
    <3>3. Hangs(N + T + 1, d + 1, N)
      <4>1. (N + T + 1) - 1 = N + T /\ N < N + T + 1 /\ (d + 1) - 1 = d
        OBVIOUS
      <4> HIDE DEF None
      <4> QED BY <1>2, <3>2, <4>1
    <3> HIDE DEF Hangs
    <3> QED BY <1>16, <3>1, <3>3
  <2>2. CASE k \in C + 1 .. C + P
    <3>1. PICK e \in Nat : e = F(k) /\ e <= d /\ e # 0
      BY <1>7, <2>2
    <3>2. PICK k1 \in 1 .. P + 1 : DepthOf(p[k1]) = e
      <4>1. Left(e)
        BY <2>2, <3>1 DEF Left
      <4> QED BY <1>19, <4>1
    <3>3. PICK j \in 1 .. L : s[j].kind = "node" /\ E(j) = e - 1 /\ None(j + 1, L, e)
      BY <1>13, <3>1, <3>2
    <3>4. None(j + 1, N + T, e)
      <4> SUFFICES ASSUME NEW m \in j + 1 .. N + T, B(m) PROVE E(m) >= e
        OBVIOUS
      <4>1. m \in j + 1 .. L \/ m \in L + 1 .. N - 1 \/ m = N \/ m \in N + 1 .. N + T
        <5>1. N + T \in Nat /\ N <= N + T /\ j + 1 \in Nat
          OBVIOUS
        <5> QED BY <1>16, <5>1, PlacesSplit
      <4>2. m \in j + 1 .. L => E(m) >= e
        BY <3>3
      <4>3. m = N => E(m) >= e
        BY <1>2, <3>1
      <4>4. m \in N + 1 .. N + T => E(m) >= e
        BY <1>3, <3>1
      <4> QED BY <1>1, <4>1, <4>2, <4>3, <4>4
    <3>5. Hangs(N + T + 1, e, j)
      <4>1. (N + T + 1) - 1 = N + T /\ j < N + T + 1
        BY <1>16
      <4> HIDE DEF None
      <4> QED BY <3>3, <3>4, <4>1
    <3>6. j \in 1 .. N + T
      BY <1>16
    <3> HIDE DEF Hangs
    <3> QED BY <3>1, <3>5, <3>6
  <2>3. k \in 1 .. C \/ k \in C + 1 .. C + P
    OBVIOUS
  <2> QED BY <2>1, <2>2, <2>3
<1>22. RowsHang(s)
  <2> SUFFICES ASSUME NEW i \in 1 .. N + T, B(i)
               PROVE  E(i) \in Nat /\ (E(i) # 0 => \E j \in 1 .. N + T : Hangs(i, E(i), j))
    BY <1>10 DEF RowsHang, B, E
  <2>1. CASE i \in 1 .. L
    <3>1. \A j \in 1 .. L : j \in 1 .. N + T
      BY <1>16
    <3> HIDE DEF Hangs
    <3> QED BY <1>12, <2>1, <3>1
  <2>2. CASE i = N
    <3>1. ASSUME d # 0 PROVE \E j \in 1 .. N + T : Hangs(N, d, j)
      <4>1. PICK j \in 1 .. L : s[j].kind = "node" /\ E(j) = d - 1 /\ None(j + 1, L, d)
        <5>1. 1 \in 1 .. P + 1
          OBVIOUS
        <5> HIDE DEF None
        <5> QED BY <1>13, <3>1, <5>1
      <4>2. None(j + 1, N - 1, d)
        <5> SUFFICES ASSUME NEW m \in j + 1 .. N - 1, B(m) PROVE E(m) >= d
          OBVIOUS
        <5>1. m \in j + 1 .. L \/ m \in L + 1 .. N - 1
          BY SMTT(30)
        <5> QED BY <1>1, <4>1, <5>1
      <4>3. j < N /\ j \in 1 .. N + T
        BY <1>16
      <4> HIDE DEF None
      <4> QED BY <4>1, <4>2, <4>3
    <3> HIDE DEF Hangs
    <3> QED BY <1>2, <2>2, <3>1
  <2>3. CASE i \in N + 1 .. N + T
    <3>1. None(N + 1, i - 1, d + 1)
      <4>1. \A m \in N + 1 .. i - 1 : m \in N + 1 .. N + T /\ d + 1 >= d + 1
        BY <2>3
      <4> QED BY <1>3, <4>1
    <3>2. Hangs(i, d + 1, N)
      <4>1. N < i /\ (d + 1) - 1 = d
        BY <2>3
      <4> HIDE DEF None
      <4> QED BY <1>2, <3>1, <4>1
    <3>3. E(i) = d + 1 /\ d + 1 \in Nat
      BY <1>3, <2>3
    <3> HIDE DEF Hangs
    <3> QED BY <1>16, <3>2, <3>3
  <2> QED BY <1>1, <1>15, <2>1, <2>2, <2>3
<1>23. CornersClose(s, q)
  <2> SUFFICES ASSUME NEW i \in 1 .. N + T, B(i), E(i) # 0
               PROVE  Corner(i) <=> /\ ~ \E j \in 1 .. N + T : After(i, j)
                                    /\ ~ (None(i + 1, N + T, E(i)) /\ \E k \in 1 .. C + P : F(k) = E(i))
    <3> SUFFICES ASSUME NEW i \in 1 .. N + T, IsBranch(s[i]), DepthOf(s[i]) # 0
                 PROVE  s[i].connector = "corner" <=>
                          /\ ~ \E j \in 1 .. N + T : Follows(s, i, j)
                          /\ ~ (NoneAbove(s, i + 1, N + T, DepthOf(s[i])) /\ \E k \in 1 .. C + P : DepthOf(q[k]) = DepthOf(s[i]))
      BY DEF CornersClose
    <3>1. NoneAbove(s, i + 1, N + T, DepthOf(s[i])) <=> None(i + 1, N + T, E(i))
      BY DEF NoneAbove, B, E
    <3>2. \A j : Follows(s, i, j) <=> After(i, j)
      BY <1>11
    <3> HIDE DEF After, None
    <3> QED BY <3>1, <3>2 DEF B, E, F, Corner
  <2>1. CASE i \in 1 .. L
    <3>1. PICK e \in Nat : e = E(i) /\ e # 0
      BY <1>12, <2>1
    <3>2. (\E j \in 1 .. N + T : After(i, j)) <=> (\E j \in 1 .. L : After(i, j)) \/ (None(i + 1, L, e) /\ e = d)
      <4>1. ASSUME NEW j \in N .. N + T, After(i, j) PROVE None(i + 1, L, e) /\ e = d
        <5>1. E(j) = e /\ \A m \in i + 1 .. j : B(m) => E(m) >= e
          BY <3>1, <4>1
        <5>2. N \in i + 1 .. j /\ \A m \in i + 1 .. L : m \in i + 1 .. j
          BY <1>16, <2>1
        <5>3. d >= e /\ None(i + 1, L, e)
          BY <1>2, <5>1, <5>2
        <5>4. E(j) = d \/ E(j) = d + 1
          <6>1. j = N \/ j \in N + 1 .. N + T
            OBVIOUS
          <6> QED BY <1>2, <1>3, <6>1
        <5> QED BY <5>1, <5>3, <5>4
      <4>2. ASSUME NEW j \in L + 1 .. N - 1 PROVE ~ After(i, j)
        BY <1>1
      <4>3. ASSUME None(i + 1, L, e), e = d PROVE After(i, N)
        <5>1. None(i + 1, N, e)
          <6> SUFFICES ASSUME NEW m \in i + 1 .. N, B(m) PROVE E(m) >= e
            OBVIOUS
          <6>1. m \in i + 1 .. L \/ m \in L + 1 .. N - 1 \/ m = N
            <7>1. m \in N + 1 .. N <=> FALSE
              OBVIOUS
            <7>2. i + 1 \in Nat /\ N <= N
              OBVIOUS
            <7> QED BY <1>16, <7>1, <7>2, PlacesSplit
          <6>2. m \in i + 1 .. L => E(m) >= e
            BY <4>3
          <6>3. m = N => E(m) >= e
            BY <1>2, <4>3
          <6> QED BY <1>1, <6>1, <6>2, <6>3
        <5>2. i < N
          BY <1>16, <2>1
        <5> HIDE DEF None
        <5> QED BY <1>2, <3>1, <4>3, <5>1, <5>2
      <4>4. \A j \in 1 .. N + T : j \in 1 .. L \/ j \in L + 1 .. N - 1 \/ j \in N .. N + T
        OBVIOUS
      <4>5. \A j \in 1 .. L : j \in 1 .. N + T
        BY <1>16
      <4> HIDE DEF After, None
      <4> QED BY <1>16, <4>1, <4>2, <4>3, <4>4, <4>5
    <3>3. None(i + 1, N + T, e) <=> None(i + 1, L, e) /\ e <= d
      <4>1. ASSUME None(i + 1, N + T, e) PROVE None(i + 1, L, e) /\ e <= d
        <5>1. N \in i + 1 .. N + T /\ \A m \in i + 1 .. L : m \in i + 1 .. N + T
          BY <1>16, <2>1
        <5> QED BY <1>2, <4>1, <5>1
      <4>2. ASSUME None(i + 1, L, e), e <= d, NEW m \in i + 1 .. N + T, B(m) PROVE E(m) >= e
        <5>1. m \in i + 1 .. L \/ m \in L + 1 .. N - 1 \/ m = N \/ m \in N + 1 .. N + T
          BY <1>16, PlacesSplit
        <5>2. m \in i + 1 .. L => E(m) >= e
          BY <4>2
        <5>3. m = N => E(m) >= e
          BY <1>2, <4>2
        <5>4. m \in N + 1 .. N + T => E(m) >= e
          BY <1>3, <4>2
        <5> QED BY <1>1, <4>2, <5>1, <5>2, <5>3, <5>4
      <4> QED BY <4>1, <4>2
    <3>4. Corner(i) <=> /\ ~ \E j \in 1 .. L : After(i, j)
                        /\ ~ (None(i + 1, L, e) /\ (e = d \/ Left(e)))
      <4> HIDE DEF After, None
      <4> QED BY <1>14, <1>19, <2>1, <3>1
    <3>5. (\E k \in 1 .. C + P : F(k) = e) <=> (e = d + 1 /\ C # 0) \/ Left(e)
      BY <1>20
    <3>6. Left(e) => e <= d
      BY <1>18
    <3>7. e = d => e <= d /\ e # d + 1
      BY <3>1
    <3>8. e <= d => e # d + 1
      BY <3>1
    <3> HIDE DEF After, None
    <3> QED BY <3>1, <3>2, <3>3, <3>4, <3>5, <3>6, <3>7, <3>8
  <2>2. CASE i = N
    <3>1. \A j \in 1 .. N + T : ~ After(N, j)
      <4> SUFFICES ASSUME NEW j \in 1 .. N + T, N < j PROVE E(j) # E(N)
        OBVIOUS
      <4>1. j \in N + 1 .. N + T
        OBVIOUS
      <4> QED BY <1>2, <1>3, <4>1
    <3>2. None(N + 1, N + T, d)
      <4>1. d + 1 >= d
        OBVIOUS
      <4> QED BY <1>3, <4>1
    <3>3. (\E k \in 1 .. C + P : F(k) = d) <=> Left(d)
      <4>1. d # d + 1
        OBVIOUS
      <4> QED BY <1>20, <4>1
    <3>4. E(N) = d /\ d # 0
      BY <1>2, <2>2
    <3> HIDE DEF After, None
    <3> QED BY <1>17, <2>2, <3>1, <3>2, <3>3, <3>4
  <2>3. CASE i \in N + 1 .. N + T
    <3>1. E(i) = d + 1 /\ (Corner(i) <=> i = N + T /\ C = 0)
      BY <1>3, <2>3
    <3>2. i # N + T => \E j \in 1 .. N + T : After(i, j)
      <4> SUFFICES ASSUME i # N + T PROVE i + 1 \in 1 .. N + T /\ After(i, i + 1)
        OBVIOUS
      <4>1. i + 1 \in 1 .. N + T /\ i + 1 \in N + 1 .. N + T /\ i < i + 1
        BY <2>3
      <4>2. \A m \in i + 1 .. i + 1 : m = i + 1
        BY <2>3
      <4>3. B(i + 1) /\ E(i + 1) = d + 1 /\ d + 1 >= d + 1
        BY <1>3, <4>1
      <4> QED BY <3>1, <4>1, <4>2, <4>3
    <3>3. i = N + T => ~ \E j \in 1 .. N + T : After(i, j)
      OBVIOUS
    <3>4. None(i + 1, N + T, d + 1)
      <4>1. d + 1 >= d + 1 /\ \A m \in i + 1 .. N + T : m \in N + 1 .. N + T
        BY <2>3
      <4> QED BY <1>3, <4>1
    <3>5. (\E k \in 1 .. C + P : F(k) = d + 1) <=> C # 0
      <4>1. ~ (d + 1 <= d)
        OBVIOUS
      <4> QED BY <1>18, <1>20, <4>1
    <3> HIDE DEF After, None
    <3> QED BY <3>1, <3>2, <3>3, <3>4, <3>5
  <2> QED BY <1>1, <1>15, <2>1, <2>2, <2>3
<1> QED BY <1>8, <1>21, <1>22, <1>23 DEF GlyphInv

-----------------------------------------------------------------------------
(***************************************************************************)
(* Sums.  A sum over the subsets of a finite set is that of one element    *)
(* its weight, and of two disjoint sets the sums of both.                  *)
(***************************************************************************)
IsSumOver(f, All, w) ==
  /\ f \in [SUBSET All -> Int]
  /\ \A x \in All : f[{x}] = w[x]
  /\ \A S, T \in SUBSET All : S \cap T = {} => f[S \cup T] = f[S] + f[T]

\* The elements e of the set, one after the other, add what is in S.
Term(e, w, S, k) == IF e[k] \in S THEN w[e[k]] ELSE 0
TermsAddUp(h, e, w, N, S) ==
  h \in [0 .. N -> Int] /\ h[0] = 0 /\ \A k \in 1 .. N : h[k] = h[k - 1] + Term(e, w, S, k)

LEMMA AddingUp ==
  ASSUME NEW N \in Nat, NEW All, NEW e \in [1 .. N -> All], NEW w \in [All -> Int], NEW S
  PROVE  \E h : TermsAddUp(h, e, w, N, S)
<1> DEFINE step == [p \in (1 .. N) \X Int |-> p[2] + Term(e, w, S, p[1])]
<1>1. \A k \in 1 .. N : Term(e, w, S, k) \in Int
  BY DEF Term
<1>2. step \in [(1 .. N) \X Int -> Int]
  <2> SUFFICES ASSUME NEW p \in (1 .. N) \X Int PROVE p[2] + Term(e, w, S, p[1]) \in Int
    OBVIOUS
  <2>1. p[1] \in 1 .. N /\ p[2] \in Int
    OBVIOUS
  <2>2. PICK t \in Int : t = Term(e, w, S, p[1])
    BY <1>1, <2>1
  <2> QED BY <2>1, <2>2
<1>3. \A k \in 1 .. N, v \in Int : step[<<k, v>>] = v + Term(e, w, S, k)
  OBVIOUS
<1> HIDE DEF step
<1>4. PICK h : IsHistory(h, N, Int, 0, step)
  <2>1. 0 \in Int
    OBVIOUS
  <2> QED BY <1>2, <2>1, Iteration
<1>5. h \in [0 .. N -> Int] /\ h[0] = 0 /\ \A k \in 1 .. N : h[k] = step[<<k, h[k - 1]>>]
  BY <1>4 DEF IsHistory
<1>6. ASSUME NEW k \in 1 .. N PROVE h[k] = h[k - 1] + Term(e, w, S, k)
  <2>1. h[k - 1] \in Int
    BY <1>5
  <2> QED BY <1>3, <1>5, <2>1
<1> QED BY <1>5, <1>6 DEF TermsAddUp

\* The sums of two disjoint sets, and of both together.
AddApart(a, b, c, All, e, w, N, S, T) ==
  /\ N \in Nat /\ e \in [1 .. N -> All] /\ w \in [All -> Int] /\ S \cap T = {}
  /\ TermsAddUp(a, e, w, N, S) /\ TermsAddUp(b, e, w, N, T) /\ TermsAddUp(c, e, w, N, S \cup T)
BothAdded(a, b, c, N) == c[N] = a[N] + b[N]

LEMMA DisjointAddUp ==
  ASSUME NEW a, NEW b, NEW c, NEW All, NEW e, NEW w, NEW N, NEW S, NEW T, AddApart(a, b, c, All, e, w, N, S, T)
  PROVE  BothAdded(a, b, c, N)
<1> USE DEF AddApart, BothAdded
<1> DEFINE Same == {k \in 0 .. N : c[k] = a[k] + b[k]}
<1>1. 0 \in Same
  BY DEF TermsAddUp
<1>2. ASSUME NEW k \in 0 .. N - 1, k \in Same PROVE k + 1 \in Same
  <2>1. PICK j \in 1 .. N : j = k + 1 /\ j - 1 = k /\ j \in 0 .. N
    OBVIOUS
  <2>2. c[j] = c[k] + Term(e, w, S \cup T, j) /\ a[j] = a[k] + Term(e, w, S, j) /\ b[j] = b[k] + Term(e, w, T, j)
    BY <2>1 DEF TermsAddUp
  <2>3. PICK s \in Int, t \in Int : s = Term(e, w, S, j) /\ t = Term(e, w, T, j) /\ Term(e, w, S \cup T, j) = s + t
    <3>1. w[e[j]] \in Int
      OBVIOUS
    <3> QED BY <3>1 DEF Term
  <2>4. PICK x \in Int, y \in Int : x = a[k] /\ y = b[k]
    <3>1. k \in 0 .. N /\ a \in [0 .. N -> Int] /\ b \in [0 .. N -> Int]
      BY <2>1 DEF TermsAddUp
    <3>2. a[k] \in Int /\ b[k] \in Int
      BY <3>1
    <3> QED BY <3>2
  <2>5. c[k] = x + y
    BY <1>2, <2>4
  <2>6. c[j] = a[j] + b[j]
    BY <2>2, <2>3, <2>4, <2>5
  <2> QED BY <2>1, <2>6
<1>3. 0 .. N \subseteq Same
  <2> HIDE DEF Same
  <2> QED BY <1>1, <1>2, UpTo
<1>4. N \in 0 .. N
  OBVIOUS
<1> QED BY <1>3, <1>4

\* The m-th element is all that is in the set.
IsOnly(m, e, N, S) == \A k \in 1 .. N : e[k] \in S <=> k = m

LEMMA OneAddsUp ==
  ASSUME NEW N \in Nat, NEW All, NEW e \in [1 .. N -> All], NEW w \in [All -> Int],
         NEW S, NEW h, TermsAddUp(h, e, w, N, S)
  PROVE  \A m \in 1 .. N : IsOnly(m, e, N, S) => h[N] = w[e[m]]
<1> SUFFICES ASSUME NEW m \in 1 .. N, IsOnly(m, e, N, S) PROVE h[N] = w[e[m]]
  OBVIOUS
<1> DEFINE Same == {k \in 0 .. N : h[k] = IF m <= k THEN w[e[m]] ELSE 0}
<1>1. 0 \in Same
  BY DEF TermsAddUp
<1>2. ASSUME NEW k \in 0 .. N - 1, k \in Same PROVE k + 1 \in Same
  <2>1. PICK j \in 1 .. N : j = k + 1 /\ j - 1 = k /\ j \in 0 .. N
    OBVIOUS
  <2>2. PICK v \in Int : v = w[e[m]]
    OBVIOUS
  <2>3. h[j] = h[k] + Term(e, w, S, j)
    BY <2>1 DEF TermsAddUp
  <2>4. Term(e, w, S, j) = IF j = m THEN v ELSE 0
    BY <2>2 DEF Term, IsOnly
  <2>5. h[k] = IF m <= k THEN v ELSE 0
    BY <1>2, <2>2
  <2>6. h[j] = IF m <= j THEN v ELSE 0
    BY <2>1, <2>3, <2>4, <2>5
  <2> QED BY <2>1, <2>2, <2>6
<1>3. 0 .. N \subseteq Same
  <2> HIDE DEF Same
  <2> QED BY <1>1, <1>2, UpTo
<1>4. N \in 0 .. N /\ m <= N
  OBVIOUS
<1> QED BY <1>3, <1>4

LEMMA SumExists ==
  ASSUME NEW All, IsFiniteSet(All), NEW w \in [All -> Int]
  PROVE  \E f : IsSumOver(f, All, w)
<1> DEFINE N == Cardinality(All)
<1>1. N \in Nat /\ ExistsBijection(1 .. N, All)
  BY FS_CardinalityType
<1> HIDE DEF N
<1>2. PICK e : e \in Bijection(1 .. N, All)
  BY <1>1 DEF ExistsBijection
<1>3. /\ e \in [1 .. N -> All] /\ \A i, j \in 1 .. N : e[i] = e[j] => i = j
      /\ \A x \in All : \E m \in 1 .. N : e[m] = x
  BY <1>2 DEF Bijection, Injection, Surjection, IsInjective
<1> DEFINE H == [S \in SUBSET All |-> CHOOSE h : TermsAddUp(h, e, w, N, S)]
           f == [S \in SUBSET All |-> H[S][N]]
<1>4. ASSUME NEW S \in SUBSET All PROVE TermsAddUp(H[S], e, w, N, S)
  BY <1>1, <1>3, AddingUp
<1> HIDE DEF H
<1>5. f \in [SUBSET All -> Int]
  <2>1. \A S \in SUBSET All : H[S][N] \in Int
    BY <1>1, <1>4 DEF TermsAddUp
  <2> QED BY <2>1
<1>6. ASSUME NEW x \in All PROVE f[{x}] = w[x]
  <2>1. PICK m \in 1 .. N : e[m] = x
    BY <1>3
  <2>2. PICK S \in SUBSET All : S = {x}
    OBVIOUS
  <2>3. IsOnly(m, e, N, S) /\ e \in [1 .. N -> All]
    BY <1>3, <2>1, <2>2 DEF IsOnly
  <2>4. PICK h : h = H[S] /\ TermsAddUp(h, e, w, N, S)
    BY <1>4
  <2>5. h[N] = w[e[m]]
    BY <1>1, <2>3, <2>4, OneAddsUp, SMTT(30)
  <2>6. f[S] = h[N]
    BY <2>4
  <2> HIDE DEF f
  <2> QED BY <2>1, <2>2, <2>5, <2>6
<1>7. ASSUME NEW S \in SUBSET All, NEW T \in SUBSET All, S \cap T = {} PROVE f[S \cup T] = f[S] + f[T]
  <2>1. S \cup T \in SUBSET All
    OBVIOUS
  <2>2. PICK a, b, c : a = H[S] /\ b = H[T] /\ c = H[S \cup T]
    OBVIOUS
  <2>3. AddApart(a, b, c, All, e, w, N, S, T)
    BY <1>1, <1>3, <1>4, <1>7, <2>1, <2>2 DEF AddApart
  <2>4. BothAdded(a, b, c, N)
    BY <2>3, DisjointAddUp, Zenon
  <2> QED BY <2>1, <2>2, <2>4 DEF BothAdded
<1> HIDE DEF f
<1> QED BY <1>5, <1>6, <1>7 DEF IsSumOver

LEMMA SumIs ==
  ASSUME NEW All, NEW w \in [All -> Int], NEW f, IsSumOver(f, All, w)
  PROVE  /\ f[{}] = 0
         /\ \A S \in SUBSET All : \A x \in S : f[S] = w[x] + f[S \ {x}]
<1>1. f[{}] = 0
  <2>1. {} \in SUBSET All /\ {} \cap {} = {} /\ {} \cup {} = {}
    OBVIOUS
  <2>2. f[{}] = f[{}] + f[{}] /\ f[{}] \in Int
    BY <2>1 DEF IsSumOver
  <2>3. \A z \in Int : z = z + z => z = 0
    OBVIOUS
  <2> QED BY <2>2, <2>3, Zenon
<1>2. ASSUME NEW S \in SUBSET All, NEW x \in S PROVE f[S] = w[x] + f[S \ {x}]
  <2>1. {x} \in SUBSET All /\ S \ {x} \in SUBSET All /\ {x} \cap (S \ {x}) = {} /\ {x} \cup (S \ {x}) = S /\ x \in All
    OBVIOUS
  <2>2. f[S] = f[{x}] + f[S \ {x}]
    BY <2>1 DEF IsSumOver
  <2> QED BY <2>1, <2>2 DEF IsSumOver
<1> QED BY <1>1, <1>2
=============================================================================
