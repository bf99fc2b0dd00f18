------------------------------ MODULE SetLemmas ------------------------------
(***************************************************************************)
(* What the proofs about the components share: induction over the naturals *)
(* and over finite sets, sets of numbers put in order, sums over finite    *)
(* sets, remainders, and folds.                                            *)
(***************************************************************************)
EXTENDS InOrder, Sequences, FiniteSetsExt, FiniteSetTheorems, WellFoundedInduction, TLAPS

-----------------------------------------------------------------------------
(* Least and greatest elements *)

\* Every non-empty set of naturals has a least element; this is what an
\* induction over the naturals comes down to.
LEMMA LeastNat ==
  ASSUME NEW S, S \subseteq Nat, S # {}
  PROVE  \E n \in S : \A m \in S : n <= m
<1> DEFINE R == StrictSubsetOrdering(Nat)
           F == FiniteSubsetsOf(Nat)
           T == {1..n : n \in S}
<1>1. IsWellFoundedOn(R, F)
  BY FS_StrictSubsetOrderingWellFounded
<1>2. T \subseteq F
  BY FS_Interval, S \subseteq Nat DEF FiniteSubsetsOf
<1>3. T # {}
  OBVIOUS
<1>4. \E x \in T : \A y \in T : ~ (<<y, x>> \in R)
  <2> HIDE DEF R, F, T
  <2> QED BY <1>1, <1>2, <1>3, WFMin
<1>5. PICK n \in S : \A m \in S : ~ (<<1..m, 1..n>> \in R)
  BY <1>4
<1>6. ASSUME NEW m \in S, m < n PROVE FALSE
  <2>1. 1..m \subseteq 1..n /\ n \in 1..n /\ n \notin 1..m
    BY <1>6, S \subseteq Nat
  <2>2. <<1..m, 1..n>> \in R
    BY <2>1, S \subseteq Nat DEF StrictSubsetOrdering
  <2> QED BY <1>5, <2>2
<1> QED BY <1>6, S \subseteq Nat

\* An induction up to n.
LEMMA StepByStep ==
  ASSUME NEW n \in Nat, NEW S, 0 \in S, \A k \in 0..n-1 : k \in S => k + 1 \in S
  PROVE  0..n \subseteq S
  <1> DEFINE Bad == {k \in 0..n : k \notin S}
  <1>1. SUFFICES ASSUME Bad # {} PROVE FALSE
    OBVIOUS
  <1>2. PICK k \in Bad : \A m \in Bad : k <= m
    <2>1. Bad \subseteq Nat
      OBVIOUS
    <2> HIDE DEF Bad
    <2> QED BY <1>1, <2>1, LeastNat
  <1>3. k # 0 /\ k \in 0..n
    OBVIOUS
  <1>4. k - 1 \in 0..n-1 /\ k - 1 \notin Bad
    <2>1. k - 1 \in 0..n-1
      BY <1>3
    <2>2. k - 1 \notin Bad
      BY <1>2, <1>3
    <2> QED BY <2>1, <2>2
  <1>5. k - 1 \in S
    BY <1>4
  <1>6. (k - 1) + 1 = k
    BY <1>3
  <1> QED BY <1>4, <1>5, <1>6

\* A minimal one among sets of subsets of a finite set.
LEMMA LeastSubset ==
  ASSUME NEW S, IsFiniteSet(S), NEW B, B \subseteq SUBSET S, B # {}
  PROVE  \E s \in B : \A x \in s : s \ {x} \notin B
  <1> DEFINE R == StrictSubsetOrdering(S)
             F == FiniteSubsetsOf(S)
  <1>1. IsWellFoundedOn(R, F)
    BY FS_StrictSubsetOrderingWellFounded
  <1>2. B \subseteq F
    BY FS_Subset DEF FiniteSubsetsOf
  <1>3. \E s \in B : \A t \in B : ~ (<<t, s>> \in R)
    <2> HIDE DEF R, F
    <2> QED BY <1>1, <1>2, WFMin
  <1>4. PICK s \in B : \A t \in B : ~ (<<t, s>> \in R)
    BY <1>3
  <1>5. ASSUME NEW x \in s, s \ {x} \in B PROVE FALSE
    <2>1. <<s \ {x}, s>> \in R
      BY <1>5 DEF StrictSubsetOrdering
    <2> QED BY <1>4, <1>5, <2>1
  <1> QED BY <1>4, <1>5

\* A non-empty set of positions up to some bound has a last one.
LEMMA LastPosition ==
  ASSUME NEW n \in Nat, NEW S, S \subseteq 1..n, S # {}
  PROVE  \E i \in S : \A j \in S : j <= i
<1> DEFINE T == {n - i : i \in S}
<1>1. T \subseteq Nat
  BY n \in Nat, S \subseteq 1..n
<1>1a. T # {}
  OBVIOUS
<1>2. PICK m \in T : \A k \in T : m <= k
  <2> HIDE DEF T
  <2> QED BY <1>1, <1>1a, LeastNat
<1>3. PICK i \in S : m = n - i
  OBVIOUS
<1>4. ASSUME NEW j \in S PROVE j <= i
  <2>1. n - j \in T
    OBVIOUS
  <2>2. n - i <= n - j
    BY <1>2, <1>3, <2>1
  <2> QED BY <2>2, j \in 1..n, i \in 1..n
<1> QED BY <1>4

\* What Max of FiniteSetsExt returns for positions in a list.
LEMMA MaxPosition ==
  ASSUME NEW n \in Nat, NEW S, S \subseteq 1..n, S # {}
  PROVE  Max(S) \in S /\ \A j \in S : j <= Max(S)
<1>1. \E i \in S : \A j \in S : i >= j
  BY LastPosition
<1> QED BY <1>1 DEF Max

LEMMA AtMostOneMore ==
  ASSUME NEW S, IsFiniteSet(S), NEW x, NEW T, T \subseteq S \cup {x}
  PROVE  /\ IsFiniteSet(T) /\ Cardinality(T) \in Nat
         /\ Cardinality(S) \in Nat /\ Cardinality(T) <= Cardinality(S) + 1
  <1>0. Cardinality(S) \in Nat
    BY FS_CardinalityType
  <1>1. IsFiniteSet(S \cup {x}) /\ Cardinality(S \cup {x}) <= Cardinality(S) + 1
    <2>1. CASE x \in S
      BY <1>0, <2>1, FS_AddElement
    <2>2. CASE x \notin S
      <3>1. IsFiniteSet(S \cup {x}) /\ Cardinality(S \cup {x}) = Cardinality(S) + 1
        BY <2>2, FS_AddElement
      <3> QED BY <1>0, <3>1
    <2> QED BY <2>1, <2>2
  <1>2. IsFiniteSet(T) /\ Cardinality(T) <= Cardinality(S \cup {x})
    BY <1>1, FS_Subset
  <1>3. Cardinality(T) \in Nat /\ Cardinality(S \cup {x}) \in Nat
    BY <1>1, <1>2, FS_CardinalityType
  <1> QED BY <1>0, <1>1, <1>2, <1>3

-----------------------------------------------------------------------------
(* Sets in order *)

\* The rank of an element grows with it, and takes every value up to the size
\* of the set: so each rank names one element.
LEMMA Ranks ==
  ASSUME NEW S \in SUBSET Int, IsFiniteSet(S)
  PROVE  LET rank(i) == Cardinality({j \in S : j <= i})
         IN  /\ \A i \in S : rank(i) \in 1..Cardinality(S)
             /\ \A i, k \in S : i < k => rank(i) < rank(k)
             /\ \A p \in 1..Cardinality(S) : \E i \in S : rank(i) = p
  <1> DEFINE upto(i) == {j \in S : j <= i}
             rank(i) == Cardinality(upto(i))
             f == [i \in S |-> rank(i)]
             T == 1..Cardinality(S)
  <1>0. Cardinality(S) \in Nat
    BY FS_CardinalityType
  <1>1. \A i \in S : /\ IsFiniteSet(upto(i)) /\ rank(i) \in Nat /\ rank(i) <= Cardinality(S)
                     /\ upto(i) # {} /\ rank(i) # 0
    <2> TAKE i \in S
    <2>1. upto(i) \in SUBSET S /\ i \in upto(i)
      OBVIOUS
    <2>2. IsFiniteSet(upto(i)) /\ rank(i) <= Cardinality(S)
      BY <2>1, FS_Subset
    <2>3. rank(i) \in Nat /\ (rank(i) = 0 <=> upto(i) = {})
      BY <2>2, FS_CardinalityType, FS_EmptySet
    <2> QED BY <2>1, <2>2, <2>3
  <1>2. \A i, k \in S : i < k => rank(i) < rank(k)
    <2> SUFFICES ASSUME NEW i \in S, NEW k \in S, i < k PROVE rank(i) < rank(k)
      OBVIOUS
    <2>1. upto(i) \in SUBSET upto(k) /\ k \in upto(k) /\ k \notin upto(i)
      <3>1. \A j \in S : j \in Int
        OBVIOUS
      <3>2. \A j \in S : j <= i => j <= k
        BY <3>1
      <3>3. i \in Int /\ k \in Int /\ k <= k /\ ~(k <= i)
        BY <3>1
      <3> QED BY <3>2, <3>3
    <2>2. rank(i) <= rank(k) /\ rank(k) # rank(i)
      <3> HIDE DEF upto
      <3> QED BY <1>1, <2>1, FS_Subset
    <2> QED BY <1>1, <2>2
  <1>3. f \in Injection(S, T)
    <2>1. f \in [S -> T]
      BY <1>0, <1>1
    <2>2. \A i, k \in S : f[i] = f[k] => i = k
      <3> SUFFICES ASSUME NEW i \in S, NEW k \in S, f[i] = f[k] PROVE i = k
        OBVIOUS
      <3>1. ~(i < k) /\ ~(k < i)
        BY <1>1, <1>2
      <3> QED BY <3>1
    <2> HIDE DEF f, T
    <2> QED BY <2>1, <2>2 DEF Injection, IsInjective
  <1>4. IsFiniteSet(T) /\ Cardinality(T) = Cardinality(S)
    BY <1>0, FS_Interval
  <1>5. f \in Surjection(S, T)
    <2> HIDE DEF f, T
    <2> QED BY <1>3, <1>4, FS_Injection
  <1>6. \A p \in T : \E i \in S : f[i] = p
    <2> HIDE DEF f, T
    <2> QED BY <1>5 DEF Surjection
  <1> QED BY <1>0, <1>1, <1>2, <1>6

\* The p-th number of a set is in it, the numbers grow with p, and every one
\* is among them.
LEMMA NthIs ==
  ASSUME NEW S \in SUBSET Int, IsFiniteSet(S)
  PROVE  /\ Cardinality(S) \in Nat
         /\ \A p \in 1..Cardinality(S) : Nth(S, p) \in S
         /\ \A p, q \in 1..Cardinality(S) : p < q => Nth(S, p) < Nth(S, q)
         /\ \A i \in S : \E p \in 1..Cardinality(S) : Nth(S, p) = i
  <1> DEFINE rank(i) == Cardinality({j \in S : j <= i})
             N == Cardinality(S)
  <1>1. N \in Nat
    BY FS_CardinalityType
  <1>2. /\ \A i \in S : rank(i) \in 1..N
        /\ \A i, k \in S : i < k => rank(i) < rank(k)
        /\ \A p \in 1..N : \E i \in S : rank(i) = p
    BY Ranks
  <1>3. \A p \in 1..N : Nth(S, p) \in S /\ rank(Nth(S, p)) = p
    <2> HIDE DEF N
    <2> QED BY <1>2 DEF Nth
  <1> HIDE DEF rank, N
  <1>4. ASSUME NEW p \in 1..N, NEW q \in 1..N, p < q PROVE Nth(S, p) < Nth(S, q)
    <2>1. PICK i \in S, k \in S : i = Nth(S, p) /\ k = Nth(S, q) /\ rank(i) = p /\ rank(k) = q
      BY <1>3
    <2>2. i # k /\ ~(k < i)
      BY <1>1, <1>2, <1>4, <2>1
    <2> QED BY <2>1, <2>2
  <1>5. ASSUME NEW i \in S PROVE \E p \in 1..N : Nth(S, p) = i
    <2>1. PICK p \in 1..N : p = rank(i)
      BY <1>2
    <2>2. PICK k \in S : k = Nth(S, p) /\ rank(k) = p
      BY <1>3
    <2>3. ~(k < i) /\ ~(i < k)
      BY <1>1, <1>2, <2>1, <2>2
    <2> QED BY <2>2, <2>3
  <1> QED BY <1>1, <1>3, <1>4, <1>5 DEF N

-----------------------------------------------------------------------------
(* Sorting *)

LEMMA UpToHas ==
  ASSUME NEW n \in Nat
  PROVE  IsFiniteSet(1..n) /\ Cardinality(1..n) = n
  BY FS_Interval

\* pos lists the positions of key, each once, by growing key.
Sorts(pos, key, n) ==
  /\ pos \in [1..n -> 1..n]
  /\ \A i \in 1..n : \E p \in 1..n : pos[p] = i
  /\ \A p, q \in 1..n : p < q => pos[p] # pos[q] /\ key[pos[p]] <= key[pos[q]]

LEMMA PositionsAreSorted ==
  ASSUME NEW n \in Nat, NEW key \in [1..n -> Int]
  PROVE  Sorts(SortedPositions(key), key, n)
  <1> DEFINE before(j, i) == key[j] < key[i] \/ (key[j] = key[i] /\ j <= i)
             upto(i) == {j \in 1..n : before(j, i)}
             rank(i) == Cardinality(upto(i))
             f == [i \in 1..n |-> rank(i)]
  <1>0. IsFiniteSet(1..n) /\ Cardinality(1..n) = n
    BY FS_Interval
  <1>1. \A i \in 1..n : IsFiniteSet(upto(i)) /\ rank(i) \in 1..n
    <2> TAKE i \in 1..n
    <2>1. upto(i) \in SUBSET (1..n) /\ i \in upto(i)
      OBVIOUS
    <2>2. IsFiniteSet(upto(i)) /\ rank(i) <= n
      BY <1>0, <2>1, FS_Subset
    <2>3. rank(i) \in Nat /\ rank(i) # 0
      BY <2>1, <2>2, FS_CardinalityType, FS_EmptySet
    <2> QED BY <2>2, <2>3
  <1>2. \A i, k \in 1..n : before(i, k) /\ i # k => rank(i) < rank(k)
    <2> SUFFICES ASSUME NEW i \in 1..n, NEW k \in 1..n, before(i, k), i # k
                 PROVE  rank(i) < rank(k)
      OBVIOUS
    <2>1. \A j \in 1..n : before(j, i) => before(j, k)
      OBVIOUS
    <2>2. before(k, k) /\ ~before(k, i)
      OBVIOUS
    <2>3. upto(i) \in SUBSET upto(k) /\ k \in upto(k) /\ k \notin upto(i)
      BY <2>1, <2>2
    <2>4. rank(i) <= rank(k) /\ rank(k) # rank(i)
      <3> HIDE DEF upto
      <3> QED BY <1>1, <2>3, FS_Subset
    <2>5. PICK a \in 1..n, b \in 1..n : a = rank(i) /\ b = rank(k)
      BY <1>1
    <2> HIDE DEF rank
    <2> QED BY <2>4, <2>5
  <1>3. \A i, k \in 1..n : i # k => before(i, k) \/ before(k, i)
    OBVIOUS
  <1> HIDE DEF before
  <1>4. \A i, k \in 1..n : rank(i) = rank(k) => i = k
    <2> SUFFICES ASSUME NEW i \in 1..n, NEW k \in 1..n, rank(i) = rank(k), i # k PROVE FALSE
      OBVIOUS
    <2>1. PICK a \in 1..n, b \in 1..n : a = rank(i) /\ b = rank(k)
      BY <1>1
    <2> HIDE DEF rank
    <2>2. rank(i) < rank(k) \/ rank(k) < rank(i)
      BY <1>2, <1>3
    <2> QED BY <2>1, <2>2
  <1>5. \A p \in 1..n : \E i \in 1..n : rank(i) = p
    <2> HIDE DEF rank
    <2>1. f \in Injection(1..n, 1..n)
      BY <1>1, <1>4 DEF Injection, IsInjective
    <2>2. f \in Surjection(1..n, 1..n)
      <3> HIDE DEF f
      <3> QED BY <1>0, <2>1, FS_Injection
    <2> QED BY <2>2 DEF Surjection
  <1> DEFINE pos == SortedPositions(key)
  <1>6. pos \in [1..n -> 1..n] /\ \A p \in 1..n : rank(pos[p]) = p
    <2>1. DOMAIN key = 1..n
      OBVIOUS
    <2>2. pos = [p \in 1..n |-> CHOOSE i \in 1..n : rank(i) = p]
      BY <2>1 DEF SortedPositions, before
    <2> HIDE DEF pos, rank
    <2> QED BY <1>5, <2>2
  <1> HIDE DEF rank, pos
  <1>7. \A i \in 1..n : \E p \in 1..n : pos[p] = i
    <2> TAKE i \in 1..n
    <2>1. rank(pos[rank(i)]) = rank(i) /\ rank(i) \in 1..n /\ pos[rank(i)] \in 1..n
      BY <1>1, <1>6
    <2> QED BY <1>4, <2>1
  <1>8. ASSUME NEW p \in 1..n, NEW q \in 1..n, p < q
        PROVE  pos[p] # pos[q] /\ key[pos[p]] <= key[pos[q]]
    <2>1. pos[p] \in 1..n /\ pos[q] \in 1..n /\ rank(pos[p]) < rank(pos[q])
      BY <1>6, <1>8
    <2>2. pos[p] # pos[q] /\ ~before(pos[q], pos[p])
      <3> HIDE DEF before, upto
      <3>1. PICK a \in 1..n, b \in 1..n : a = pos[p] /\ b = pos[q] /\ rank(a) < rank(b)
        BY <2>1
      <3>0. rank(a) \in Nat /\ rank(b) \in Nat
        BY <1>1
      <3>2. PICK x \in Nat, y \in Nat : x = rank(a) /\ y = rank(b)
        BY <3>0
      <3>3. a # b
        BY <3>1, <3>2
      <3>4. before(b, a) => y < x
        BY <1>2, <3>2, <3>3
      <3> QED BY <3>1, <3>2, <3>3, <3>4
    <2>3. before(pos[p], pos[q])
      BY <1>3, <2>1, <2>2
    <2> QED BY <2>1, <2>2, <2>3 DEF before
  <1> QED BY <1>6, <1>7, <1>8 DEF Sorts, pos

\* How many keys do not exceed v, and how many are less.
Within(key, n, v) == Cardinality({i \in 1..n : key[i] <= v})
Below(key, n, v) == Cardinality({i \in 1..n : key[i] < v})

\* At least p of the keys do not exceed the p-th in order, and fewer are less.
IsRanked(v, p, key, n) == Within(key, n, v) \in p..n /\ Below(key, n, v) \in 0..p-1

LEMMA SortedCounts ==
  ASSUME NEW n \in Nat, NEW key \in [1..n -> Int], NEW pos, Sorts(pos, key, n), NEW p \in 1..n,
         NEW v, v = key[pos[p]]
  PROVE  IsRanked(v, p, key, n)
  <1> DEFINE within == {i \in 1..n : key[i] <= v}
             below == {i \in 1..n : key[i] < v}
             f == [q \in 1..p |-> pos[q]]
             g == [i \in below |-> CHOOSE q \in 1..n : pos[q] = i]
  <1>1. /\ pos \in [1..n -> 1..n] /\ \A i \in 1..n : \E q \in 1..n : pos[q] = i
        /\ \A q, r \in 1..n : q < r => pos[q] # pos[r] /\ key[pos[q]] <= key[pos[r]]
    BY DEF Sorts
  <1>2. /\ IsFiniteSet(1..n) /\ Cardinality(1..n) = n /\ IsFiniteSet(1..p) /\ Cardinality(1..p) = p
        /\ IsFiniteSet(1..p-1) /\ Cardinality(1..p-1) = p - 1
    <2>1. n \in Nat /\ p \in Nat /\ p - 1 \in Nat
      OBVIOUS
    <2> QED BY <2>1, UpToHas
  <1>3. v \in Int
    BY <1>1
  <1>4. /\ IsFiniteSet(within) /\ IsFiniteSet(below) /\ Cardinality(within) \in 0..n
        /\ Cardinality(below) \in Nat
    <2>1. within \in SUBSET (1..n) /\ below \in SUBSET (1..n)
      OBVIOUS
    <2> HIDE DEF within, below
    <2>2. IsFiniteSet(within) /\ IsFiniteSet(below) /\ Cardinality(within) <= Cardinality(1..n)
      BY <1>2, <2>1, FS_Subset
    <2>3. Cardinality(within) \in Nat /\ Cardinality(below) \in Nat
      BY <2>2, FS_CardinalityType
    <2> QED BY <1>2, <2>2, <2>3
  <1>5. p <= Cardinality(within)
    <2>1. \A q \in 1..p : q \in 1..n /\ pos[q] \in 1..n /\ key[pos[q]] <= v
      <3> TAKE q \in 1..p
      <3>1. q \in 1..n /\ (q < p \/ q = p)
        OBVIOUS
      <3>2. pos[q] \in 1..n /\ key[pos[q]] \in Int
        BY <1>1, <3>1
      <3>3. q < p => key[pos[q]] <= key[pos[p]]
        BY <1>1, <3>1
      <3> QED BY <1>3, <3>1, <3>2, <3>3
    <2>2. f \in [1..p -> within]
      BY <1>3, <2>1
    <2>3. \A q, r \in 1..p : pos[q] = pos[r] => q = r
      <3> SUFFICES ASSUME NEW q \in 1..p, NEW r \in 1..p, pos[q] = pos[r] PROVE q = r
        OBVIOUS
      <3>1. q \in 1..n /\ r \in 1..n
        OBVIOUS
      <3>2. ~(q < r) /\ ~(r < q)
        BY <1>1, <3>1
      <3> QED BY <3>1, <3>2
    <2>4. f \in Injection(1..p, within)
      <3>1. \A q, r \in 1..p : f[q] = f[r] => q = r
        BY <2>3
      <3> HIDE DEF f, within
      <3> QED BY <2>2, <3>1 DEF Injection, IsInjective
    <2> HIDE DEF f, within
    <2> QED BY <1>2, <1>4, <2>4, FS_Injection
  <1>6. Cardinality(below) <= p - 1
    <2>1. \A i \in below : i \in 1..n /\ key[i] < v /\ g[i] \in 1..n /\ pos[g[i]] = i
      BY <1>1, <1>3
    <2> HIDE DEF g, below
    <2>2. \A i \in below : g[i] \in 1..p-1
      <3> TAKE i \in below
      <3>1. PICK q \in 1..n : q = g[i] /\ pos[q] = i
        BY <2>1
      <3>2. key[pos[q]] < v /\ key[pos[q]] \in Int
        BY <2>1, <3>1
      <3>3. p < q => v <= key[pos[q]]
        BY <1>1, <1>3, <3>1
      <3> QED BY <1>3, <3>1, <3>2, <3>3
    <2>3. g \in Injection(below, 1..p-1)
      <3>1. g \in [below -> 1..p-1]
        BY <2>2 DEF g
      <3>2. \A i, j \in below : g[i] = g[j] => i = j
        BY <2>1
      <3> QED BY <3>1, <3>2 DEF Injection, IsInjective
    <2> QED BY <1>2, <2>3, FS_Injection
  <1> QED BY <1>4, <1>5, <1>6 DEF IsRanked, Within, Below

-----------------------------------------------------------------------------
(* Sums *)

\* The element a sum over s takes first, and the partial sums of c over S.
FirstOf(s) == CHOOSE x \in s : TRUE

SumStep(c, S, g) == [s \in SUBSET S |-> IF s = {} THEN 0 ELSE c[FirstOf(s)] + g[s \ {FirstOf(s)}]]

Sums(c, S) == CHOOSE g : g = SumStep(c, S, g)

LEMMA SumIsSums ==
  ASSUME NEW c, NEW S
  PROVE  MapThenSumSet(LAMBDA x : c[x], S) = Sums(c, S)[S]
  BY DEF MapThenSumSet, MapThenFoldSet, Sums, SumStep, FirstOf

\* The partial sums are what their definition says.
LEMMA SumsUnfold ==
  ASSUME NEW S, IsFiniteSet(S), NEW c
  PROVE  Sums(c, S) = SumStep(c, S, Sums(c, S))
  <1> DEFINE Upto(k, g) == /\ g = [s \in SUBSET S |-> g[s]]
                           /\ \A s \in SUBSET S :
                                Cardinality(s) <= k => g[s] = SumStep(c, S, g)[s]
             Bad == {k \in Nat : ~ \E g : Upto(k, g)}
  <1>1. \A s \in SUBSET S : /\ IsFiniteSet(s) /\ Cardinality(s) \in Nat
                            /\ Cardinality(s) <= Cardinality(S)
    BY FS_Subset, FS_CardinalityType
  <1>2. Bad = {}
    <2>1. SUFFICES ASSUME Bad # {} PROVE FALSE
      OBVIOUS
    <2>2. PICK k \in Nat : k \in Bad /\ \A m \in Bad : k <= m
      <3> HIDE DEF Upto
      <3>1. Bad \subseteq Nat
        OBVIOUS
      <3> HIDE DEF Bad
      <3> QED BY <2>1, <3>1, LeastNat
    <2>3. CASE k = 0
      <3> DEFINE g == [s \in SUBSET S |-> 0]
      <3>1. \A s \in SUBSET S : Cardinality(s) <= 0 => g[s] = SumStep(c, S, g)[s]
        <4> SUFFICES ASSUME NEW s \in SUBSET S, Cardinality(s) <= 0
                     PROVE  g[s] = SumStep(c, S, g)[s]
          OBVIOUS
        <4>1. s = {}
          BY <1>1, FS_EmptySet
        <4> QED BY <4>1 DEF SumStep
      <3>2. g = [s \in SUBSET S |-> g[s]]
        OBVIOUS
      <3>3. Upto(k, g)
        BY <2>3, <3>1, <3>2
      <3> QED BY <2>2, <3>3
    <2>4. CASE k # 0
      <3>1. PICK m \in Nat : m = k - 1 /\ m \notin Bad
        <4> HIDE DEF Bad
        <4> QED BY <2>2, <2>4
      <3>2. PICK g : Upto(m, g)
        BY <3>1
      <3> DEFINE h == SumStep(c, S, g)
      <3>3. h = [s \in SUBSET S |-> h[s]]
        BY DEF SumStep
      <3>4. ASSUME NEW s \in SUBSET S, Cardinality(s) <= k
            PROVE  h[s] = SumStep(c, S, h)[s]
        <4>1. CASE s = {}
          BY <4>1 DEF SumStep
        <4>2. CASE s # {}
          <5> DEFINE t == s \ {FirstOf(s)}
          <5>1. FirstOf(s) \in s /\ t \in SUBSET S
            BY <4>2 DEF FirstOf
          <5>2. Cardinality(t) <= m
            BY <1>1, <3>1, <3>4, <5>1, FS_RemoveElement
          <5>3. g[t] = h[t]
            BY <3>2, <5>1, <5>2
          <5> QED BY <4>2, <5>1, <5>3 DEF SumStep
        <4> QED BY <4>1, <4>2
      <3>5. Upto(k, h)
        <4> HIDE DEF h
        <4> QED BY <3>3, <3>4
      <3> QED BY <2>2, <3>5
    <2> QED BY <2>3, <2>4
  <1>3. PICK g : Upto(Cardinality(S), g)
    BY <1>1, <1>2, FS_CardinalityType
  <1>4. g = SumStep(c, S, g)
    <2>1. \A s \in SUBSET S : g[s] = SumStep(c, S, g)[s]
      BY <1>1, <1>3
    <2> QED BY <1>3, <2>1 DEF SumStep
  <1> QED BY <1>4 DEF Sums

LEMMA SumsAre ==
  ASSUME NEW S, IsFiniteSet(S), NEW c
  PROVE  /\ Sums(c, S)[{}] = 0
         /\ \A s \in SUBSET S : s # {} =>
              /\ FirstOf(s) \in s /\ s \ {FirstOf(s)} \in SUBSET S
              /\ Sums(c, S)[s] = c[FirstOf(s)] + Sums(c, S)[s \ {FirstOf(s)}]
  <1> DEFINE g == Sums(c, S)
  <1>1. g = SumStep(c, S, g)
    BY SumsUnfold
  <1>2. \A s \in SUBSET S : s # {} => FirstOf(s) \in s
    BY DEF FirstOf
  <1> HIDE DEF g
  <1>3. /\ g[{}] = 0
        /\ \A s \in SUBSET S : s # {} => g[s] = c[FirstOf(s)] + g[s \ {FirstOf(s)}]
    BY <1>1 DEF SumStep
  <1> QED BY <1>2, <1>3 DEF g

\* Sums of naturals are naturals.
LEMMA SumsType ==
  ASSUME NEW S, IsFiniteSet(S), NEW c \in [S -> Nat]
  PROVE  \A s \in SUBSET S : Sums(c, S)[s] \in Nat
  <1> DEFINE Bad == {s \in SUBSET S : Sums(c, S)[s] \notin Nat}
  <1>1. SUFFICES ASSUME Bad # {} PROVE FALSE
    OBVIOUS
  <1>2. PICK s \in Bad : \A x \in s : s \ {x} \notin Bad
    <2>1. Bad \subseteq SUBSET S
      OBVIOUS
    <2> HIDE DEF Bad
    <2> QED BY <1>1, <2>1, LeastSubset
  <1>3. s # {}
    <2>1. Sums(c, S)[{}] = 0
      BY SumsAre
    <2>2. {} \notin Bad
      BY <2>1
    <2> QED BY <1>2, <2>2
  <1>4. /\ FirstOf(s) \in s /\ FirstOf(s) \in S /\ s \ {FirstOf(s)} \in SUBSET S
        /\ Sums(c, S)[s] = c[FirstOf(s)] + Sums(c, S)[s \ {FirstOf(s)}]
    BY <1>2, <1>3, SumsAre
  <1>5. Sums(c, S)[s \ {FirstOf(s)}] \in Nat
    BY <1>2, <1>4
  <1> QED BY <1>2, <1>4, <1>5

\* A sum of zeros.
LEMMA SumsOfZero ==
  ASSUME NEW S, IsFiniteSet(S), NEW c, \A x \in S : c[x] = 0
  PROVE  \A s \in SUBSET S : Sums(c, S)[s] = 0
  <1> DEFINE Bad == {s \in SUBSET S : Sums(c, S)[s] # 0}
  <1>1. SUFFICES ASSUME Bad # {} PROVE FALSE
    OBVIOUS
  <1>2. PICK s \in Bad : \A x \in s : s \ {x} \notin Bad
    <2>1. Bad \subseteq SUBSET S
      OBVIOUS
    <2> HIDE DEF Bad
    <2> QED BY <1>1, <2>1, LeastSubset
  <1>3. s # {}
    <2>1. Sums(c, S)[{}] = 0
      BY SumsAre
    <2>2. {} \notin Bad
      BY <2>1
    <2> QED BY <1>2, <2>2
  <1>4. /\ FirstOf(s) \in s /\ FirstOf(s) \in S /\ s \ {FirstOf(s)} \in SUBSET S
        /\ Sums(c, S)[s] = c[FirstOf(s)] + Sums(c, S)[s \ {FirstOf(s)}]
    BY <1>2, <1>3, SumsAre
  <1>5. Sums(c, S)[s \ {FirstOf(s)}] = 0
    BY <1>2, <1>4
  <1> QED BY <1>2, <1>4, <1>5

\* One summand that grows.
LEMMA SumsGrow ==
  ASSUME NEW S, IsFiniteSet(S), NEW c \in [S -> Nat], NEW e \in [S -> Nat], NEW w \in S,
         NEW k \in Nat, e[w] = c[w] + k, \A x \in S \ {w} : e[x] = c[x]
  PROVE  \A s \in SUBSET S :
           Sums(e, S)[s] = IF w \in s THEN Sums(c, S)[s] + k ELSE Sums(c, S)[s]
  <1> DEFINE Good(s) == Sums(e, S)[s] = IF w \in s THEN Sums(c, S)[s] + k ELSE Sums(c, S)[s]
             Bad == {s \in SUBSET S : ~Good(s)}
  <1>1. SUFFICES ASSUME Bad # {} PROVE FALSE
    OBVIOUS
  <1>2. PICK s \in Bad : \A x \in s : s \ {x} \notin Bad
    <2>1. Bad \subseteq SUBSET S
      OBVIOUS
    <2> HIDE DEF Bad
    <2> QED BY <1>1, <2>1, LeastSubset
  <1>3. s # {}
    <2>1. Sums(c, S)[{}] = 0 /\ Sums(e, S)[{}] = 0
      BY SumsAre
    <2>2. {} \notin Bad
      BY <2>1
    <2> QED BY <1>2, <2>2
  <1> DEFINE x == FirstOf(s)
             t == s \ {FirstOf(s)}
  <1>4. /\ x \in s /\ x \in S /\ t \in SUBSET S
        /\ Sums(c, S)[s] = c[x] + Sums(c, S)[t] /\ Sums(e, S)[s] = e[x] + Sums(e, S)[t]
    BY <1>2, <1>3, SumsAre
  <1>5. Good(t) /\ (w \in t <=> w \in s /\ w # x)
    BY <1>2, <1>4
  <1>6. Sums(c, S)[t] \in Nat /\ c[x] \in Nat
    BY <1>4, SumsType
  <1> HIDE DEF x, t
  <1>7. Good(s)
    <2>1. CASE w = x
      BY <1>4, <1>5, <1>6, <2>1
    <2>2. CASE w # x
      BY <1>4, <1>5, <1>6, <2>2
    <2> QED BY <2>1, <2>2
  <1> QED BY <1>2, <1>7

\* Any summand may be taken out first.
LEMMA SumsTake ==
  ASSUME NEW S, IsFiniteSet(S), NEW c \in [S -> Nat]
  PROVE  \A s \in SUBSET S : \A x \in s : Sums(c, S)[s] = c[x] + Sums(c, S)[s \ {x}]
  <1> DEFINE F == Sums(c, S)
             Bad == {s \in SUBSET S : ~ \A x \in s : F[s] = c[x] + F[s \ {x}]}
  <1>1. SUFFICES ASSUME Bad # {} PROVE FALSE
    OBVIOUS
  <1>2. PICK s \in Bad : \A x \in s : s \ {x} \notin Bad
    <2>1. Bad \subseteq SUBSET S
      OBVIOUS
    <2> HIDE DEF Bad
    <2> QED BY <1>1, <2>1, LeastSubset
  <1>3. PICK x \in s : F[s] # c[x] + F[s \ {x}]
    OBVIOUS
  <1>4. PICK y \in s : y = FirstOf(s) /\ F[s] = c[y] + F[s \ {y}]
    BY <1>3, SumsAre
  <1>5. x # y
    BY <1>3, <1>4
  <1>6. /\ F[s \ {x}] = c[y] + F[(s \ {x}) \ {y}]
        /\ F[s \ {y}] = c[x] + F[(s \ {y}) \ {x}]
    <2>1. /\ s \ {x} \in SUBSET S /\ s \ {x} \notin Bad /\ y \in s \ {x}
          /\ s \ {y} \in SUBSET S /\ s \ {y} \notin Bad /\ x \in s \ {y}
      BY <1>2, <1>5
    <2> QED BY <2>1
  <1>7. (s \ {x}) \ {y} = (s \ {y}) \ {x}
    OBVIOUS
  <1>8. /\ c[x] \in Nat /\ c[y] \in Nat
        /\ (s \ {y}) \ {x} \in SUBSET S
        /\ F[(s \ {y}) \ {x}] \in Nat
    BY SumsType
  <1>9. PICK a \in Nat, p \in Nat, q \in Nat :
          a = F[(s \ {y}) \ {x}] /\ p = c[x] /\ q = c[y]
    BY <1>8
  <1> HIDE DEF F, Bad
  <1>10. F[s \ {x}] = q + a /\ F[s \ {y}] = p + a
    BY <1>6, <1>7, <1>9
  <1>11. F[s] = q + (p + a) /\ c[x] + F[s \ {x}] = p + (q + a)
    BY <1>4, <1>9, <1>10
  <1> QED BY <1>3, <1>11

\* The sum over two parts is the sum of their sums.
LEMMA SumsUnion ==
  ASSUME NEW S, IsFiniteSet(S), NEW c \in [S -> Nat],
         NEW r \in SUBSET S, NEW t \in SUBSET S, r \cap t = {}
  PROVE  Sums(c, S)[r \cup t] = Sums(c, S)[r] + Sums(c, S)[t]
  <1> DEFINE F == Sums(c, S)
             Bad == {s \in SUBSET S : s \cap t = {} /\ F[s \cup t] # F[s] + F[t]}
  <1>1. SUFFICES ASSUME Bad # {} PROVE FALSE
    OBVIOUS
  <1>2. PICK s \in Bad : \A x \in s : s \ {x} \notin Bad
    <2>1. Bad \subseteq SUBSET S
      OBVIOUS
    <2> HIDE DEF Bad
    <2> QED BY <1>1, <2>1, LeastSubset
  <1>3. \A u \in SUBSET S : F[u] \in Nat
    BY SumsType
  <1>4. s # {}
    <2>1. F[{}] = 0 /\ F[t] \in Nat /\ {} \cup t = t
      BY <1>3, SumsAre
    <2>2. F[{} \cup t] = F[{}] + F[t]
      <3> HIDE DEF F
      <3> QED BY <2>1
    <2> QED BY <1>2, <2>2
  <1>5. PICK x \in s : s \ {x} \notin Bad
    BY <1>2, <1>4
  <1>6. /\ F[s \cup t] = c[x] + F[(s \cup t) \ {x}]
        /\ F[s] = c[x] + F[s \ {x}]
    BY SumsTake
  <1>7. (s \cup t) \ {x} = (s \ {x}) \cup t
    OBVIOUS
  <1>8. F[(s \ {x}) \cup t] = F[s \ {x}] + F[t]
    BY <1>5
  <1>9. c[x] \in Nat /\ F[s \ {x}] \in Nat /\ F[t] \in Nat
    BY <1>3
  <1>10. F[s \cup t] # F[s] + F[t]
    OBVIOUS
  <1> HIDE DEF F, Bad
  <1>11. PICK a \in Nat, p \in Nat, q \in Nat : a = F[s \ {x}] /\ p = c[x] /\ q = F[t]
    BY <1>9
  <1>12. F[s \cup t] = p + (a + q) /\ F[s] + F[t] = (p + a) + q
    BY <1>6, <1>7, <1>8, <1>11
  <1> QED BY <1>10, <1>12

\* A sum does not depend on what else could be summed.
LEMMA SumsExtend ==
  ASSUME NEW T, IsFiniteSet(T), NEW S \in SUBSET T, NEW c, NEW d, \A x \in S : c[x] = d[x]
  PROVE  \A s \in SUBSET S : Sums(c, S)[s] = Sums(d, T)[s]
  <1> DEFINE Bad == {s \in SUBSET S : Sums(c, S)[s] # Sums(d, T)[s]}
  <1>0. IsFiniteSet(S)
    BY FS_Subset
  <1>1. SUFFICES ASSUME Bad # {} PROVE FALSE
    OBVIOUS
  <1>2. PICK s \in Bad : \A x \in s : s \ {x} \notin Bad
    <2>1. Bad \subseteq SUBSET S
      OBVIOUS
    <2> HIDE DEF Bad
    <2> QED BY <1>0, <1>1, <2>1, LeastSubset
  <1>3. Sums(c, S)[{}] = 0 /\ Sums(d, T)[{}] = 0
    BY <1>0, SumsAre
  <1>4. s # {}
    <2>1. {} \notin Bad
      BY <1>3
    <2> QED BY <1>2, <2>1
  <1>4a. s \in SUBSET S
    OBVIOUS
  <1>5. /\ FirstOf(s) \in s /\ s \ {FirstOf(s)} \in SUBSET S
        /\ Sums(c, S)[s] = c[FirstOf(s)] + Sums(c, S)[s \ {FirstOf(s)}]
    <2>1. \A u \in SUBSET S : u # {} =>
            /\ FirstOf(u) \in u /\ u \ {FirstOf(u)} \in SUBSET S
            /\ Sums(c, S)[u] = c[FirstOf(u)] + Sums(c, S)[u \ {FirstOf(u)}]
      BY <1>0, SumsAre
    <2> HIDE DEF Bad
    <2> QED BY <1>4, <1>4a, <2>1
  <1>6. Sums(d, T)[s] = d[FirstOf(s)] + Sums(d, T)[s \ {FirstOf(s)}]
    <2>1. s \in SUBSET T
      BY <1>4a
    <2>2. \A u \in SUBSET T : u # {} =>
            /\ FirstOf(u) \in u /\ u \ {FirstOf(u)} \in SUBSET T
            /\ Sums(d, T)[u] = d[FirstOf(u)] + Sums(d, T)[u \ {FirstOf(u)}]
      BY SumsAre
    <2> HIDE DEF Bad
    <2> QED BY <1>4, <2>1, <2>2
  <1>7. Sums(c, S)[s \ {FirstOf(s)}] = Sums(d, T)[s \ {FirstOf(s)}]
    BY <1>2, <1>5
  <1> QED BY <1>5, <1>6, <1>7

\* Equal summands.
LEMMA SumsEqual ==
  ASSUME NEW S, IsFiniteSet(S), NEW k \in Nat, NEW c, \A x \in S : c[x] = k
  PROVE  \A s \in SUBSET S : Sums(c, S)[s] = Cardinality(s) * k
  <1> DEFINE Bad == {s \in SUBSET S : Sums(c, S)[s] # Cardinality(s) * k}
  <1>1. SUFFICES ASSUME Bad # {} PROVE FALSE
    OBVIOUS
  <1>2. PICK s \in Bad : \A x \in s : s \ {x} \notin Bad
    <2>1. Bad \subseteq SUBSET S
      OBVIOUS
    <2> HIDE DEF Bad
    <2> QED BY <1>1, <2>1, LeastSubset
  <1>3. s # {}
    <2>1. Sums(c, S)[{}] = 0 /\ Cardinality({}) = 0
      BY SumsAre, FS_EmptySet
    <2>2. {} \notin Bad
      BY <2>1
    <2> QED BY <1>2, <2>2
  <1>4. /\ FirstOf(s) \in s /\ FirstOf(s) \in S /\ s \ {FirstOf(s)} \in SUBSET S
        /\ Sums(c, S)[s] = c[FirstOf(s)] + Sums(c, S)[s \ {FirstOf(s)}]
    BY <1>2, <1>3, SumsAre
  <1>5. Sums(c, S)[s \ {FirstOf(s)}] = Cardinality(s \ {FirstOf(s)}) * k
    BY <1>2, <1>4
  <1>6. PICK m \in Nat : Cardinality(s) = m + 1 /\ Cardinality(s \ {FirstOf(s)}) = m
    <2>1. IsFiniteSet(s)
      BY FS_Subset
    <2>2. /\ IsFiniteSet(s \ {FirstOf(s)})
          /\ Cardinality(s \ {FirstOf(s)}) = Cardinality(s) - 1
      BY <1>4, <2>1, FS_RemoveElement
    <2>3. Cardinality(s) \in Nat /\ Cardinality(s \ {FirstOf(s)}) \in Nat
      BY <2>1, <2>2, FS_CardinalityType
    <2> QED BY <2>2, <2>3
  <1>7. Sums(c, S)[s] = k + m * k
    BY <1>4, <1>5, <1>6
  <1>8. k + m * k = (m + 1) * k
    OBVIOUS
  <1>9. Sums(c, S)[s] # Cardinality(s) * k
    OBVIOUS
  <1> HIDE DEF Bad
  <1> QED BY <1>6, <1>7, <1>8, <1>9

-----------------------------------------------------------------------------
(* Remainders *)

\* What the remainder is.
LEMMA ModBounds ==
  ASSUME NEW a \in Int, NEW d \in Nat \ {0}
  PROVE  /\ (a % d) \in 0..d-1 /\ (a \div d) \in Int
         /\ a = d * (a \div d) + (a % d)
  OBVIOUS

\* Multiples of d that are less than d apart.
LEMMA MulGap ==
  ASSUME NEW d \in Nat \ {0}, NEW x \in Int, NEW y \in Int, d * x < d * y + d
  PROVE  x <= y
  <1>1. SUFFICES ASSUME x >= y + 1 PROVE FALSE
    OBVIOUS
  <1>2. d * x = d * (x - y - 1) + d * y + d
    OBVIOUS
  <1>3. d * (x - y - 1) >= 0
    <2>1. x - y - 1 \in Nat
      BY <1>1
    <2>2. \A m \in Nat : d * m >= 0
      OBVIOUS
    <2> QED BY <2>1, <2>2
  <1> QED BY <1>2, <1>3

\* The remainder is determined by its range.
LEMMA ModUnique ==
  ASSUME NEW n \in Nat \ {0}, NEW q \in Int, NEW r \in 0..n-1
  PROVE  (n * q + r) % n = r
  <1> DEFINE a == n * q + r
  <1>1. a \in Int
    OBVIOUS
  <1>2. /\ (a % n) \in 0..n-1 /\ (a \div n) \in Int
        /\ n * (a \div n) + (a % n) = n * q + r
    BY <1>1, ModBounds
  <1>3. n * q < n * (a \div n) + n /\ n * (a \div n) < n * q + n
    BY <1>1, <1>2
  <1>4. q = a \div n
    BY <1>1, <1>2, <1>3, MulGap
  <1> QED BY <1>1, <1>2, <1>4

\* Numbers less than d apart have different remainders.
LEMMA NearResiduesDiffer ==
  ASSUME NEW d \in Nat \ {0}, NEW a \in Int, NEW b \in Int, a < b, b < a + d
  PROVE  a % d # b % d
  <1>1. SUFFICES ASSUME a % d = b % d PROVE FALSE
    OBVIOUS
  <1>2. PICK p \in Int, q \in Int, r \in 0..d-1 : a = d * p + r /\ b = d * q + r
    BY <1>1, ModBounds
  <1>3. d * q < d * p + d
    BY <1>2
  <1>4. q <= p
    BY <1>3, MulGap
  <1>5. d * (p - q) >= 0
    <2>1. p - q \in Nat
      BY <1>4
    <2>2. \A m \in Nat : d * m >= 0
      OBVIOUS
    <2> QED BY <2>1, <2>2
  <1>6. d * (p - q) = d * p - d * q
    OBVIOUS
  <1> QED BY <1>2, <1>5, <1>6


-----------------------------------------------------------------------------
(* Folds *)

\* g is the fold of op over S that takes the elements of a set in the order of
\* pick.
IsFold(g, S, A, base, op, pick) ==
  /\ g = [s \in SUBSET S |-> g[s]]
  /\ \A s \in SUBSET S :
       /\ g[s] = IF s = {} THEN base ELSE op[<<pick[s], g[s \ {pick[s]}]>>]
       /\ g[s] \in A

\* A fold over a finite set that takes its elements in the order of pick is
\* well-defined: a function does what its recursive equation says.
LEMMA FoldExists ==
  ASSUME NEW S, IsFiniteSet(S), NEW A, NEW base \in A, NEW op, NEW pick,
         \A x \in S, a \in A : op[<<x, a>>] \in A,
         \A s \in SUBSET S : s # {} => pick[s] \in s
  PROVE  \E g : IsFold(g, S, A, base, op, pick)
  <1> DEFINE Next(g) == [s \in SUBSET S |-> IF s = {} THEN base
                                            ELSE op[<<pick[s], g[s \ {pick[s]}]>>]]
             Upto(k, g) == /\ g = [s \in SUBSET S |-> g[s]]
                           /\ \A s \in SUBSET S :
                                Cardinality(s) <= k => g[s] = Next(g)[s] /\ g[s] \in A
             Good == {k \in Nat : \E g : Upto(k, g)}
  <1>1. \A s \in SUBSET S : /\ IsFiniteSet(s) /\ Cardinality(s) \in Nat
                            /\ Cardinality(s) <= Cardinality(S)
    BY FS_Subset, FS_CardinalityType
  <1>2. 0 \in Good
    <2> DEFINE g == [s \in SUBSET S |-> base]
    <2>1. ASSUME NEW s \in SUBSET S, Cardinality(s) <= 0
          PROVE  g[s] = Next(g)[s] /\ g[s] \in A
      <3>1. s = {}
        BY <1>1, <2>1, FS_EmptySet
      <3> QED BY <3>1
    <2>2. g = [s \in SUBSET S |-> g[s]]
      OBVIOUS
    <2>3. Upto(0, g)
      BY <2>1, <2>2
    <2> QED BY <2>3
  <1>3. ASSUME NEW m \in Nat, m \in Good PROVE m + 1 \in Good
    <2>1. PICK g : Upto(m, g)
      BY <1>3
    <2> DEFINE h == Next(g)
    <2>2. h = [s \in SUBSET S |-> h[s]]
      OBVIOUS
    <2>3. ASSUME NEW s \in SUBSET S, Cardinality(s) <= m + 1
          PROVE  h[s] = Next(h)[s] /\ h[s] \in A
      <3>1. CASE s = {}
        BY <3>1
      <3>2. CASE s # {}
        <4> DEFINE t == s \ {pick[s]}
        <4>1. pick[s] \in s /\ t \in SUBSET S
          BY <3>2
        <4>2. Cardinality(t) <= m
          BY <1>1, <2>3, <4>1, FS_RemoveElement
        <4>3. g[t] = h[t] /\ g[t] \in A
          BY <2>1, <4>1, <4>2
        <4>4. h[s] = op[<<pick[s], g[t]>>] /\ Next(h)[s] = op[<<pick[s], h[t]>>]
          BY <3>2
        <4> QED BY <4>1, <4>3, <4>4
      <3> QED BY <3>1, <3>2
    <2>4. Upto(m + 1, h)
      <3> HIDE DEF h
      <3> QED BY <2>2, <2>3
    <2>5. m + 1 \in Nat
      OBVIOUS
    <2> HIDE DEF h, Upto
    <2> QED BY <2>4, <2>5
  <1>4. Cardinality(S) \in Nat
    BY FS_CardinalityType
  <1>5. Cardinality(S) \in Good
    <2>1. \A k \in 0..Cardinality(S)-1 : k \in Good => k + 1 \in Good
      <3> HIDE DEF Good
      <3> QED BY <1>3, <1>4
    <2> HIDE DEF Good
    <2> QED BY <1>2, <1>4, <2>1, StepByStep
  <1>6. PICK g : Upto(Cardinality(S), g)
    BY <1>5
  <1>7. \A s \in SUBSET S : g[s] = Next(g)[s] /\ g[s] \in A
    BY <1>1, <1>6
  <1>8. g = [s \in SUBSET S |-> g[s]]
    BY <1>6
  <1>9. IsFold(g, S, A, base, op, pick)
    BY <1>7, <1>8 DEF IsFold
  <1> QED BY <1>9

\* What FoldLeft makes of the positions s of a list.
FoldStep(op, base, seq, g) ==
  [s \in SUBSET DOMAIN seq |->
     IF s = {} THEN base ELSE op[<<seq[Max(s)], g[s \ {Max(s)}]>>]]

IsFoldLeft(g, op, base, seq, A) ==
  g = FoldStep(op, base, seq, g) /\ \A s \in SUBSET DOMAIN seq : g[s] \in A

LEMMA FoldLeftExists ==
  ASSUME NEW B, NEW seq \in Seq(B), NEW A, NEW base \in A, NEW op,
         \A x \in B, a \in A : op[<<x, a>>] \in A
  PROVE  \E g : IsFoldLeft(g, op, base, seq, A)
  <1> DEFINE S == DOMAIN seq
             n == Len(seq)
             pick == [s \in SUBSET S |-> Max(s)]
             opx == [z \in S \X A |-> op[<<seq[z[1]], z[2]>>]]
  <1>1. S = 1..n /\ n \in Nat /\ IsFiniteSet(S) /\ \A i \in S : seq[i] \in B
    BY FS_Interval
  <1>2. \A s \in SUBSET S : s # {} => Max(s) \in s /\ \A j \in s : j <= Max(s)
    BY <1>1, MaxPosition
  <1>3. PICK g0 : /\ g0 = [s \in SUBSET S |-> g0[s]]
                  /\ \A s \in SUBSET S :
                       /\ g0[s] = IF s = {} THEN base ELSE opx[<<pick[s], g0[s \ {pick[s]}]>>]
                       /\ g0[s] \in A
    <2>1. \A x \in S, a \in A : opx[<<x, a>>] \in A
      BY <1>1
    <2>2. \A s \in SUBSET S : s # {} => pick[s] \in s
      BY <1>2
    <2>3. IsFiniteSet(S)
      BY <1>1
    <2>4. \E h : IsFold(h, S, A, base, opx, pick)
      <3> HIDE DEF opx, pick, S, n
      <3> QED BY <2>1, <2>2, <2>3, FoldExists
    <2> HIDE DEF opx, pick, S, n
    <2> QED BY <2>4 DEF IsFold
  <1>4. g0 = FoldStep(op, base, seq, g0)
    <2>1. ASSUME NEW s \in SUBSET S PROVE g0[s] = FoldStep(op, base, seq, g0)[s]
      <3>1. CASE s = {}
        BY <1>3, <3>1 DEF FoldStep
      <3>2. CASE s # {}
        <4>1. Max(s) \in S /\ s \ {Max(s)} \in SUBSET S
          BY <1>2, <3>2
        <4>2. g0[s \ {Max(s)}] \in A
          BY <1>3, <4>1
        <4>3. opx[<<Max(s), g0[s \ {Max(s)}]>>] = op[<<seq[Max(s)], g0[s \ {Max(s)}]>>]
          BY <4>1, <4>2
        <4>4. pick[s] = Max(s)
          OBVIOUS
        <4>5. g0[s] = opx[<<pick[s], g0[s \ {pick[s]}]>>]
          <5> HIDE DEF opx, pick
          <5> QED BY <1>3, <3>2
        <4> QED BY <3>2, <4>3, <4>4, <4>5 DEF FoldStep
      <3> QED BY <3>1, <3>2
    <2>2. g0 = [s \in SUBSET S |-> g0[s]]
      <3> HIDE DEF opx, pick
      <3> QED BY <1>3
    <2> QED BY <2>1, <2>2 DEF FoldStep
  <1>5. IsFoldLeft(g0, op, base, seq, A)
    BY <1>3, <1>4 DEF IsFoldLeft
  <1> QED BY <1>5

\* It goes through the list from left to right.
LEMMA FirstPositions ==
  ASSUME NEW n \in Nat, NEW k \in 1..n
  PROVE  /\ (1..k) \in SUBSET (1..n) /\ (1..k) # {} /\ Max(1..k) = k
         /\ (1..k) \ {k} = 1..k-1 /\ k - 1 \in 0..n-1
  <1>1. (1..k) \subseteq (1..n) /\ k \in 1..k /\ k - 1 \in 0..n-1
    OBVIOUS
  <1>2. Max(1..k) \in 1..k /\ k <= Max(1..k)
    BY <1>1, MaxPosition
  <1>3. (1..k) \ {k} = 1..k-1
    OBVIOUS
  <1> QED BY <1>1, <1>2, <1>3

\* r says what op makes of the first positions of a list, and ends with end.
IsRun(r, op, base, seq, A, end) ==
  /\ r \in [0..Len(seq) -> A]
  /\ r[0] = base
  /\ \A k \in 1..Len(seq) : r[k] = op[<<seq[k], r[k-1]>>]
  /\ r[Len(seq)] = end

\* A fold goes through its list step by step: c is the fold, known to do what op
\* does on what op is defined for.
LEMMA FoldLeftRun ==
  ASSUME NEW B, NEW seq \in Seq(B), NEW A, NEW base \in A, NEW op,
         \A x \in B, a \in A : op[<<x, a>>] \in A,
         NEW c, c[{}] = base,
         \A s \in SUBSET DOMAIN seq :
           s # {} /\ c[s \ {Max(s)}] \in A => c[s] = op[<<seq[Max(s)], c[s \ {Max(s)}]>>]
  PROVE  \E r : IsRun(r, op, base, seq, A, c[DOMAIN seq])
  <1> DEFINE n == Len(seq)
             r == [k \in 0..n |-> c[1..k]]
             Good == {k \in 0..n : r[k] \in A}
  <1>1. n \in Nat /\ DOMAIN seq = 1..n /\ \A k \in 1..n : seq[k] \in B
    OBVIOUS
  <1>2. r[0] = base
    <2>1. (1..0) = {}
      OBVIOUS
    <2> QED BY <1>1, <2>1
  <1>3. ASSUME NEW k \in 1..n, r[k-1] \in A PROVE r[k] = op[<<seq[k], r[k-1]>>]
    <2>1. /\ (1..k) \in SUBSET DOMAIN seq /\ (1..k) # {} /\ Max(1..k) = k
          /\ (1..k) \ {k} = 1..k-1 /\ k - 1 \in 0..n
      BY <1>1, FirstPositions
    <2>2. r[k] = c[1..k] /\ r[k-1] = c[1..k-1]
      BY <1>1, <2>1
    <2> HIDE DEF r, n
    <2> QED BY <1>3, <2>1, <2>2
  <1> HIDE DEF r
  <1>4. ASSUME NEW k \in 0..n-1, k \in Good PROVE k + 1 \in Good
    <2>1. k + 1 \in 1..n /\ k + 1 \in 0..n /\ (k + 1) - 1 = k
      BY <1>1
    <2>2. r[k+1] = op[<<seq[k+1], r[k]>>]
      BY <1>3, <1>4, <2>1
    <2> QED BY <1>1, <1>4, <2>1, <2>2
  <1>5. 0..n \subseteq Good
    <2>1. 0 \in Good
      BY <1>1, <1>2
    <2> HIDE DEF Good
    <2> QED BY <1>1, <1>4, <2>1, StepByStep
  <1>6. \A k \in 0..n : r[k] \in A
    BY <1>5
  <1>7. r \in [0..n -> A]
    BY <1>6 DEF r
  <1>8. \A k \in 1..n : r[k] = op[<<seq[k], r[k-1]>>]
    <2> TAKE k \in 1..n
    <2>1. k - 1 \in 0..n
      BY <1>1
    <2> QED BY <1>3, <1>6, <2>1
  <1>9. r[n] = c[DOMAIN seq]
    BY <1>1 DEF r
  <1>10. IsRun(r, op, base, seq, A, c[DOMAIN seq])
    BY <1>2, <1>7, <1>8, <1>9 DEF IsRun
  <1> QED BY <1>10

\* The recursion behind FlattenSeq.
FlattenStep(seqs, g) ==
  [i \in 1..Len(seqs) |-> IF i = 1 THEN seqs[i] ELSE g[i-1] \o seqs[i]]

\* Lists joined one after the other are what joined says, as long as it says it of
\* the first and of each further one.
LEMMA FlattenIs ==
  ASSUME NEW B, NEW seqs \in Seq(Seq(B)), Len(seqs) > 0,
         NEW joined, joined[1] = seqs[1],
         \A i \in 1..Len(seqs)-1 : joined[i+1] = joined[i] \o seqs[i+1]
  PROVE  (CHOOSE g : g = FlattenStep(seqs, g))[Len(seqs)] = joined[Len(seqs)]
  <1> DEFINE n == Len(seqs)
             f == [i \in 1..n |-> joined[i]]
             c == CHOOSE g : g = FlattenStep(seqs, g)
             Good == {i \in 0..n : i = 0 \/ c[i] = joined[i]}
  <1>1. n \in Nat /\ n > 0
    OBVIOUS
  <1>2. \A i \in 1..n : f[i] = FlattenStep(seqs, f)[i]
    <2> TAKE i \in 1..n
    <2>1. CASE i = 1
      BY <2>1 DEF FlattenStep
    <2>2. CASE i # 1
      <3>1. PICK j \in 1..n-1 : j + 1 = i /\ j = i - 1
        BY <2>2
      <3>2. j \in 1..n
        BY <3>1
      <3>3. f[j] = joined[j] /\ f[i] = joined[i] /\ joined[i] = joined[j] \o seqs[i]
        BY <3>1, <3>2
      <3> HIDE DEF f
      <3> QED BY <2>2, <3>1, <3>3 DEF FlattenStep
    <2> QED BY <2>1, <2>2
  <1>3. f = FlattenStep(seqs, f)
    BY <1>2 DEF FlattenStep
  <1>4. c = FlattenStep(seqs, c)
    <2>1. \E g : g = FlattenStep(seqs, g)
      BY <1>3
    <2> HIDE DEF FlattenStep
    <2> QED BY <2>1
  <1> HIDE DEF c
  <1>6. ASSUME NEW k \in 0..n-1, k \in Good PROVE k + 1 \in Good
    <2>1. k + 1 \in 1..n /\ (k + 1) - 1 = k
      BY <1>1
    <2>2. c[k+1] = IF k + 1 = 1 THEN seqs[k+1] ELSE c[k] \o seqs[k+1]
      BY <1>4, <2>1 DEF FlattenStep
    <2>3. CASE k = 0
      BY <2>1, <2>2, <2>3
    <2>4. CASE k # 0
      <3>1. c[k] = joined[k] /\ k \in 1..n-1
        BY <1>6, <2>4
      <3>2. c[k+1] = joined[k+1]
        BY <2>2, <2>4, <3>1
      <3> QED BY <2>1, <3>2
    <2> QED BY <2>3, <2>4
  <1>7. 0..n \subseteq Good
    <2>1. 0 \in Good
      BY <1>1
    <2> HIDE DEF Good
    <2> QED BY <1>1, <1>6, <2>1, StepByStep
  <1>8. c[n] = joined[n]
    <2>1. n \in Good
      <3>1. n \in 0..n
        BY <1>1
      <3> HIDE DEF Good, n
      <3> QED BY <1>7, <3>1
    <2> QED BY <1>1, <2>1
  <1> QED BY <1>8 DEF c

\* Two lists joined.
LEMMA JoinIs ==
  ASSUME NEW S, NEW a \in Seq(S), NEW b \in Seq(S)
  PROVE  /\ a \o b \in Seq(S) /\ Len(a \o b) = Len(a) + Len(b)
         /\ \A k \in 1..Len(a) : (a \o b)[k] = a[k]
         /\ \A k \in 1..Len(b) : (a \o b)[Len(a) + k] = b[k]
  <1>1. PICK l \in Nat, m \in Nat : l = Len(a) /\ m = Len(b)
    OBVIOUS
  <1>2. a \o b \in Seq(S) /\ Len(a \o b) = l + m
    BY <1>1
  <1>3. ASSUME NEW k \in 1..l PROVE (a \o b)[k] = a[k]
    BY <1>1
  <1>4. ASSUME NEW k \in 1..m PROVE (a \o b)[l+k] = b[k]
    <2>1. PICK j \in 1..l+m : j = l + k /\ ~(j <= l) /\ j - l = k
      OBVIOUS
    <2> QED BY <1>1, <2>1
  <1> QED BY <1>1, <1>2, <1>3, <1>4
=============================================================================
