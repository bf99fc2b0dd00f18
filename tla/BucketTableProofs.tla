------------------------- MODULE BucketTableProofs ---------------------------
(***************************************************************************)
(* The token table is sound for every slot space, every bucket count and   *)
(* every hash function: proofs about BucketTable.                          *)
(***************************************************************************)
EXTENDS BucketTable, BucketTableMemo, SetLemmas

-----------------------------------------------------------------------------
(* Slot ranges *)

\* Multiplication by a positive number keeps and reflects the order; the
\* provers need it spelled out for products of two variables.
LEMMA MulMonotone ==
  ASSUME NEW a \in Nat, NEW b \in Nat, NEW c \in Nat
  PROVE  /\ a <= b => a * c <= b * c
         /\ a * c < b * c => a < b
  <1>1. ASSUME a <= b PROVE a * c <= b * c
    <2>1. PICK d \in Nat : b = a + d
      BY <1>1
    <2>2. b * c = a * c + d * c
      BY <2>1
    <2>3. d * c \in Nat /\ a * c \in Nat
      BY <2>1
    <2> QED BY <2>2, <2>3
  <1>2. ASSUME b <= a PROVE b * c <= a * c
    <2>1. PICK d \in Nat : a = b + d
      BY <1>2
    <2>2. a * c = b * c + d * c
      BY <2>1
    <2>3. d * c \in Nat /\ b * c \in Nat
      BY <2>1
    <2> QED BY <2>2, <2>3
  <1>3. a * c \in Nat /\ b * c \in Nat
    OBVIOUS
  <1> QED BY <1>1, <1>2, <1>3

\* What floor division returns.
LEMMA DivBounds ==
  ASSUME NEW a \in Nat, NEW b \in Nat \ {0}
  PROVE  /\ a \div b \in Nat
         /\ (a \div b) * b <= a
         /\ a < ((a \div b) + 1) * b
  OBVIOUS

\* Whether a bucket starts at or below a slot, without the division.
LEMMA BoundaryAtOrBelow ==
  ASSUME NEW n \in 1..NumSlots, NEW i \in Nat, NEW s \in Nat
  PROVE  /\ Boundary(i, n) \in Nat
         /\ Boundary(i, n) <= s <=> i * NumSlots < (s + 1) * n
  <1> DEFINE q == (i * NumSlots) \div n
  <1>1. NumSlots \in Nat /\ n \in Nat \ {0}
    BY NumSlotsAssumption
  <1>2. i * NumSlots \in Nat
    BY <1>1
  <1>3. q \in Nat /\ q * n <= i * NumSlots /\ i * NumSlots < (q + 1) * n
    BY <1>1, <1>2, DivBounds
  <1>4. ASSUME q <= s PROVE i * NumSlots < (s + 1) * n
    <2>1. (q + 1) * n <= (s + 1) * n
      BY <1>1, <1>3, <1>4, MulMonotone
    <2>2. (q + 1) * n \in Nat /\ (s + 1) * n \in Nat
      BY <1>1, <1>3
    <2> QED BY <1>2, <1>3, <2>1, <2>2
  <1>5. ASSUME i * NumSlots < (s + 1) * n PROVE q <= s
    <2>1. q * n \in Nat /\ (s + 1) * n \in Nat
      BY <1>1, <1>3
    <2>2. q * n < (s + 1) * n
      BY <1>2, <1>3, <1>5, <2>1
    <2>3. q < s + 1
      BY <1>1, <1>3, <2>2, MulMonotone
    <2> QED BY <1>3, <2>3
  <1> QED BY <1>3, <1>4, <1>5 DEF Boundary

\* bisect_right finds, for every slot, a legal bucket whose range holds the
\* slot, and no other bucket's range does (fqdn_slots.py slot_range and the
\* bisect in compute_bucket_table): the ranges partition the slot space.
THEOREM BucketForIsTheRange ==
  ASSUME NEW n \in 1..NumSlots, NEW s \in 0..NumSlots-1
  PROVE  /\ BucketFor(s, n) \in 0..n-1
         /\ s \in slot_range(BucketFor(s, n), n)
         /\ \A i \in 0..n-1 : s \in slot_range(i, n) => i = BucketFor(s, n)
  <1> DEFINE m == (s + 1) * n - 1
             b == m \div NumSlots
  <1>1. NumSlots \in Nat \ {0} /\ n \in Nat \ {0} /\ s \in Nat
    BY NumSlotsAssumption
  <1>2. m \in Nat /\ (s + 1) * n = m + 1
    <2>1. 1 * n <= (s + 1) * n
      BY <1>1, MulMonotone
    <2> QED BY <1>1, <2>1
  <1>3. b \in Nat /\ b * NumSlots <= m /\ m < (b + 1) * NumSlots
    BY <1>1, <1>2, DivBounds
  <1>4. b \in 0..n-1
    <2>1. (s + 1) * n <= NumSlots * n
      BY <1>1, MulMonotone
    <2>2. NumSlots * n = n * NumSlots /\ n * NumSlots \in Nat /\ b * NumSlots \in Nat
      BY <1>1, <1>3
    <2>3. b * NumSlots < n * NumSlots
      BY <1>2, <1>3, <2>1, <2>2
    <2>4. b < n
      BY <1>1, <1>3, <2>3, MulMonotone
    <2> QED BY <1>1, <1>3, <2>4
  <1>5. ASSUME NEW i \in Nat PROVE i * NumSlots < (s + 1) * n <=> i <= b
    <2>1. i * NumSlots \in Nat /\ b * NumSlots \in Nat /\ (b + 1) * NumSlots \in Nat
      BY <1>1, <1>3
    <2>2. i <= b => i * NumSlots <= b * NumSlots
      BY <1>1, <1>3, MulMonotone
    <2>3. b + 1 <= i => (b + 1) * NumSlots <= i * NumSlots
      BY <1>1, <1>3, MulMonotone
    <2> QED BY <1>2, <1>3, <2>1, <2>2, <2>3
  <1>6. \A i \in Nat : Boundary(i, n) \in Nat /\ (Boundary(i, n) <= s <=> i <= b)
    BY <1>1, <1>5, BoundaryAtOrBelow
  <1>7. {i \in 0..n-1 : Boundary(i, n) <= s} = 0..b
    BY <1>1, <1>4, <1>6
  <1>8. BucketFor(s, n) = b
    <2>1. Cardinality(0..b) = b + 1
      BY <1>3, FS_Interval
    <2>2. bisect_right(s, n) = Cardinality(0..b)
      BY <1>7, Zenon DEF bisect_right
    <2> HIDE DEF b
    <2> QED BY <1>3, <2>1, <2>2 DEF BucketFor
  <1>9. ASSUME NEW i \in 0..n-1 PROVE s \in slot_range(i, n) <=> i = b
    <2>1. i \in Nat /\ i + 1 \in Nat
      BY <1>1
    <2>2. s \in slot_range(i, n) <=> Boundary(i, n) <= s /\ ~(Boundary(i + 1, n) <= s)
      BY <1>1, <1>6, <2>1 DEF slot_range
    <2> QED BY <1>3, <1>6, <2>1, <2>2
  <1> QED BY <1>4, <1>8, <1>9

\* sort.Search over the same starts, which the Go ports use, is bisect_right.
THEOREM SortSearchIsBisect ==
  ASSUME NEW n \in 1..NumSlots, NEW s \in 0..NumSlots-1
  PROVE  SortSearch(s, n) = bisect_right(s, n)
  <1> DEFINE b == BucketFor(s, n)
             IsSearch(i) == /\ i < n => Boundary(i, n) > s
                            /\ \A j \in 0..i-1 : Boundary(j, n) <= s
  <1>1. NumSlots \in Nat \ {0} /\ n \in Nat \ {0} /\ s \in Nat
    BY NumSlotsAssumption
  <1>2. b \in 0..n-1 /\ Boundary(b, n) <= s /\ ~(Boundary(b + 1, n) <= s)
    <2>1. b \in 0..n-1 /\ s \in slot_range(b, n)
      BY BucketForIsTheRange
    <2>2. Boundary(b, n) \in Nat /\ Boundary(b + 1, n) \in Nat
      BY <1>1, <2>1, BoundaryAtOrBelow
    <2> QED BY <1>1, <2>1, <2>2 DEF slot_range
  <1>3. ASSUME NEW i \in Nat, NEW j \in Nat, i <= j, Boundary(j, n) <= s
        PROVE  Boundary(i, n) <= s
    <2>1. i * NumSlots <= j * NumSlots
      BY <1>1, <1>3, MulMonotone
    <2>2. j * NumSlots < (s + 1) * n
      BY <1>1, <1>3, BoundaryAtOrBelow
    <2>3. i * NumSlots < (s + 1) * n
      BY <1>1, <2>1, <2>2
    <2> QED BY <1>1, <2>3, BoundaryAtOrBelow
  <1>4. \A i \in 0..n : Boundary(i, n) \in Nat
    BY <1>1, BoundaryAtOrBelow
  <1>5. b + 1 \in 0..n /\ IsSearch(b + 1)
    BY <1>1, <1>2, <1>3, <1>4
  <1>6. ASSUME NEW i \in 0..n, IsSearch(i) PROVE i = b + 1
    <2>1. CASE i <= b
      BY <1>1, <1>2, <1>3, <1>4, <1>6, <2>1
    <2>2. CASE i > b + 1
      BY <1>1, <1>2, <1>4, <1>6, <2>2
    <2> QED BY <1>1, <1>2, <2>1, <2>2
  <1>7. SortSearch(s, n) = b + 1
    BY <1>5, <1>6 DEF SortSearch
  <1>8. bisect_right(s, n) \in Int
    <2>1. IsFiniteSet(0..n-1)
      BY <1>1, FS_Interval
    <2>2. IsFiniteSet({i \in 0..n-1 : Boundary(i, n) <= s})
      BY <2>1, FS_Subset
    <2> QED BY <2>2, FS_CardinalityType DEF bisect_right
  <1> QED BY <1>7, <1>8 DEF BucketFor

\* Normalising the truncated remainder yields the floored one: Go's
\* bucketHasModuloMatch computes what Python's does.
LEMMA NormalisedRemainder ==
  ASSUME NEW a \in Int, NEW n \in Nat \ {0}
  PROVE  TruncatedMod(TruncatedMod(a, n) + n, n) = a % n
  <1>1. CASE a >= 0
    <2>1. (a % n) \in 0..n-1
      BY ModBounds
    <2>2. TruncatedMod(a, n) = a % n
      BY <1>1 DEF TruncatedMod
    <2>3. n * 1 + (a % n) = (a % n) + n /\ (a % n) + n >= 0
      BY <2>1
    <2>4. (n * 1 + (a % n)) % n = a % n
      BY <2>1, ModUnique
    <2> QED BY <2>2, <2>3, <2>4 DEF TruncatedMod
  <1>2. CASE a < 0
    <2> DEFINE m == (-a) % n
               q == (-a) \div n
    <2>1. m \in 0..n-1 /\ q \in Int /\ -a = n * q + m
      <3>1. -a \in Int
        OBVIOUS
      <3> QED BY <3>1, ModBounds
    <2>2. TruncatedMod(a, n) = -m
      BY <1>2 DEF TruncatedMod
    <2>3. TruncatedMod(-m + n, n) = (n - m) % n
      BY <2>1 DEF TruncatedMod
    <2> HIDE DEF m, q
    <2>4. CASE m = 0
      <3>1. (n * 1 + 0) % n = 0 /\ (n * (-q) + 0) % n = 0
        <4>1. -q \in Int /\ 1 \in Int /\ 0 \in 0..n-1
          BY <2>1
        <4> QED BY <4>1, ModUnique
      <3>2. a = n * (-q) + 0 /\ n - m = n * 1 + 0
        BY <2>1, <2>4
      <3> QED BY <2>2, <2>3, <3>1, <3>2
    <2>5. CASE m # 0
      <3>1. n - m \in 0..n-1
        BY <2>1, <2>5
      <3>2. (n * 0 + (n - m)) % n = n - m /\ (n * (-q - 1) + (n - m)) % n = n - m
        <4>1. -q - 1 \in Int /\ 0 \in Int
          BY <2>1
        <4> QED BY <3>1, <4>1, ModUnique
      <3>3. a = n * (-q - 1) + (n - m) /\ n - m = n * 0 + (n - m)
        BY <2>1
      <3> QED BY <2>2, <2>3, <3>2, <3>3
    <2> QED BY <2>4, <2>5
  <1> QED BY <1>1, <1>2

\* A range is NumSlots \div n wide, or one more.
LEMMA RangeWidth ==
  ASSUME NEW n \in 1..NumSlots, NEW i \in 0..n-1
  PROVE  LET w == NumSlots \div n
             d == Boundary(i + 1, n) - Boundary(i, n)
         IN  /\ w \in Nat \ {0} /\ d \in {w, w + 1}
             /\ Boundary(i, n) \in Nat /\ Boundary(i + 1, n) \in Nat
  <1> DEFINE w == NumSlots \div n
             a == i * NumSlots
             b == (i + 1) * NumSlots
             lo == a \div n
             hi == b \div n
  <1>1. n \in Nat \ {0} /\ NumSlots \in Nat \ {0} /\ n <= NumSlots /\ i \in Nat
    BY NumSlotsAssumption
  <1>2. a \in Nat /\ b \in Nat /\ b = a + NumSlots
    BY <1>1
  <1>3. lo \in Nat /\ lo * n <= a /\ a < (lo + 1) * n
    BY <1>1, <1>2, DivBounds
  <1>4. hi \in Nat /\ hi * n <= b /\ b < (hi + 1) * n
    BY <1>1, <1>2, DivBounds
  <1>5. w \in Nat /\ w * n <= NumSlots /\ NumSlots < (w + 1) * n
    BY <1>1, DivBounds
  <1>6. w # 0
    BY <1>1, <1>5
  <1> HIDE DEF w, a, b, lo, hi
  <1>7. /\ n * (lo + w) = lo * n + w * n
        /\ n * hi = hi * n
        /\ n * (hi + 1) = (hi + 1) * n
        /\ n * (lo + w + 1) = (lo + 1) * n + w * n
        /\ n * (lo + w + 1) = lo * n + (w + 1) * n
        /\ n * hi + n = (hi + 1) * n
    BY <1>1, <1>3, <1>4, <1>5
  <1>8. lo + w <= hi
    <2>1. n * (lo + w) < n * hi + n
      BY <1>1, <1>2, <1>3, <1>4, <1>5, <1>7
    <2> QED BY <1>1, <1>3, <1>4, <1>5, <2>1, MulGap
  <1>9. hi <= lo + w + 1
    <2>1. (lo + 1) * n + (w + 1) * n = n * (lo + w + 1) + n
      BY <1>1, <1>3, <1>5
    <2>2. n * hi < n * (lo + w + 1) + n
      BY <1>1, <1>2, <1>3, <1>4, <1>5, <1>7, <2>1
    <2> QED BY <1>1, <1>3, <1>4, <1>5, <2>2, MulGap
  <1>10. Boundary(i, n) = lo /\ Boundary(i + 1, n) = hi
    BY DEF Boundary, lo, hi, a, b
  <1> QED BY <1>3, <1>4, <1>5, <1>6, <1>8, <1>9, <1>10 DEF w

-----------------------------------------------------------------------------
(* The search *)

Chosen == {b \in 0..num_buckets-1 : tokens[b] # None}

\* The inductive invariant: besides the properties themselves, the loop
\* counter really counts the buckets that have a token, and every token is a
\* counter already drawn that fits its bucket.
TableInv ==
  /\ TypeOK
  /\ phase \in {"called", "invalid"} => k = 0 /\ filled = 0
  /\ InTable => filled = Cardinality(Chosen)
  /\ InTable => \A b \in 0..num_buckets-1 :
                  tokens[b] # None =>
                    /\ tokens[b] \in 0..k-1
                    /\ Fits(SlotOf[tokens[b]], b, num_buckets, modulo_safe)
  /\ FirstFit
  /\ phase = "done" => filled = num_buckets

LEMMA TableInit == Init => TableInv
  <1> SUFFICES ASSUME Init PROVE TableInv
    OBVIOUS
  <1>1. phase = "called" /\ ~InTable
    BY DEF Init, InTable
  <1>2. TypeOK
    <2>1. num_buckets \in BucketCounts /\ modulo_safe = FALSE /\ k = 0 /\ filled = 0
      BY DEF Init
    <2>2. phase \notin {"searching", "gaveup", "done"}
      BY <1>1
    <2>3. 0 \in 0..MaxDraw+1
      BY MaxDrawAssumption
    <2> QED BY <1>1, <2>1, <2>2, <2>3 DEF TypeOK
  <1> QED BY <1>1, <1>2 DEF Init, TableInv, FirstFit

\* A draw stays inside the table of slots, and its bucket inside the table of
\* tokens.
LEMMA DrawIsLegal ==
  ASSUME TypeOK, InTable, k <= iteration_cap(num_buckets)
  PROVE  /\ k \in 0..MaxDraw
         /\ SlotOf[k] \in 0..NumSlots-1
         /\ num_buckets \in 1..NumSlots
         /\ BucketFor(SlotOf[k], num_buckets) \in 0..num_buckets-1
  <1>1. num_buckets \in 1..NumSlots /\ num_buckets \in BucketCounts /\ k \in Nat
    BY MaxDrawAssumption DEF TypeOK, InTable
  <1>2. iteration_cap(num_buckets) \in 0..MaxDraw
    BY <1>1, CapAssumption
  <1>3. k \in 0..MaxDraw
    BY <1>1, <1>2, MaxDrawAssumption
  <1>4. SlotOf[k] \in 0..NumSlots-1
    BY <1>3, SlotOfAssumption
  <1> QED BY <1>1, <1>3, <1>4, BucketForIsTheRange

LEMMA TakeKeepsInv == TableInv /\ Take => TableInv'
  <1> SUFFICES ASSUME TableInv, Take PROVE TableInv'
    OBVIOUS
  <1> DEFINE s == SlotOf[k]
             c == BucketFor(s, num_buckets)
  <1>1. phase = "searching" /\ InTable /\ InTable' /\ phase' = phase
    BY DEF Take, InTable
  <1>2. k \in 0..MaxDraw /\ s \in 0..NumSlots-1 /\ num_buckets \in 1..NumSlots
        /\ c \in 0..num_buckets-1
    BY <1>1, DrawIsLegal DEF TableInv, Take
  <1>3. tokens \in [0..num_buckets-1 -> 0..MaxDraw \cup {None}]
    BY <1>1 DEF TableInv, TypeOK
  <1>4. tokens[c] = None /\ (modulo_safe => s % num_buckets = c)
    BY DEF Take, Accepts
  <1>5. tokens' = [tokens EXCEPT ![c] = k] /\ k' = k + 1 /\ filled' = filled + 1
        /\ num_buckets' = num_buckets /\ modulo_safe' = modulo_safe
    BY DEF Take
  <1> HIDE DEF s, c
  <1>6. k # None
    BY <1>2 DEF None
  <1>7. /\ tokens'[c] = k
        /\ \A b \in 0..num_buckets-1 : b # c => tokens'[b] = tokens[b]
    BY <1>2, <1>3, <1>5
  <1>8. TypeOK'
    BY <1>1, <1>2, <1>3, <1>5, MaxDrawAssumption DEF TableInv, TypeOK
  <1>9. filled' = Cardinality(Chosen')
    <2>1. Chosen' = Chosen \cup {c}
      BY <1>2, <1>5, <1>6, <1>7 DEF Chosen
    <2>2. c \notin Chosen
      BY <1>4 DEF Chosen
    <2>3. IsFiniteSet(Chosen)
      <3>1. IsFiniteSet(0..num_buckets-1)
        BY <1>2, FS_Interval
      <3>2. Chosen \in SUBSET (0..num_buckets-1)
        BY DEF Chosen
      <3> QED BY <3>1, <3>2, FS_Subset
    <2>4. Cardinality(Chosen') = Cardinality(Chosen) + 1
      BY <2>1, <2>2, <2>3, FS_AddElement
    <2> QED BY <1>1, <1>5, <2>4 DEF TableInv
  <1>10. \A b \in 0..num_buckets-1 :
           tokens'[b] # None =>
             /\ tokens'[b] \in 0..k
             /\ Fits(SlotOf[tokens'[b]], b, num_buckets, modulo_safe)
    <2> SUFFICES ASSUME NEW b \in 0..num_buckets-1, tokens'[b] # None
                 PROVE  /\ tokens'[b] \in 0..k
                        /\ Fits(SlotOf[tokens'[b]], b, num_buckets, modulo_safe)
      OBVIOUS
    <2>1. CASE b = c
      BY <1>2, <1>4, <1>7, <2>1 DEF Fits, s, c
    <2>2. CASE b # c
      <3>1. tokens[b] \in 0..k-1 /\ Fits(SlotOf[tokens[b]], b, num_buckets, modulo_safe)
        BY <1>1, <1>7, <2>2 DEF TableInv
      <3> QED BY <1>2, <1>7, <2>2, <3>1
    <2> QED BY <2>1, <2>2
  <1>11. FirstFit'
    <2> SUFFICES ASSUME NEW b \in 0..num_buckets-1, NEW j \in 0..k,
                        Fits(SlotOf[j], b, num_buckets, modulo_safe)
                 PROVE  tokens'[b] # None /\ tokens'[b] <= j
      BY <1>2, <1>5 DEF FirstFit
    <2>1. CASE j \in 0..k-1
      <3>1. tokens[b] # None /\ tokens[b] <= j
        BY <1>1, <2>1 DEF TableInv, FirstFit
      <3> QED BY <1>4, <1>7, <3>1
    <2>2. CASE j = k
      <3>1. b = c
        BY <2>2 DEF Fits, s, c
      <3> QED BY <1>2, <1>6, <1>7, <2>2, <3>1
    <2> QED BY <1>2, <2>1, <2>2
  <1> QED BY <1>1, <1>2, <1>5, <1>8, <1>9, <1>10, <1>11 DEF TableInv

LEMMA SkipKeepsInv == TableInv /\ Skip => TableInv'
  <1> SUFFICES ASSUME TableInv, Skip PROVE TableInv'
    OBVIOUS
  <1>1. phase = "searching" /\ InTable /\ InTable' /\ phase' = phase /\ k' = k + 1
        /\ num_buckets' = num_buckets /\ modulo_safe' = modulo_safe
        /\ tokens' = tokens /\ filled' = filled
    BY DEF Skip, InTable
  <1>2. k \in 0..MaxDraw /\ num_buckets \in 1..NumSlots
    BY <1>1, DrawIsLegal DEF TableInv, Skip
  <1>3. TypeOK'
    BY <1>1, <1>2, MaxDrawAssumption DEF TableInv, TypeOK
  <1>4. filled' = Cardinality(Chosen')
    BY <1>1 DEF TableInv, Chosen
  <1>5. \A b \in 0..num_buckets-1 :
          tokens[b] # None =>
            /\ tokens[b] \in 0..k
            /\ Fits(SlotOf[tokens[b]], b, num_buckets, modulo_safe)
    BY <1>1, <1>2 DEF TableInv
  <1>6. FirstFit'
    <2> SUFFICES ASSUME NEW b \in 0..num_buckets-1, NEW j \in 0..k,
                        Fits(SlotOf[j], b, num_buckets, modulo_safe)
                 PROVE  tokens[b] # None /\ tokens[b] <= j
      BY <1>1, <1>2 DEF FirstFit
    <2>1. CASE j \in 0..k-1
      BY <1>1, <2>1 DEF TableInv, FirstFit
    <2>2. CASE j = k
      \* The draw fits b, so only a token that is already there can have
      \* made the loop discard it.
      <3>1. b = BucketFor(SlotOf[k], num_buckets)
        BY <2>2 DEF Fits
      <3>2. tokens[b] # None
        BY <2>2, <3>1 DEF Skip, Accepts, Fits
      <3>3. tokens[b] \in 0..k-1
        BY <1>1, <3>2 DEF TableInv
      <3> QED BY <1>2, <2>2, <3>2, <3>3
    <2> QED BY <1>2, <2>1, <2>2
  <1> QED BY <1>1, <1>2, <1>3, <1>4, <1>5, <1>6 DEF TableInv

LEMMA PrepareKeepsInv == TableInv /\ Prepare => TableInv'
  <1> SUFFICES ASSUME TableInv, Prepare PROVE TableInv'
    OBVIOUS
  <1>1. /\ phase = "called" /\ phase' = "searching" /\ InTable'
        /\ num_buckets \in 1..NumSlots /\ num_buckets' = num_buckets
        /\ modulo_safe' = is_modulo_safe(num_buckets)
        /\ tokens' = [b \in 0..num_buckets-1 |-> None]
        /\ k' = 0 /\ filled' = 0
    BY DEF Prepare, TableInv, InTable
  <1>2. modulo_safe' \in BOOLEAN
    BY <1>1 DEF is_modulo_safe
  <1>3. TypeOK'
    BY <1>1, <1>2, MaxDrawAssumption DEF TableInv, TypeOK
  <1>4. \A b \in 0..num_buckets'-1 : tokens'[b] = None
    BY <1>1
  <1>5. Cardinality(Chosen') = 0
    <2>1. Chosen' = {}
      BY <1>4 DEF Chosen
    <2> QED BY <2>1, FS_EmptySet
  <1>6. FirstFit'
    BY <1>1 DEF FirstFit
  <1> QED BY <1>1, <1>3, <1>4, <1>5, <1>6 DEF TableInv

LEMMA EndKeepsInv == TableInv /\ (Reject \/ GiveUp \/ Finish) => TableInv'
  <1> SUFFICES ASSUME TableInv, Reject \/ GiveUp \/ Finish PROVE TableInv'
    OBVIOUS
  <1>1. /\ num_buckets' = num_buckets /\ modulo_safe' = modulo_safe
        /\ k' = k /\ tokens' = tokens /\ filled' = filled
        /\ (InTable' <=> InTable)
        /\ (phase = "called" /\ phase' = "invalid")
             \/ (phase = "searching" /\ phase' = "gaveup")
             \/ (phase = "searching" /\ phase' = "done" /\ filled = num_buckets)
    BY DEF Reject, GiveUp, Finish, InTable
  <1>2. TypeOK'
    BY <1>1 DEF TableInv, TypeOK
  <1>3. FirstFit'
    BY <1>1 DEF TableInv, FirstFit
  <1>4. Chosen' = Chosen
    BY <1>1 DEF Chosen
  <1> QED BY <1>1, <1>2, <1>3, <1>4 DEF TableInv

LEMMA TableStep == TableInv /\ [Next]_vars => TableInv'
  <1> SUFFICES ASSUME TableInv, [Next]_vars PROVE TableInv'
    OBVIOUS
  <1>1. CASE UNCHANGED vars
    BY <1>1 DEF vars, TableInv, TypeOK, InTable, FirstFit, Chosen
  <1>2. CASE Reject \/ GiveUp \/ Finish
    BY <1>2, EndKeepsInv
  <1>3. CASE Prepare
    BY <1>3, PrepareKeepsInv
  <1>4. CASE Take
    BY <1>4, TakeKeepsInv
  <1>5. CASE Skip
    BY <1>5, SkipKeepsInv
  <1> QED BY <1>1, <1>2, <1>3, <1>4, <1>5 DEF Next

\* The invariant of the search, for every slot function and count.
THEOREM TableInvariant == Spec => []TableInv
  BY TableInit, TableStep, PTL DEF Spec

\* The variables of the search keep their types, for every slot space and
\* every set of bucket counts asked for.
THEOREM TableTypeCorrect == Spec => []TypeOK
  <1>1. TableInv => TypeOK
    BY DEF TableInv
  <1> QED BY <1>1, TableInvariant, PTL

\* A bucket's token is the least counter that fits it: the table depends on
\* num_buckets only, so independent computations of it agree.
THEOREM TableIsFirstFit == Spec => []FirstFit
  <1>1. TableInv => FirstFit
    BY DEF TableInv
  <1> QED BY <1>1, TableInvariant, PTL

\* Every token lies in its own bucket's slot range.
THEOREM TokensAreInRange == Spec => []TokensHitTheirBucket
  <1>1. TableInv => TokensHitTheirBucket
    <2> SUFFICES ASSUME TableInv, InTable,
                        NEW b \in 0..num_buckets-1, tokens[b] # None
                 PROVE  /\ SlotOf[tokens[b]] \in slot_range(b, num_buckets)
                        /\ modulo_safe => SlotOf[tokens[b]] % num_buckets = b
      BY DEF TokensHitTheirBucket
    <2>1. num_buckets \in 1..NumSlots
      BY DEF TableInv, TypeOK, InTable
    <2>2. tokens[b] \in 0..MaxDraw
      BY MaxDrawAssumption DEF TableInv, TypeOK, InTable
    <2>3. SlotOf[tokens[b]] \in 0..NumSlots-1
      BY <2>2, SlotOfAssumption
    <2>4. /\ BucketFor(SlotOf[tokens[b]], num_buckets) = b
          /\ modulo_safe => SlotOf[tokens[b]] % num_buckets = b
      BY DEF TableInv, Fits
    <2> QED BY <2>1, <2>3, <2>4, BucketForIsTheRange
  <1> QED BY <1>1, TableInvariant, PTL

\* A search that ends has a token for every bucket.
THEOREM FinishedTableIsFull == Spec => []DoneMeansFull
  <1>1. TableInv => DoneMeansFull
    <2> SUFFICES ASSUME TableInv, phase = "done"
                 PROVE  \A b \in 0..num_buckets-1 : tokens[b] # None
      BY DEF DoneMeansFull
    <2>1. num_buckets \in 1..NumSlots /\ Cardinality(Chosen) = num_buckets
      BY DEF TableInv, TypeOK, InTable
    <2>2. IsFiniteSet(0..num_buckets-1) /\ Cardinality(0..num_buckets-1) = num_buckets
      BY <2>1, FS_Interval
    <2>3. Chosen \in SUBSET (0..num_buckets-1)
      BY DEF Chosen
    <2>4. Chosen = 0..num_buckets-1
      BY <2>1, <2>2, <2>3, FS_Subset
    <2> QED BY <2>4 DEF Chosen
  <1> QED BY <1>1, TableInvariant, PTL

\* For every slot space and count, Python's and Go's predicates agree.
THEOREM ModuloPortsAgree == Spec => []PortsAgreeOnModuloSafety
  <1>1. TableInv => PortsAgreeOnModuloSafety
    <2> SUFFICES ASSUME TableInv, InTable
                 PROVE  is_modulo_safe(num_buckets) <=> GoIsModuloSafe(num_buckets)
      BY DEF PortsAgreeOnModuloSafety
    <2> DEFINE n == num_buckets
    <2>1. n \in 1..NumSlots /\ n \in Nat \ {0}
      BY NumSlotsAssumption DEF TableInv, TypeOK, InTable
    <2>2. ASSUME NEW i \in 0..n-1
          PROVE  bucket_has_modulo_match(Boundary(i, n), Boundary(i+1, n), n, i)
                 <=> GoBucketHasModuloMatch(Boundary(i, n), Boundary(i+1, n), n, i)
      <3>1. Boundary(i, n) \in Nat
        <4>1. i \in Nat /\ 0 \in Nat
          BY <2>1
        <4> QED BY <2>1, <4>1, BoundaryAtOrBelow
      <3>2. i - Boundary(i, n) \in Int
        BY <2>1, <3>1
      <3>3. TruncatedMod(TruncatedMod(i - Boundary(i, n), n) + n, n)
              = (i - Boundary(i, n)) % n
        BY <2>1, <3>2, NormalisedRemainder
      <3> QED BY <3>3 DEF bucket_has_modulo_match, GoBucketHasModuloMatch
    <2> QED BY <2>2 DEF is_modulo_safe, GoIsModuloSafe
  <1> QED BY <1>1, TableInvariant, PTL

\* Both searches return the bucket whose range holds the slot.
THEOREM SlotsFindTheirRange == Spec => []BisectFindsTheRange
  <1>1. TableInv => BisectFindsTheRange
    <2> SUFFICES ASSUME TableInv, InTable, NEW s \in 0..NumSlots-1
                 PROVE  /\ BucketFor(s, num_buckets) \in 0..num_buckets-1
                        /\ s \in slot_range(BucketFor(s, num_buckets), num_buckets)
                        /\ SortSearch(s, num_buckets) - 1 = BucketFor(s, num_buckets)
      BY DEF BisectFindsTheRange
    <2>1. num_buckets \in 1..NumSlots
      BY DEF TableInv, TypeOK, InTable
    <2>2. SortSearch(s, num_buckets) = bisect_right(s, num_buckets)
      BY <2>1, SortSearchIsBisect
    <2> QED BY <2>1, <2>2, BucketForIsTheRange DEF BucketFor
  <1> QED BY <1>1, TableInvariant, PTL

\* For every slot space and count the ranges partition the slots and are as
\* even as they can be.
THEOREM SlotsArePartitioned == Spec => []RangesPartitionTheSlots
  <1>1. TableInv => RangesPartitionTheSlots
    <2> SUFFICES ASSUME TableInv, InTable
                 PROVE  LET Buckets == 0..num_buckets-1
                            Width(b) == Cardinality(slot_range(b, num_buckets))
                        IN  /\ \A s \in 0..NumSlots-1 : \E i \in Buckets :
                                 /\ s \in slot_range(i, num_buckets)
                                 /\ \A j \in Buckets : s \in slot_range(j, num_buckets) => j = i
                            /\ \A i, j \in Buckets :
                                 Width(i) > 0 /\ Width(i) <= Width(j) + 1
      BY DEF RangesPartitionTheSlots
    <2> DEFINE Width(b) == Cardinality(slot_range(b, num_buckets))
               w == NumSlots \div num_buckets
    <2>1. num_buckets \in 1..NumSlots
      BY DEF TableInv, TypeOK, InTable
    <2>2. ASSUME NEW s \in 0..NumSlots-1
          PROVE  \E i \in 0..num_buckets-1 :
                   /\ s \in slot_range(i, num_buckets)
                   /\ \A j \in 0..num_buckets-1 : s \in slot_range(j, num_buckets) => j = i
      BY <2>1, BucketForIsTheRange
    <2>3. ASSUME NEW i \in 0..num_buckets-1
          PROVE  w \in Nat \ {0} /\ Width(i) \in {w, w + 1}
      <3> DEFINE lo == Boundary(i, num_buckets)
                 hi == Boundary(i + 1, num_buckets)
      <3>1. w \in Nat \ {0} /\ lo \in Nat /\ hi \in Nat /\ hi - lo \in {w, w + 1}
        BY <2>1, RangeWidth
      <3>2. Cardinality(lo..(hi - 1)) = hi - lo
        <4> HIDE DEF lo, hi, w
        <4>1. lo \in Int /\ hi - 1 \in Int
          BY <3>1
        <4>2. Cardinality(lo..(hi - 1)) =
                IF lo > hi - 1 THEN 0 ELSE (hi - 1) - lo + 1
          BY <4>1, FS_Interval, Zenon
        <4>3. ~(lo > hi - 1) /\ (hi - 1) - lo + 1 = hi - lo
          BY <3>1
        <4> QED BY <4>2, <4>3, Zenon
      <3> QED BY <3>1, <3>2 DEF slot_range
    <2>4. ASSUME NEW i \in 0..num_buckets-1, NEW j \in 0..num_buckets-1
          PROVE  Width(i) > 0 /\ Width(i) <= Width(j) + 1
      <3> HIDE DEF Width, w
      <3> QED BY <2>3
    <2> QED BY <2>2, <2>4
  <1> QED BY <1>1, TableInvariant, PTL

\* The whole contract of the tables, for every slot function, budget and count.
THEOREM TableKeepsTheContract == Spec => []TableIsTheContract
  <1>1. FirstFit /\ TokensHitTheirBucket /\ DoneMeansFull => TableIsTheContract
    BY DEF TableIsTheContract
  <1> QED BY <1>1, TableIsFirstFit, TokensAreInRange, FinishedTableIsFull, PTL

\* Every slot has one bucket, and every port finds it, for every slot space.
THEOREM SlotsLieInOneBucket == Spec => []SlotsHaveOneBucket
  <1>1. RangesPartitionTheSlots /\ BisectFindsTheRange => SlotsHaveOneBucket
    BY DEF SlotsHaveOneBucket
  <1> QED BY <1>1, SlotsFindTheirRange, SlotsArePartitioned, PTL

-----------------------------------------------------------------------------
(* The memos of the two Go ports: however many goroutines race for however  *)
(* many tables, all callers of either port are handed the same one.         *)

\* What a call can be.
Calls == {Idle} \cup [at : {"once", "build"}, n : Counts \ Invalid]

Tables == Callers \cup {Refused}

MemoTypes ==
  /\ WithOnce \in BOOLEAN
  /\ call \in [Callers -> Calls]
  /\ claimed \in SUBSET Counts
  /\ memo \in [Counts -> Tables \cup {NoTable}]
  /\ returned \in [Counts -> SUBSET Tables]
  /\ builds \in [Counts -> Nat]

\* A count that has no table is only ever refused.
Hopeless == Invalid \cup Unfillable

RefusedIsRefused ==
  \A n \in Hopeless : memo[n] \in {NoTable, Refused} /\ returned[n] \subseteq {Refused}

\* What was returned is in the memo, and stays there.
MemoIsFinal ==
  \A n \in Counts \ Hopeless : memo[n] # Refused /\ returned[n] \subseteq {memo[n]}

\* Behind the Once one goroutine searches at a time, and none after it.
Building(c, n) == call[c].at = "build" /\ call[c].n = n

OneBuilder ==
  WithOnce =>
    \A n \in Counts :
      /\ builds[n] <= 1
      /\ n \notin claimed => builds[n] = 0
      /\ \A c \in Callers : Building(c, n) => n \in claimed /\ builds[n] = 0
      /\ \A c, d \in Callers : Building(c, n) /\ Building(d, n) => c = d

MemoInv == MemoTypes /\ RefusedIsRefused /\ MemoIsFinal /\ OneBuilder

-----------------------------------------------------------------------------

LEMMA CallFields ==
  ASSUME MemoTypes, NEW c \in Callers, call[c].at \in {"once", "build"}
  PROVE  /\ call[c] \in [at : {"once", "build"}, n : Counts \ Invalid]
         /\ call[c].n \in Counts \ Invalid
  BY DEF MemoTypes, Calls, Idle

LEMMA MemoHolds == MemoInit => MemoInv
  BY MemoAssumption
     DEF MemoInit, MemoInv, MemoTypes, Calls, Idle, Tables, NoTable, Refused, Hopeless,
         RefusedIsRefused, MemoIsFinal, OneBuilder, Building

LEMMA CallKeepsInv ==
  ASSUME MemoInv, NEW c \in Callers, NEW n \in Counts, Call(c, n)
  PROVE  MemoInv'
  <1>1. CASE n \in Invalid
    <2>1. /\ call' = call /\ UNCHANGED <<WithOnce, claimed, memo, builds>>
          /\ returned' = [returned EXCEPT ![n] = @ \cup {Refused}]
      BY <1>1 DEF Call, Return, MemoInv, MemoTypes
    <2>2. MemoTypes'
      BY <2>1 DEF MemoInv, MemoTypes, Tables
    <2>3. RefusedIsRefused'
      BY <2>1 DEF MemoInv, MemoTypes, RefusedIsRefused, Hopeless
    <2>4. MemoIsFinal'
      BY <1>1, <2>1 DEF MemoInv, MemoTypes, MemoIsFinal, Hopeless
    <2>5. OneBuilder'
      BY <2>1 DEF MemoInv, OneBuilder, Building
    <2> QED BY <2>2, <2>3, <2>4, <2>5 DEF MemoInv
  <1>2. CASE n \notin Invalid /\ ~WithOnce /\ memo[n] # NoTable
    <2>1. /\ call' = call /\ UNCHANGED <<WithOnce, claimed, memo, builds>>
          /\ returned' = [returned EXCEPT ![n] = @ \cup {memo[n]}]
      BY <1>2 DEF Call, Return, MemoInv, MemoTypes
    <2>2. MemoTypes'
      BY <1>2, <2>1 DEF MemoInv, MemoTypes, Tables
    <2>3. RefusedIsRefused' /\ MemoIsFinal'
      BY <1>2, <2>1 DEF MemoInv, MemoTypes, RefusedIsRefused, MemoIsFinal, Hopeless
    <2>4. OneBuilder'
      BY <2>1 DEF MemoInv, OneBuilder, Building
    <2> QED BY <2>2, <2>3, <2>4 DEF MemoInv
  <1>3. CASE n \notin Invalid /\ ~(~WithOnce /\ memo[n] # NoTable)
    <2>1. /\ call' = [call EXCEPT ![c] = [at |-> IF WithOnce THEN "once" ELSE "build", n |-> n]]
          /\ UNCHANGED <<WithOnce, claimed, memo, builds, returned>>
      BY <1>3 DEF Call
    <2>2. MemoTypes'
      BY <1>3, <2>1 DEF MemoInv, MemoTypes, Calls
    <2>3. RefusedIsRefused' /\ MemoIsFinal'
      BY <2>1 DEF MemoInv, RefusedIsRefused, MemoIsFinal
    <2>4. OneBuilder'
      BY <2>1 DEF MemoInv, MemoTypes, OneBuilder, Building
    <2> QED BY <2>2, <2>3, <2>4 DEF MemoInv
  <1> QED BY <1>1, <1>2, <1>3

LEMMA EnterKeepsInv ==
  ASSUME MemoInv, NEW c \in Callers, Enter(c)
  PROVE  MemoInv'
  <1> DEFINE n == call[c].n
  <1>1. /\ n \in Counts \ Invalid /\ n \notin claimed
        /\ call[c] \in [at : {"once", "build"}, n : Counts \ Invalid]
    BY CallFields DEF Enter, MemoInv
  <1>2. /\ claimed' = claimed \cup {n}
        /\ call' = [call EXCEPT ![c].at = "build"]
        /\ UNCHANGED <<WithOnce, memo, returned, builds>>
    BY DEF Enter
  <1>3. MemoTypes'
    BY <1>1, <1>2 DEF MemoInv, MemoTypes, Calls
  <1>4. RefusedIsRefused' /\ MemoIsFinal'
    BY <1>2 DEF MemoInv, RefusedIsRefused, MemoIsFinal
  <1>5. call'[c].n = n /\ call'[c].at = "build" /\ \A d \in Callers \ {c} : call'[d] = call[d]
    BY <1>1, <1>2 DEF MemoInv, MemoTypes
  <1>6. OneBuilder'
    BY <1>1, <1>2, <1>5 DEF MemoInv, OneBuilder, Building
  <1> QED BY <1>3, <1>4, <1>6 DEF MemoInv

LEMMA AwaitKeepsInv ==
  ASSUME MemoInv, NEW c \in Callers, Await(c)
  PROVE  MemoInv'
  <1> DEFINE n == call[c].n
  <1>1. n \in Counts \ Invalid /\ memo[n] \in Tables
    BY CallFields DEF Await, MemoInv, MemoTypes
  <1>2. /\ call' = [call EXCEPT ![c] = Idle]
        /\ returned' = [returned EXCEPT ![n] = @ \cup {memo[n]}]
        /\ UNCHANGED <<WithOnce, claimed, memo, builds>>
        /\ memo[n] # NoTable
    BY DEF Await, Return
  <1>3. MemoTypes'
    BY <1>1, <1>2 DEF MemoInv, MemoTypes, Calls
  <1>4. RefusedIsRefused'
    BY <1>1, <1>2 DEF MemoInv, MemoTypes, RefusedIsRefused, Hopeless
  <1>5. MemoIsFinal'
    BY <1>1, <1>2 DEF MemoInv, MemoTypes, MemoIsFinal
  <1>6. call'[c] = Idle /\ \A d \in Callers \ {c} : call'[d] = call[d]
    BY <1>2 DEF MemoInv, MemoTypes
  <1>7. OneBuilder'
    BY <1>2, <1>6 DEF MemoInv, OneBuilder, Building, Idle
  <1> QED BY <1>3, <1>4, <1>5, <1>7 DEF MemoInv

LEMMA BuildKeepsInv ==
  ASSUME MemoInv, NEW c \in Callers, Build(c)
  PROVE  MemoInv'
  <1> DEFINE n == call[c].n
             table == IF n \in Unfillable THEN Refused ELSE c
             given == IF table = Refused THEN Refused ELSE Published(n, table)
  <1>1. n \in Counts \ Invalid /\ call[c].at = "build"
    BY CallFields DEF Build, MemoInv
  <1>2. /\ call' = [call EXCEPT ![c] = Idle]
        /\ returned' = [returned EXCEPT ![n] = @ \cup {given}]
        /\ builds' = [builds EXCEPT ![n] = IF @ < 2 THEN @ + 1 ELSE @]
        /\ memo' = [memo EXCEPT ![n] = Published(n, table)]
        /\ UNCHANGED <<WithOnce, claimed>>
    BY DEF Build, Return
  <1>3. table \in Tables /\ Published(n, table) \in Tables \cup {NoTable} /\ given \in Tables
    <2>1. memo[n] \in Tables \cup {NoTable}
      BY <1>1 DEF MemoInv, MemoTypes
    <2> QED BY <2>1 DEF Published, Tables
  <1>4. MemoTypes'
    <2>1. call' \in [Callers -> Calls]
      BY <1>2 DEF MemoInv, MemoTypes, Calls
    <2>2. builds' \in [Counts -> Nat]
      <3>1. builds \in [Counts -> Nat] /\ (IF builds[n] < 2 THEN builds[n] + 1 ELSE builds[n]) \in Nat
        BY <1>1 DEF MemoInv, MemoTypes
      <3> HIDE DEF n, table, given
      <3> QED BY <1>2, <3>1
    <2> HIDE DEF n, table, given
    <2> QED BY <1>2, <1>3, <2>1, <2>2 DEF MemoInv, MemoTypes
  <1>5. n \in Unfillable => given = Refused /\ Published(n, table) \in {NoTable, Refused}
    <2>1. n \in Unfillable => memo[n] \in {NoTable, Refused}
      BY <1>1 DEF MemoInv, RefusedIsRefused, Hopeless
    <2> QED BY <2>1 DEF Published
  <1>6. n \notin Unfillable => /\ given = Published(n, table) /\ given # Refused
                               /\ memo[n] # NoTable => given = memo[n]
    <2>1. n \notin Unfillable => memo[n] # Refused
      BY <1>1 DEF MemoInv, MemoIsFinal, Hopeless
    <2> QED BY <2>1, MemoAssumption DEF Published
  <1>7. RefusedIsRefused'
    <2> HIDE DEF n, table, given
    <2> QED BY <1>1, <1>2, <1>5 DEF MemoInv, MemoTypes, RefusedIsRefused, Hopeless
  <1>8. MemoIsFinal'
    <2>1. n \notin Unfillable => returned[n] \subseteq {given}
      <3>1. ASSUME n \notin Unfillable
            PROVE  returned[n] \subseteq {memo[n]} /\ NoTable \notin returned[n]
        BY <1>1, <3>1, MemoAssumption
           DEF MemoInv, MemoTypes, MemoIsFinal, Hopeless, Tables, NoTable, Refused
      <3> HIDE DEF n, table, given
      <3> QED BY <1>6, <3>1
    <2> HIDE DEF n, table, given
    <2> QED BY <1>1, <1>2, <1>6, <2>1 DEF MemoInv, MemoTypes, MemoIsFinal, Hopeless
  <1>9. OneBuilder'
    <2>1. call'[c] = Idle /\ \A d \in Callers \ {c} : call'[d] = call[d]
      BY <1>2 DEF MemoInv, MemoTypes
    <2>2. ASSUME WithOnce
          PROVE  n \in claimed /\ builds[n] = 0 /\ \A d \in Callers \ {c} : ~Building(d, n)
      BY <1>1, <2>2 DEF MemoInv, OneBuilder, Building
    <2>3. WithOnce => builds'[n] = 1 /\ \A m \in Counts \ {n} : builds'[m] = builds[m]
      BY <1>1, <1>2, <2>2 DEF MemoInv, MemoTypes
    <2>4. ASSUME NEW d \in Callers, NEW m \in Counts, Building(d, m)'
          PROVE  d # c /\ Building(d, m)
      BY <2>1, <2>4 DEF Building, Idle
    <2> HIDE DEF n, table, given
    <2> QED BY <1>1, <1>2, <2>2, <2>3, <2>4 DEF MemoInv, MemoTypes, OneBuilder
  <1> QED BY <1>4, <1>7, <1>8, <1>9 DEF MemoInv

LEMMA MemoStep == MemoInv /\ [MemoNext]_memoVars => MemoInv'
  <1> SUFFICES ASSUME MemoInv, [MemoNext]_memoVars PROVE MemoInv'
    OBVIOUS
  <1>1. CASE UNCHANGED memoVars
    BY <1>1 DEF memoVars, MemoInv, MemoTypes, RefusedIsRefused, MemoIsFinal, OneBuilder, Building
  <1>2. CASE MemoNext
    <2>1. PICK c \in Callers : Step(c) \/ \E n \in Counts : Call(c, n)
      BY <1>2 DEF MemoNext
    <2>2. CASE \E n \in Counts : Call(c, n)
      BY <2>2, CallKeepsInv
    <2>3. CASE Step(c)
      BY <2>3, EnterKeepsInv, AwaitKeepsInv, BuildKeepsInv DEF Step
    <2> QED BY <2>1, <2>2, <2>3
  <1> QED BY <1>1, <1>2

\* For any number of goroutines and counts and in either port: callers that ask
\* for the same table get the same one, never a nil one, and behind the Once
\* it is searched once (ComputeBucketTable of both slots.go).
THEOREM CallersShareOneTable == MemoSpec => []OneTablePerCount
  <1>1. MemoInv => OneTablePerCount
    <2> SUFFICES ASSUME MemoInv, NEW n \in Counts
                 PROVE  /\ Cardinality(returned[n]) <= 1
                        /\ NoTable \notin returned[n]
                        /\ WithOnce => builds[n] <= 1
      BY DEF OneTablePerCount
    <2>1. \E t : returned[n] \subseteq {t}
      BY DEF MemoInv, RefusedIsRefused, MemoIsFinal
    <2>2. Cardinality(returned[n]) <= 1
      <3>1. PICK t : returned[n] \subseteq {t}
        BY <2>1
      <3>2. returned[n] = {} \/ returned[n] = {t}
        BY <3>1
      <3>3. Cardinality({}) = 0 /\ Cardinality({t}) = 1
        BY FS_EmptySet, FS_Singleton
      <3>4. Cardinality(returned[n]) \in {0, 1}
        BY <3>2, <3>3
      <3> QED BY <3>4
    <2>3. NoTable \notin returned[n]
      BY MemoAssumption DEF MemoInv, MemoTypes, Tables, NoTable, Refused
    <2>4. WithOnce => builds[n] <= 1
      BY DEF MemoInv, OneBuilder
    <2> QED BY <2>2, <2>3, <2>4
  <1> QED BY <1>1, MemoHolds, MemoStep, PTL DEF MemoSpec
==============================================================================
