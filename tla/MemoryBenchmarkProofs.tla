------------------------ MODULE MemoryBenchmarkProofs ------------------------
(***************************************************************************)
(* The memory benchmark for every table of types, command line, server and *)
(* expiry: the counts are those asked for, no pipeline outgrows its batch, *)
(* the memory a row shows is what its own keys take, and servers that hold *)
(* the same keys compare as one to one.                                    *)
(***************************************************************************)
EXTENDS MemoryBenchmark, SetLemmas

-----------------------------------------------------------------------------
(* What the command line makes of the table of types *)

Depths == {"flat", "medium", "deep"}

Batch(a) == IF a.pipeline_batch = 0 THEN 5000 ELSE a.pipeline_batch

\* The configuration of a type, but for its number of fields, is that of the
\* command line at every step.
ConfigOf(type, a, fields) ==
  [enabled |-> enabled(type, a), num_keys |-> num_keys(type, a), num_fields |-> fields,
   json_depth |-> json_depth(type, a), pipeline_batch |-> Batch(a)]

\* Two numbers without a difference are one.
LEMMA NoneLeft == \A a, b \in Nat : a - b = 0 => b = a
  OBVIOUS

\* Scaling and the choice of an option give a number of keys.
LEMMA KeyCounts ==
  ASSUME NEW a \in Args, NEW type \in Range(Order)
  PROVE  num_keys(type, a) \in Nat
  <1>1. ASSUME NEW t \in Range(Order) PROVE OwnKeys(t, a) \in Nat
    <2>1. t \in DOMAIN a.keys => a.keys[t] \in Nat
      BY ArgsAssumption
    <2>2. DefaultKeys[t] \in Nat /\ MinKeys \in Nat
      BY DefaultsAssumption
    <2>3. Scaled(DefaultKeys[t], a.scale) \in Nat
      <3>1. a.scale[1] \in Nat /\ a.scale[2] \in Nat \ {0}
        BY ArgsAssumption
      <3>2. PICK n \in Nat, p \in Nat, q \in Nat \ {0} :
              n = DefaultKeys[t] /\ p = a.scale[1] /\ q = a.scale[2]
        BY <2>2, <3>1
      <3>3. (n * p) \div q \in Int
        OBVIOUS
      <3> QED BY <2>2, <3>2, <3>3 DEF Scaled, Largest
    <2> QED BY <2>1, <2>2, <2>3 DEF OwnKeys
  <1>2. "strings" \in Range(Order) /\ "json" \in Range(Order)
    BY DefaultsAssumption
  <1> QED BY <1>1, <1>2 DEF num_keys

\* The depth of a document is one that can be made.
LEMMA DepthsAre ==
  ASSUME NEW a \in Args, NEW type \in Range(Order)
  PROVE  json_depth(type, a) \in Depths
  <1>1. a.json_depth \in {"flat", "medium", "deep", "all"}
    BY ArgsAssumption
  <1>2. DEFAULT_CONFIGS[type].json_depth \in Depths
    BY DEF DEFAULT_CONFIGS, JsonTypes, JsonDepths, Depths
  <1> QED BY <1>1, <1>2 DEF json_depth, SplitsJson, Depths

\* Fields are counted by naturals.
LEMMA FieldCounts ==
  ASSUME NEW a \in Args, NEW type \in Range(Order), NEW children \in Nat
  PROVE  num_fields(type, a, children) \in Nat
  <1>1. type \in DOMAIN a.fields => a.fields[type] \in Nat
    BY ArgsAssumption
  <1>2. DefaultFields(type) \in Nat
    BY DEF DefaultFields
  <1>3. DEFAULT_CONFIGS[type].num_fields \in Nat
    BY <1>2 DEF DEFAULT_CONFIGS
  <1> QED BY <1>1, <1>3 DEF num_fields

\* Rounding a fraction.
LEMMA RoundingIsNat ==
  ASSUME NEW a \in Nat, NEW b \in Nat \ {0}
  PROVE  RoundHalfEven(a, b) \in Nat
  <1>1. a \div b \in Nat
    OBVIOUS
  <1> QED BY <1>1 DEF RoundHalfEven

\* Both series count children.
LEMMA SeriesAreNat ==
  ASSUME NEW m \in Nat \ {0}, NEW r \in Nat, NEW n2 \in Nat
  PROVE  /\ BaseCounts(m, r) \in Seq(Nat) /\ Len(BaseCounts(m, r)) # 0
         /\ UpperCounts(m, n2) \in Seq(Nat)
  <1> DEFINE k == Largest(IF r < m THEN r ELSE m, 1)
             d == <<m>> \o [i \in 1..k-1 |-> k - i]
             w == BaseCounts(m, r)
             u == UpperCounts(m, n2)
  <1>1. k \in Nat \ {0}
    BY DEF Largest
  <1>2. d \in Seq(Nat \ {0}) /\ Len(d) = k
    <2> HIDE DEF k
    <2> DEFINE e == [i \in 1..k-1 |-> k - i]
    <2>1. e \in Seq(Nat \ {0}) /\ Len(e) = k - 1
      <3>1. e \in [1..k-1 -> Nat \ {0}]
        BY <1>1
      <3> HIDE DEF e
      <3> QED BY <1>1, <3>1
    <2>2. <<m>> \in Seq(Nat \ {0}) /\ Len(<<m>>) = 1
      OBVIOUS
    <2>3. d = <<m>> \o e
      OBVIOUS
    <2>4. \A f, g \in Seq(Nat \ {0}) : f \o g \in Seq(Nat \ {0}) /\ Len(f \o g) = Len(f) + Len(g)
      OBVIOUS
    <2> HIDE DEF e, d
    <2> QED BY <1>1, <2>1, <2>2, <2>3, <2>4
  <1>3. w = [i \in DOMAIN d |-> Largest(1, RoundHalfEven(m, d[i]))]
    BY DEF BaseCounts
  <1> HIDE DEF d, k
  <1>4. \A i \in DOMAIN d : d[i] \in Nat \ {0}
    BY <1>2
  <1>5. \A i \in DOMAIN d : Largest(1, RoundHalfEven(m, d[i])) \in Nat
    BY <1>4, RoundingIsNat DEF Largest
  <1>6. DOMAIN d = 1..k
    BY <1>1, <1>2
  <1>7. w \in [1..k -> Nat]
    BY <1>3, <1>5, <1>6
  <1>8. w \in Seq(Nat) /\ Len(w) = k
    <2> HIDE DEF w
    <2> QED BY <1>1, <1>7
  <1>9. \A i \in 1..n2 : /\ RoundHalfEven(m * n2, n2 + i) \in Nat
                         /\ RoundHalfEven(m * 2 * n2, 4 * n2 - 1) \in Nat
    <2> TAKE i \in 1..n2
    <2>1. m * n2 \in Nat /\ m * 2 * n2 \in Nat /\ n2 + i \in Nat \ {0} /\ 4 * n2 - 1 \in Nat \ {0}
      OBVIOUS
    <2> QED BY <2>1, RoundingIsNat
  <1>10. u \in [1..n2 -> Nat]
    BY <1>9 DEF UpperCounts, Largest
  <1>11. u \in Seq(Nat)
    <2> HIDE DEF u
    <2> QED BY <1>10
  <1> QED BY <1>1, <1>8, <1>11

\* What is picked from a list at a set of its positions is a list of what is
\* there, each position once.
LEMMA PickedIs ==
  ASSUME NEW T, NEW w \in Seq(T), NEW I \in SUBSET DOMAIN w
  PROVE  /\ Picked(w, I) \in Seq(T) /\ Len(Picked(w, I)) = Cardinality(I)
         /\ Cardinality(I) \in Nat /\ (I # {} => Cardinality(I) # 0)
         /\ \A p \in 1..Cardinality(I) : /\ Nth(I, p) \in I
                                        /\ Picked(w, I)[p] = w[Nth(I, p)]
         /\ \A p, q \in 1..Cardinality(I) : p < q => Nth(I, p) < Nth(I, q)
         /\ \A i \in I : \E p \in 1..Cardinality(I) : Nth(I, p) = i
  <1>1. Len(w) \in Nat /\ DOMAIN w = 1..Len(w) /\ \A i \in DOMAIN w : w[i] \in T
    OBVIOUS
  <1>2. I \in SUBSET Int /\ IsFiniteSet(I)
    <2>1. IsFiniteSet(1..Len(w))
      BY <1>1, FS_Interval
    <2> QED BY <1>1, <2>1, FS_Subset
  <1>3. /\ Cardinality(I) \in Nat
        /\ \A p \in 1..Cardinality(I) : Nth(I, p) \in I
        /\ \A p, q \in 1..Cardinality(I) : p < q => Nth(I, p) < Nth(I, q)
        /\ \A i \in I : \E p \in 1..Cardinality(I) : Nth(I, p) = i
    BY <1>2, NthIs
  <1>4. Picked(w, I) \in [1..Cardinality(I) -> T]
    BY <1>1, <1>3 DEF Picked
  <1>5. Picked(w, I) \in Seq(T) /\ Len(Picked(w, I)) = Cardinality(I)
    <2> DEFINE n == Cardinality(I)
               f == Picked(w, I)
    <2>1. n \in Nat /\ f \in [1..n -> T]
      BY <1>3, <1>4
    <2> HIDE DEF n, f
    <2>2. f \in Seq(T) /\ Len(f) = n
      BY <2>1
    <2> QED BY <2>2 DEF n, f
  <1>6. I # {} => Cardinality(I) # 0
    BY <1>2, FS_EmptySet
  <1>7. \A p \in 1..Cardinality(I) : Picked(w, I)[p] = w[Nth(I, p)]
    BY DEF Picked
  <1> QED BY <1>3, <1>5, <1>6, <1>7

\* A sweep goes through at least one count, and counts are naturals.
LEMMA SequenceIs ==
  ASSUME args \in Args
  PROVE  /\ sequence \in Seq(Nat) /\ Len(sequence) \in Nat \ {0}
         /\ \A j \in 1..Len(sequence) : sequence[j] \in Nat
  <1> DEFINE m == args.children
             r == args.repeat[1]
             n2 == IF Len(args.repeat) > 1 THEN args.repeat[2] ELSE 0
             w == BaseCounts(m, r)
             u == UpperCounts(m, n2)
  <1>1. m \in Nat /\ args.repeat \in Seq(Nat)
    BY ArgsAssumption
  <1>2. CASE ~Sweeps \/ m = 0
    <2>1. sequence = <<m>>
      BY <1>2 DEF sequence
    <2> HIDE DEF m
    <2> QED BY <1>1, <2>1
  <1>3. CASE Sweeps /\ m # 0
    <2>1. sequence = compute_children_sequence(m, r, n2)
      BY <1>3 DEF sequence
    <2>2. r \in Nat /\ n2 \in Nat /\ m \in Nat \ {0}
      BY <1>1, <1>3 DEF Sweeps
    <2>3. w \in Seq(Nat) /\ Len(w) # 0 /\ Len(w) \in Nat /\ u \in Seq(Nat)
      <3> HIDE DEF m, r, n2
      <3>1. w \in Seq(Nat) /\ Len(w) # 0 /\ u \in Seq(Nat)
        BY <2>2, SeriesAreNat
      <3> HIDE DEF w, u
      <3> QED BY <3>1
    <2>4. CASE n2 = 0
      <3> DEFINE I == {i \in DOMAIN w : \A j \in 1..i-1 : w[j] # w[i]}
      <3>1. sequence = Picked(w, I)
        BY <2>1, <2>4 DEF compute_children_sequence, Deduplicated
      <3>2. I \in SUBSET DOMAIN w /\ 1 \in I
        <4> HIDE DEF w
        <4> QED BY <2>3
      <3> HIDE DEF I, w
      <3>3. /\ Picked(w, I) \in Seq(Nat) /\ Len(Picked(w, I)) = Cardinality(I)
            /\ Cardinality(I) \in Nat /\ Cardinality(I) # 0
        BY <2>3, <3>2, PickedIs
      <3> QED BY <3>1, <3>3
    <2>5. CASE n2 # 0
      <3> DEFINE v == w \o u
                 R == Range(v)
      <3>1. sequence = Ascending(R)
        BY <2>1, <2>5 DEF compute_children_sequence
      <3>2. v \in Seq(Nat) /\ Len(v) \in Nat /\ Len(v) # 0
        <4> HIDE DEF w, u
        <4> QED BY <2>3
      <3>3. R \in SUBSET Nat /\ IsFiniteSet(R) /\ R # {}
        <4> HIDE DEF v
        <4>1. DOMAIN v = 1..Len(v) /\ 1 \in DOMAIN v
          BY <3>2
        <4>2. IsFiniteSet(DOMAIN v)
          BY <3>2, <4>1, FS_Interval
        <4>3. R = {v[i] : i \in DOMAIN v}
          BY DEF Range
        <4>4. IsFiniteSet(R)
          <5> DEFINE f == [i \in DOMAIN v |-> v[i]]
          <5>1. f \in Surjection(DOMAIN v, R)
            BY <4>3 DEF Surjection
          <5> HIDE DEF f, R
          <5> QED BY <4>2, <5>1, FS_Surjection
        <4> QED BY <3>2, <4>1, <4>3, <4>4
      <3> HIDE DEF R
      <3>4. /\ Cardinality(R) \in Nat /\ Cardinality(R) # 0
            /\ \A p \in 1..Cardinality(R) : Nth(R, p) \in R
        BY <3>3, NthIs, FS_EmptySet
      <3>5. sequence \in [1..Cardinality(R) -> Nat]
        BY <3>1, <3>3, <3>4 DEF Ascending
      <3>6. PICK k \in Nat \ {0} : k = Cardinality(R)
        BY <3>4
      <3> QED BY <3>5, <3>6
    <2> QED BY <2>4, <2>5
  <1> QED BY <1>2, <1>3

\* A fraction with a smaller denominator is not rounded to less.
LEMMA RoundingRises ==
  ASSUME NEW a \in Nat, NEW b \in Nat \ {0}, NEW c \in Nat \ {0}, c <= b
  PROVE  RoundHalfEven(a, b) <= RoundHalfEven(a, c)
  <1>1. PICK q \in Nat, r \in Nat : q = a \div b /\ r = a % b /\ a = b * q + r /\ r < b
    <2>1. /\ (a % b) \in 0..b-1 /\ (a \div b) \in Int /\ a = b * (a \div b) + (a % b)
      BY ModBounds
    <2>2. a \div b \in Nat
      OBVIOUS
    <2> QED BY <2>1, <2>2
  <1>2. PICK Q \in Nat, R \in Nat : Q = a \div c /\ R = a % c /\ a = c * Q + R /\ R < c
    <2>1. /\ (a % c) \in 0..c-1 /\ (a \div c) \in Int /\ a = c * (a \div c) + (a % c)
      BY ModBounds
    <2>2. a \div c \in Nat
      OBVIOUS
    <2> QED BY <2>1, <2>2
  <1>3. PICK bq \in Nat, cq \in Nat, cQ \in Nat :
          /\ bq = b * q /\ cq = c * q /\ cQ = c * Q /\ cq <= bq /\ (Q + 1 <= q => cQ + c <= cq)
    <2>1. b * q \in Nat /\ c * q \in Nat /\ c * Q \in Nat
      OBVIOUS
    <2>2. c * q <= b * q
      <3>1. PICK e \in Nat : b = c + e
        <4>1. b - c \in Nat /\ b = c + (b - c)
          OBVIOUS
        <4> QED BY <4>1
      <3>2. (c + e) * q = c * q + e * q /\ e * q \in Nat
        OBVIOUS
      <3> QED BY <2>1, <3>1, <3>2
    <2>3. ASSUME Q + 1 <= q PROVE c * Q + c <= c * q
      <3>1. PICK e \in Nat : q = Q + 1 + e
        <4>1. q - (Q + 1) \in Nat /\ q = Q + 1 + (q - (Q + 1))
          BY <2>3
        <4> QED BY <4>1
      <3>2. c * (Q + 1 + e) = c * Q + c + c * e /\ c * e \in Nat
        OBVIOUS
      <3> QED BY <2>1, <3>1, <3>2
    <2> QED BY <2>1, <2>2, <2>3
  <1>4. a = bq + r /\ a = cQ + R
    BY <1>1, <1>2, <1>3
  <1>5. q <= Q /\ (q = Q => r <= R)
    <2>1. /\ cq <= bq /\ (Q + 1 <= q => cQ + c <= cq) /\ (q = Q => cq = cQ)
      BY <1>3
    <2>2. R < c
      BY <1>2
    <2> QED BY <1>4, <2>1, <2>2
  <1>6. /\ RoundHalfEven(a, b) = IF 2 * r < b \/ (2 * r = b /\ q % 2 = 0) THEN q ELSE q + 1
        /\ RoundHalfEven(a, c) = IF 2 * R < c \/ (2 * R = c /\ Q % 2 = 0) THEN Q ELSE Q + 1
    BY <1>1, <1>2 DEF RoundHalfEven
  <1>7. CASE q < Q
    BY <1>6, <1>7
  <1>8. CASE q = Q
    <2>1. 2 * r >= b => 2 * R >= c /\ (2 * R = c => 2 * r = b)
      BY <1>5, <1>8
    <2> QED BY <1>6, <1>8, <2>1
  <1> QED BY <1>5, <1>7, <1>8

\* The first series never falls.
LEMMA BaseRises ==
  ASSUME NEW m \in Nat \ {0}, NEW r \in Nat, NEW w, w = BaseCounts(m, r)
  PROVE  \A i, j \in DOMAIN w : i <= j => w[i] <= w[j]
  <1> DEFINE k == Largest(IF r < m THEN r ELSE m, 1)
             e == [i \in 1..k-1 |-> k - i]
             d == <<m>> \o e
  <1>1. k \in Nat \ {0} /\ k <= m
    BY DEF Largest
  <1>2. DOMAIN d = 1..k /\ \A i \in 1..k : d[i] = IF i = 1 THEN m ELSE k - i + 1
    <2> HIDE DEF k
    <2>1. e \in Seq(Nat) /\ Len(e) = k - 1 /\ \A i \in 1..k-1 : e[i] = k - i
      <3>1. e \in [1..k-1 -> Nat] /\ \A i \in 1..k-1 : e[i] = k - i
        BY <1>1
      <3> HIDE DEF e
      <3> QED BY <1>1, <3>1
    <2> HIDE DEF e
    <2>2. /\ DOMAIN (<<m>> \o e) = 1..1 + Len(e)
          /\ \A i \in 1..1 + Len(e) : (<<m>> \o e)[i] = IF i = 1 THEN m ELSE e[i-1]
      BY <2>1
    <2>3. 1 + Len(e) = k
      BY <1>1, <2>1
    <2>4. ASSUME NEW i \in 1..k PROVE d[i] = IF i = 1 THEN m ELSE k - i + 1
      <3>1. d[i] = IF i = 1 THEN m ELSE e[i-1]
        BY <2>2, <2>3
      <3>2. CASE i # 1
        <4>1. i - 1 \in 1..k-1 /\ k - (i - 1) = k - i + 1
          BY <1>1, <3>2
        <4> QED BY <2>1, <3>1, <3>2, <4>1
      <3> QED BY <3>1, <3>2
    <2> QED BY <2>2, <2>3, <2>4
  <1>3. w = [i \in DOMAIN d |-> Largest(1, RoundHalfEven(m, d[i]))]
    BY DEF BaseCounts
  <1> HIDE DEF d, e, k
  <1>4. ASSUME NEW i \in 1..k, NEW j \in 1..k, i <= j PROVE w[i] <= w[j]
    <2>1. d[i] \in Nat \ {0} /\ d[j] \in Nat \ {0} /\ d[j] <= d[i]
      BY <1>1, <1>2, <1>4
    <2>2. /\ RoundHalfEven(m, d[i]) \in Nat /\ RoundHalfEven(m, d[j]) \in Nat
          /\ RoundHalfEven(m, d[i]) <= RoundHalfEven(m, d[j])
      BY <2>1, RoundingIsNat, RoundingRises
    <2> QED BY <1>2, <1>3, <2>2 DEF Largest
  <1> QED BY <1>2, <1>3, <1>4

\* The counts of a sweep rise.
LEMMA SequenceRises ==
  ASSUME args \in Args
  PROVE  \A i, j \in 1..Len(sequence) : i < j => sequence[i] < sequence[j]
  <1> DEFINE m == args.children
             r == args.repeat[1]
             n2 == IF Len(args.repeat) > 1 THEN args.repeat[2] ELSE 0
             w == BaseCounts(m, r)
             u == UpperCounts(m, n2)
  <1>1. m \in Nat /\ args.repeat \in Seq(Nat)
    BY ArgsAssumption
  <1>2. CASE ~Sweeps \/ m = 0
    <2>1. sequence = <<m>>
      BY <1>2 DEF sequence
    <2>2. Len(sequence) = 1
      BY <2>1
    <2> QED BY <2>2
  <1>3. CASE Sweeps /\ m # 0
    <2>1. sequence = compute_children_sequence(m, r, n2)
      BY <1>3 DEF sequence
    <2>2. r \in Nat /\ n2 \in Nat /\ m \in Nat \ {0}
      BY <1>1, <1>3 DEF Sweeps
    <2>3. w \in Seq(Nat) /\ Len(w) # 0 /\ u \in Seq(Nat)
      <3> HIDE DEF m, r, n2
      <3> QED BY <2>2, SeriesAreNat
    <2>4. \A i, j \in DOMAIN w : i <= j => w[i] <= w[j]
      <3> HIDE DEF m, r
      <3> QED BY <2>2, BaseRises
    <2> HIDE DEF w, u
    <2>5. CASE n2 = 0
      <3> DEFINE I == {i \in DOMAIN w : \A j \in 1..i-1 : w[j] # w[i]}
      <3>1. sequence = Picked(w, I)
        BY <2>1, <2>5 DEF compute_children_sequence, Deduplicated, w
      <3>2. I \in SUBSET DOMAIN w
        OBVIOUS
      <3>3. /\ Len(Picked(w, I)) = Cardinality(I) /\ Cardinality(I) \in Nat
            /\ \A p \in 1..Cardinality(I) : Nth(I, p) \in I /\ Picked(w, I)[p] = w[Nth(I, p)]
            /\ \A p, q \in 1..Cardinality(I) : p < q => Nth(I, p) < Nth(I, q)
        <4> HIDE DEF I
        <4> QED BY <2>3, <3>2, PickedIs
      <3>4. ASSUME NEW p \in 1..Cardinality(I), NEW q \in 1..Cardinality(I), p < q
            PROVE  Picked(w, I)[p] < Picked(w, I)[q]
        <4>1. PICK i \in I, j \in I : i = Nth(I, p) /\ j = Nth(I, q) /\ i < j
          BY <3>3, <3>4
        <4>2. i \in Nat /\ j \in Nat /\ i \in 1..j-1 /\ w[i] \in Nat /\ w[j] \in Nat
          BY <2>3, <4>1
        <4>3. w[i] <= w[j] /\ w[i] # w[j]
          BY <2>4, <4>1, <4>2
        <4> HIDE DEF I
        <4>4. Picked(w, I)[p] = w[i] /\ Picked(w, I)[q] = w[j]
          BY <3>3, <4>1
        <4> QED BY <4>2, <4>3, <4>4
      <3> HIDE DEF I
      <3> QED BY <3>1, <3>3, <3>4
    <2>6. CASE n2 # 0
      <3> DEFINE v == w \o u
                 R == Range(v)
      <3>1. sequence = Ascending(R)
        BY <2>1, <2>6 DEF compute_children_sequence, w, u
      <3>2. v \in Seq(Nat) /\ Len(v) \in Nat
        BY <2>3
      <3>3. R \in SUBSET Int /\ IsFiniteSet(R)
        <4> HIDE DEF v
        <4>0. DOMAIN v = 1..Len(v) /\ \A i \in DOMAIN v : v[i] \in Nat
          BY <3>2
        <4>1. IsFiniteSet(DOMAIN v) /\ \A i \in DOMAIN v : v[i] \in Nat
          BY <3>2, <4>0, FS_Interval
        <4>2. R = {v[i] : i \in DOMAIN v}
          BY DEF Range
        <4>3. IsFiniteSet(R)
          <5> DEFINE f == [i \in DOMAIN v |-> v[i]]
          <5>1. f \in Surjection(DOMAIN v, R)
            BY <4>2 DEF Surjection
          <5> HIDE DEF f, R
          <5> QED BY <4>1, <5>1, FS_Surjection
        <4> QED BY <4>1, <4>2, <4>3
      <3> HIDE DEF R
      <3>4. /\ Cardinality(R) \in Nat
            /\ \A p \in 1..Cardinality(R) : Nth(R, p) \in R
            /\ \A p, q \in 1..Cardinality(R) : p < q => Nth(R, p) < Nth(R, q)
        BY <3>3, NthIs
      <3>5. PICK k \in Nat : k = Cardinality(R)
        BY <3>4
      <3>6. /\ \A p \in 1..k : sequence[p] = Nth(R, p) /\ Nth(R, p) \in Int
            /\ sequence \in [1..k -> Int]
        BY <3>1, <3>3, <3>4, <3>5 DEF Ascending
      <3>7. Len(sequence) = k
        BY <3>6
      <3> QED BY <3>4, <3>5, <3>6, <3>7
    <2> QED BY <2>5, <2>6
  <1> QED BY <1>2, <1>3

\* The keys of a type go by these names.
Prefix(type, a) == IF type \in JsonTypes THEN <<"json", json_depth(type, a)>> ELSE <<type>>

\* The types that a command line chooses, in order, and those whose keys no
\* other of them writes.
Chosen(a) == {i \in DOMAIN Order : enabled(Order[i], a)}

Types(a) == Picked(Order, Chosen(a))

Alone(type, a) == \A u \in Range(Types(a)) \ {type} : Prefix(u, a) # Prefix(type, a)

\* At every step the configuration of a type is the command line's, up to its
\* number of fields, and in a sweep that of a container is the step's count.
LEMMA ConfigsAre ==
  ASSUME args \in Args, NEW j \in 1..Len(sequence)
  PROVE  /\ DOMAIN ConfigsAt(j) = Range(Order)
         /\ \A t \in Range(Order) : \E k \in Nat :
              /\ ConfigsAt(j)[t] = ConfigOf(t, args, k)
              /\ Sweeps /\ t \in Containers => k = sequence[j]
  <1>1. args.children \in Nat /\ sequence[j] \in Nat
    BY SequenceIs, ArgsAssumption
  <1>2. ASSUME NEW c \in Nat, NEW t \in Range(Order)
        PROVE  /\ build_configs(args, c)[t] = ConfigOf(t, args, num_fields(t, args, c))
               /\ num_fields(t, args, c) \in Nat
    BY FieldCounts DEF build_configs, ConfigOf, Batch
  <1>3. CASE ~Sweeps
    BY <1>1, <1>2, <1>3 DEF ConfigsAt, build_configs
  <1>4. CASE Sweeps
    <2>1. ConfigsAt(j) = iter_configs(args, sequence[j])
      BY <1>4 DEF ConfigsAt
    <2>2. ASSUME NEW t \in Range(Order), t \in Containers
          PROVE  ConfigsAt(j)[t] = ConfigOf(t, args, sequence[j])
      <3>1. ConfigsAt(j)[t] = [build_configs(args, 0)[t] EXCEPT !.num_fields = sequence[j]]
        BY <2>1, <2>2 DEF iter_configs
      <3>2. build_configs(args, 0)[t] = ConfigOf(t, args, num_fields(t, args, 0))
        BY <1>2
      <3> QED BY <3>1, <3>2 DEF ConfigOf
    <2>3. ASSUME NEW t \in Range(Order), t \notin Containers
          PROVE  ConfigsAt(j)[t] = ConfigOf(t, args, num_fields(t, args, 0))
      BY <1>2, <2>1, <2>3 DEF iter_configs
    <2>4. DOMAIN ConfigsAt(j) = Range(Order)
      BY <2>1 DEF iter_configs
    <2> QED BY <1>1, <1>2, <2>2, <2>3, <2>4
  <1> QED BY <1>3, <1>4

\* So what a type is asked for is the same at every step.
LEMMA ConfigFields ==
  ASSUME args \in Args, NEW j \in 1..Len(sequence), NEW t \in Range(Order),
         NEW c, c = ConfigsAt(j)[t]
  PROVE  /\ c.enabled = enabled(t, args)
         /\ c.num_keys = num_keys(t, args) /\ c.num_keys \in Nat
         /\ c.num_fields \in Nat
         /\ c.json_depth = json_depth(t, args) /\ c.json_depth \in Depths
         /\ c.pipeline_batch \in Nat \ {0}
         /\ key_prefix(t, c) = Prefix(t, args)
  <1>1. PICK k \in Nat : c = ConfigOf(t, args, k)
    BY ConfigsAre
  <1>2. Batch(args) \in Nat \ {0}
    BY ArgsAssumption DEF Batch
  <1> QED BY <1>1, <1>2, KeyCounts, DepthsAre DEF ConfigOf, key_prefix, Prefix

\* The chosen types are types, each once.
LEMMA TypesAre ==
  ASSUME NEW a \in Args
  PROVE  /\ Types(a) \in Seq(Range(Order)) /\ Len(Types(a)) \in Nat
         /\ \A i \in 1..Len(Types(a)) : Types(a)[i] \in Range(Order)
         /\ \A i, k \in 1..Len(Types(a)) : Types(a)[i] = Types(a)[k] => i = k
         /\ Range(Types(a)) = {Types(a)[i] : i \in 1..Len(Types(a))}
         /\ Range(Types(a)) \subseteq Range(Order)
  <1> DEFINE I == Chosen(a)
             w == Types(a)
  <1>1. Order \in Seq(Range(Order)) /\ I \in SUBSET DOMAIN Order
    BY DefaultsAssumption DEF Chosen
  <1>2. /\ w \in Seq(Range(Order)) /\ Len(w) = Cardinality(I) /\ Cardinality(I) \in Nat
        /\ \A p \in 1..Cardinality(I) : Nth(I, p) \in I /\ w[p] = Order[Nth(I, p)]
        /\ \A p, q \in 1..Cardinality(I) : p < q => Nth(I, p) < Nth(I, q)
    <2>1. w = Picked(Order, I)
      BY DEF Types
    <2> HIDE DEF I, w
    <2>2. /\ Picked(Order, I) \in Seq(Range(Order)) /\ Len(Picked(Order, I)) = Cardinality(I)
          /\ Cardinality(I) \in Nat
          /\ \A p \in 1..Cardinality(I) : /\ Nth(I, p) \in I
                                         /\ Picked(Order, I)[p] = Order[Nth(I, p)]
          /\ \A p, q \in 1..Cardinality(I) : p < q => Nth(I, p) < Nth(I, q)
      BY <1>1, PickedIs
    <2> QED BY <2>1, <2>2
  <1>3. ASSUME NEW i \in 1..Len(w), NEW k \in 1..Len(w), w[i] = w[k] PROVE i = k
    <2>1. Order[Nth(I, i)] = Order[Nth(I, k)] /\ Nth(I, i) \in DOMAIN Order /\ Nth(I, k) \in DOMAIN Order
      BY <1>1, <1>2, <1>3
    <2>2. Nth(I, i) = Nth(I, k) /\ Nth(I, i) \in Int
      BY <1>1, <2>1, DefaultsAssumption DEF IsInjective
    <2> HIDE DEF I, w
    <2>3. ~(i < k) /\ ~(k < i)
      BY <1>2, <2>2
    <2> QED BY <1>2, <2>3
  <1> HIDE DEF I, w
  <1>4. DOMAIN w = 1..Len(w) /\ \A i \in DOMAIN w : w[i] \in Range(Order)
    BY <1>2
  <1> QED BY <1>2, <1>3, <1>4 DEF Range, w

-----------------------------------------------------------------------------
(* What keys take *)

\* The keys that go by a name, and the others.
Own(f, p) == [x \in {y \in DOMAIN f : y[1] = p} |-> f[x]]
Rest(f, p) == [x \in {y \in DOMAIN f : y[1] # p} |-> f[x]]

Memory(f) == IsFiniteSet(DOMAIN f) /\ f \in [DOMAIN f -> Nat]

\* How many keys there are, and what each takes.
Sized(f, t, c, from, to) ==
  /\ \A x \in DOMAIN f : f[x] = Elements(t, c, x[2]) + 1
  /\ Cardinality(DOMAIN f) = IF from > to THEN 0 ELSE to - from + 1

\* A configuration that keys of a type are made by.
Fills(t, c) ==
  key_prefix(t, c) = Prefix(t, args) /\ c.num_fields \in Nat /\ c.json_depth \in Depths

\* So is that of a step, with fewer members, and as it is with all of them.
LEMMA HoldingFills ==
  ASSUME args \in Args, NEW j \in 1..Len(sequence), NEW t \in Range(Order),
         NEW c, c = ConfigsAt(j)[t], NEW n \in Nat
  PROVE  /\ Fills(t, Holding(c, n)) /\ Holding(c, n).num_fields = n
         /\ Holding(c, c.num_fields) = c
  <1>1. PICK k \in Nat : c = ConfigOf(t, args, k)
    BY ConfigsAre
  <1>2. /\ Holding(c, n).num_fields = n /\ Holding(c, n).json_depth = c.json_depth
        /\ Holding(c, c.num_fields) = c
    BY <1>1 DEF Holding, ConfigOf
  <1>3. key_prefix(t, Holding(c, n)) = key_prefix(t, c)
    BY <1>2 DEF key_prefix
  <1> QED BY <1>2, <1>3, ConfigFields DEF Fills

\* A chosen type is one of the types.
LEMMA TypeIs ==
  ASSUME NEW a \in Args, NEW i \in 1..Len(Types(a))
  PROVE  Types(a)[i] \in Range(Types(a)) /\ Types(a)[i] \in Range(Order)
  BY TypesAre

\* Of a type's members some are different.
LEMMA MembersAre ==
  ASSUME NEW t, NEW c, c.num_fields \in Nat, NEW n \in DifferentMembers(t, c)
  PROVE  n \in Nat /\ n <= c.num_fields /\ (n # c.num_fields => t \in Drawn)
  <1>1. CASE t \in Drawn
    BY <1>1 DEF DifferentMembers
  <1>2. CASE t \notin Drawn
    BY <1>2 DEF DifferentMembers
  <1> QED BY <1>1, <1>2

\* The keys of a type take so much each.
LEMMA KeysAre ==
  ASSUME NEW t, NEW c, Fills(t, c), NEW from \in Nat, NEW to \in Int
  PROVE  /\ Memory(KeysBetween(t, c, from, to))
         /\ Sized(KeysBetween(t, c, from, to), t, c, from, to)
         /\ \A x \in DOMAIN KeysBetween(t, c, from, to) : x[1] = Prefix(t, args)
  <1> DEFINE f == KeysBetween(t, c, from, to)
             P == Prefix(t, args)
             D == {<<P, i>> : i \in from..to}
             g == [i \in from..to |-> <<P, i>>]
  <1>1. key_prefix(t, c) = P /\ c.num_fields \in Nat /\ c.json_depth \in Depths
    BY DEF Fills
  <1>2. f = [x \in D |-> Elements(t, c, x[2]) + 1]
    BY <1>1 DEF KeysBetween
  <1>3. \A i \in Nat : Elements(t, c, i) \in Nat
    <2> TAKE i \in Nat
    <2>1. RoundHalfEven(c.num_fields, 10) \in Nat
      <3>1. 10 \in Nat \ {0}
        OBVIOUS
      <3>2. \A m \in Nat : RoundHalfEven(m, 10) \in Nat
        BY <3>1, RoundingIsNat
      <3> QED BY <1>1, <3>2
    <2>2. i % 5 \in Nat
      OBVIOUS
    <2>3. DocumentSize(c, i) \in Nat
      BY <1>1, <2>2 DEF DocumentSize, Depths
    <2> QED BY <1>1, <2>1, <2>3 DEF Elements
  <1>4. /\ g \in Surjection(from..to, D) /\ g \in Injection(from..to, D)
    <2>1. g \in [from..to -> D] /\ \A x \in D : \E i \in from..to : g[i] = x
      OBVIOUS
    <2>2. \A i, k \in from..to : g[i] = g[k] => i = k
      OBVIOUS
    <2> HIDE DEF g, D
    <2> QED BY <2>1, <2>2 DEF Surjection, Injection, IsInjective
  <1>5. IsFiniteSet(D) /\ Cardinality(D) = Cardinality(from..to)
    <2>1. IsFiniteSet(from..to)
      BY FS_Interval
    <2> HIDE DEF g, D
    <2> QED BY <1>4, <2>1, FS_Surjection
  <1>6. \A x \in D : x[1] = P /\ x[2] \in Nat
    OBVIOUS
  <1>7. Memory(f)
    <2>1. \A x \in D : Elements(t, c, x[2]) + 1 \in Nat
      <3> SUFFICES ASSUME NEW x \in D PROVE Elements(t, c, x[2]) + 1 \in Nat
        OBVIOUS
      <3>1. Elements(t, c, x[2]) \in Nat
        BY <1>3, <1>6
      <3> QED BY <3>1
    <2> HIDE DEF D
    <2> QED BY <1>2, <1>5, <2>1 DEF Memory
  <1>8. Cardinality(from..to) = IF from > to THEN 0 ELSE to - from + 1
    BY FS_Interval
  <1>9. DOMAIN f = D /\ \A x \in D : f[x] = Elements(t, c, x[2]) + 1
    <2> HIDE DEF D
    <2> QED BY <1>2
  <1> QED BY <1>5, <1>6, <1>7, <1>8, <1>9 DEF Sized

\* The footprint is a sum over the keys.
LEMMA FootprintIs ==
  ASSUME NEW f, Memory(f)
  PROVE  /\ Footprint(f) = Sums(f, DOMAIN f)[DOMAIN f]
         /\ Footprint(f) \in Nat
  <1>1. Footprint(f) = Sums(f, DOMAIN f)[DOMAIN f]
    BY SumIsSums DEF Footprint
  <1>2. Sums(f, DOMAIN f)[DOMAIN f] \in Nat
    BY SumsType DEF Memory
  <1> QED BY <1>1, <1>2

\* Nothing takes nothing.
LEMMA FootprintOfNothing ==
  ASSUME NEW f, DOMAIN f = {}
  PROVE  Footprint(f) = 0
  <1>1. Footprint(f) = Sums(f, {})[{}]
    BY SumIsSums DEF Footprint
  <1> QED BY <1>1, SumsAre, FS_EmptySet

\* What is there is the own and the rest.
LEMMA FootprintSplits ==
  ASSUME NEW f, Memory(f), NEW p
  PROVE  /\ Memory(Own(f, p)) /\ Memory(Rest(f, p))
         /\ Footprint(f) = Footprint(Own(f, p)) + Footprint(Rest(f, p))
  <1> DEFINE D == DOMAIN f
             r == {y \in D : y[1] = p}
             t == {y \in D : y[1] # p}
             a == Own(f, p)
             b == Rest(f, p)
  <1>1. /\ r \in SUBSET D /\ t \in SUBSET D /\ r \cap t = {} /\ r \cup t = D
        /\ DOMAIN a = r /\ DOMAIN b = t
        /\ \A x \in r : a[x] = f[x]
        /\ \A x \in t : b[x] = f[x]
        /\ a = [x \in r |-> f[x]] /\ b = [x \in t |-> f[x]]
    BY DEF Own, Rest
  <1>2. IsFiniteSet(D) /\ f \in [D -> Nat]
    BY DEF Memory
  <1> HIDE DEF D, r, t, a, b
  <1>2a. IsFiniteSet(D)
    BY <1>2
  <1>3. IsFiniteSet(r) /\ IsFiniteSet(t)
    BY <1>1, <1>2, FS_Subset
  <1>4. Memory(a) /\ Memory(b)
    BY <1>1, <1>2, <1>3 DEF Memory
  <1>5. Footprint(a) = Sums(a, r)[r] /\ Footprint(b) = Sums(b, t)[t]
    BY <1>1, <1>4, FootprintIs
  <1>6. Sums(a, r)[r] = Sums(f, D)[r]
    <2>1. r \in SUBSET r
      OBVIOUS
    <2>2. r \in SUBSET D
      BY <1>1
    <2>3. \A x \in r : a[x] = f[x]
      BY <1>1
    <2>4. \A s \in SUBSET r : Sums(a, r)[s] = Sums(f, D)[s]
      BY <1>2a, <2>2, <2>3, SumsExtend
    <2> QED BY <2>1, <2>4
  <1>7. Sums(b, t)[t] = Sums(f, D)[t]
    <2>1. t \in SUBSET t
      OBVIOUS
    <2>2. t \in SUBSET D
      BY <1>1
    <2>3. \A x \in t : b[x] = f[x]
      BY <1>1
    <2>4. \A s \in SUBSET t : Sums(b, t)[s] = Sums(f, D)[s]
      BY <1>2a, <2>2, <2>3, SumsExtend
    <2> QED BY <2>1, <2>4
  <1>8. Sums(f, D)[r \cup t] = Sums(f, D)[r] + Sums(f, D)[t]
    BY <1>1, <1>2, SumsUnion
  <1>9. Footprint(f) = Sums(f, D)[D]
    BY FootprintIs DEF D
  <1> QED BY <1>1, <1>4, <1>5, <1>6, <1>7, <1>8, <1>9 DEF a, b

\* Keys that are all as large.
LEMMA FootprintEven ==
  ASSUME NEW f, Memory(f), NEW k \in Nat, \A x \in DOMAIN f : f[x] = k
  PROVE  Footprint(f) = Cardinality(DOMAIN f) * k
  <1>1. \A s \in SUBSET DOMAIN f : Sums(f, DOMAIN f)[s] = Cardinality(s) * k
    BY SumsEqual DEF Memory
  <1> QED BY <1>1, FootprintIs

\* Keys that are added join the own if they go by that name.
LEMMA AddedKeys ==
  ASSUME NEW f, Memory(f), NEW g, Memory(g), NEW p, \A x \in DOMAIN g : x[1] = p
  PROVE  /\ Memory(With(f, g))
         /\ Own(With(f, g), p) = With(Own(f, p), g)
         /\ Rest(With(f, g), p) = Rest(f, p)
         /\ DOMAIN With(f, g) = DOMAIN f \cup DOMAIN g
  <1> DEFINE h == With(f, g)
  <1>1. /\ DOMAIN h = DOMAIN f \cup DOMAIN g
        /\ \A x \in DOMAIN h : h[x] = IF x \in DOMAIN g THEN g[x] ELSE f[x]
        /\ h = [x \in DOMAIN h |-> h[x]]
    BY DEF With
  <1>2. Memory(h)
    <2>1. IsFiniteSet(DOMAIN h)
      <3>1. IsFiniteSet(DOMAIN f) /\ IsFiniteSet(DOMAIN g)
        BY DEF Memory
      <3>2. IsFiniteSet(DOMAIN f \cup DOMAIN g)
        BY <3>1, FS_Union
      <3> QED BY <1>1, <3>2
    <2>2. \A x \in DOMAIN h : h[x] \in Nat
      BY <1>1 DEF Memory
    <2> HIDE DEF h
    <2> QED BY <1>1, <2>1, <2>2 DEF Memory
  <1>3. Own(h, p) = With(Own(f, p), g)
    <2>1. {y \in DOMAIN h : y[1] = p} = {y \in DOMAIN f : y[1] = p} \cup DOMAIN g
      BY <1>1
    <2> HIDE DEF h
    <2> QED BY <1>1, <2>1 DEF Own, With
  <1>4. Rest(h, p) = Rest(f, p)
    <2>1. {y \in DOMAIN h : y[1] # p} = {y \in DOMAIN f : y[1] # p}
      BY <1>1
    <2> HIDE DEF h
    <2>2. \A y \in DOMAIN f : y[1] # p => h[y] = f[y]
      BY <1>1
    <2> QED BY <2>1, <2>2 DEF Rest
  <1> QED BY <1>1, <1>2, <1>3, <1>4

-----------------------------------------------------------------------------
(* The invariant *)

Active == {"connect", "type", "populate", "settle"}

\* Where the program is, and the configuration it goes by.
Places ==
  /\ args \in Args
  /\ step \in 1..Len(sequence) /\ configs = ConfigsAt(step)
  /\ srv \in Nat \ {0} /\ typ \in Nat \ {0}
  /\ phase = "start" => srv = 1
  /\ phase \in Active => srv \in 1..Len(servers)
  /\ phase \in {"populate", "settle"} => typ \in 1..Len(Types(args))

\* What the servers hold and the last reading are amounts of memory.
Holdings ==
  /\ stored \in [AllServers -> Range(stored)]
  /\ \A s \in AllServers : Memory(stored[s])
  /\ prev_mem \in Nat

\* While a type is filled: full pipelines were sent, and what is queued is
\* less than would be sent.
Pipeline ==
  phase = "populate" =>
    LET full == KeysPerFlush(Type, Config)
    IN  /\ made \in 0..Config.num_keys
        /\ \E m \in 0..made : made = full * m + queued
        /\ queued \in Nat /\ (queued < full \/ made = 0)

\* The keys on the server are of types that have been filled, or of the one
\* that is being filled.
FilledBefore ==
  phase \in {"type", "populate", "settle"} =>
    \A x \in DOMAIN stored[Server] :
      \E i \in 1..Len(Types(args)) :
        /\ i < typ \/ (i = typ /\ phase # "type")
        /\ x[1] = Prefix(Types(args)[i], args)

\* Unless something expired since, the last reading is what the server takes,
\* and while a type is filled what it takes but for the keys of that type,
\* which are those sent so far.
SentSoFar == IF phase = "settle" THEN Config.num_keys ELSE made - queued

Draws ==
  /\ members \in Nat
  /\ phase \in {"populate", "settle"} => members \in DifferentMembers(Type, Config)

Growth ==
  ~disturbed =>
    /\ phase = "type" => prev_mem = BaseMemory + Footprint(stored[Server])
    /\ (phase \in {"populate", "settle"} /\ Alone(Type, args)) =>
         /\ Own(stored[Server], Prefix(Type, args)) = KeysBetween(Type, Written, 0, SentSoFar - 1)
         /\ prev_mem = BaseMemory + Footprint(Rest(stored[Server], Prefix(Type, args)))

\* What a result says of a type that was filled under configuration c.
Tells(r, t, a, c) ==
  /\ r.num_keys = num_keys(t, a)
  /\ r.total_elements = total_elements(t, c)
  /\ r.members \in DifferentMembers(t, c)
  /\ ~r.disturbed /\ Alone(t, a) =>
       r.mem = Footprint(KeysBetween(t, Holding(c, r.members), 0, c.num_keys - 1))

Recorded ==
  \A x \in DOMAIN results :
    results[x].skipped = "" =>
      \E s \in AllServers, j \in 1..Len(sequence), t \in Range(Types(args)) :
        x = <<s, j, t>> /\ Tells(results[x], t, args, ConfigsAt(j)[t])

MemInv == Places /\ Holdings /\ Draws /\ Pipeline /\ FilledBefore /\ Growth /\ Recorded

-----------------------------------------------------------------------------

\* The servers of a command line.
LEMMA ServersAre ==
  /\ servers \in Seq(AllServers) /\ Len(servers) \in Nat
  /\ \A i \in 1..Len(servers) : servers[i] \in AllServers
  /\ servers # <<>> => 1 \in 1..Len(servers)
  <1>1. servers \in Seq(AllServers)
    <2>1. "Dragonfly" \in AllServers /\ "Redis" \in AllServers
      BY DEF AllServers
    <2>2. \A T : \A x \in T, y \in T : <<x>> \o <<y>> \in Seq(T) /\ <<x>> \o <<>> \in Seq(T)
                                  /\ <<>> \o <<y>> \in Seq(T) /\ <<>> \o <<>> \in Seq(T)
      OBVIOUS
    <2> HIDE DEF AllServers
    <2> QED BY <2>1, <2>2 DEF servers
  <1> QED BY <1>1

\* The command line says all but where the program is.
LEMMA SameArgs ==
  ASSUME args' = args
  PROVE  /\ sequence' = sequence /\ servers' = servers
         /\ \A j \in 1..Len(sequence) : ConfigsAt(j)' = ConfigsAt(j)
  <1>1. sequence' = sequence
    BY DEF sequence, Sweeps
  <1>2. servers' = servers
    BY DEF servers
  <1>3. ASSUME NEW j \in 1..Len(sequence) PROVE ConfigsAt(j)' = ConfigsAt(j)
    BY <1>1 DEF ConfigsAt, Sweeps
  <1> QED BY <1>1, <1>2, <1>3

\* The pipeline's size.
LEMMA FlushType ==
  ASSUME NEW t, NEW c, c.pipeline_batch \in Nat \ {0}, c.num_fields \in Nat
  PROVE  KeysPerFlush(t, c) \in Nat
  <1>1. PICK b \in Nat, d \in Nat \ {0} : b = c.pipeline_batch /\ d = Largest(c.num_fields, 1)
    BY DEF Largest
  <1>2. b \div d \in Nat
    OBVIOUS
  <1> QED BY <1>1, <1>2 DEF KeysPerFlush

\* The types and their configurations at this step.
LEMMA Standing ==
  ASSUME Places
  PROVE  /\ types = Types(args)
         /\ phase \in Active => Server \in AllServers
         /\ \A t \in Range(Order) :
              /\ configs[t] = ConfigsAt(step)[t]
              /\ configs[t].num_keys = num_keys(t, args) /\ configs[t].num_keys \in Nat
              /\ configs[t].num_fields \in Nat
              /\ configs[t].pipeline_batch \in Nat \ {0}
              /\ key_prefix(t, configs[t]) = Prefix(t, args)
         /\ phase \in {"populate", "settle"} =>
              /\ Type \in Range(Order) /\ Type \in Range(Types(args))
              /\ Type = Types(args)[typ] /\ typ \in 1..Len(Types(args))
  <1>1. args \in Args /\ step \in 1..Len(sequence) /\ configs = ConfigsAt(step)
    BY DEF Places
  <1>2. \A t \in Range(Order) :
          /\ configs[t] = ConfigsAt(step)[t]
          /\ configs[t].enabled = enabled(t, args)
          /\ configs[t].num_keys = num_keys(t, args) /\ configs[t].num_keys \in Nat
          /\ configs[t].num_fields \in Nat
          /\ configs[t].pipeline_batch \in Nat \ {0}
          /\ key_prefix(t, configs[t]) = Prefix(t, args)
    BY <1>1, ConfigFields
  <1>3. types = Types(args)
    <2>1. \A i \in DOMAIN Order : Order[i] \in Range(Order)
      BY DEF Range
    <2>2. {i \in DOMAIN Order : configs[Order[i]].enabled} = Chosen(args)
      BY <1>2, <2>1 DEF Chosen
    <2> QED BY <2>2 DEF types, type_order, Types
  <1>4. phase \in Active => Server \in AllServers
    BY ServersAre DEF Places, Server
  <1>5. ASSUME phase \in {"populate", "settle"}
        PROVE  /\ Type \in Range(Order) /\ Type \in Range(Types(args))
               /\ Type = Types(args)[typ] /\ typ \in 1..Len(Types(args))
    <2>1. typ \in 1..Len(Types(args))
      BY <1>5 DEF Places
    <2>2. Type = Types(args)[typ]
      BY <1>3 DEF Type
    <2> QED BY <1>1, <2>1, <2>2, TypesAre
  <1> QED BY <1>2, <1>3, <1>4, <1>5

\* Results that stay.
LEMMA ResultsStay ==
  ASSUME Recorded, args' = args, results' = results
  PROVE  Recorded'
  BY SameArgs DEF Recorded

\* Results that are added and say that a type was skipped.
LEMMA SkipsAdded ==
  ASSUME Recorded, args' = args, NEW g, results' = With(results, g),
         \A x \in DOMAIN g : g[x].skipped # ""
  PROVE  Recorded'
  <1>1. \A x \in DOMAIN results' :
          results'[x].skipped = "" => x \in DOMAIN results /\ results'[x] = results[x]
    BY DEF With
  <1>2. sequence' = sequence /\ \A j \in 1..Len(sequence) : ConfigsAt(j)' = ConfigsAt(j)
    BY SameArgs
  <1>3. SUFFICES ASSUME NEW x \in DOMAIN results', results'[x].skipped = ""
                 PROVE  \E s \in AllServers, j \in 1..Len(sequence), t \in Range(Types(args)) :
                          x = <<s, j, t>> /\ Tells(results'[x], t, args, ConfigsAt(j)[t])
    BY <1>2 DEF Recorded
  <1> QED BY <1>1, <1>3 DEF Recorded

\* A step that leaves the place but for the phase.
LEMMA PlaceStays ==
  ASSUME Places, UNCHANGED <<args, step, srv, configs>>, typ' \in Nat \ {0},
         phase' # "start", phase' \in Active => phase \in Active,
         phase' \in {"populate", "settle"} => typ' \in 1..Len(Types(args))
  PROVE  Places'
  BY SameArgs DEF Places

\* The members drawn stay those of the type.
LEMMA DrawsStay ==
  ASSUME Draws, members' = members,
         phase' \in {"populate", "settle"} =>
           phase \in {"populate", "settle"} /\ Type' = Type /\ Config' = Config
  PROVE  Draws'
  <1>1. members' \in Nat
    BY DEF Draws
  <1>2. ASSUME phase' \in {"populate", "settle"}
        PROVE  members' \in DifferentMembers(Type', Config')
    BY <1>2 DEF Draws
  <1> QED BY <1>1, <1>2 DEF Draws, DifferentMembers

\* The keys of two ranges, one after the other.
LEMMA JoinedKeys ==
  ASSUME NEW t, NEW c, NEW k \in Nat, NEW m \in Nat, k <= m
  PROVE  With(KeysBetween(t, c, 0, k - 1), KeysBetween(t, c, k, m - 1)) =
         KeysBetween(t, c, 0, m - 1)
  <1> DEFINE P == key_prefix(t, c)
             D(a, b) == {<<P, i>> : i \in a..b}
  <1>1. D(0, k-1) \cup D(k, m-1) = D(0, m-1)
    <2>1. (0..k-1) \cup (k..m-1) = 0..m-1
      OBVIOUS
    <2> QED BY <2>1
  <1> DEFINE A == D(0, k-1)
             B == D(k, m-1)
             C == D(0, m-1)
             e(x) == Elements(t, c, x[2]) + 1
             f == KeysBetween(t, c, 0, k - 1)
             g == KeysBetween(t, c, k, m - 1)
  <1>4. /\ f = [x \in A |-> e(x)] /\ g = [x \in B |-> e(x)]
        /\ KeysBetween(t, c, 0, m - 1) = [x \in C |-> e(x)]
    BY DEF KeysBetween
  <1>5. A \cup B = C
    BY <1>1
  <1> HIDE DEF A, B, C, D, f, g
  <1>6. With(f, g) = [x \in A \cup B |-> IF x \in B THEN g[x] ELSE f[x]]
    BY <1>4 DEF With
  <1>7. \A x \in A \cup B : (IF x \in B THEN g[x] ELSE f[x]) = e(x)
    BY <1>4
  <1>8. With(f, g) = [x \in C |-> e(x)]
    BY <1>5, <1>6, <1>7
  <1> QED BY <1>4, <1>8 DEF f, g

\* The program starts.
LEMMA MemInit == Init => MemInv
  <1> SUFFICES ASSUME Init PROVE MemInv
    OBVIOUS
  <1>1. /\ args \in Args /\ phase = "start" /\ step = 1 /\ srv = 1 /\ typ = 1
        /\ configs = ConfigsAt(1) /\ prev_mem = 0 /\ disturbed = FALSE /\ members = 0
        /\ stored = [s \in AllServers |-> Nothing] /\ results = Nothing
    BY DEF Init
  <1>2. Places
    BY <1>1, SequenceIs DEF Places, Active
  <1>3. Holdings
    <2>1. Memory(Nothing)
      BY FS_EmptySet DEF Memory, Nothing
    <2>2. stored \in [AllServers -> Range(stored)]
      BY <1>1 DEF Range
    <2> QED BY <1>1, <2>1, <2>2 DEF Holdings
  <1>4. Draws /\ Pipeline /\ FilledBefore /\ Growth
    BY <1>1 DEF Draws, Pipeline, FilledBefore, Growth
  <1>5. Recorded
    <2>1. DOMAIN results = {}
      BY <1>1 DEF Nothing
    <2> QED BY <2>1 DEF Recorded
  <1> QED BY <1>2, <1>3, <1>4, <1>5 DEF MemInv

\* The step from the type loop to the next instance.
LEMMA AdvanceKeeps ==
  ASSUME MemInv, phase \in {"connect", "type"}, Advance, args' = args,
         UNCHANGED <<made, members, queued, stored, prev_mem>>
  PROVE  Places' /\ Holdings' /\ Draws' /\ Pipeline' /\ FilledBefore' /\ Growth'
  <1>1. /\ typ' = 1 /\ phase' \in {"connect", "report", "pause"}
        /\ \/ srv # Len(servers) /\ srv' = srv + 1 /\ step' = step /\ configs' = configs
           \/ /\ srv = Len(servers) /\ step < Len(sequence) /\ srv' = 1 /\ step' = step + 1
              /\ configs' = ConfigsAt(step + 1)
           \/ /\ srv = Len(servers) /\ ~(step < Len(sequence)) /\ srv' = srv /\ step' = step
              /\ configs' = configs
    BY DEF Advance
  <1>2. /\ args \in Args /\ step \in 1..Len(sequence) /\ configs = ConfigsAt(step)
        /\ srv \in 1..Len(servers) /\ Len(servers) \in Nat
    BY ServersAre DEF MemInv, Places, Active
  <1>3. Len(sequence) \in Nat \ {0}
    BY <1>2, SequenceIs
  <1>4. PICK j \in 1..Len(sequence) :
          srv' \in 1..Len(servers) /\ step' = j /\ configs' = ConfigsAt(j)
    BY <1>1, <1>2, <1>3
  <1>5. servers' = servers /\ sequence' = sequence /\ ConfigsAt(step)' = ConfigsAt(j)
    <2>1. servers' = servers /\ sequence' = sequence
      BY SameArgs
    <2>2. ConfigsAt(step)' = ConfigsAt(j)
      BY <1>4, <2>1 DEF ConfigsAt, Sweeps
    <2> QED BY <2>1, <2>2
  <1>6. Places'
    <2>1. srv' \in Nat \ {0} /\ typ' \in Nat \ {0}
      BY <1>1, <1>2, <1>4
    <2> QED BY <1>1, <1>2, <1>4, <1>5, <2>1 DEF Places
  <1>7. Holdings'
    BY DEF MemInv, Holdings
  <1>8. Pipeline' /\ FilledBefore' /\ Growth'
    BY <1>1 DEF Pipeline, FilledBefore, Growth
  <1>9. Draws'
    BY <1>1, DrawsStay DEF MemInv
  <1> QED BY <1>6, <1>7, <1>8, <1>9

\* The program starts with its first server, if there is one.
LEMMA StartKeeps == ASSUME MemInv, Start PROVE MemInv'
  <1>1. /\ phase = "start" /\ phase' \in {"refused", "crashed", "pause", "connect"}
        /\ phase' = "connect" => servers # <<>>
        /\ UNCHANGED <<args, step, srv, typ, configs, members, stored, prev_mem, disturbed, results>>
    BY DEF Start
  <1>2. Places'
    BY <1>1, SameArgs, ServersAre DEF MemInv, Places, Active
  <1>3. Holdings'
    BY <1>1 DEF MemInv, Holdings
  <1>4. Pipeline' /\ FilledBefore' /\ Growth'
    BY <1>1 DEF Pipeline, FilledBefore, Growth
  <1>5. Recorded'
    BY <1>1, ResultsStay DEF MemInv
  <1>6. Draws'
    BY <1>1, DrawsStay DEF MemInv
  <1> QED BY <1>2, <1>3, <1>4, <1>5, <1>6 DEF MemInv

\* The server is flushed.
LEMMA ConnectKeeps == ASSUME MemInv, Connect PROVE MemInv'
  <1>1. /\ phase = "connect" /\ phase' = "type" /\ prev_mem' = BaseMemory
        /\ stored' = [stored EXCEPT ![Server] = Nothing]
        /\ UNCHANGED <<args, step, srv, typ, configs, members, results>>
    BY DEF Connect
  <1>2. Server' = Server /\ Server \in AllServers
    BY <1>1, SameArgs, Standing DEF MemInv, Server, Active
  <1>3. /\ stored'[Server] = Nothing /\ DOMAIN stored' = AllServers
        /\ \A s \in AllServers \ {Server} : stored'[s] = stored[s]
    BY <1>1, <1>2 DEF MemInv, Holdings
  <1>4. Places'
    BY <1>1, PlaceStays DEF MemInv, Places, Active
  <1>5. Holdings'
    <2>1. Memory(Nothing)
      BY FS_EmptySet DEF Memory, Nothing
    <2>2. \A s \in AllServers : Memory(stored'[s])
      BY <1>3, <2>1 DEF MemInv, Holdings
    <2>3. stored' \in [AllServers -> Range(stored')]
      BY <1>1, <1>3 DEF MemInv, Holdings, Range
    <2>4. prev_mem' \in Nat
      BY <1>1, ArgsAssumption
    <2> QED BY <2>2, <2>3, <2>4 DEF Holdings
  <1>6. DOMAIN stored'[Server] = {}
    BY <1>3 DEF Nothing
  <1>7. FilledBefore' /\ Pipeline'
    BY <1>1, <1>2, <1>6 DEF FilledBefore, Pipeline
  <1>8. Growth'
    <2>1. Footprint(stored'[Server]) = 0
      BY <1>6, FootprintOfNothing
    <2> QED BY <1>1, <1>2, <2>1, ArgsAssumption DEF Growth
  <1>9. Recorded'
    BY <1>1, ResultsStay DEF MemInv
  <1>10. Draws'
    BY <1>1, DrawsStay DEF MemInv
  <1> QED BY <1>4, <1>5, <1>7, <1>8, <1>9, <1>10 DEF MemInv

\* The server cannot be reached.
LEMMA ConnectFailsKeeps == ASSUME MemInv, ConnectFails PROVE MemInv'
  <1>1. /\ phase = "connect" /\ Advance
        /\ UNCHANGED <<args, made, members, queued, stored, prev_mem>>
        /\ results' = With(results, [x \in {<<Server, step, t>> : t \in Range(types)} |->
                                       Skipped("connection failed")])
    BY DEF ConnectFails
  <1>2. Places' /\ Holdings' /\ Draws' /\ Pipeline' /\ FilledBefore' /\ Growth'
    BY <1>1, AdvanceKeeps
  <1>3. Recorded'
    <2> DEFINE g == [x \in {<<Server, step, t>> : t \in Range(types)} |->
                       Skipped("connection failed")]
    <2>1. \A x \in DOMAIN g : g[x].skipped # ""
      BY DEF Skipped
    <2> HIDE DEF g
    <2>2. results' = With(results, g)
      BY <1>1 DEF g
    <2> QED BY <1>1, <2>1, <2>2, SkipsAdded DEF MemInv
  <1> QED BY <1>2, <1>3 DEF MemInv

\* After the last type.
LEMMA EndInstanceKeeps == ASSUME MemInv, EndInstance PROVE MemInv'
  <1>1. /\ phase = "type" /\ Advance
        /\ UNCHANGED <<args, made, members, queued, stored, prev_mem, results>>
    BY DEF EndInstance
  <1>2. Places' /\ Holdings' /\ Draws' /\ Pipeline' /\ FilledBefore' /\ Growth'
    BY <1>1, AdvanceKeeps
  <1> QED BY <1>1, <1>2, ResultsStay DEF MemInv

\* A step at one type of one server.
LEMMA SamePlace ==
  ASSUME UNCHANGED <<args, srv, typ, configs>>
  PROVE  /\ types' = types /\ Type' = Type /\ Config' = Config /\ Server' = Server
         /\ members' = members => Written' = Written
  <1>1. types' = types /\ Type' = Type /\ Config' = Config /\ Server' = Server
    BY SameArgs DEF types, type_order, Type, Config, Server
  <1> QED BY <1>1 DEF Written, Holding

\* What the server holds changes.
LEMMA HoldingsChange ==
  ASSUME Holdings, Server \in AllServers, NEW f, Memory(f), stored' = [stored EXCEPT ![Server] = f],
         prev_mem' = prev_mem
  PROVE  Holdings' /\ stored'[Server] = f
  <1>1. /\ stored'[Server] = f /\ DOMAIN stored' = AllServers
        /\ \A s \in AllServers \ {Server} : stored'[s] = stored[s]
    BY DEF Holdings
  <1>2. \A s \in AllServers : Memory(stored'[s])
    BY <1>1 DEF Holdings
  <1>3. stored' \in [AllServers -> Range(stored')]
    BY <1>1 DEF Holdings, Range
  <1> QED BY <1>1, <1>2, <1>3 DEF Holdings

\* A key that goes by the name of a type that no other type shares is not yet
\* there when the type is begun.
LEMMA NothingOwnYet ==
  ASSUME MemInv, phase = "type", typ \in 1..Len(Types(args)), NEW t, t = Types(args)[typ],
         Alone(t, args)
  PROVE  /\ DOMAIN Own(stored[Server], Prefix(t, args)) = {}
         /\ Rest(stored[Server], Prefix(t, args)) = stored[Server]
  <1> DEFINE f == stored[Server]
             P == Prefix(t, args)
  <1>1. \A x \in DOMAIN f : x[1] # P
    <2> SUFFICES ASSUME NEW x \in DOMAIN f PROVE x[1] # P
      OBVIOUS
    <2>1. PICK i \in 1..Len(Types(args)) : i < typ /\ x[1] = Prefix(Types(args)[i], args)
      BY DEF MemInv, FilledBefore
    <2>2. Types(args)[i] # t /\ Types(args)[i] \in Range(Types(args))
      BY <2>1, TypesAre DEF MemInv, Places
    <2> QED BY <2>1, <2>2 DEF Alone
  <1>2. f = [x \in DOMAIN f |-> f[x]]
    <2>1. Server \in AllServers
      BY Standing DEF MemInv, Active
    <2> QED BY <2>1 DEF MemInv, Holdings, Memory
  <1> HIDE DEF f, P
  <1>3. DOMAIN Own(f, P) = {} /\ Rest(f, P) = f
    <2>1. {y \in DOMAIN f : y[1] = P} = {} /\ {y \in DOMAIN f : y[1] # P} = DOMAIN f
      BY <1>1
    <2> QED BY <1>2, <2>1 DEF Own, Rest
  <1> QED BY <1>3 DEF f, P

\* A type is begun.
LEMMA StartTypeKeeps == ASSUME MemInv, StartType PROVE MemInv'
  <1>1. /\ phase = "type" /\ phase' = "populate" /\ made' = 0 /\ queued' = 0
        /\ members' \in DifferentMembers(Type, Config)
        /\ typ <= Len(types)
        /\ UNCHANGED <<args, step, srv, typ, configs, stored, prev_mem, disturbed, results>>
    BY DEF StartType
  <1>2. types = Types(args) /\ typ \in 1..Len(Types(args)) /\ Server \in AllServers
    BY <1>1, Standing, TypesAre DEF MemInv, Places, Active
  <1>3. Places'
    BY <1>1, <1>2, PlaceStays DEF MemInv, Places, Active
  <1>4. Holdings'
    BY <1>1 DEF MemInv, Holdings
  <1>5. types' = types /\ Type' = Type /\ Config' = Config /\ Server' = Server
    BY <1>1, SamePlace
  <1>6. Type \in Range(Order) /\ Type = Types(args)[typ] /\ Config = configs[Type]
    BY <1>2, TypesAre DEF MemInv, Places, Type, Config
  <1>7. /\ Config.num_keys \in Nat /\ KeysPerFlush(Type, Config) \in Nat
        /\ Config.num_fields \in Nat
    BY <1>6, Standing, FlushType DEF MemInv
  <1>8. Pipeline'
    <2>1. 0 = KeysPerFlush(Type, Config) * 0 + 0
      BY <1>7
    <2> QED BY <1>1, <1>5, <1>7, <2>1 DEF Pipeline
  <1>9. FilledBefore'
    BY <1>1, <1>5 DEF MemInv, FilledBefore
  <1>10. Growth'
    <2> SUFFICES ASSUME ~disturbed, Alone(Type, args)
                 PROVE  /\ Own(stored[Server], Prefix(Type, args)) =
                             KeysBetween(Type, Written', 0, 0 - 0 - 1)
                        /\ prev_mem = BaseMemory + Footprint(Rest(stored[Server], Prefix(Type, args)))
      BY <1>1, <1>5 DEF Growth, SentSoFar
    <2>1. /\ DOMAIN Own(stored[Server], Prefix(Type, args)) = {}
          /\ Rest(stored[Server], Prefix(Type, args)) = stored[Server]
      BY <1>1, <1>2, <1>6, NothingOwnYet
    <2>2. DOMAIN KeysBetween(Type, Written', 0, 0 - 0 - 1) = {}
      <3>1. 0..(0 - 0 - 1) = {}
        OBVIOUS
      <3> QED BY <3>1 DEF KeysBetween
    <2>3. \A p : Own(stored[Server], p) = [x \in DOMAIN Own(stored[Server], p) |->
                                             Own(stored[Server], p)[x]]
      BY DEF Own
    <2>4. KeysBetween(Type, Written', 0, 0 - 0 - 1) =
            [x \in DOMAIN KeysBetween(Type, Written', 0, 0 - 0 - 1) |->
               KeysBetween(Type, Written', 0, 0 - 0 - 1)[x]]
      BY DEF KeysBetween
    <2>5. prev_mem = BaseMemory + Footprint(stored[Server])
      BY <1>1 DEF MemInv, Growth
    <2> QED BY <2>1, <2>2, <2>3, <2>4, <2>5
  <1>12. Draws'
    <2>1. members' \in Nat
      BY <1>1, <1>7, MembersAre
    <2> QED BY <1>1, <1>5, <2>1 DEF Draws, DifferentMembers
  <1>11. Recorded'
    BY <1>1, ResultsStay DEF MemInv
  <1> QED BY <1>3, <1>4, <1>8, <1>9, <1>10, <1>11, <1>12 DEF MemInv

\* A type that the server has no module for is passed over.
LEMMA SkipTypeKeeps == ASSUME MemInv, SkipType PROVE MemInv'
  <1>1. /\ phase = "type" /\ phase' = "type" /\ typ' = typ + 1
        /\ results' = With(results, [x \in {<<Server, step, Type>>} |-> Skipped("no module")])
        /\ UNCHANGED <<args, step, srv, configs, made, members, queued, stored, prev_mem, disturbed>>
    BY DEF SkipType
  <1>2. Places'
    <2>1. typ' \in Nat \ {0}
      <3>1. typ \in Nat
        BY DEF MemInv, Places
      <3>2. typ' = typ + 1
        BY <1>1
      <3> QED BY <3>1, <3>2
    <2> QED BY <1>1, <2>1, PlaceStays DEF MemInv, Active
  <1>3. Holdings'
    BY <1>1 DEF MemInv, Holdings
  <1>4. Pipeline'
    BY <1>1 DEF Pipeline
  <1>5. /\ Server' = Server /\ typ \in Nat /\ args \in Args
        /\ Len(Types(args)) \in Nat
    BY <1>1, SameArgs, TypesAre DEF Server, MemInv, Places
  <1>6. FilledBefore'
    <2> SUFFICES ASSUME NEW x \in DOMAIN stored[Server]
                 PROVE  \E i \in 1..Len(Types(args)) :
                          i < typ + 1 /\ x[1] = Prefix(Types(args)[i], args)
      BY <1>1, <1>5 DEF FilledBefore
    <2>1. PICK i \in 1..Len(Types(args)) : i < typ /\ x[1] = Prefix(Types(args)[i], args)
      BY <1>1 DEF MemInv, FilledBefore
    <2>2. i < typ + 1
      BY <1>5, <2>1
    <2> QED BY <2>1, <2>2
  <1>7. Growth'
    BY <1>1, <1>5 DEF MemInv, Growth
  <1>8. Recorded'
    <2> DEFINE g == [x \in {<<Server, step, Type>>} |-> Skipped("no module")]
    <2>1. \A x \in DOMAIN g : g[x].skipped # ""
      BY DEF Skipped
    <2> HIDE DEF g
    <2>2. results' = With(results, g)
      BY <1>1 DEF g
    <2> QED BY <1>1, <2>1, <2>2, SkipsAdded DEF MemInv
  <1>9. Draws'
    BY <1>1, DrawsStay DEF MemInv
  <1> QED BY <1>2, <1>3, <1>4, <1>6, <1>7, <1>8, <1>9 DEF MemInv

\* The program ends, or waits for Enter.
LEMMA EndsKeep == ASSUME MemInv, Raise \/ PressEnter PROVE MemInv'
  <1>1. /\ phase' \in {"crashed", "report"}
        /\ UNCHANGED <<args, step, srv, typ, configs, made, members, queued, stored, prev_mem,
                       disturbed, results>>
    BY DEF Raise, PressEnter
  <1>2. Places'
    BY <1>1, PlaceStays DEF MemInv, Places, Active
  <1>3. Holdings'
    BY <1>1 DEF MemInv, Holdings
  <1>4. Pipeline' /\ FilledBefore' /\ Growth'
    BY <1>1 DEF Pipeline, FilledBefore, Growth
  <1>5. Draws'
    BY <1>1, DrawsStay DEF MemInv
  <1> QED BY <1>1, <1>2, <1>3, <1>4, <1>5, ResultsStay DEF MemInv

\* The place, while a type is filled.
LEMMA Filling ==
  ASSUME MemInv, phase \in {"populate", "settle"}
  PROVE  /\ args \in Args /\ step \in 1..Len(sequence) /\ Server \in AllServers
         /\ Type \in Range(Order) /\ Type \in Range(Types(args))
         /\ typ \in 1..Len(Types(args)) /\ Type = Types(args)[typ]
         /\ Config = ConfigsAt(step)[Type] /\ Config = configs[Type]
         /\ Config.num_keys = num_keys(Type, args) /\ Config.num_keys \in Nat
         /\ KeysPerFlush(Type, Config) \in Nat /\ Config.num_fields \in Nat
         /\ members \in DifferentMembers(Type, Config) /\ members \in Nat
         /\ Fills(Type, Written)
         /\ Memory(stored[Server])
  <1>1. Places /\ args \in Args /\ step \in 1..Len(sequence)
    BY DEF MemInv, Places
  <1>2. /\ Server \in AllServers /\ Type \in Range(Order) /\ Type \in Range(Types(args))
        /\ typ \in 1..Len(Types(args)) /\ Type = Types(args)[typ]
    BY <1>1, Standing DEF Active
  <1>3. Config = configs[Type]
    BY DEF Config
  <1>4. /\ configs[Type] = ConfigsAt(step)[Type]
        /\ configs[Type].num_keys = num_keys(Type, args) /\ configs[Type].num_keys \in Nat
        /\ configs[Type].num_fields \in Nat /\ configs[Type].pipeline_batch \in Nat \ {0}
    BY <1>1, <1>2, Standing
  <1>5. KeysPerFlush(Type, Config) \in Nat
    BY <1>3, <1>4, FlushType
  <1>6. Memory(stored[Server])
    BY <1>2 DEF MemInv, Holdings
  <1>7. members \in DifferentMembers(Type, Config) /\ members \in Nat
    BY DEF MemInv, Draws
  <1>8. Fills(Type, Written)
    BY <1>1, <1>2, <1>3, <1>4, <1>7, HoldingFills DEF Written
  <1> QED BY <1>1, <1>2, <1>3, <1>4, <1>5, <1>6, <1>7, <1>8

\* What is queued has not been sent.
LEMMA QueuedIsMade ==
  ASSUME MemInv, phase = "populate"
  PROVE  /\ made \in Nat /\ queued \in Nat /\ made - queued \in Nat
         /\ made <= Config.num_keys /\ (made = 0 => queued = 0)
  <1>1. PICK m \in 0..made : made = KeysPerFlush(Type, Config) * m + queued
    BY DEF MemInv, Pipeline
  <1>2. made \in 0..Config.num_keys /\ queued \in Nat
    BY DEF MemInv, Pipeline
  <1>3. KeysPerFlush(Type, Config) \in Nat /\ Config.num_keys \in Nat
    BY Filling
  <1>4. PICK a \in Nat : a = KeysPerFlush(Type, Config) * m
    BY <1>1, <1>2, <1>3
  <1> QED BY <1>1, <1>2, <1>3, <1>4

\* Keys k..m-1 of the type are sent, after the keys before them.
LEMMA SendKeeps ==
  ASSUME MemInv, phase = "populate", phase' \in {"populate", "settle"},
         UNCHANGED <<args, step, srv, typ, configs, members, prev_mem, disturbed, results>>,
         NEW k \in Nat, NEW m \in Nat, k <= m, k = SentSoFar, SentSoFar' = m,
         stored' = [stored EXCEPT ![Server] =
                      With(stored[Server], KeysBetween(Type, Written, k, m - 1))]
  PROVE  Places' /\ Holdings' /\ Draws' /\ FilledBefore' /\ Growth' /\ Recorded'
  <1> DEFINE f == stored[Server]
             g == KeysBetween(Type, Written, k, m - 1)
             h == With(f, g)
             P == Prefix(Type, args)
  <1>1. /\ args \in Args /\ step \in 1..Len(sequence) /\ Server \in AllServers
        /\ Type \in Range(Order)
        /\ typ \in 1..Len(Types(args)) /\ Type = Types(args)[typ]
        /\ Config = ConfigsAt(step)[Type] /\ Memory(f) /\ Fills(Type, Written)
    BY Filling
  <1>2. /\ \A x \in DOMAIN g : x[1] = P
        /\ Memory(g)
    <2>1. m - 1 \in Int
      OBVIOUS
    <2>2. Memory(g)
      BY <1>1, <2>1, KeysAre
    <2>3. \A x \in DOMAIN g : x[1] = P
      <3>1. key_prefix(Type, Written) = P
        BY <1>1 DEF Fills
      <3> QED BY <3>1 DEF KeysBetween
    <2> QED BY <2>2, <2>3
  <1>3. Places'
    BY <1>1, PlaceStays DEF MemInv, Places, Active
  <1> HIDE DEF f, g, P
  <1>4. /\ Memory(h) /\ Own(h, P) = With(Own(f, P), g) /\ Rest(h, P) = Rest(f, P)
        /\ DOMAIN h = DOMAIN f \cup DOMAIN g
    BY <1>1, <1>2, AddedKeys
  <1> HIDE DEF h
  <1>5. stored' = [stored EXCEPT ![Server] = h]
    BY DEF f, g, h
  <1>6. Holdings' /\ stored'[Server] = h
    BY <1>1, <1>4, <1>5, HoldingsChange DEF MemInv
  <1>7. types' = types /\ Type' = Type /\ Config' = Config /\ Server' = Server
        /\ Written' = Written
    BY SamePlace
  <1>8. FilledBefore'
    <2> SUFFICES ASSUME NEW x \in DOMAIN h
                 PROVE  \E i \in 1..Len(Types(args)) :
                          (i < typ \/ i = typ) /\ x[1] = Prefix(Types(args)[i], args)
      BY <1>6, <1>7 DEF FilledBefore
    <2>1. CASE x \in DOMAIN f
      BY <2>1 DEF MemInv, FilledBefore, f
    <2>2. CASE x \in DOMAIN g
      BY <1>1, <1>2, <2>2 DEF P
    <2> QED BY <1>4, <2>1, <2>2
  <1>9. Growth'
    <2> SUFFICES ASSUME ~disturbed, Alone(Type, args)
                 PROVE  /\ Own(h, P) = KeysBetween(Type, Written, 0, m - 1)
                        /\ prev_mem = BaseMemory + Footprint(Rest(h, P))
      BY <1>6, <1>7 DEF Growth, P
    <2>1. /\ Own(f, P) = KeysBetween(Type, Written, 0, k - 1)
          /\ prev_mem = BaseMemory + Footprint(Rest(f, P))
      BY DEF MemInv, Growth, f, P
    <2>2. With(KeysBetween(Type, Written, 0, k - 1), g) = KeysBetween(Type, Written, 0, m - 1)
      BY <1>1, JoinedKeys DEF g
    <2> QED BY <1>4, <2>1, <2>2
  <1>10. Recorded'
    BY ResultsStay DEF MemInv
  <1>11. Draws'
    BY <1>7, DrawsStay DEF MemInv
  <1> QED BY <1>3, <1>6, <1>8, <1>9, <1>10, <1>11

\* All strings at once.
LEMMA DebugPopulateKeeps == ASSUME MemInv, DebugPopulate PROVE MemInv'
  <1>1. /\ phase = "populate" /\ phase' = "settle" /\ made = 0
        /\ stored' = [stored EXCEPT ![Server] =
                        With(stored[Server], KeysBetween(Type, Written, 0, Config.num_keys - 1))]
        /\ UNCHANGED <<args, step, srv, typ, configs, members, prev_mem, disturbed, results>>
    BY DEF DebugPopulate
  <1>2. Config' = Config /\ Config.num_keys \in Nat
    BY <1>1, SamePlace, Filling
  <1>3. SentSoFar = 0 /\ SentSoFar' = Config.num_keys
    <2>1. made = 0 /\ queued = 0
      BY <1>1, QueuedIsMade
    <2> QED BY <1>1, <1>2, <2>1 DEF SentSoFar
  <1>4. PICK m \in Nat : m = Config.num_keys
    BY <1>2
  <1>5. 0 \in Nat /\ 0 <= m
    OBVIOUS
  <1>6. Places' /\ Holdings' /\ Draws' /\ FilledBefore' /\ Growth' /\ Recorded'
    BY <1>1, <1>3, <1>4, <1>5, SendKeeps
  <1>7. Pipeline'
    BY <1>1 DEF Pipeline
  <1> QED BY <1>6, <1>7 DEF MemInv

\* The last, partial pipeline.
LEMMA EndPopulateKeeps == ASSUME MemInv, EndPopulate PROVE MemInv'
  <1>1. /\ phase = "populate" /\ phase' = "settle" /\ made = Config.num_keys
        /\ stored' = [stored EXCEPT ![Server] =
                        With(stored[Server], KeysBetween(Type, Written, made - queued, made - 1))]
        /\ UNCHANGED <<args, step, srv, typ, configs, members, prev_mem, disturbed, results>>
    BY DEF EndPopulate, Sent
  <1>2. Config' = Config
    BY <1>1, SamePlace
  <1>3. PICK k \in Nat, m \in Nat : k = made - queued /\ m = made /\ k <= m
    BY <1>1, QueuedIsMade
  <1>4. SentSoFar = k /\ SentSoFar' = m
    BY <1>1, <1>2, <1>3 DEF SentSoFar
  <1>5. Places' /\ Holdings' /\ Draws' /\ FilledBefore' /\ Growth' /\ Recorded'
    BY <1>1, <1>3, <1>4, SendKeeps
  <1>6. Pipeline'
    BY <1>1 DEF Pipeline
  <1> QED BY <1>5, <1>6 DEF MemInv

\* One more key: the pipeline is sent when it is full.
LEMMA AddKeyKeeps == ASSUME MemInv, AddKey PROVE MemInv'
  <1> DEFINE full == KeysPerFlush(Type, Config)
             sends == full # 0 /\ (made + 1) % full = 0
  <1>1. /\ phase = "populate" /\ phase' = "populate" /\ made < Config.num_keys /\ full # 0
        /\ made' = made + 1 /\ queued' = (IF sends THEN 0 ELSE queued + 1)
        /\ UNCHANGED <<args, step, srv, typ, configs, members, prev_mem, disturbed, results>>
    BY DEF AddKey
  <1>1a. ~sends => stored' = stored
    BY DEF AddKey
  <1>1b. sends => stored' = [stored EXCEPT ![Server] = With(stored[Server],
                               KeysBetween(Type, Written, (made + 1) - (queued + 1), (made + 1) - 1))]
    BY DEF AddKey, Sent
  <1>2. full \in Nat \ {0} /\ Config.num_keys \in Nat
    BY <1>1, Filling
  <1>3. PICK m \in 0..made : made = full * m + queued
    BY <1>1 DEF MemInv, Pipeline
  <1>4. made \in Nat /\ queued \in Nat /\ queued < full /\ m \in Nat
    BY <1>1, <1>2, <1>3, QueuedIsMade DEF MemInv, Pipeline
  <1>5. types' = types /\ Type' = Type /\ Config' = Config /\ Server' = Server
        /\ Written' = Written
    BY <1>1, SamePlace
  <1> HIDE DEF full
  <1>6. CASE queued + 1 < full
    <2>1. made + 1 = full * m + (queued + 1) /\ queued + 1 \in 0..full-1
      BY <1>2, <1>3, <1>4, <1>6
    <2>2. (made + 1) % full = queued + 1
      <3>1. PICK n \in Nat \ {0}, q \in Int, r \in Int :
              n = full /\ q = m /\ r = queued + 1 /\ r \in 0..n-1
        BY <1>2, <1>4, <2>1
      <3>2. (n * q + r) % n = r
        BY <3>1, ModUnique
      <3> QED BY <2>1, <3>1, <3>2
    <2>3. ~sends
      BY <1>4, <2>2
    <2>4. stored' = stored /\ queued' = queued + 1
      BY <1>1, <1>1a, <2>3
    <2>5. Pipeline'
      <3>1. made' \in 0..Config.num_keys /\ m \in 0..made' /\ made' = full * m + queued'
            /\ queued' \in Nat /\ queued' < full
        BY <1>1, <1>2, <1>4, <1>6, <2>1, <2>4
      <3> QED BY <1>5, <3>1 DEF Pipeline, full
    <2>6. Places' /\ Holdings' /\ FilledBefore'
      <3>1. Places'
        BY <1>1, PlaceStays DEF MemInv, Places, Active
      <3> QED BY <1>1, <1>5, <2>4, <3>1 DEF MemInv, Holdings, FilledBefore
    <2>7. Growth'
      <3>1. SentSoFar' = SentSoFar
        BY <1>1, <1>4, <2>4 DEF SentSoFar
      <3> QED BY <1>1, <1>5, <2>4, <3>1 DEF MemInv, Growth
    <2>8. Draws'
      BY <1>1, <1>5, DrawsStay DEF MemInv
    <2> QED BY <1>1, <2>5, <2>6, <2>7, <2>8, ResultsStay DEF MemInv
  <1>7. CASE queued + 1 = full
    <2>1. made + 1 = full * (m + 1) + 0 /\ 0 \in 0..full-1 /\ m + 1 \in Nat
      BY <1>2, <1>3, <1>4, <1>7
    <2>2. (made + 1) % full = 0
      <3>1. (full * (m + 1) + 0) % full = 0
        BY <1>2, <2>1, ModUnique
      <3> QED BY <2>1, <3>1
    <2>3. sends
      BY <1>2, <2>2
    <2>4. queued' = 0
      BY <1>1, <2>3
    <2>5. Pipeline'
      <3>1. made' \in 0..Config.num_keys /\ m + 1 \in 0..made' /\ made' = full * (m + 1) + queued'
            /\ queued' \in Nat /\ queued' < full
        BY <1>1, <1>2, <1>3, <1>4, <2>1, <2>4
      <3> QED BY <1>5, <3>1 DEF Pipeline, full
    <2>6. PICK k \in Nat, l \in Nat : k = made - queued /\ l = made + 1 /\ k <= l
      BY <1>1, <1>4, QueuedIsMade
    <2>7. SentSoFar = k /\ SentSoFar' = l
      BY <1>1, <1>4, <2>4, <2>6 DEF SentSoFar
    <2>8. stored' = [stored EXCEPT ![Server] =
                       With(stored[Server], KeysBetween(Type, Written, k, l - 1))]
      <3>1. k = (made + 1) - (queued + 1) /\ l - 1 = (made + 1) - 1
        BY <1>4, <2>6
      <3> HIDE DEF sends
      <3> QED BY <1>1b, <2>3, <3>1
    <2>9. Places' /\ Holdings' /\ Draws' /\ FilledBefore' /\ Growth' /\ Recorded'
      <3> HIDE DEF sends
      <3>1. phase' \in {"populate", "settle"}
        BY <1>1
      <3> QED BY <1>1, <2>6, <2>7, <2>8, <3>1, SendKeeps
    <2> QED BY <2>5, <2>9 DEF MemInv
  <1> QED BY <1>2, <1>4, <1>6, <1>7

\* A type is measured: what the server has grown by is what the type's own
\* keys take.
LEMMA MeasureKeeps == ASSUME MemInv, Measure PROVE MemInv'
  <1> DEFINE f == stored[Server]
             P == Prefix(Type, args)
             x0 == <<Server, step, Type>>
             r == [skipped |-> "", num_keys |-> Config.num_keys,
                   total_elements |-> total_elements(Type, Config),
                   mem |-> get_memory - baseline, members |-> members,
                   disturbed |-> disturbed]
             g == [x \in {x0} |-> r]
  <1>1. /\ phase = "settle" /\ phase' = "type" /\ typ' = typ + 1
        /\ results' = With(results, g)
        /\ prev_mem' = get_memory /\ disturbed' = FALSE
        /\ UNCHANGED <<args, step, srv, configs, made, members, queued, stored>>
    BY DEF Measure
  <1>2. /\ args \in Args /\ step \in 1..Len(sequence) /\ Server \in AllServers
        /\ Type \in Range(Order) /\ Type \in Range(Types(args))
        /\ typ \in 1..Len(Types(args)) /\ Type = Types(args)[typ]
        /\ Config = ConfigsAt(step)[Type]
        /\ Config.num_keys = num_keys(Type, args) /\ Config.num_keys \in Nat
        /\ members \in DifferentMembers(Type, Config)
        /\ Memory(f)
    BY <1>1, Filling
  <1>3. /\ get_memory = BaseMemory + Footprint(f) /\ Footprint(f) \in Nat /\ BaseMemory \in Nat
        /\ get_memory \in Nat /\ baseline = prev_mem
    <2>1. get_memory = BaseMemory + Footprint(f) /\ baseline = prev_mem
      BY DEF get_memory, baseline
    <2>2. Footprint(f) \in Nat /\ BaseMemory \in Nat
      BY <1>2, FootprintIs, ArgsAssumption
    <2> HIDE DEF f
    <2> QED BY <2>1, <2>2
  <1>4. Places'
    <2>1. typ' \in Nat \ {0} /\ typ \in Nat
      <3>1. typ \in Nat \ {0}
        BY DEF MemInv, Places
      <3>2. typ' = typ + 1
        BY <1>1
      <3> QED BY <3>1, <3>2
    <2>2. UNCHANGED <<args, step, srv, configs>> /\ phase' = "type" /\ phase = "settle"
      BY <1>1
    <2> QED BY <2>1, <2>2, PlaceStays DEF MemInv, Active
  <1>5. Holdings'
    <2>1. prev_mem' = get_memory /\ stored' = stored
      BY <1>1
    <2> QED BY <1>3, <2>1 DEF MemInv, Holdings
  <1>6. Server' = Server
    BY <1>1, SameArgs DEF Server
  <1>7. Pipeline' /\ Growth'
    <2>1. prev_mem' = get_memory /\ phase' = "type" /\ stored' = stored
      BY <1>1
    <2> QED BY <1>3, <1>6, <2>1 DEF Pipeline, Growth
  <1>8. FilledBefore'
    <2> SUFFICES ASSUME NEW x \in DOMAIN f
                 PROVE  \E i \in 1..Len(Types(args)) :
                          i < typ' /\ x[1] = Prefix(Types(args)[i], args)
      BY <1>1, <1>6 DEF FilledBefore
    <2>1. PICK i \in 1..Len(Types(args)) :
            (i < typ \/ i = typ) /\ x[1] = Prefix(Types(args)[i], args)
      BY <1>1 DEF MemInv, FilledBefore
    <2>2. typ' = typ + 1
      BY <1>1
    <2>3. i < typ'
      <3> HIDE DEF f
      <3> QED BY <1>2, <2>1, <2>2
    <2> QED BY <2>1, <2>3
  <1>9. Tells(r, Type, args, Config)
    <2>1. ASSUME ~disturbed, Alone(Type, args)
          PROVE  r.mem = Footprint(KeysBetween(Type, Written, 0, Config.num_keys - 1))
      <3>1. /\ Own(f, P) = KeysBetween(Type, Written, 0, Config.num_keys - 1)
            /\ prev_mem = BaseMemory + Footprint(Rest(f, P))
        BY <1>1, <2>1 DEF MemInv, Growth, SentSoFar
      <3>2. /\ Footprint(f) = Footprint(Own(f, P)) + Footprint(Rest(f, P))
            /\ Footprint(Own(f, P)) \in Nat /\ Footprint(Rest(f, P)) \in Nat
        <4> HIDE DEF f, P
        <4> QED BY <1>2, FootprintSplits, FootprintIs
      <3>3. r.mem = get_memory - prev_mem
        BY <1>3
      <3>4. PICK a \in Nat, b \in Nat : a = Footprint(Own(f, P)) /\ b = Footprint(Rest(f, P))
        BY <3>2
      <3>5. get_memory = BaseMemory + (a + b) /\ prev_mem = BaseMemory + b
        BY <1>3, <3>1, <3>2, <3>4
      <3>6. get_memory - prev_mem = a
        <4>1. PICK c \in Nat : c = BaseMemory
          BY <1>3
        <4>2. get_memory = c + (a + b) /\ prev_mem = c + b
          BY <3>5, <4>1
        <4> HIDE DEF f, P, r
        <4> QED BY <4>2
      <3> QED BY <3>1, <3>3, <3>4, <3>6
    <2>2. r.members = members /\ Written = Holding(Config, members)
      BY DEF Written
    <2> QED BY <1>2, <2>1, <2>2 DEF Tells
  <1>10. Recorded'
    <2>1. sequence' = sequence /\ \A j \in 1..Len(sequence) : ConfigsAt(j)' = ConfigsAt(j)
      BY <1>1, SameArgs
    <2>2. SUFFICES ASSUME NEW x \in DOMAIN results', results'[x].skipped = ""
                   PROVE  \E s \in AllServers, j \in 1..Len(sequence), t \in Range(Types(args)) :
                            x = <<s, j, t>> /\ Tells(results'[x], t, args, ConfigsAt(j)[t])
      BY <1>1, <2>1 DEF Recorded
    <2> HIDE DEF r
    <2>3. CASE x = x0
      <3>1. results'[x] = r
        BY <1>1, <2>3 DEF With
      <3> QED BY <1>2, <1>9, <2>3, <3>1
    <2>4. CASE x # x0
      <3>1. x \in DOMAIN results /\ results'[x] = results[x]
        BY <1>1, <2>4 DEF With
      <3> QED BY <2>2, <3>1 DEF MemInv, Recorded
    <2> QED BY <2>3, <2>4
  <1>11. Draws'
    BY <1>1, DrawsStay DEF MemInv
  <1> QED BY <1>4, <1>5, <1>7, <1>8, <1>10, <1>11 DEF MemInv

\* Keys expire.
LEMMA ExpireKeeps == ASSUME MemInv, NEW p, Expire(p) PROVE MemInv'
  <1>1. /\ phase \in {"type", "populate", "settle"} /\ disturbed' = TRUE
        /\ stored' = [stored EXCEPT ![Server] = Rest(stored[Server], p)]
        /\ UNCHANGED <<args, phase, step, srv, typ, configs, made, members, queued, prev_mem, results>>
    BY DEF Expire, Rest
  <1>2. Server \in AllServers /\ Memory(stored[Server])
    BY <1>1, Standing DEF MemInv, Active, Holdings
  <1>3. types' = types /\ Type' = Type /\ Config' = Config /\ Server' = Server
    BY <1>1, SamePlace
  <1>4. Memory(Rest(stored[Server], p))
    BY <1>2, FootprintSplits
  <1>5. Holdings' /\ stored'[Server] = Rest(stored[Server], p)
    BY <1>1, <1>2, <1>4, HoldingsChange DEF MemInv
  <1>6. Places'
    <2>1. typ \in Nat \ {0} /\ phase # "start"
      BY <1>1 DEF MemInv, Places
    <2> QED BY <1>1, <2>1, PlaceStays DEF MemInv, Places
  <1>7. Pipeline'
    BY <1>1, <1>3 DEF MemInv, Pipeline
  <1>8. FilledBefore'
    <2>1. DOMAIN Rest(stored[Server], p) \subseteq DOMAIN stored[Server]
      BY DEF Rest
    <2> QED BY <1>1, <1>3, <1>5, <2>1 DEF MemInv, FilledBefore
  <1>9. Growth' /\ Recorded'
    BY <1>1, ResultsStay DEF MemInv, Growth
  <1>10. Draws'
    BY <1>1, <1>3, DrawsStay DEF MemInv
  <1> QED BY <1>5, <1>6, <1>7, <1>8, <1>9, <1>10 DEF MemInv

\* No step leaves the invariant.
LEMMA MemStep == MemInv /\ [Next]_vars => MemInv'
  <1> SUFFICES ASSUME MemInv, [Next]_vars PROVE MemInv'
    OBVIOUS
  <1>1. CASE Start \/ Connect \/ ConnectFails
    BY <1>1, StartKeeps, ConnectKeeps, ConnectFailsKeeps
  <1>2. CASE StartType \/ SkipType \/ EndInstance
    BY <1>2, StartTypeKeeps, SkipTypeKeeps, EndInstanceKeeps
  <1>3. CASE DebugPopulate \/ AddKey \/ EndPopulate
    BY <1>3, DebugPopulateKeeps, AddKeyKeeps, EndPopulateKeeps
  <1>4. CASE Raise \/ Measure \/ PressEnter
    BY <1>4, EndsKeep, MeasureKeeps
  <1>5. CASE \E type \in Range(types) : Expire(key_prefix(type, configs[type]))
    BY <1>5, ExpireKeeps
  <1>6. CASE UNCHANGED vars
    <2>1. UNCHANGED <<args, phase, step, srv, typ, configs, made, members, queued, stored, prev_mem,
                      disturbed, results>>
      BY <1>6 DEF vars
    <2>2. types' = types /\ Type' = Type /\ Config' = Config /\ Server' = Server
          /\ Written' = Written
      BY <2>1, SamePlace
    <2>3. Places' /\ Recorded'
      BY <2>1, SameArgs, ResultsStay DEF MemInv, Places
    <2>4. SentSoFar' = SentSoFar
      BY <2>1, <2>2 DEF SentSoFar
    <2>5. Draws'
      BY <2>1, <2>2, DrawsStay DEF MemInv
    <2> QED BY <2>1, <2>2, <2>3, <2>4, <2>5 DEF MemInv, Holdings, Pipeline, FilledBefore, Growth
  <1> QED BY <1>1, <1>2, <1>3, <1>4, <1>5, <1>6 DEF Next

\* What the program does is a step of the invariant, for every table of types,
\* command line, server and expiry.
LEMMA MemoryInvariant == Spec => []MemInv
  BY MemInit, MemStep, PTL DEF Spec

\* A type that no other row shares names with, by the configurations.
LEMMA NamesAreAlone ==
  ASSUME Places, NEW t \in Range(Types(args)), HasOwnNames(t)
  PROVE  Alone(t, args)
  <1>1. types = Types(args) /\ Range(Types(args)) \subseteq Range(Order)
    BY Standing, TypesAre DEF Places
  <1>2. \A u \in Range(Types(args)) : key_prefix(u, configs[u]) = Prefix(u, args)
    BY <1>1, Standing
  <1> QED BY <1>1, <1>2 DEF HasOwnNames, Alone

\* What was recorded of an undisturbed type is the footprint of its keys.
LEMMA GrowthIs == MemInv => GrowthIsOwnFootprint
  <1> SUFFICES ASSUME MemInv, NEW x \in DOMAIN results, Undisturbed(x),
                      NEW cfg, cfg = ConfigsAt(x[2])[x[3]]
               PROVE  results[x].mem =
                        Footprint(KeysBetween(x[3], Holding(cfg, results[x].members), 0,
                                              cfg.num_keys - 1))
    BY DEF GrowthIsOwnFootprint
  <1>1. results[x].skipped = "" /\ ~results[x].disturbed /\ HasOwnNames(x[3])
    BY DEF Undisturbed
  <1>2. PICK s \in AllServers, j \in 1..Len(sequence), t \in Range(Types(args)) :
          x = <<s, j, t>> /\ Tells(results[x], t, args, ConfigsAt(j)[t])
    BY <1>1 DEF MemInv, Recorded
  <1>3. x[2] = j /\ x[3] = t
    BY <1>2
  <1>4. Alone(t, args)
    BY <1>1, <1>3, NamesAreAlone DEF MemInv
  <1> QED BY <1>1, <1>2, <1>3, <1>4 DEF Tells

\* Keys of k elements take k + 1 each.
LEMMA EvenKeys ==
  ASSUME NEW t, NEW c, Fills(t, c), NEW n \in Nat, NEW k \in Nat, \A i : Elements(t, c, i) = k
  PROVE  Footprint(KeysBetween(t, c, 0, n - 1)) = n + n * k
  <1>1. PICK lo \in Nat, m \in Int : lo = 0 /\ m = n - 1
    OBVIOUS
  <1> DEFINE f == KeysBetween(t, c, lo, m)
  <1>2. Memory(f) /\ Sized(f, t, c, lo, m)
    BY KeysAre
  <1>3. \A x \in DOMAIN f : f[x] = Elements(t, c, x[2]) + 1
    BY <1>2 DEF Sized
  <1>4. Memory(f) /\ Cardinality(DOMAIN f) = IF lo > m THEN 0 ELSE m - lo + 1
    BY <1>2 DEF Sized
  <1> HIDE DEF f
  <1>5. \A y \in DOMAIN f : f[y] = k + 1
    BY <1>3
  <1>6. Cardinality(DOMAIN f) = n
    BY <1>1, <1>4
  <1>7. k + 1 \in Nat
    OBVIOUS
  <1>8. Footprint(f) = n * (k + 1)
    BY <1>4, <1>5, <1>6, <1>7, FootprintEven
  <1>9. n * (k + 1) = n + n * k
    OBVIOUS
  <1> QED BY <1>1, <1>8, <1>9 DEF f

\* Some of the elements counted were drawn before.
LEMMA CountedAndRepeated ==
  ASSUME NEW n \in Nat, NEW a \in Nat, NEW b \in Nat, a <= b
  PROVE  n + n * a = n + n * b - n * (b - a) /\ b - a >= 0
  <1>1. PICK d \in Nat : b = a + d /\ b - a = d
    <2>1. b - a \in Nat /\ b = a + (b - a)
      OBVIOUS
    <2> QED BY <2>1
  <1>2. n * (a + d) = n * a + n * d /\ n * a \in Nat /\ n * d \in Nat
    OBVIOUS
  <1>3. \A p, q \in Nat : n + p = n + (p + q) - q
    OBVIOUS
  <1> QED BY <1>1, <1>2, <1>3

\* The row of a container or string, undisturbed: its keys take their different
\* members.
LEMMA RowIs ==
  ASSUME MemInv, NEW x \in DOMAIN results, Undisturbed(x), x[3] \in Containers \cup {"strings"}
  PROVE  \E n, k, e, F \in Nat :
           /\ results[x].num_keys = n /\ results[x].members = k /\ k <= F
           /\ F = ConfigsAt(x[2])[x[3]].num_fields
           /\ n = num_keys(x[3], args)
           /\ e = (IF x[3] = "strings" THEN 1 ELSE k)
           /\ results[x].total_elements = (IF x[3] = "strings" THEN n ELSE n * F)
           /\ results[x].mem = n + n * e
           /\ k # F => x[3] \in Drawn
  <1>1. PICK s \in AllServers, j \in 1..Len(sequence), t \in Range(Types(args)) :
          x = <<s, j, t>> /\ Tells(results[x], t, args, ConfigsAt(j)[t])
    BY DEF MemInv, Recorded, Undisturbed
  <1>2. PICK c : c = ConfigsAt(j)[t]
    OBVIOUS
  <1>3. x[2] = j /\ x[3] = t /\ t \in Containers \cup {"strings"}
    BY <1>1
  <1>4. args \in Args /\ t \in Range(Order)
    BY TypesAre DEF MemInv, Places
  <1>5. PICK n \in Nat, F \in Nat :
          n = c.num_keys /\ n = num_keys(t, args) /\ F = c.num_fields
    BY <1>2, <1>4, ConfigFields
  <1>6. /\ results[x].num_keys = n /\ results[x].total_elements = total_elements(t, c)
        /\ results[x].members \in DifferentMembers(t, c)
    BY <1>1, <1>2, <1>5 DEF Tells
  <1>7. PICK k \in Nat : results[x].members = k /\ k <= F /\ (k # F => t \in Drawn)
    BY <1>5, <1>6, MembersAre
  <1>8. Fills(t, Holding(c, k)) /\ Holding(c, k).num_fields = k
    BY <1>2, <1>4, HoldingFills
  <1>9. PICK e \in Nat : e = (IF t = "strings" THEN 1 ELSE k)
    OBVIOUS
  <1>10. \A i : Elements(t, Holding(c, k), i) = e
    BY <1>3, <1>8, <1>9 DEF Elements, Containers, JsonTypes, JsonDepths
  <1>11. Footprint(KeysBetween(t, Holding(c, k), 0, n - 1)) = n + n * e
    BY <1>8, <1>10, EvenKeys
  <1>12. results[x].mem = n + n * e
    BY <1>2, <1>3, <1>5, <1>7, <1>11, GrowthIs DEF GrowthIsOwnFootprint
  <1>13. total_elements(t, c) = IF t = "strings" THEN n ELSE n * F
    BY <1>5 DEF total_elements
  <1> QED BY <1>2, <1>3, <1>5, <1>6, <1>7, <1>9, <1>12, <1>13

\* What is reported of an undisturbed container or string counts its keys and
\* its elements, and those that were drawn before.
LEMMA ElementsAre == MemInv => ElementsAreCounted
  <1> SUFFICES ASSUME MemInv, NEW x \in DOMAIN results, Undisturbed(x),
                      x[3] \in Containers \cup {"strings"}
               PROVE  /\ results[x].mem = results[x].num_keys + results[x].total_elements
                                            - results[x].num_keys * Repeated(x)
                      /\ Repeated(x) >= 0
                      /\ Repeated(x) > 0 => x[3] \in {"sets", "sorted_sets"}
    BY DEF ElementsAreCounted
  <1>1. PICK n, k, e, F \in Nat :
           /\ results[x].num_keys = n /\ results[x].members = k /\ k <= F
           /\ F = ConfigsAt(x[2])[x[3]].num_fields
           /\ n = num_keys(x[3], args)
           /\ e = (IF x[3] = "strings" THEN 1 ELSE k)
           /\ results[x].total_elements = (IF x[3] = "strings" THEN n ELSE n * F)
           /\ results[x].mem = n + n * e
           /\ k # F => x[3] \in Drawn
    BY RowIs
  <1>2. Repeated(x) = F - k
    BY <1>1 DEF Repeated, Undisturbed
  <1>3. F - k >= 0 /\ (F - k > 0 => x[3] \in {"sets", "sorted_sets"})
    BY <1>1 DEF Drawn
  <1>4. CASE x[3] = "strings"
    <2>1. k = F
      BY <1>1, <1>4 DEF Drawn
    <2>2. F - k = 0 /\ n * 0 = 0 /\ n * 1 = n /\ n + n = n + n - 0
      BY <2>1
    <2> QED BY <1>1, <1>2, <1>3, <1>4, <2>2
  <1>5. CASE x[3] # "strings"
    <2>1. n + n * k = n + n * F - n * (F - k)
      BY <1>1, CountedAndRepeated
    <2> QED BY <1>1, <1>2, <1>3, <1>5, <2>1
  <1> QED BY <1>4, <1>5

\* memory_benchmark.py, run_benchmark: whatever was skipped, whatever batches
\* the keys went in and whatever was there before, the row of a type shows
\* the memory of its own keys and the elements that it is divided by, unless
\* keys expired or another row has its names.
THEOREM RowsAreMeasured == Spec => []RowsMeasureWhatTheyWrote
  <1>1. MemInv => RowsMeasureWhatTheyWrote
    BY GrowthIs, ElementsAre DEF RowsMeasureWhatTheyWrote
  <1> QED BY <1>1, MemoryInvariant, PTL

\* memory_benchmark.py, build_configs: the key count of a row is the one that
\* was asked for.
THEOREM CountsAreTheAsked == Spec => []CountsAreAsAsked
  <1>1. ASSUME MemInv, NEW x \in DOMAIN results, results[x].skipped = "",
               NEW u \in DOMAIN args.keys,
               u = CASE x[3] \in JsonTypes /\ SplitsJson(args) -> "json"
                     [] x[3] = "hyperloglog" /\ x[3] \notin DOMAIN args.keys -> "strings"
                     [] OTHER -> x[3]
        PROVE  results[x].num_keys = args.keys[u]
    <2>1. PICK s \in AllServers, j \in 1..Len(sequence), t \in Range(Types(args)) :
            x = <<s, j, t>> /\ results[x].num_keys = num_keys(t, args)
      BY <1>1 DEF MemInv, Recorded, Tells
    <2>2. x[3] = t
      BY <2>1
    <2>3. "hyperloglog" \notin JsonTypes
      BY DEF JsonTypes, JsonDepths
    <2>4. OwnKeys(u, args) = args.keys[u]
      BY <1>1 DEF OwnKeys
    <2>5. CASE t \in JsonTypes /\ SplitsJson(args)
      <3>1. u = "json" /\ t # "hyperloglog"
        BY <1>1, <2>2, <2>3, <2>5
      <3> QED BY <2>1, <2>4, <2>5, <3>1 DEF num_keys
    <2>6. CASE t = "hyperloglog" /\ t \notin DOMAIN args.keys
      <3>1. u = "strings"
        BY <1>1, <2>2, <2>3, <2>6
      <3> QED BY <2>1, <2>3, <2>4, <2>6, <3>1 DEF num_keys
    <2>7. CASE /\ ~(t \in JsonTypes /\ SplitsJson(args))
               /\ ~(t = "hyperloglog" /\ t \notin DOMAIN args.keys)
      <3>1. u = t
        BY <1>1, <2>2, <2>7
      <3> QED BY <2>1, <2>4, <2>7, <3>1 DEF num_keys
    <2> QED BY <2>5, <2>6, <2>7
  <1>2. MemInv => CountsAreAsAsked
    BY <1>1 DEF CountsAreAsAsked
  <1> QED BY <1>2, MemoryInvariant, PTL

\* memory_benchmark.py, the populate functions: a pipeline that is sent never
\* holds more commands that write than --pipeline-batch, though keys are
\* counted and a stream's take many commands, and at most one EXPIRE for a
\* key beside them, no more of those than --pipeline-batch either.
THEOREM FlushesFit == Spec => []FlushesStayWithinTheBatch
  <1>1. ASSUME MemInv, phase = "populate", KeysPerFlush(Type, Config) # 0
        PROVE  /\ Held * CommandsPerKey(Type, Config, args.ttl) <=
                    Config.pipeline_batch + Held * ExpiresPerKey(Type, args.ttl)
               /\ Held * ExpiresPerKey(Type, args.ttl) <= Config.pipeline_batch
    <2>1. /\ Type \in Range(Order) /\ Config = configs[Type]
          /\ configs[Type].num_fields \in Nat /\ configs[Type].pipeline_batch \in Nat \ {0}
      BY <1>1, Standing DEF MemInv, Config
    <2>2. PICK b \in Nat \ {0}, n \in Nat : b = Config.pipeline_batch /\ n = Config.num_fields
      BY <2>1
    <2>3. PICK full \in Nat \ {0} : full = KeysPerFlush(Type, Config)
      BY <1>1, <2>1, FlushType
    <2>4. PICK h \in Nat : h = Held /\ h <= full
      <3>1. queued \in Nat /\ (queued < full \/ made = 0) /\ (made = 0 => queued = 0)
        BY <1>1, <2>3, QueuedIsMade DEF MemInv, Pipeline
      <3>2. queued + 1 \in Nat /\ queued + 1 <= full /\ queued <= full
        BY <3>1
      <3> QED BY <3>1, <3>2 DEF Held
    <2>5. PICK w \in Nat : w = WritesPerKey(Type, Config)
      BY <2>2 DEF WritesPerKey
    <2>6. PICK e \in 0..1 : e = ExpiresPerKey(Type, args.ttl)
      BY DEF ExpiresPerKey
    <2>7. full <= b /\ h * w <= b
      <3>1. CASE Type = "streams"
        <4>1. PICK d \in Nat \ {0} : d = Largest(n, 1) /\ n <= d
          BY DEF Largest
        <4>2. full = b \div d /\ w = n
          BY <2>2, <2>3, <2>5, <3>1, <4>1 DEF KeysPerFlush, WritesPerKey
        <4>3. PICK r \in Nat : b = d * full + r
          <5>1. b % d \in 0..d-1 /\ b = d * (b \div d) + (b % d)
            BY ModBounds
          <5> QED BY <4>2, <5>1
        <4>4. h * n <= h * d
          BY <4>1
        <4>5. h * d <= full * d
          BY <2>4
        <4>6. full <= full * d /\ full * d = d * full /\ full * d \in Nat
          OBVIOUS
        <4>7. \A u, v, z \in Nat : u <= v /\ v + r = z => u <= z
          OBVIOUS
        <4>8. h * n \in Nat /\ h * d \in Nat
          OBVIOUS
        <4>9. h * n <= full * d
          BY <4>4, <4>5, <4>6, <4>8
        <4> QED BY <4>2, <4>3, <4>6, <4>7, <4>8, <4>9
      <3>2. CASE Type # "streams"
        <4>1. full = b /\ w = 1
          BY <2>2, <2>3, <2>5, <3>2 DEF KeysPerFlush, WritesPerKey
        <4> QED BY <2>4, <4>1
      <3> QED BY <3>1, <3>2
    <2>8. h * e <= h
      <3>1. h * 0 = 0 /\ h * 1 = h
        OBVIOUS
      <3>2. e = 0 \/ e = 1
        OBVIOUS
      <3> QED BY <3>1, <3>2
    <2>9. h * (w + e) = h * w + h * e /\ h * w \in Nat /\ h * e \in Nat
      OBVIOUS
    <2>10. h * (w + e) <= b + h * e /\ h * e <= b
      BY <2>4, <2>7, <2>8, <2>9
    <2>11. CommandsPerKey(Type, Config, args.ttl) = w + e
      BY <2>5, <2>6 DEF CommandsPerKey
    <2> QED BY <2>2, <2>4, <2>6, <2>10, <2>11
  <1>2. MemInv => FlushesStayWithinTheBatch
    BY <1>1 DEF FlushesStayWithinTheBatch
  <1> QED BY <1>2, MemoryInvariant, PTL

-----------------------------------------------------------------------------
(* Every row is there in the end *)

\* A run and an instance begin with the first type.
AtFirst ==
  /\ phase = "start" => step = 1
  /\ phase \in {"start", "connect"} => typ = 1

\* What lies behind the program: the steps before this one, the servers of this
\* step before this one, and this server's types before this one.
Behind(k, j, i) ==
  \/ phase \in {"pause", "report"}
  \/ /\ phase \in Active
     /\ \/ j < step
        \/ j = step /\ k < srv
        \/ j = step /\ k = srv /\ phase # "connect" /\ i < typ

HasRow(k, j, i) == <<servers[k], j, Types(args)[i]>> \in DOMAIN results

\* Of all that there is a row, be it one that says why there is none.
Complete ==
  \A k \in 1..Len(servers), j \in 1..Len(sequence), i \in 1..Len(Types(args)) :
    Behind(k, j, i) => HasRow(k, j, i)

RowInv == AtFirst /\ Complete

\* A step at one server.
LEMMA StepCompletes ==
  ASSUME MemInv, RowInv, phase \in Active, UNCHANGED <<args, step, srv>>,
         phase' \notin {"start", "connect", "pause", "report"},
         DOMAIN results \subseteq DOMAIN results',
         \A i \in 1..Len(Types(args)) :
           i < typ' => HasRow(srv, step, i) \/ <<Server, step, Types(args)[i]>> \in DOMAIN results'
  PROVE  RowInv'
  <1>1. servers' = servers /\ sequence' = sequence /\ Server = servers[srv]
    BY SameArgs DEF Server
  <1>2. ASSUME NEW k \in 1..Len(servers), NEW j \in 1..Len(sequence), NEW i \in 1..Len(Types(args)),
               Behind(k, j, i)'
        PROVE  HasRow(k, j, i)'
    <2>1. \/ j < step
          \/ j = step /\ k < srv
          \/ j = step /\ k = srv /\ i < typ'
      BY <1>2 DEF Behind
    <2>2. CASE j < step \/ (j = step /\ k < srv)
      <3>1. HasRow(k, j, i)
        BY <2>2 DEF RowInv, Complete, Behind
      <3> QED BY <1>1, <3>1 DEF HasRow
    <2>3. CASE j = step /\ k = srv /\ i < typ'
      BY <1>1, <2>3 DEF HasRow
    <2> QED BY <2>1, <2>2, <2>3
  <1> QED BY <1>1, <1>2 DEF RowInv, AtFirst, Complete

\* The step to the next instance, with all rows of this one.
LEMMA AdvanceCompletes ==
  ASSUME MemInv, RowInv, phase \in {"connect", "type"}, Advance, args' = args,
         DOMAIN results \subseteq DOMAIN results',
         \A i \in 1..Len(Types(args)) : <<Server, step, Types(args)[i]>> \in DOMAIN results'
  PROVE  RowInv'
  <1>1. servers' = servers /\ sequence' = sequence /\ Server = servers[srv]
    BY SameArgs DEF Server
  <1>2. /\ step \in 1..Len(sequence) /\ srv \in 1..Len(servers)
        /\ Len(servers) \in Nat /\ Len(sequence) \in Nat
    BY ServersAre, SequenceIs DEF MemInv, Places, Active
  <1>3. /\ typ' = 1 /\ phase' \in {"connect", "report", "pause"}
        /\ \/ srv # Len(servers) /\ phase' = "connect" /\ srv' = srv + 1 /\ step' = step
           \/ /\ srv = Len(servers) /\ step < Len(sequence) /\ phase' = "connect"
              /\ srv' = 1 /\ step' = step + 1
           \/ srv = Len(servers) /\ ~(step < Len(sequence))
    BY DEF Advance
  <1>4. ASSUME NEW k \in 1..Len(servers), NEW j \in 1..Len(sequence), NEW i \in 1..Len(Types(args)),
               Behind(k, j, i)'
        PROVE  HasRow(k, j, i)'
    <2>1. j < step \/ (j = step /\ k < srv) \/ (j = step /\ k = srv)
      BY <1>2, <1>3, <1>4 DEF Behind
    <2>2. CASE j < step \/ (j = step /\ k < srv)
      <3>1. HasRow(k, j, i)
        BY <2>2 DEF RowInv, Complete, Behind, Active
      <3> QED BY <1>1, <3>1 DEF HasRow
    <2>3. CASE j = step /\ k = srv
      BY <1>1, <2>3 DEF HasRow
    <2> QED BY <2>1, <2>2, <2>3
  <1> QED BY <1>1, <1>3, <1>4 DEF RowInv, AtFirst, Complete

LEMMA RowInit == Init => RowInv
  BY DEF Init, RowInv, AtFirst, Complete, Behind, Active

LEMMA RowStep == MemInv /\ RowInv /\ [Next]_vars => RowInv'
  <1> SUFFICES ASSUME MemInv, RowInv, [Next]_vars PROVE RowInv'
    OBVIOUS
  <1>0. types = Types(args) /\ Len(Types(args)) \in Nat /\ typ \in Nat /\ args \in Args
    BY Standing, TypesAre DEF MemInv, Places
  <1>1. CASE Start
    <2>1. /\ phase = "start" /\ phase' \in {"refused", "crashed", "pause", "connect"}
          /\ phase' = "pause" => servers = <<>>
          /\ UNCHANGED <<args, step, srv, typ>>
      BY <1>1 DEF Start
    <2>2. step = 1 /\ typ = 1 /\ srv = 1
      BY <2>1 DEF MemInv, Places, RowInv, AtFirst
    <2>3. servers' = servers /\ sequence' = sequence
      BY <2>1, SameArgs
    <2>4. phase' # "connect" => \A k \in 1..Len(servers) : phase' # "pause"
      <3>1. servers = <<>> => Len(servers) = 0
        OBVIOUS
      <3> QED BY <2>1, <3>1
    <2>5. ASSUME NEW k \in 1..Len(servers), NEW j \in 1..Len(sequence),
                 NEW i \in 1..Len(Types(args)), Behind(k, j, i)'
          PROVE  FALSE
      <3>1. k \in Nat /\ k >= 1 /\ j \in Nat /\ j >= 1
        BY ServersAre, SequenceIs, <1>0
      <3> QED BY <2>1, <2>2, <2>4, <2>5, <3>1 DEF Behind, Active
    <2> QED BY <2>1, <2>2, <2>3, <2>5 DEF RowInv, AtFirst, Complete
  <1>2. CASE Connect
    <2>1. phase = "connect" /\ phase' = "type" /\ UNCHANGED <<args, step, srv, typ, results>>
      BY <1>2 DEF Connect
    <2>2. typ' = 1
      BY <2>1 DEF RowInv, AtFirst
    <2>3. \A i \in 1..Len(Types(args)) : ~(i < typ')
      BY <1>0, <2>2
    <2> QED BY <2>1, <2>3, StepCompletes DEF Active
  <1>3. CASE ConnectFails
    <2>1. /\ phase = "connect" /\ Advance /\ args' = args
          /\ results' = With(results, [x \in {<<Server, step, t>> : t \in Range(types)} |->
                                         Skipped("connection failed")])
      BY <1>3 DEF ConnectFails
    <2>2. DOMAIN results' = DOMAIN results \cup {<<Server, step, t>> : t \in Range(types)}
      BY <2>1 DEF With
    <2>3. \A i \in 1..Len(Types(args)) : Types(args)[i] \in Range(types)
      BY <1>0, TypesAre
    <2> QED BY <2>1, <2>2, <2>3, AdvanceCompletes
  <1>4. CASE EndInstance
    <2>1. phase = "type" /\ typ > Len(types) /\ Advance /\ args' = args /\ results' = results
      BY <1>4 DEF EndInstance
    <2>2. ASSUME NEW i \in 1..Len(Types(args))
          PROVE  <<Server, step, Types(args)[i]>> \in DOMAIN results'
      <3>1. step \in 1..Len(sequence) /\ srv \in 1..Len(servers) /\ i < typ
        BY <1>0, <2>1 DEF MemInv, Places, Active
      <3>2. HasRow(srv, step, i)
        BY <2>1, <3>1 DEF RowInv, Complete, Behind, Active
      <3> QED BY <2>1, <3>2 DEF HasRow, Server
    <2> QED BY <2>1, <2>2, AdvanceCompletes
  <1>5. ASSUME phase \in {"type", "populate", "settle"}, phase' \in {"type", "populate", "settle"},
               UNCHANGED <<args, step, srv>>,
               \/ typ' = typ /\ results' = results
               \/ /\ typ' = typ + 1
                  /\ DOMAIN results' = DOMAIN results \cup {<<Server, step, Type>>}
        PROVE  RowInv'
    <2>1. step \in 1..Len(sequence) /\ srv \in 1..Len(servers)
      BY <1>5 DEF MemInv, Places, Active
    <2>2. \A i \in 1..Len(Types(args)) : i < typ => HasRow(srv, step, i)
      BY <1>5, <2>1 DEF RowInv, Complete, Behind, Active
    <2>3. Type = Types(args)[typ]
      BY <1>0 DEF Type
    <2>4. ASSUME NEW i \in 1..Len(Types(args)), i < typ'
          PROVE  HasRow(srv, step, i) \/ <<Server, step, Types(args)[i]>> \in DOMAIN results'
      <3>1. i < typ \/ (i = typ /\ typ' = typ + 1)
        BY <1>0, <1>5, <2>4
      <3> QED BY <1>5, <2>2, <2>3, <3>1
    <2> QED BY <1>5, <2>4, StepCompletes DEF Active
  <1>6. CASE StartType
    BY <1>5, <1>6 DEF StartType
  <1>7. CASE SkipType
    <2>1. DOMAIN results' = DOMAIN results \cup {<<Server, step, Type>>}
      BY <1>7 DEF SkipType, With
    <2> QED BY <1>5, <1>7, <2>1 DEF SkipType
  <1>8. CASE DebugPopulate
    BY <1>5, <1>8 DEF DebugPopulate
  <1>9. CASE AddKey
    BY <1>5, <1>9 DEF AddKey
  <1>10. CASE EndPopulate
    BY <1>5, <1>10 DEF EndPopulate
  <1>11. CASE Measure
    <2>1. DOMAIN results' = DOMAIN results \cup {<<Server, step, Type>>}
      BY <1>11 DEF Measure, With
    <2> QED BY <1>5, <1>11, <2>1 DEF Measure
  <1>12. ASSUME NEW p, Expire(p) PROVE RowInv'
    BY <1>5, <1>12 DEF Expire
  <1>13. CASE Raise
    <2>1. phase' = "crashed" /\ args' = args
      BY <1>13 DEF Raise
    <2> QED BY <2>1, SameArgs DEF RowInv, AtFirst, Complete, Behind, Active
  <1>14. CASE PressEnter
    <2>1. phase = "pause" /\ phase' = "report" /\ args' = args /\ results' = results
      BY <1>14 DEF PressEnter
    <2>2. servers' = servers /\ sequence' = sequence
      BY <2>1, SameArgs
    <2> QED BY <2>1, <2>2 DEF RowInv, AtFirst, Complete, Behind, HasRow
  <1>15. CASE UNCHANGED vars
    <2>1. servers' = servers /\ sequence' = sequence
      BY <1>15, SameArgs DEF vars
    <2> QED BY <1>15, <2>1 DEF vars, RowInv, AtFirst, Complete, Behind, HasRow
  <1> QED BY <1>1, <1>2, <1>3, <1>4, <1>6, <1>7, <1>8, <1>9, <1>10, <1>11, <1>12, <1>13, <1>14,
             <1>15 DEF Next

LEMMA RowsInvariant == Spec => [](MemInv /\ RowInv)
  BY MemInit, MemStep, RowInit, RowStep, PTL DEF Spec

\* At the report each server has a row for each type at each step.
LEMMA RowsAreThere ==
  ASSUME MemInv, RowInv, phase = "report",
         NEW s \in Range(servers), NEW j \in DOMAIN sequence, NEW t \in Range(types)
  PROVE  <<s, j, t>> \in DOMAIN results
  <1>1. j \in 1..Len(sequence)
    BY SequenceIs DEF MemInv, Places
  <1>2. PICK k \in 1..Len(servers) : s = servers[k]
    BY ServersAre DEF Range
  <1>3. PICK i \in 1..Len(Types(args)) : t = Types(args)[i]
    BY Standing, TypesAre DEF MemInv, Places
  <1>4. HasRow(k, j, i)
    BY <1>1 DEF RowInv, Complete, Behind
  <1> QED BY <1>2, <1>3, <1>4 DEF HasRow

\* The steps of a run.
LEMMA StepsAre ==
  ASSUME args \in Args
  PROVE  DOMAIN sequence = 1..Len(sequence)
  BY SequenceIs

\* A row of a container in a sweep: K keys of one unit, each with as many
\* elements as it has different members.
LEMMA ContainerRow ==
  ASSUME MemInv, RowInv, phase = "report", Sweeps, NEW s \in Range(servers),
         NEW t \in Range(types) \cap Containers, NEW j \in DOMAIN sequence,
         ~Result(s, j, t).disturbed, Result(s, j, t).skipped = ""
  PROVE  /\ Result(s, j, t).members \in Nat
         /\ Result(s, j, t).mem =
              configs[t].num_keys + configs[t].num_keys * Result(s, j, t).members
         /\ Repeated(<<s, j, t>>) = 0 => Result(s, j, t).members = sequence[j]
  <1> DEFINE x == <<s, j, t>>
             c == ConfigsAt(j)[t]
  <1>1. x \in DOMAIN results /\ Result(s, j, t) = results[x]
    BY RowsAreThere DEF Result
  <1>2. args \in Args /\ types = Types(args) /\ Range(types) \subseteq Range(Order) /\ t \in Range(Order)
    BY Standing, TypesAre DEF MemInv, Places
  <1>3. HasOwnNames(t)
    <2>1. \A u : key_prefix(u, configs[u]) \in {<<u>>, <<"json", configs[u].json_depth>>}
      BY DEF key_prefix
    <2>2. key_prefix(t, configs[t]) = <<t>>
      BY DEF key_prefix, Containers, JsonTypes, JsonDepths
    <2>3. \A a, b : <<t>> # <<a, b>>
      OBVIOUS
    <2>4. \A u : u # t => <<u>> # <<t>>
      OBVIOUS
    <2> QED BY <2>1, <2>2, <2>3, <2>4 DEF HasOwnNames
  <1>4. Undisturbed(x) /\ x[2] = j /\ x[3] = t
    BY <1>1, <1>3 DEF Undisturbed
  <1>5. x[3] \in Containers \cup {"strings"}
    BY <1>4
  <1>6. PICK n, k, e, F \in Nat :
           /\ results[x].members = k
           /\ F = c.num_fields
           /\ n = num_keys(t, args)
           /\ e = (IF t = "strings" THEN 1 ELSE k)
           /\ results[x].mem = n + n * e
    <2> HIDE DEF x, c
    <2>1. PICK n, k, e, F \in Nat :
            /\ results[x].num_keys = n /\ results[x].members = k /\ k <= F
            /\ F = ConfigsAt(x[2])[x[3]].num_fields
            /\ n = num_keys(x[3], args)
            /\ e = (IF x[3] = "strings" THEN 1 ELSE k)
            /\ results[x].total_elements = (IF x[3] = "strings" THEN n ELSE n * F)
            /\ results[x].mem = n + n * e
            /\ k # F => x[3] \in Drawn
      BY <1>1, <1>4, <1>5, RowIs
    <2> QED BY <1>4, <2>1 DEF c
  <1>7. t # "strings"
    BY DEF Containers
  <1>8. j \in 1..Len(sequence)
    BY <1>2, StepsAre
  <1>9. c.num_fields = sequence[j]
    <2>1. PICK k1 \in Nat : c = ConfigOf(t, args, k1) /\ (Sweeps /\ t \in Containers => k1 = sequence[j])
      BY <1>2, <1>8, ConfigsAre
    <2>2. k1 = sequence[j]
      BY <2>1
    <2> HIDE DEF c
    <2> QED BY <2>1, <2>2 DEF ConfigOf
  <1>10. configs[t].num_keys = num_keys(t, args)
    BY <1>2, Standing DEF MemInv
  <1>11. Repeated(x) = F - k
    BY <1>1, <1>4, <1>6 DEF Repeated
  <1>12. F - k = 0 => k = F
    BY <1>6, NoneLeft
  <1> HIDE DEF x, c
  <1>13. Repeated(x) = 0 => k = sequence[j]
    BY <1>6, <1>9, <1>11, <1>12
  <1> QED BY <1>1, <1>6, <1>7, <1>10, <1>13 DEF x

\* What one member more or less in each of K keys amounts to.
LEMMA MembersBetween ==
  ASSUME NEW K \in Nat, NEW a \in Nat, NEW b \in Nat
  PROVE  (K + K * a) - (K + K * b) = K * (a - b)
  <1>1. PICK d \in Int : a = b + d /\ a - b = d
    <2>1. a - b \in Int /\ a = b + (a - b)
      OBVIOUS
    <2> QED BY <2>1
  <1>2. K * (b + d) = K * b + K * d /\ K * b \in Int /\ K * d \in Int
    OBVIOUS
  <1>3. \A p, q \in Int : (K + (p + q)) - (K + p) = q
    OBVIOUS
  <1> QED BY <1>1, <1>2, <1>3

\* memory_benchmark.py, print_sweep_report: a row is set against the one just above
\* it, and what lies between them is what the keys' different members take; where
\* none of the members drawn were drawn before, a container takes more from row to
\* row and never less than in the smallest row shown so far, whatever rows are
\* missing in between.
THEOREM SweepGrows == Spec => []SweepShowsGrowth
  <1>1. ASSUME MemInv, RowInv, phase = "report", Sweeps, NEW s \in Range(servers),
               NEW t \in Range(types) \cap Containers,
               \A i \in DOMAIN sequence : ~Result(s, i, t).disturbed,
               NEW j \in DOMAIN sequence
        PROVE  /\ vs_prev(s, t, j) # None =>
                    /\ j > 1
                    /\ vs_prev(s, t, j)[1] - vs_prev(s, t, j)[2] =
                         configs[t].num_keys * (Result(s, j, t).members - Result(s, j - 1, t).members)
               /\ (\A i \in DOMAIN sequence : Repeated(<<s, i, t>>) = 0) =>
                    /\ vs_prev(s, t, j) # None => vs_prev(s, t, j)[1] > vs_prev(s, t, j)[2]
                    /\ vs_min(s, t, j) # None =>
                         /\ vs_min(s, t, j)[1] >= vs_min(s, t, j)[2]
                         /\ vs_min(s, t, j)[1] = vs_min(s, t, j)[2] => vs_prev(s, t, j) = None
    <2> DEFINE M(i) == Result(s, i, t).mem
               N(i) == Result(s, i, t).members
               AllNew == \A i \in DOMAIN sequence : Repeated(<<s, i, t>>) = 0
    <2>1. args \in Args /\ t \in Range(Order)
      BY <1>1, Standing, TypesAre DEF MemInv, Places
    <2>2. /\ DOMAIN sequence = 1..Len(sequence) /\ Len(sequence) \in Nat
          /\ \A i \in 1..Len(sequence) : sequence[i] \in Nat
          /\ \A i, k \in 1..Len(sequence) : i < k => sequence[i] < sequence[k]
      BY <2>1, SequenceIs, SequenceRises
    <2>3. PICK K \in Nat : K = configs[t].num_keys
      BY <1>1, <2>1, Standing DEF MemInv
    <2>4. ASSUME NEW i \in 1..Len(sequence), Shown(s, i, t)
          PROVE  /\ M(i) = K + K * N(i) /\ M(i) > 0 /\ N(i) \in Nat
                 /\ AllNew => N(i) = sequence[i]
      <3>1. i \in DOMAIN sequence /\ ~Result(s, i, t).disturbed
        BY <1>1, <2>2
      <3>2. Result(s, i, t).skipped = "" /\ M(i) > 0
        BY <2>4 DEF Shown
      <3>3. /\ N(i) \in Nat /\ M(i) = K + K * N(i)
            /\ Repeated(<<s, i, t>>) = 0 => N(i) = sequence[i]
        BY <1>1, <2>3, <3>1, <3>2, ContainerRow
      <3> QED BY <3>1, <3>2, <3>3
    <2> HIDE DEF AllNew
    <2>5. ASSUME AllNew, NEW i \in 1..Len(sequence), NEW k \in 1..Len(sequence), i < k,
                 Shown(s, i, t), Shown(s, k, t)
          PROVE  M(k) > M(i) /\ M(k) \in Nat /\ M(i) \in Nat
      <3>1. M(i) = K + K * sequence[i] /\ M(k) = K + K * sequence[k] /\ M(i) > 0
        BY <2>4, <2>5
      <3>2. PICK a \in Nat, e \in Nat \ {0} : a = sequence[i] /\ sequence[k] = a + e
        <4>1. sequence[i] \in Nat /\ sequence[k] \in Nat /\ sequence[i] < sequence[k]
          BY <2>2, <2>5
        <4>2. sequence[k] - sequence[i] \in Nat \ {0}
              /\ sequence[k] = sequence[i] + (sequence[k] - sequence[i])
          BY <4>1
        <4> QED BY <4>1, <4>2
      <3>3. PICK p \in Nat, q \in Nat : p = K * a /\ q = K * e /\ K * (a + e) = p + q
        <4>1. K * a \in Nat /\ K * e \in Nat /\ K * (a + e) = K * a + K * e
          OBVIOUS
        <4> QED BY <4>1
      <3>4. K # 0
        <4>1. 0 + 0 * a = 0
          OBVIOUS
        <4> QED BY <3>1, <3>2, <4>1
      <3>5. q > 0
        <4>1. PICK f \in Nat : e = f + 1
          <5>1. e - 1 \in Nat /\ e = (e - 1) + 1
            OBVIOUS
          <5> QED BY <5>1
        <4>2. K * (f + 1) = K * f + K /\ K * f \in Nat
          OBVIOUS
        <4> QED BY <3>3, <3>4, <4>1, <4>2
      <3>6. M(i) = K + p /\ M(k) = K + (p + q)
        BY <3>1, <3>2, <3>3
      <3> HIDE DEF M
      <3> QED BY <3>5, <3>6
    <2>6. j \in 1..Len(sequence) /\ j \in Nat
      BY <1>1, <2>2
    <2>7. ASSUME vs_prev(s, t, j) # None
          PROVE  /\ j > 1 /\ j - 1 \in 1..Len(sequence) /\ Shown(s, j, t) /\ Shown(s, j - 1, t)
                 /\ vs_prev(s, t, j) = <<M(j), M(j - 1)>>
      <3>1. /\ Shown(s, j, t) /\ prev_mem_shown(s, t, j) # 0
            /\ vs_prev(s, t, j) = <<M(j), prev_mem_shown(s, t, j)>>
        BY <2>7 DEF vs_prev
      <3>2. j > 1 /\ Shown(s, j - 1, t) /\ prev_mem_shown(s, t, j) = M(j - 1)
        BY <3>1 DEF prev_mem_shown
      <3> QED BY <2>2, <2>6, <3>1, <3>2
    <2>8. ASSUME vs_prev(s, t, j) # None
          PROVE  /\ j > 1
                 /\ vs_prev(s, t, j)[1] - vs_prev(s, t, j)[2] = K * (N(j) - N(j - 1))
                 /\ AllNew => vs_prev(s, t, j)[1] > vs_prev(s, t, j)[2]
      <3>1. j - 1 < j
        BY <2>6
      <3>2. M(j) - M(j - 1) = K * (N(j) - N(j - 1)) /\ (AllNew => M(j) > M(j - 1))
        <4>1. /\ M(j) = K + K * N(j) /\ N(j) \in Nat
              /\ M(j - 1) = K + K * N(j - 1) /\ N(j - 1) \in Nat
          BY <2>4, <2>6, <2>7, <2>8
        <4>2. AllNew => M(j) > M(j - 1)
          BY <2>5, <2>6, <2>7, <2>8, <3>1
        <4> HIDE DEF M, N
        <4> QED BY <4>1, <4>2, MembersBetween
      <3> HIDE DEF M
      <3>3. vs_prev(s, t, j)[1] = M(j) /\ vs_prev(s, t, j)[2] = M(j - 1)
        BY <2>7, <2>8
      <3> QED BY <2>7, <2>8, <3>2, <3>3
    <2>9. ASSUME AllNew, vs_min(s, t, j) # None
          PROVE  /\ vs_min(s, t, j)[1] >= vs_min(s, t, j)[2]
                 /\ vs_min(s, t, j)[1] = vs_min(s, t, j)[2] => vs_prev(s, t, j) = None
      <3> DEFINE S == ShownBefore(s, t, j) \cup {j}
                 least == Min(S)
      <3>1. Shown(s, j, t) /\ vs_min(s, t, j) = <<M(j), M(least)>>
        BY <2>9 DEF vs_min, min_mem
      <3>2. S \subseteq 1..j /\ j \in S /\ \A i \in S : Shown(s, i, t)
        BY <2>6, <3>1 DEF ShownBefore
      <3>3. least \in S /\ \A i \in S : least <= i
        <4>1. S \subseteq Nat /\ S # {}
          BY <2>6, <3>2
        <4> HIDE DEF S
        <4>2. \E i \in S : \A k \in S : i <= k
          BY <4>1, LeastNat
        <4> QED BY <4>2 DEF Min
      <3> HIDE DEF least
      <3>4. least \in 1..Len(sequence) /\ Shown(s, least, t) /\ least <= j
        BY <2>6, <3>2, <3>3
      <3> HIDE DEF S
      <3>5. CASE least = j
        <4>1. vs_prev(s, t, j) = None
          <5>1. SUFFICES ASSUME vs_prev(s, t, j) # None PROVE FALSE
            OBVIOUS
          <5>2. j - 1 \in S
            BY <2>6, <2>7, <5>1 DEF S, ShownBefore
          <5> QED BY <2>6, <3>3, <3>5, <5>2
        <4>2. M(j) \in Nat
          <5>1. M(j) = K + K * N(j) /\ N(j) \in Nat
            BY <2>4, <2>6, <3>1
          <5>2. \A b \in Nat : K + K * b \in Nat
            OBVIOUS
          <5> QED BY <5>1, <5>2
        <4> HIDE DEF M
        <4> QED BY <3>1, <3>5, <4>1, <4>2
      <3>6. CASE least # j
        <4>1. least < j
          BY <2>6, <3>4, <3>6
        <4>2. M(j) > M(least) /\ M(j) \in Nat /\ M(least) \in Nat
          BY <2>5, <2>6, <2>9, <3>1, <3>4, <4>1
        <4> HIDE DEF M
        <4> QED BY <3>1, <4>2
      <3> QED BY <3>5, <3>6
    <2> QED BY <2>3, <2>8, <2>9 DEF AllNew
  <1>2. MemInv /\ RowInv => SweepShowsGrowth
    BY <1>1 DEF SweepShowsGrowth
  <1> QED BY <1>2, RowsInvariant, PTL

-----------------------------------------------------------------------------
(* Every row is the same on servers that can take it *)

\* What the server holds once the first m lists of keys are in it: each key as
\* the last of them has it.
Filled(K, m) ==
  [x \in UNION {DOMAIN K[h] : h \in 1..m} |-> K[Max({h \in 1..m : x \in DOMAIN K[h]})][x]]

\* The keys of all types at a step.
KeysAt(j) ==
  [h \in 1..Len(Types(args)) |->
     KeysBetween(Types(args)[h], ConfigsAt(j)[Types(args)[h]], 0,
                 ConfigsAt(j)[Types(args)[h]].num_keys - 1)]

\* The memory once the first i types are there, and the row a type has.
Level(j, i) == BaseMemory + Footprint(Filled(KeysAt(j), i))

Row(k, j, i) == results[<<servers[k], j, Types(args)[i]>>]

\* All members of a type's keys were different.
AllDifferent(r, j, i) ==
  r.skipped = "" => r.members = ConfigsAt(j)[Types(args)[i]].num_fields

\* Nothing expired while the first i types were filled, and none of their
\* members were drawn twice.
Quiet(k, j, i) ==
  \A h \in 1..i : ~Row(k, j, h).disturbed /\ AllDifferent(Row(k, j, h), j, h)

\* A server without the module holds no documents: a type of them is only got
\* through when it has none.
NoneSent ==
  /\ phase = "populate" /\ ~Understood => queued = made
  /\ phase = "settle" /\ ~Understood => Config.num_keys = 0

\* A type without keys leaves the memory as it is.
NoKeys ==
  (phase \in {"populate", "settle"} /\ ~disturbed /\ Config.num_keys = 0) =>
    prev_mem = BaseMemory + Footprint(stored[Server])

EmptyRows ==
  \A x \in DOMAIN results : results[x].skipped = "" =>
    /\ x[1] \in NoJson /\ x[3] \in JsonTypes => results[x].num_keys = 0
    /\ ~results[x].disturbed /\ results[x].num_keys = 0 => results[x].mem = 0

\* On a server with the module the types so far are there, and the keys sent
\* of this one.
AllThere ==
  (phase \in {"type", "populate", "settle"} /\ Server \notin NoJson /\ ~disturbed
     /\ Quiet(srv, step, typ - 1)) =>
    /\ prev_mem = Level(step, typ - 1)
    /\ stored[Server] =
         IF phase = "type" THEN Filled(KeysAt(step), typ - 1)
         ELSE With(Filled(KeysAt(step), typ - 1), KeysBetween(Type, Written, 0, SentSoFar - 1))

\* And each row is the rise from the types before it.
Rises(k, j, i) ==
  (servers[k] \notin NoJson /\ Row(k, j, i).skipped = "" /\ Quiet(k, j, i)) =>
    Row(k, j, i).mem = Level(j, i) - Level(j, i - 1)

RowsRise ==
  \A k \in 1..Len(servers), j \in 1..Len(sequence), i \in 1..Len(Types(args)) :
    Behind(k, j, i) => Rises(k, j, i)

EvenInv == NoneSent /\ NoKeys /\ EmptyRows /\ AllThere /\ RowsRise

-----------------------------------------------------------------------------

\* Nothing is added by no keys.
LEMMA WithNothing ==
  ASSUME NEW f, f = [x \in DOMAIN f |-> f[x]], NEW g, DOMAIN g = {}
  PROVE  With(f, g) = f
  BY DEF With

\* Keys added in two parts.
LEMMA WithBoth ==
  ASSUME NEW f, NEW a, NEW b
  PROVE  With(With(f, a), b) = With(f, With(a, b))
  <1> DEFINE D == DOMAIN f \cup DOMAIN a \cup DOMAIN b
             value(x) == IF x \in DOMAIN b THEN b[x] ELSE IF x \in DOMAIN a THEN a[x] ELSE f[x]
  <1>1. With(With(f, a), b) = [x \in D |-> value(x)]
    <2>1. /\ DOMAIN With(f, a) = DOMAIN f \cup DOMAIN a
          /\ \A x \in DOMAIN f \cup DOMAIN a :
               With(f, a)[x] = IF x \in DOMAIN a THEN a[x] ELSE f[x]
      BY DEF With
    <2> DEFINE c == With(f, a)
    <2> HIDE DEF c
    <2>2. With(c, b) = [x \in DOMAIN c \cup DOMAIN b |-> IF x \in DOMAIN b THEN b[x] ELSE c[x]]
      BY DEF With
    <2>3. DOMAIN c \cup DOMAIN b = D /\ \A x \in D : (IF x \in DOMAIN b THEN b[x] ELSE c[x]) = value(x)
      BY <2>1 DEF c
    <2>4. With(c, b) = [x \in D |-> value(x)]
      <3> HIDE DEF D, value
      <3> QED BY <2>2, <2>3
    <2> QED BY <2>4 DEF c
  <1>2. With(f, With(a, b)) = [x \in D |-> value(x)]
    <2>1. /\ DOMAIN With(a, b) = DOMAIN a \cup DOMAIN b
          /\ \A x \in DOMAIN a \cup DOMAIN b :
               With(a, b)[x] = IF x \in DOMAIN b THEN b[x] ELSE a[x]
      BY DEF With
    <2> DEFINE c == With(a, b)
    <2> HIDE DEF c
    <2>2. With(f, c) = [x \in DOMAIN f \cup DOMAIN c |-> IF x \in DOMAIN c THEN c[x] ELSE f[x]]
      BY DEF With
    <2>3. DOMAIN f \cup DOMAIN c = D /\ \A x \in D : (IF x \in DOMAIN c THEN c[x] ELSE f[x]) = value(x)
      BY <2>1 DEF c
    <2>4. With(f, c) = [x \in D |-> value(x)]
      <3> HIDE DEF D, value
      <3> QED BY <2>2, <2>3
    <2> QED BY <2>4 DEF c
  <1> QED BY <1>1, <1>2

\* The first m lists and the next.
LEMMA FilledStep ==
  ASSUME NEW K, NEW m \in Nat
  PROVE  With(Filled(K, m), K[m+1]) = Filled(K, m+1)
  <1> DEFINE has(l, x) == {h \in 1..l : x \in DOMAIN K[h]}
             D(l) == UNION {DOMAIN K[h] : h \in 1..l}
  <1>1. D(m+1) = D(m) \cup DOMAIN K[m+1]
    <2>1. (1..m+1) = (1..m) \cup {m+1}
      OBVIOUS
    <2> QED BY <2>1
  <1>2. ASSUME NEW x, x \in DOMAIN K[m+1] PROVE Max(has(m+1, x)) = m + 1
    <2>1. m + 1 \in has(m+1, x) /\ has(m+1, x) \subseteq 1..m+1
      BY <1>2
    <2>2. m + 1 \in Nat
      OBVIOUS
    <2> HIDE DEF has
    <2>3. has(m+1, x) # {}
      BY <2>1
    <2>4. Max(has(m+1, x)) \in has(m+1, x) /\ m + 1 <= Max(has(m+1, x))
      BY <2>1, <2>2, <2>3, MaxPosition
    <2> QED BY <2>1, <2>4
  <1>3. ASSUME NEW x, x \notin DOMAIN K[m+1] PROVE has(m+1, x) = has(m, x)
    <2>1. \A h \in 1..m+1 : h \in 1..m \/ h = m + 1
      OBVIOUS
    <2>2. \A h \in 1..m : h \in 1..m+1
      OBVIOUS
    <2> QED BY <1>3, <2>1, <2>2
  <1>4. /\ Filled(K, m) = [x \in D(m) |-> K[Max(has(m, x))][x]]
        /\ Filled(K, m+1) = [x \in D(m+1) |-> K[Max(has(m+1, x))][x]]
    BY DEF Filled
  <1> HIDE DEF has, D
  <1>5. With(Filled(K, m), K[m+1]) =
          [x \in D(m) \cup DOMAIN K[m+1] |->
             IF x \in DOMAIN K[m+1] THEN K[m+1][x] ELSE Filled(K, m)[x]]
    BY <1>4 DEF With
  <1>6. \A x \in D(m) \cup DOMAIN K[m+1] :
          (IF x \in DOMAIN K[m+1] THEN K[m+1][x] ELSE Filled(K, m)[x]) = K[Max(has(m+1, x))][x]
    BY <1>2, <1>3, <1>4
  <1> QED BY <1>1, <1>4, <1>5, <1>6

\* Before the first type nothing is there.
LEMMA FilledNone == ASSUME NEW K PROVE Filled(K, 0) = Nothing
  <1>1. UNION {DOMAIN K[h] : h \in 1..0} = {}
    OBVIOUS
  <1> QED BY <1>1 DEF Filled, Nothing

\* No server is run twice.
LEMMA ServersDiffer ==
  ASSUME NEW k \in 1..Len(servers), NEW l \in 1..Len(servers), servers[k] = servers[l]
  PROVE  k = l
  <1>1. \A T : \A x \in T, y \in T :
          /\ Len(<<x>> \o <<y>>) = 2 /\ (<<x>> \o <<y>>)[1] = x /\ (<<x>> \o <<y>>)[2] = y
          /\ Len(<<x>> \o <<>>) = 1 /\ Len(<<>> \o <<y>>) = 1 /\ Len(<<>> \o <<>>) = 0
    OBVIOUS
  <1>2. PICK T : T = {"Dragonfly", "Redis"}
    OBVIOUS
  <1>3. \/ Len(servers) = 2 /\ servers[1] = "Dragonfly" /\ servers[2] = "Redis"
        \/ Len(servers) \in {0, 1}
    <2>1. /\ servers \in {<<"Dragonfly">> \o <<"Redis">>, <<"Dragonfly">> \o <<>>,
                          <<>> \o <<"Redis">>, <<>> \o <<>>}
      BY DEF servers
    <2> HIDE DEF servers
    <2> QED BY <1>1, <1>2, <2>1
  <1> HIDE DEF servers
  <1>4. CASE Len(servers) = 2 /\ servers[1] = "Dragonfly" /\ servers[2] = "Redis"
    <2>1. k \in {1, 2} /\ l \in {1, 2}
      BY <1>4
    <2> QED BY <1>4, <2>1
  <1>5. CASE Len(servers) \in {0, 1}
    BY <1>5
  <1> QED BY <1>3, <1>4, <1>5

\* The keys of a step are fixed.
LEMMA KeysStay ==
  ASSUME args' = args, NEW j \in 1..Len(sequence)
  PROVE  KeysAt(j)' = KeysAt(j) /\ \A i : Level(j, i)' = Level(j, i)
  <1>1. ConfigsAt(j)' = ConfigsAt(j)
    BY SameArgs
  <1>2. KeysAt(j)' = KeysAt(j)
    BY <1>1 DEF KeysAt
  <1> QED BY <1>2 DEF Level

\* What counts as different stays.
LEMMA DifferentStay ==
  ASSUME args' = args, NEW j \in 1..Len(sequence)
  PROVE  \A r, i : AllDifferent(r, j, i)' <=> AllDifferent(r, j, i)
  BY SameArgs DEF AllDifferent

\* Rows that stay are as quiet.
LEMMA QuietStays ==
  ASSUME args' = args, NEW k, NEW j \in 1..Len(sequence), NEW i,
         \A h \in 1..i : Row(k, j, h)' = Row(k, j, h)
  PROVE  Quiet(k, j, i)' <=> Quiet(k, j, i)
  <1>1. ConfigsAt(j)' = ConfigsAt(j)
    BY SameArgs
  <1> QED BY <1>1 DEF Quiet, AllDifferent

\* A row that is left alone, as are those of the types before.
LEMMA RisesStay ==
  ASSUME args' = args, NEW k \in 1..Len(servers), NEW j \in 1..Len(sequence),
         NEW i \in 1..Len(Types(args)), Len(Types(args)) \in Nat, Rises(k, j, i),
         \A h \in 1..i : Row(k, j, h)' = Row(k, j, h)
  PROVE  Rises(k, j, i)'
  <1>1. servers'[k] = servers[k] /\ i \in 1..i
    BY SameArgs
  <1>2. Level(j, i)' = Level(j, i) /\ Level(j, i - 1)' = Level(j, i - 1)
    BY KeysStay
  <1>3. Row(k, j, i)' = Row(k, j, i) /\ (Quiet(k, j, i)' => Quiet(k, j, i))
    BY <1>1, QuietStays
  <1> QED BY <1>1, <1>2, <1>3 DEF Rises

\* No row is added, nothing more is behind the program.
LEMMA NoNewRows ==
  ASSUME MemInv, EvenInv, UNCHANGED <<args, results>>,
         \A k \in 1..Len(servers), j \in 1..Len(sequence), i \in 1..Len(Types(args)) :
           Behind(k, j, i)' => Behind(k, j, i)
  PROVE  EmptyRows' /\ RowsRise' /\ \A k, j, i : Row(k, j, i)' = Row(k, j, i)
  <1>1. servers' = servers /\ sequence' = sequence /\ Len(Types(args)) \in Nat
    BY SameArgs, TypesAre DEF MemInv, Places
  <1>2. \A k, j, i : Row(k, j, i)' = Row(k, j, i)
    BY <1>1 DEF Row
  <1>3. ASSUME NEW k \in 1..Len(servers), NEW j \in 1..Len(sequence),
               NEW i \in 1..Len(Types(args)), Behind(k, j, i)'
        PROVE  Rises(k, j, i)'
    <2>1. Rises(k, j, i)
      BY <1>3 DEF EvenInv, RowsRise
    <2> QED BY <1>1, <1>2, <2>1, RisesStay
  <1>4. RowsRise'
    BY <1>1, <1>3 DEF RowsRise
  <1> QED BY <1>2, <1>4 DEF EvenInv, EmptyRows

\* A row behind the program that is not added again.
LEMMA OldRow ==
  ASSUME RowInv, args' = args, NEW g, results' = With(results, g),
         NEW k \in 1..Len(servers), NEW j \in 1..Len(sequence), NEW i \in 1..Len(Types(args)),
         Behind(k, j, i), <<servers[k], j, Types(args)[i]>> \notin DOMAIN g
  PROVE  Row(k, j, i)' = Row(k, j, i)
  <1>1. servers' = servers
    BY SameArgs
  <1>2. <<servers[k], j, Types(args)[i]>> \in DOMAIN results
    BY DEF RowInv, Complete, HasRow
  <1>3. results'[<<servers[k], j, Types(args)[i]>>] = results[<<servers[k], j, Types(args)[i]>>]
    BY <1>2 DEF With
  <1> QED BY <1>1, <1>3 DEF Row

\* Rows are added; those that are behind the program now and were not rise as they should.
LEMMA NewRows ==
  ASSUME MemInv, RowInv, EvenInv, args' = args, NEW g, results' = With(results, g),
         \A k \in 1..Len(servers), j \in 1..Len(sequence), i \in 1..Len(Types(args)) :
           Behind(k, j, i)' =>
             \/ Rises(k, j, i)'
             \/ Behind(k, j, i) /\ \A h \in 1..i : <<servers[k], j, Types(args)[h]>> \notin DOMAIN g
  PROVE  RowsRise'
  <1>1. servers' = servers /\ sequence' = sequence /\ Len(Types(args)) \in Nat
    BY SameArgs, TypesAre DEF MemInv, Places
  <1>2. SUFFICES ASSUME NEW k \in 1..Len(servers), NEW j \in 1..Len(sequence),
                        NEW i \in 1..Len(Types(args)), Behind(k, j, i),
                        \A h \in 1..i : <<servers[k], j, Types(args)[h]>> \notin DOMAIN g
                 PROVE  Rises(k, j, i)'
    BY <1>1 DEF RowsRise
  <1>3. ASSUME NEW h \in 1..i PROVE Row(k, j, h)' = Row(k, j, h)
    <2>1. h \in 1..Len(Types(args)) /\ h <= i
      BY <1>1
    <2>2. typ \in Nat
      BY DEF MemInv, Places
    <2>3. Behind(k, j, h)
      BY <1>2, <2>1, <2>2 DEF Behind
    <2> QED BY <1>2, <2>1, <2>3, OldRow
  <1>4. Rises(k, j, i)
    BY <1>2 DEF EvenInv, RowsRise
  <1> QED BY <1>1, <1>3, <1>4, RisesStay

-----------------------------------------------------------------------------

\* Within an instance nothing more is behind the program but a measured type.
LEMMA SameInstance ==
  ASSUME MemInv, EvenInv, UNCHANGED <<args, step, srv, typ, configs, results>>,
         phase \in {"type", "populate", "settle"}, phase' \in {"type", "populate", "settle"}
  PROVE  /\ EmptyRows' /\ RowsRise'
         /\ Quiet(srv, step, typ - 1)' = Quiet(srv, step, typ - 1)
         /\ KeysAt(step)' = KeysAt(step)
         /\ Level(step, typ - 1)' = Level(step, typ - 1)
  <1>1. \A k \in 1..Len(servers), j \in 1..Len(sequence), i \in 1..Len(Types(args)) :
          Behind(k, j, i)' => Behind(k, j, i)
    BY DEF Behind, Active
  <1>2. EmptyRows' /\ RowsRise' /\ \A k, j, i : Row(k, j, i)' = Row(k, j, i)
    BY <1>1, NoNewRows
  <1>3. Quiet(srv, step, typ - 1)' = Quiet(srv, step, typ - 1)
    <2>1. PICK d \in 1..Len(sequence) : d = step /\ d = step'
      BY DEF MemInv, Places
    <2>2. PICK k : k = srv /\ k = srv'
      OBVIOUS
    <2>3. PICK i : i = typ - 1 /\ i = typ' - 1
      OBVIOUS
    <2>4. Quiet(k, d, i)' <=> Quiet(k, d, i)
      BY <1>2, QuietStays
    <2> QED BY <2>1, <2>2, <2>3, <2>4 DEF Quiet
  <1>4. step \in 1..Len(sequence)
    BY DEF MemInv, Places
  <1>5. \A j \in 1..Len(sequence) :
          KeysAt(j)' = KeysAt(j) /\ Level(j, typ - 1)' = Level(j, typ - 1)
    BY KeysStay
  <1>6. KeysAt(step)' = KeysAt(step)' /\ KeysAt(step)' = KeysAt(step)
    BY <1>4, <1>5
  <1>7. Level(step, typ - 1)' = Level(step, typ - 1)
    BY <1>4, <1>5
  <1> QED BY <1>2, <1>3, <1>6, <1>7

\* There are no keys before the first.
LEMMA NoKeysBetween ==
  ASSUME NEW t, NEW c, NEW k \in Nat, NEW m \in Nat, k = m \/ m = 0
  PROVE  DOMAIN KeysBetween(t, c, k, m - 1) = {}
  <1>1. k..m-1 = {}
    OBVIOUS
  <1> QED BY <1>1 DEF KeysBetween

\* What a server holds is a function.
LEMMA HeldIsFunction ==
  ASSUME MemInv, Server \in AllServers
  PROVE  stored[Server] = [x \in DOMAIN stored[Server] |-> stored[Server][x]]
  BY DEF MemInv, Holdings, Memory

\* Keys k..m-1 of a type are sent, after the keys before them.
LEMMA SendEven ==
  ASSUME MemInv, EvenInv, phase = "populate", phase' \in {"populate", "settle"},
         UNCHANGED <<args, step, srv, typ, configs, members, prev_mem, disturbed, results>>,
         NEW k \in Nat, NEW m \in Nat, k <= m, m <= Config.num_keys,
         k = SentSoFar, SentSoFar' = m,
         stored' = [stored EXCEPT ![Server] =
                      With(stored[Server], KeysBetween(Type, Written, k, m - 1))]
  PROVE  NoKeys' /\ EmptyRows' /\ AllThere' /\ RowsRise'
  <1> DEFINE f == stored[Server]
             g == KeysBetween(Type, Written, k, m - 1)
  <1>1. /\ args \in Args /\ step \in 1..Len(sequence) /\ Server \in AllServers
        /\ Type \in Range(Order) /\ Config = ConfigsAt(step)[Type] /\ Config.num_keys \in Nat
    BY Filling
  <1>2. types' = types /\ Type' = Type /\ Config' = Config /\ Server' = Server
        /\ Written' = Written
    BY SamePlace
  <1>3. stored'[Server] = With(f, g)
    BY <1>1 DEF MemInv, Holdings
  <1>4. /\ EmptyRows' /\ RowsRise'
        /\ Quiet(srv, step, typ - 1)' = Quiet(srv, step, typ - 1)
        /\ KeysAt(step)' = KeysAt(step) /\ Level(step, typ - 1)' = Level(step, typ - 1)
    BY SameInstance
  <1>5. NoKeys'
    <2> SUFFICES ASSUME ~disturbed, Config.num_keys = 0
                 PROVE  prev_mem = BaseMemory + Footprint(stored'[Server])
      BY <1>2 DEF NoKeys
    <2>1. DOMAIN g = {}
      <3>1. m = 0
        OBVIOUS
      <3> QED BY <3>1, NoKeysBetween
    <2>2. f = [x \in DOMAIN f |-> f[x]]
      BY <1>1, HeldIsFunction
    <2> HIDE DEF f, g
    <2>3. With(f, g) = f
      BY <2>1, <2>2, WithNothing
    <2>4. prev_mem = BaseMemory + Footprint(f)
      BY DEF EvenInv, NoKeys, f
    <2> QED BY <1>3, <2>3, <2>4
  <1>6. AllThere'
    <2> SUFFICES ASSUME Server \notin NoJson, ~disturbed, Quiet(srv, step, typ - 1)
                 PROVE  /\ prev_mem = Level(step, typ - 1)
                        /\ With(f, g) = With(Filled(KeysAt(step), typ - 1),
                                             KeysBetween(Type, Written, 0, m - 1))
      BY <1>2, <1>3, <1>4 DEF AllThere
    <2>1. /\ prev_mem = Level(step, typ - 1)
          /\ f = With(Filled(KeysAt(step), typ - 1), KeysBetween(Type, Written, 0, k - 1))
      BY DEF EvenInv, AllThere
    <2>2. With(KeysBetween(Type, Written, 0, k - 1), g) = KeysBetween(Type, Written, 0, m - 1)
      BY <1>1, JoinedKeys
    <2> HIDE DEF f, g
    <2> QED BY <2>1, <2>2, WithBoth
  <1> QED BY <1>4, <1>5, <1>6

\* populate_*: a type starts with the keys of the types before it.
LEMMA StartTypeEven == ASSUME MemInv, EvenInv, StartType PROVE EvenInv'
  <1>1. /\ phase = "type" /\ phase' = "populate" /\ made' = 0 /\ queued' = 0
        /\ UNCHANGED <<args, step, srv, typ, configs, stored, prev_mem, disturbed, results>>
    BY DEF StartType
  <1>2. Server \in AllServers
    BY <1>1, Standing DEF MemInv, Active
  <1>3. types' = types /\ Type' = Type /\ Config' = Config /\ Server' = Server
    BY <1>1, SamePlace
  <1>4. /\ EmptyRows' /\ RowsRise'
        /\ Quiet(srv, step, typ - 1)' = Quiet(srv, step, typ - 1)
        /\ KeysAt(step)' = KeysAt(step) /\ Level(step, typ - 1)' = Level(step, typ - 1)
    BY <1>1, SameInstance
  <1>5. NoneSent'
    BY <1>1 DEF NoneSent
  <1>6. NoKeys'
    BY <1>1, <1>3 DEF NoKeys, MemInv, Growth
  <1>7. AllThere'
    <2> SUFFICES ASSUME Server \notin NoJson, ~disturbed, Quiet(srv, step, typ - 1)
                 PROVE  /\ prev_mem = Level(step, typ - 1)
                        /\ stored[Server] = With(Filled(KeysAt(step), typ - 1),
                                                 KeysBetween(Type, Written', 0, SentSoFar' - 1))
      BY <1>1, <1>3, <1>4 DEF AllThere
    <2>1. prev_mem = Level(step, typ - 1) /\ stored[Server] = Filled(KeysAt(step), typ - 1)
      BY <1>1 DEF EvenInv, AllThere
    <2>2. SentSoFar' = 0
      BY <1>1 DEF SentSoFar
    <2>3. DOMAIN KeysBetween(Type, Written', 0, 0 - 1) = {}
      BY NoKeysBetween
    <2>4. stored[Server] = [x \in DOMAIN stored[Server] |-> stored[Server][x]]
      BY <1>2, HeldIsFunction
    <2>5. With(stored[Server], KeysBetween(Type, Written', 0, 0 - 1)) = stored[Server]
      BY <2>3, <2>4, WithNothing
    <2> QED BY <2>1, <2>2, <2>5
  <1> QED BY <1>4, <1>5, <1>6, <1>7 DEF EvenInv

\* DEBUG POPULATE: all keys of the type at once.
LEMMA DebugPopulateEven == ASSUME MemInv, EvenInv, DebugPopulate PROVE EvenInv'
  <1>1. /\ phase = "populate" /\ phase' = "settle" /\ made = 0 /\ Type = "strings"
        /\ stored' = [stored EXCEPT ![Server] =
                        With(stored[Server], KeysBetween(Type, Written, 0, Config.num_keys - 1))]
        /\ UNCHANGED <<args, step, srv, typ, configs, members, prev_mem, disturbed, results>>
    BY DEF DebugPopulate
  <1>2. Config' = Config /\ Config.num_keys \in Nat /\ Type' = Type
    BY <1>1, SamePlace, Filling
  <1>3. SentSoFar = 0 /\ SentSoFar' = Config.num_keys
    <2>1. made = 0 /\ queued = 0
      BY <1>1, QueuedIsMade
    <2> QED BY <1>1, <1>2, <2>1 DEF SentSoFar
  <1>4. PICK m \in Nat : m = Config.num_keys
    BY <1>2
  <1>5. 0 \in Nat /\ 0 <= m /\ m <= Config.num_keys
    BY <1>4
  <1>6. NoKeys' /\ EmptyRows' /\ AllThere' /\ RowsRise'
    BY <1>1, <1>3, <1>4, <1>5, SendEven
  <1>7. NoneSent'
    BY <1>1, <1>2 DEF NoneSent, Understood, JsonTypes, JsonDepths
  <1> QED BY <1>6, <1>7 DEF EvenInv

\* The last pipeline: what was queued is there before memory is read.
LEMMA EndPopulateEven == ASSUME MemInv, EvenInv, EndPopulate PROVE EvenInv'
  <1>1. /\ phase = "populate" /\ phase' = "settle" /\ made = Config.num_keys
        /\ queued > 0 => Understood
        /\ stored' = [stored EXCEPT ![Server] =
                        With(stored[Server], KeysBetween(Type, Written, made - queued, made - 1))]
        /\ UNCHANGED <<args, step, srv, typ, configs, members, prev_mem, disturbed, results>>
    BY DEF EndPopulate, Sent
  <1>2. Config' = Config /\ Type' = Type /\ Server' = Server
    BY <1>1, SamePlace
  <1>3. /\ made \in Nat /\ queued \in Nat /\ made - queued \in Nat
        /\ made <= Config.num_keys
    BY <1>1, QueuedIsMade
  <1>4. PICK k \in Nat, m \in Nat : k = made - queued /\ m = made /\ k <= m /\ m <= Config.num_keys
    BY <1>3
  <1>5. SentSoFar = k /\ SentSoFar' = m
    BY <1>1, <1>2, <1>4 DEF SentSoFar
  <1>6. NoKeys' /\ EmptyRows' /\ AllThere' /\ RowsRise'
    BY <1>1, <1>4, <1>5, SendEven
  <1>7. NoneSent'
    <2>1. ~Understood => Config.num_keys = 0
      BY <1>1, <1>3 DEF EvenInv, NoneSent
    <2> QED BY <1>1, <1>2, <2>1 DEF NoneSent, Understood
  <1> QED BY <1>6, <1>7 DEF EvenInv

\* One key more in the pipeline, which is sent when it is full.
LEMMA AddKeyEven == ASSUME MemInv, EvenInv, AddKey PROVE EvenInv'
  <1> DEFINE full == KeysPerFlush(Type, Config)
             sends == full # 0 /\ (made + 1) % full = 0
  <1>1. /\ phase = "populate" /\ phase' = "populate" /\ made < Config.num_keys
        /\ made' = made + 1 /\ queued' = (IF sends THEN 0 ELSE queued + 1)
        /\ sends => Understood
        /\ UNCHANGED <<args, step, srv, typ, configs, members, prev_mem, disturbed, results>>
    BY DEF AddKey
  <1>2. ~sends => stored' = stored
    BY DEF AddKey
  <1>3. sends => stored' = [stored EXCEPT ![Server] = With(stored[Server],
                               KeysBetween(Type, Written, (made + 1) - (queued + 1), (made + 1) - 1))]
    BY DEF AddKey, Sent
  <1> HIDE DEF sends
  <1>4. types' = types /\ Type' = Type /\ Config' = Config /\ Server' = Server
        /\ Written' = Written
    BY <1>1, SamePlace
  <1>5. /\ made \in Nat /\ queued \in Nat /\ made - queued \in Nat /\ Config.num_keys \in Nat
    BY <1>1, QueuedIsMade, Filling
  <1>6. NoneSent'
    BY <1>1, <1>4 DEF EvenInv, NoneSent, Understood
  <1>7. CASE sends
    <2>1. PICK k \in Nat, m \in Nat : k = made - queued /\ m = made + 1 /\ k <= m
                                      /\ m <= Config.num_keys
      BY <1>1, <1>5
    <2>2. SentSoFar = k /\ SentSoFar' = m
      BY <1>1, <1>5, <1>7, <2>1 DEF SentSoFar
    <2>3. stored' = [stored EXCEPT ![Server] =
                       With(stored[Server], KeysBetween(Type, Written, k, m - 1))]
      <3>1. k = (made + 1) - (queued + 1) /\ m - 1 = (made + 1) - 1
        BY <1>5, <2>1
      <3> QED BY <1>3, <1>7, <3>1
    <2>4. phase' \in {"populate", "settle"}
      BY <1>1
    <2>5. NoKeys' /\ EmptyRows' /\ AllThere' /\ RowsRise'
      BY <1>1, <2>1, <2>2, <2>3, <2>4, SendEven
    <2> QED BY <1>6, <2>5 DEF EvenInv
  <1>8. CASE ~sends
    <2>1. stored' = stored /\ queued' = queued + 1
      BY <1>1, <1>2, <1>8
    <2>2. SentSoFar' = SentSoFar
      BY <1>1, <1>5, <2>1 DEF SentSoFar
    <2>3. /\ EmptyRows' /\ RowsRise'
          /\ Quiet(srv, step, typ - 1)' = Quiet(srv, step, typ - 1)
          /\ KeysAt(step)' = KeysAt(step) /\ Level(step, typ - 1)' = Level(step, typ - 1)
      BY <1>1, SameInstance
    <2>4. NoKeys'
      BY <1>1, <1>4, <2>1 DEF EvenInv, NoKeys
    <2>5. AllThere'
      BY <1>1, <1>4, <2>1, <2>2, <2>3 DEF EvenInv, AllThere
    <2> QED BY <1>6, <2>3, <2>4, <2>5 DEF EvenInv
  <1> QED BY <1>7, <1>8

\* A key that expires marks the row, and the rows are then not compared.
LEMMA ExpireEven == ASSUME MemInv, EvenInv, NEW p, Expire(p) PROVE EvenInv'
  <1>1. /\ phase \in {"type", "populate", "settle"} /\ disturbed' = TRUE
        /\ UNCHANGED <<args, phase, step, srv, typ, configs, made, members, queued, prev_mem, results>>
    BY DEF Expire
  <1>2. EmptyRows' /\ RowsRise'
    BY <1>1, SameInstance
  <1>3. types' = types /\ Type' = Type /\ Config' = Config /\ Server' = Server
        /\ Written' = Written
    BY <1>1, SamePlace
  <1> QED BY <1>1, <1>2, <1>3 DEF EvenInv, NoneSent, NoKeys, AllThere, Understood

\* A row of this type is no row of another type, server or step.
LEMMA OtherRow ==
  ASSUME MemInv, phase \in Active, NEW k \in 1..Len(servers), NEW j,
         NEW i \in 1..Len(Types(args)), typ \in 1..Len(Types(args)),
         <<servers[k], j, Types(args)[i]>> = <<Server, step, Type>>
  PROVE  k = srv /\ j = step /\ i = typ
  <1>1. servers[k] = Server /\ j = step /\ Types(args)[i] = Type
    OBVIOUS
  <1>2. srv \in 1..Len(servers) /\ types = Types(args) /\ args \in Args
    BY Standing DEF MemInv, Places
  <1>3. k = srv
    BY <1>1, <1>2, ServersDiffer DEF Server
  <1>4. i = typ
    BY <1>1, <1>2, TypesAre DEF Type
  <1> QED BY <1>1, <1>3, <1>4

\* No rise is a rise of none.
LEMMA SameLeavesNone == \A n \in Nat : n - n = 0
  OBVIOUS

\* The row of a type is the rise from the level before it to its own.
LEMMA MeasureEven == ASSUME MemInv, RowInv, EvenInv, Measure PROVE EvenInv'
  <1> DEFINE f == stored[Server]
             r == [skipped |-> "", num_keys |-> Config.num_keys,
                   total_elements |-> total_elements(Type, Config),
                   mem |-> get_memory - baseline, members |-> members,
                   disturbed |-> disturbed]
             x0 == <<Server, step, Type>>
             g == [x \in {x0} |-> r]
  <1>1. /\ phase = "settle" /\ phase' = "type" /\ typ' = typ + 1
        /\ results' = With(results, g)
        /\ prev_mem' = get_memory /\ disturbed' = FALSE
        /\ UNCHANGED <<args, step, srv, configs, made, members, queued, stored>>
    BY DEF Measure
  <1>2. /\ args \in Args /\ step \in 1..Len(sequence) /\ Server \in AllServers
        /\ Type \in Range(Order)
        /\ typ \in 1..Len(Types(args)) /\ Type = Types(args)[typ]
        /\ Config = ConfigsAt(step)[Type] /\ Config.num_keys \in Nat /\ Memory(f)
        /\ srv \in 1..Len(servers) /\ Server = servers[srv] /\ Len(Types(args)) \in Nat
    BY <1>1, Filling, TypesAre DEF MemInv, Places, Active, Server
  \* The place, in numbers that the step does not move.
  <1>3. PICK y \in 1..Len(Types(args)) : y = typ
    BY <1>2
  <1>4. PICK s \in 1..Len(servers) : s = srv
    BY <1>2
  <1>5. PICK d \in 1..Len(sequence) : d = step
    BY <1>2
  <1>6. PICK m \in Nat : m = y - 1 /\ m + 1 = y
    BY <1>2
  <1> DEFINE K == KeysAt(d)
  <1>7. /\ get_memory = BaseMemory + Footprint(f) /\ get_memory \in Nat /\ r.mem = get_memory - prev_mem
    <2>1. get_memory = BaseMemory + Footprint(f) /\ baseline = prev_mem
      BY DEF get_memory, baseline
    <2>2. Footprint(f) \in Nat /\ BaseMemory \in Nat
      BY <1>2, FootprintIs, ArgsAssumption
    <2> HIDE DEF f
    <2> QED BY <2>1, <2>2
  <1>8. /\ r.skipped = "" /\ r.num_keys = Config.num_keys /\ r.disturbed = disturbed
        /\ r.members = members
        /\ DOMAIN g = {x0} /\ g[x0] = r
    OBVIOUS
  <1>9. servers' = servers /\ sequence' = sequence /\ Server' = Server
    BY <1>1, SameArgs DEF Server
  <1>10. KeysAt(d)' = K /\ \A i : Level(d, i)' = Level(d, i)
    BY <1>1, KeysStay
  <1>11. x0 = <<servers[s], d, Types(args)[y]>>
    BY <1>2, <1>3, <1>4, <1>5
  <1> HIDE DEF r, g, K, x0
  <1>12. Row(s, d, y)' = r
    <2>1. results'[x0] = r
      BY <1>1, <1>8 DEF With
    <2> QED BY <1>1, <1>9, <1>11, <2>1 DEF Row
  <1>13. ASSUME NEW k \in 1..Len(servers), NEW j, NEW i \in 1..Len(Types(args)),
                <<servers[k], j, Types(args)[i]>> \in DOMAIN g
         PROVE  k = s /\ j = d /\ i = y
    <2>1. <<servers[k], j, Types(args)[i]>> = <<Server, step, Type>>
      BY <1>8, <1>13 DEF x0
    <2>2. k = srv /\ j = step /\ i = typ
      BY <1>1, <1>2, <2>1, OtherRow DEF Active
    <2> QED BY <1>3, <1>4, <1>5, <2>2
  <1>14. ASSUME NEW h \in 1..m PROVE Row(s, d, h)' = Row(s, d, h)
    <2>1. h \in 1..Len(Types(args)) /\ h < y
      BY <1>2, <1>6
    <2>2. Behind(s, d, h)
      BY <1>1, <1>3, <1>4, <1>5, <2>1 DEF Behind, Active
    <2>3. <<servers[s], d, Types(args)[h]>> \notin DOMAIN g
      BY <1>13, <2>1
    <2> QED BY <1>1, <2>1, <2>2, <2>3, OldRow
  <1>15. K[y] = KeysBetween(Type, Config, 0, Config.num_keys - 1)
    BY <1>2, <1>3, <1>5 DEF K, KeysAt
  <1>16. ASSUME Server \notin NoJson, Quiet(s, d, y)'
         PROVE  prev_mem = Level(d, m) /\ get_memory = Level(d, y) /\ f = Filled(K, y)
    <2>1. ~disturbed /\ Written = Config
      <3>1. y \in 1..y
        BY <1>2
      <3>2. ~Row(s, d, y)'.disturbed /\ AllDifferent(Row(s, d, y), d, y)'
        BY <1>16, <3>1 DEF Quiet
      <3>3. AllDifferent(r, d, y)
        <4>1. AllDifferent(Row(s, d, y), d, y)' <=> AllDifferent(r, d, y)
          <5>1. ConfigsAt(d)' = ConfigsAt(d)
            BY <1>1, SameArgs
          <5> QED BY <1>1, <1>12, <5>1 DEF AllDifferent
        <4> QED BY <3>2, <4>1
      <3>4. members = Config.num_fields
        BY <1>2, <1>3, <1>5, <1>8, <3>3 DEF AllDifferent
      <3>5. Holding(Config, Config.num_fields) = Config
        BY <1>1, <1>2, Filling, HoldingFills
      <3> QED BY <1>8, <1>12, <3>2, <3>4, <3>5 DEF Written
    <2>2. Quiet(s, d, m)
      <3>1. \A h \in 1..m : h \in 1..y
        BY <1>6
      <3>2. Quiet(s, d, m)'
        BY <1>16, <3>1 DEF Quiet
      <3> QED BY <1>1, <1>14, <3>2, QuietStays
    <2>3. srv = s /\ step = d /\ typ - 1 = m
      BY <1>3, <1>4, <1>5, <1>6
    <2>4. Quiet(srv, step, typ - 1)
      BY <2>2, <2>3
    <2>5. /\ prev_mem = Level(step, typ - 1)
          /\ f = With(Filled(KeysAt(step), typ - 1), KeysBetween(Type, Written, 0, Config.num_keys - 1))
      BY <1>1, <1>16, <2>1, <2>4 DEF EvenInv, AllThere, SentSoFar
    <2>6. prev_mem = Level(d, m) /\ f = With(Filled(K, m), K[m+1])
      BY <1>6, <1>15, <2>1, <2>3, <2>5 DEF K
    <2>7. f = Filled(K, y)
      <3>1. With(Filled(K, m), K[m+1]) = Filled(K, m+1)
        BY FilledStep
      <3> QED BY <1>6, <2>6, <3>1
    <2>8. get_memory = Level(d, y)
      BY <1>7, <2>7 DEF Level, K
    <2> QED BY <2>6, <2>7, <2>8
  <1>17. NoneSent' /\ NoKeys'
    BY <1>1 DEF NoneSent, NoKeys
  <1>18. EmptyRows'
    <2> SUFFICES ASSUME NEW x \in DOMAIN results', results'[x].skipped = ""
                 PROVE  /\ x[1] \in NoJson /\ x[3] \in JsonTypes => results'[x].num_keys = 0
                        /\ ~results'[x].disturbed /\ results'[x].num_keys = 0 => results'[x].mem = 0
      BY DEF EmptyRows
    <2>1. CASE x = x0
      <3>1. results'[x] = r
        BY <1>1, <1>8, <2>1 DEF With
      <3>2. x[1] = Server /\ x[3] = Type
        BY <2>1 DEF x0
      <3>3. Server \in NoJson /\ Type \in JsonTypes => Config.num_keys = 0
        BY <1>1 DEF EvenInv, NoneSent, Understood
      <3>4. ~disturbed /\ Config.num_keys = 0 => r.mem = 0
        <4> SUFFICES ASSUME ~disturbed, Config.num_keys = 0 PROVE r.mem = 0
          OBVIOUS
        <4>1. prev_mem = BaseMemory + Footprint(f)
          BY <1>1 DEF EvenInv, NoKeys
        <4>2. PICK a \in Nat : a = get_memory
          BY <1>7
        <4>3. r.mem = a - a
          BY <1>7, <4>1, <4>2
        <4>4. a - a = 0
          BY <4>2, SameLeavesNone
        <4> QED BY <4>3, <4>4
      <3> QED BY <1>8, <3>1, <3>2, <3>3, <3>4
    <2>2. CASE x # x0
      <3>1. x \in DOMAIN results /\ results'[x] = results[x]
        BY <1>1, <1>8, <2>2 DEF With
      <3> QED BY <3>1 DEF EvenInv, EmptyRows
    <2> QED BY <2>1, <2>2
  <1>19. srv' = s /\ step' = d /\ typ' - 1 = y /\ stored'[Server'] = f
    <2>1. srv' = s /\ step' = d /\ stored'[Server'] = f
      BY <1>1, <1>4, <1>5, <1>9
    <2>2. typ' - 1 = y
      BY <1>1, <1>2, <1>3
    <2> QED BY <2>1, <2>2
  <1>20. AllThere'
    <2> SUFFICES ASSUME Server \notin NoJson, Quiet(srv, step, typ - 1)'
                 PROVE  /\ get_memory = Level(step, typ - 1)'
                        /\ f = Filled(KeysAt(step), typ - 1)'
      <3> HIDE DEF f
      <3> QED BY <1>1, <1>9, <1>19 DEF AllThere
    <2>1. Quiet(s, d, y)'
      BY <1>19 DEF Quiet
    <2>2. get_memory = Level(d, y) /\ f = Filled(K, y)
      BY <1>16, <2>1
    <2>3. Level(step, typ - 1)' = Level(d, y)'
      BY <1>19
    <2>4. Filled(KeysAt(step), typ - 1)' = Filled(KeysAt(d), y)'
      BY <1>19
    <2> QED BY <1>10, <2>2, <2>3, <2>4
  <1>21. Rises(s, d, y)'
    <2> SUFFICES ASSUME Server \notin NoJson, Quiet(s, d, y)'
                 PROVE  r.mem = Level(d, y)' - Level(d, y - 1)'
      BY <1>2, <1>4, <1>9, <1>12 DEF Rises
    <2>1. prev_mem = Level(d, y - 1) /\ get_memory = Level(d, y)
      BY <1>6, <1>16
    <2> QED BY <1>7, <1>10, <2>1
  <1>22. RowsRise'
    <2>1. ASSUME NEW k \in 1..Len(servers), NEW j \in 1..Len(sequence),
                 NEW i \in 1..Len(Types(args)), Behind(k, j, i)', ~Rises(k, j, i)'
          PROVE  /\ Behind(k, j, i)
                 /\ \A h \in 1..i : <<servers[k], j, Types(args)[h]>> \notin DOMAIN g
      <3>1. j < d \/ (j = d /\ k < s) \/ (j = d /\ k = s /\ i < y + 1)
        BY <1>1, <1>3, <1>4, <1>5, <2>1 DEF Behind
      <3>2. ~(k = s /\ j = d /\ i = y)
        BY <1>21, <2>1
      <3>3. j < d \/ (j = d /\ k < s) \/ (j = d /\ k = s /\ i < y)
        BY <1>2, <3>1, <3>2
      <3>4. ASSUME NEW h \in 1..i, <<servers[k], j, Types(args)[h]>> \in DOMAIN g
            PROVE  FALSE
        <4>1. h \in 1..Len(Types(args)) /\ h <= i
          BY <1>2
        <4>2. k = s /\ j = d /\ h = y
          BY <1>13, <3>4, <4>1
        <4>3. d \in Nat /\ s \in Nat
          BY <1>2, ServersAre, SequenceIs
        <4> QED BY <3>3, <4>1, <4>2, <4>3
      <3> QED BY <1>1, <1>3, <1>4, <1>5, <3>3, <3>4 DEF Behind, Active
    <2> QED BY <1>1, <2>1, NewRows
  <1> QED BY <1>17, <1>18, <1>20, <1>22 DEF EvenInv

\* The rows that are behind the program in the next instance, or at the end.
LEMMA AdvanceLeaves ==
  ASSUME MemInv, phase \in {"connect", "type"}, Advance, args' = args
  PROVE  /\ phase' \in {"connect", "report", "pause"} /\ typ' = 1
         /\ \A k \in 1..Len(servers), j \in 1..Len(sequence), i \in 1..Len(Types(args)) :
              Behind(k, j, i)' => j < step \/ (j = step /\ k < srv) \/ (j = step /\ k = srv)
  <1>1. /\ step \in 1..Len(sequence) /\ srv \in 1..Len(servers)
        /\ Len(servers) \in Nat /\ Len(sequence) \in Nat
    BY ServersAre, SequenceIs DEF MemInv, Places, Active
  <1>2. /\ typ' = 1 /\ phase' \in {"connect", "report", "pause"}
        /\ \/ srv # Len(servers) /\ phase' = "connect" /\ srv' = srv + 1 /\ step' = step
           \/ /\ srv = Len(servers) /\ step < Len(sequence) /\ phase' = "connect"
              /\ srv' = 1 /\ step' = step + 1
           \/ srv = Len(servers) /\ ~(step < Len(sequence))
    BY DEF Advance
  <1>3. ASSUME NEW k \in 1..Len(servers), NEW j \in 1..Len(sequence), NEW i \in 1..Len(Types(args)),
               Behind(k, j, i)'
        PROVE  j < step \/ (j = step /\ k < srv) \/ (j = step /\ k = srv)
    BY <1>1, <1>2, <1>3 DEF Behind
  <1> QED BY <1>2, <1>3

\* A type passed over has a row that says so, and the memory stays.
LEMMA SkipTypeEven == ASSUME MemInv, RowInv, EvenInv, SkipType PROVE EvenInv'
  <1> DEFINE g == [x \in {<<Server, step, Type>>} |-> Skipped("no module")]
  <1>1. /\ phase = "type" /\ phase' = "type" /\ typ' = typ + 1 /\ typ <= Len(types)
        /\ results' = With(results, g) /\ Server \in NoJson
        /\ UNCHANGED <<args, step, srv, configs, stored, prev_mem, disturbed>>
    BY DEF SkipType, Passed
  <1>2. /\ servers' = servers /\ Server' = Server /\ Server = servers[srv]
        /\ types = Types(args) /\ typ \in 1..Len(Types(args)) /\ Type = Types(args)[typ]
        /\ srv \in 1..Len(servers) /\ step \in 1..Len(sequence) /\ Len(Types(args)) \in Nat
    <2>1. args \in Args /\ types = Types(args) /\ typ \in Nat \ {0}
      BY Standing DEF MemInv, Places
    <2>2. typ \in 1..Len(Types(args)) /\ Len(Types(args)) \in Nat
      <3>1. PICK l \in Nat : l = Len(Types(args))
        BY <2>1, TypesAre
      <3>2. typ <= l
        BY <1>1, <2>1, <3>1
      <3> QED BY <2>1, <3>1, <3>2
    <2>3. srv \in 1..Len(servers) /\ step \in 1..Len(sequence)
      BY <1>1 DEF MemInv, Places, Active
    <2> QED BY <1>1, <2>1, <2>2, <2>3, SameArgs DEF Server, Type
  <1>3. \A x \in DOMAIN g : g[x].skipped # ""
    BY DEF Skipped
  <1>4. DOMAIN g = {<<Server, step, Type>>}
    OBVIOUS
  <1> HIDE DEF g
  <1>5. EmptyRows'
    <2>1. \A x \in DOMAIN results' :
            results'[x].skipped = "" => x \in DOMAIN results /\ results'[x] = results[x]
      BY <1>1, <1>3 DEF With
    <2> QED BY <2>1 DEF EvenInv, EmptyRows
  <1>6. RowsRise'
    <2>1. ASSUME NEW k \in 1..Len(servers), NEW j \in 1..Len(sequence),
                 NEW i \in 1..Len(Types(args)), Behind(k, j, i)', ~Rises(k, j, i)'
          PROVE  /\ Behind(k, j, i)
                 /\ \A h \in 1..i : <<servers[k], j, Types(args)[h]>> \notin DOMAIN g
      <3>1. k # srv
        BY <1>1, <1>2, <2>1 DEF Rises
      <3>2. j < step \/ (j = step /\ k < srv)
        BY <1>1, <2>1, <3>1 DEF Behind
      <3>3. ASSUME NEW h \in 1..i, <<servers[k], j, Types(args)[h]>> \in DOMAIN g
            PROVE  FALSE
        <4>1. h \in 1..Len(Types(args))
          BY <1>2
        <4> QED BY <1>1, <1>2, <1>4, <3>1, <3>3, <4>1, OtherRow DEF Active
      <3> QED BY <1>1, <3>2, <3>3 DEF Behind, Active
    <2> QED BY <1>1, <2>1, NewRows
  <1> QED BY <1>1, <1>2, <1>5, <1>6 DEF EvenInv, NoneSent, NoKeys, AllThere

\* A server that does not answer has its rows skipped.
LEMMA ConnectFailsEven == ASSUME MemInv, RowInv, EvenInv, ConnectFails PROVE EvenInv'
  <1> DEFINE g == [x \in {<<Server, step, t>> : t \in Range(types)} |->
                     Skipped("connection failed")]
  <1>1. /\ phase = "connect" /\ Advance /\ args' = args /\ results' = With(results, g)
    BY DEF ConnectFails
  <1>2. /\ servers' = servers /\ Server = servers[srv] /\ types = Types(args)
        /\ srv \in 1..Len(servers) /\ step \in 1..Len(sequence) /\ Len(Types(args)) \in Nat
        /\ \A i \in 1..Len(Types(args)) : Types(args)[i] \in Range(types)
    BY <1>1, SameArgs, Standing, TypesAre DEF MemInv, Places, Server, Active
  <1>3. \A x \in DOMAIN g : g[x].skipped # ""
    BY DEF Skipped
  <1>4. DOMAIN g = {<<Server, step, t>> : t \in Range(types)}
    OBVIOUS
  <1> HIDE DEF g
  <1>5. EmptyRows'
    <2>1. \A x \in DOMAIN results' :
            results'[x].skipped = "" => x \in DOMAIN results /\ results'[x] = results[x]
      BY <1>1, <1>3 DEF With
    <2> QED BY <2>1 DEF EvenInv, EmptyRows
  <1>6. RowsRise'
    <2>1. ASSUME NEW k \in 1..Len(servers), NEW j \in 1..Len(sequence),
                 NEW i \in 1..Len(Types(args)), Behind(k, j, i)', ~Rises(k, j, i)'
          PROVE  /\ Behind(k, j, i)
                 /\ \A h \in 1..i : <<servers[k], j, Types(args)[h]>> \notin DOMAIN g
      <3>1. ~(j = step /\ k = srv)
        <4> SUFFICES ASSUME j = step, k = srv PROVE Rises(k, j, i)'
          BY <2>1
        <4>1. <<Server, step, Types(args)[i]>> \in DOMAIN g
          BY <1>2, <1>4
        <4>2. Row(k, j, i)' = g[<<Server, step, Types(args)[i]>>]
          BY <1>1, <1>2, <4>1 DEF Row, With
        <4> QED BY <1>3, <4>1, <4>2 DEF Rises
      <3>2. j < step \/ (j = step /\ k < srv)
        BY <1>1, <2>1, <3>1, AdvanceLeaves
      <3>3. ASSUME NEW h \in 1..i, <<servers[k], j, Types(args)[h]>> \in DOMAIN g
            PROVE  FALSE
        <4>1. servers[k] = servers[srv] /\ j = step
          BY <1>2, <1>4, <3>3
        <4> QED BY <1>2, <3>1, <4>1, ServersDiffer
      <3> QED BY <1>1, <3>2, <3>3 DEF Behind, Active
    <2> QED BY <1>1, <2>1, NewRows
  <1>7. phase' \in {"connect", "report", "pause"}
    BY <1>1, AdvanceLeaves
  <1> QED BY <1>5, <1>6, <1>7 DEF EvenInv, NoneSent, NoKeys, AllThere

\* The next server, or the comparison.
LEMMA EndInstanceEven == ASSUME MemInv, EvenInv, EndInstance PROVE EvenInv'
  <1>1. phase = "type" /\ typ > Len(types) /\ Advance /\ args' = args /\ results' = results
    BY DEF EndInstance
  <1>2. types = Types(args) /\ typ \in Nat /\ Len(Types(args)) \in Nat
    BY Standing, TypesAre DEF MemInv, Places
  <1>3. ASSUME NEW k \in 1..Len(servers), NEW j \in 1..Len(sequence), NEW i \in 1..Len(Types(args)),
               Behind(k, j, i)'
        PROVE  Behind(k, j, i)
    <2>1. j < step \/ (j = step /\ k < srv) \/ (j = step /\ k = srv)
      BY <1>1, <1>3, AdvanceLeaves
    <2>2. i < typ
      BY <1>1, <1>2
    <2> QED BY <1>1, <2>1, <2>2 DEF Behind, Active
  <1>4. EmptyRows' /\ RowsRise'
    BY <1>1, <1>3, NoNewRows
  <1>5. phase' \in {"connect", "report", "pause"}
    BY <1>1, AdvanceLeaves
  <1> QED BY <1>4, <1>5 DEF EvenInv, NoneSent, NoKeys, AllThere

\* FLUSHALL: the server starts from its base.
LEMMA ConnectEven == ASSUME MemInv, RowInv, EvenInv, Connect PROVE EvenInv'
  <1>1. /\ phase = "connect" /\ phase' = "type" /\ prev_mem' = BaseMemory
        /\ stored' = [stored EXCEPT ![Server] = Nothing]
        /\ UNCHANGED <<args, step, srv, typ, configs, results>>
    BY DEF Connect
  <1>2. typ = 1 /\ typ' = 1 /\ step \in 1..Len(sequence) /\ Len(Types(args)) \in Nat
    BY <1>1, TypesAre DEF MemInv, Places, RowInv, AtFirst
  <1>3. Server' = Server /\ Server \in AllServers
    BY <1>1, SameArgs, Standing DEF MemInv, Server, Active
  <1>4. stored'[Server] = Nothing
    BY <1>1, <1>3 DEF MemInv, Holdings
  <1>5. ASSUME NEW k \in 1..Len(servers), NEW j \in 1..Len(sequence), NEW i \in 1..Len(Types(args)),
               Behind(k, j, i)'
        PROVE  Behind(k, j, i)
    <2>1. ~(i < 1)
      BY <1>2
    <2> QED BY <1>1, <1>2, <1>5, <2>1 DEF Behind, Active
  <1>6. EmptyRows' /\ RowsRise'
    BY <1>1, <1>5, NoNewRows
  <1>7. AllThere'
    <2>1. \A K : Filled(K, 0) = Nothing
      BY FilledNone
    <2>2. Footprint(Nothing) = 0 /\ BaseMemory \in Nat
      BY FootprintOfNothing, ArgsAssumption DEF Nothing
    <2>3. Level(step, 0) = BaseMemory /\ Filled(KeysAt(step), 0) = Nothing
      BY <2>1, <2>2 DEF Level
    <2>4. KeysAt(step)' = KeysAt(step) /\ \A i : Level(step, i)' = Level(step, i)
      <3>1. PICK d \in 1..Len(sequence) : d = step /\ d = step'
        BY <1>1, <1>2
      <3>2. KeysAt(d)' = KeysAt(d) /\ \A i : Level(d, i)' = Level(d, i)
        BY <1>1, KeysStay
      <3>3. KeysAt(step)' = KeysAt(d)' /\ \A i : Level(step, i)' = Level(d, i)'
        BY <3>1
      <3> QED BY <3>1, <3>2, <3>3
    <2>5. typ' - 1 = 0
      BY <1>2
    <2>6. Level(step, typ - 1)' = BaseMemory
      BY <2>3, <2>4, <2>5
    <2>7. Filled(KeysAt(step), typ - 1)' = Nothing
      BY <2>1, <2>5 DEF Filled
    <2> QED BY <1>1, <1>3, <1>4, <2>6, <2>7 DEF AllThere
  <1> QED BY <1>1, <1>6, <1>7 DEF EvenInv, NoneSent, NoKeys

\* The run begins with no row.
LEMMA StartEven == ASSUME MemInv, RowInv, EvenInv, Start PROVE EvenInv'
  <1>1. /\ phase = "start" /\ phase' \in {"refused", "crashed", "pause", "connect"}
        /\ phase' = "pause" => servers = <<>>
        /\ UNCHANGED <<args, step, srv, typ, results>>
    BY DEF Start
  <1>2. step = 1 /\ srv = 1 /\ args \in Args
    BY <1>1 DEF MemInv, Places, RowInv, AtFirst
  <1>3. ASSUME NEW k \in 1..Len(servers), NEW j \in 1..Len(sequence), NEW i \in 1..Len(Types(args)),
               Behind(k, j, i)'
        PROVE  FALSE
    <2>1. k \in Nat /\ k >= 1 /\ j \in Nat /\ j >= 1
      BY <1>2, ServersAre, SequenceIs
    <2>2. servers # <<>>
      <3>1. servers = <<>> => Len(servers) = 0
        OBVIOUS
      <3> QED BY <3>1
    <2> QED BY <1>1, <1>2, <1>3, <2>1, <2>2 DEF Behind, Active
  <1>4. EmptyRows' /\ RowsRise'
    BY <1>1, <1>3, NoNewRows
  <1> QED BY <1>1, <1>4 DEF EvenInv, NoneSent, NoKeys, AllThere

\* The runs that end leave the rows alone.
LEMMA EndsEven == ASSUME MemInv, EvenInv, Raise \/ PressEnter PROVE EvenInv'
  <1>1. /\ phase' = "crashed" \/ (phase = "pause" /\ phase' = "report")
        /\ UNCHANGED <<args, results>>
    BY DEF Raise, PressEnter
  <1>2. \A k \in 1..Len(servers), j \in 1..Len(sequence), i \in 1..Len(Types(args)) :
          Behind(k, j, i)' => Behind(k, j, i)
    BY <1>1 DEF Behind, Active
  <1>3. EmptyRows' /\ RowsRise'
    BY <1>1, <1>2, NoNewRows
  <1> QED BY <1>1, <1>3 DEF EvenInv, NoneSent, NoKeys, AllThere

\* A step of nothing.
LEMMA EvenStutter == ASSUME MemInv, EvenInv, UNCHANGED vars PROVE EvenInv'
  <1>1. UNCHANGED <<args, phase, step, srv, typ, configs, made, members, queued, stored, prev_mem,
                    disturbed, results>>
    BY DEF vars
  <1>2. types' = types /\ Type' = Type /\ Config' = Config /\ Server' = Server
        /\ Written' = Written
    BY <1>1, SamePlace
  <1>3. \A k \in 1..Len(servers), j \in 1..Len(sequence), i \in 1..Len(Types(args)) :
          Behind(k, j, i)' => Behind(k, j, i)
    BY <1>1 DEF Behind
  <1>4. EmptyRows' /\ RowsRise' /\ \A k, j, i : Row(k, j, i)' = Row(k, j, i)
    BY <1>1, <1>3, NoNewRows
  <1>5. NoneSent' /\ NoKeys'
    BY <1>1, <1>2 DEF EvenInv, NoneSent, NoKeys, Understood
  <1>6. AllThere'
    <2>1. KeysAt(step)' = KeysAt(step) /\ Level(step, typ - 1)' = Level(step, typ - 1)
      <3>1. step \in 1..Len(sequence)
        BY DEF MemInv, Places
      <3>2. \A j \in 1..Len(sequence) : KeysAt(j)' = KeysAt(j) /\ \A i : Level(j, i)' = Level(j, i)
        BY <1>1, KeysStay
      <3>3. KeysAt(step)' = KeysAt(step)
        BY <1>1, <3>1, <3>2
      <3>4. Level(step, typ - 1)' = Level(step, typ - 1)
        BY <1>1, <3>1, <3>2
      <3> QED BY <3>3, <3>4
    <2>2. Quiet(srv, step, typ - 1)' = Quiet(srv, step, typ - 1)
      <3>1. PICK d \in 1..Len(sequence) : d = step /\ d = step'
        BY <1>1 DEF MemInv, Places
      <3>2. PICK k : k = srv /\ k = srv'
        BY <1>1
      <3>3. PICK i : i = typ - 1 /\ i = typ' - 1
        BY <1>1
      <3>4. Quiet(k, d, i)' <=> Quiet(k, d, i)
        BY <1>1, <1>4, QuietStays
      <3> QED BY <3>1, <3>2, <3>3, <3>4 DEF Quiet
    <2>3. SentSoFar' = SentSoFar
      BY <1>1, <1>2 DEF SentSoFar
    <2> QED BY <1>1, <1>2, <2>1, <2>2, <2>3 DEF EvenInv, AllThere
  <1> QED BY <1>4, <1>5, <1>6 DEF EvenInv

\* No row at the start.
LEMMA EvenInit == Init => EvenInv
  <1> SUFFICES ASSUME Init PROVE EvenInv
    OBVIOUS
  <1>1. phase = "start" /\ DOMAIN results = {}
    BY DEF Init, Nothing
  <1> QED BY <1>1 DEF EvenInv, NoneSent, NoKeys, EmptyRows, AllThere, RowsRise, Behind, Active

\* Every step keeps the rows even.
LEMMA EvenStep == MemInv /\ RowInv /\ EvenInv /\ [Next]_vars => EvenInv'
  <1> SUFFICES ASSUME MemInv, RowInv, EvenInv, [Next]_vars PROVE EvenInv'
    OBVIOUS
  <1>1. CASE Start \/ Connect \/ ConnectFails
    BY <1>1, StartEven, ConnectEven, ConnectFailsEven
  <1>2. CASE StartType \/ SkipType \/ EndInstance
    BY <1>2, StartTypeEven, SkipTypeEven, EndInstanceEven
  <1>3. CASE DebugPopulate \/ AddKey \/ EndPopulate
    BY <1>3, DebugPopulateEven, AddKeyEven, EndPopulateEven
  <1>4. CASE Raise \/ Measure \/ PressEnter
    BY <1>4, EndsEven, MeasureEven
  <1>5. CASE \E type \in Range(types) : Expire(key_prefix(type, configs[type]))
    BY <1>5, ExpireEven
  <1> QED BY <1>1, <1>2, <1>3, <1>4, <1>5, EvenStutter DEF Next

\* What comes before a place in the list is in the list.
LEMMA EarlierOnes == \A n \in Nat : \A i \in 1..n : \A h \in 1..i : h \in 1..n
  OBVIOUS

\* No row was disturbed, nor any member drawn twice.
AllEven == \A x \in DOMAIN results : ~results[x].disturbed /\ Repeated(x) = 0

\* A row that neither server skipped is the same on both.
LEMMA SameMemory ==
  ASSUME MemInv, RowInv, EvenInv, phase = "report", AllEven,
         NEW a \in Range(servers), NEW b \in Range(servers), NEW j \in DOMAIN sequence,
         NEW t \in Range(types), Result(a, j, t).skipped = "", Result(b, j, t).skipped = ""
  PROVE  Result(a, j, t).mem = Result(b, j, t).mem
  <1> DEFINE x == <<a, j, t>>
             z == <<b, j, t>>
             c == ConfigsAt(j)[t]
  <1>1. /\ x \in DOMAIN results /\ z \in DOMAIN results
        /\ Result(a, j, t) = results[x] /\ Result(b, j, t) = results[z]
    BY RowsAreThere DEF Result
  <1>2. args \in Args /\ types = Types(args) /\ t \in Range(Types(args))
    BY Standing DEF MemInv, Places
  <1>3. j \in 1..Len(sequence)
    BY <1>2, StepsAre
  <1>4. Tells(results[x], t, args, c) /\ Tells(results[z], t, args, c)
    <2>1. ASSUME NEW s \in Range(servers), <<s, j, t>> \in DOMAIN results,
                 results[<<s, j, t>>].skipped = ""
          PROVE  Tells(results[<<s, j, t>>], t, args, c)
      <3>1. PICK e \in AllServers, k \in 1..Len(sequence), u \in Range(Types(args)) :
              <<s, j, t>> = <<e, k, u>> /\ Tells(results[<<s, j, t>>], u, args, ConfigsAt(k)[u])
        BY <2>1 DEF MemInv, Recorded
      <3>2. k = j /\ u = t
        BY <3>1
      <3> QED BY <3>1, <3>2
    <2> QED BY <1>1, <2>1
  <1>8. ASSUME NEW s \in Range(servers), <<s, j, t>> \in DOMAIN results,
               results[<<s, j, t>>].skipped = "", Tells(results[<<s, j, t>>], t, args, c)
        PROVE  /\ ~results[<<s, j, t>>].disturbed
               /\ results[<<s, j, t>>].members = c.num_fields
    <2> DEFINE r == results[<<s, j, t>>]
    <2>1. ~r.disturbed /\ Repeated(<<s, j, t>>) = 0
      BY <1>8 DEF AllEven
    <2>2. c.num_fields - r.members = 0
      BY <1>8, <2>1 DEF Repeated
    <2>3. t \in Range(Order)
      BY <1>2, TypesAre
    <2>4. PICK F \in Nat : F = c.num_fields
      BY <1>2, <1>3, <2>3, ConfigFields
    <2>5. r.members \in DifferentMembers(t, c)
      BY <1>8 DEF Tells
    <2> HIDE DEF c, r
    <2>6. PICK n \in Nat : n = r.members
      BY <2>4, <2>5, MembersAre
    <2>7. F - n = 0 => n = F
      BY ONLY <2>4, <2>6, F \in Nat, n \in Nat, NoneLeft
    <2> QED BY <2>1, <2>2, <2>4, <2>6, <2>7 DEF r
  <1>9. /\ ~results[x].disturbed /\ results[x].members = c.num_fields
        /\ ~results[z].disturbed /\ results[z].members = c.num_fields
    BY <1>1, <1>4, <1>8
  <1>5. CASE t \notin JsonTypes
    <2>1. Alone(t, args)
      <3>1. Prefix(t, args) = <<t>>
        BY <1>5 DEF Prefix
      <3>2. \A u : Prefix(u, args) \in {<<u>>, <<"json", json_depth(u, args)>>}
        BY DEF Prefix
      <3>3. \A p, q : <<t>> # <<p, q>>
        OBVIOUS
      <3>4. \A u : u # t => <<u>> # <<t>>
        OBVIOUS
      <3> QED BY <3>1, <3>2, <3>3, <3>4 DEF Alone
    <2> HIDE DEF c
    <2> QED BY <1>1, <1>4, <1>9, <2>1 DEF Tells
  <1>6. CASE t \in JsonTypes /\ (a \in NoJson \/ b \in NoJson)
    <2>1. results[x].num_keys = num_keys(t, args) /\ results[z].num_keys = num_keys(t, args)
      BY <1>4 DEF Tells
    <2>2. num_keys(t, args) = 0
      <3>1. x[1] = a /\ x[3] = t /\ z[1] = b /\ z[3] = t
        OBVIOUS
      <3> HIDE DEF x, z
      <3> QED BY <1>1, <1>6, <2>1, <3>1 DEF EvenInv, EmptyRows
    <2> HIDE DEF x, z
    <2> QED BY <1>1, <1>9, <2>1, <2>2 DEF EvenInv, EmptyRows
  <1>7. CASE a \notin NoJson /\ b \notin NoJson
    <2> HIDE DEF x, z, c
    <2>0. Range(Types(args)) = {Types(args)[i] : i \in 1..Len(Types(args))}
          /\ Len(Types(args)) \in Nat
      <3>1. args \in Args
        BY <1>2
      <3> QED BY ONLY <3>1, TypesAre
    <2>1. PICK i \in 1..Len(Types(args)) : t = Types(args)[i]
      BY <1>2, <2>0
    <2>2. ASSUME NEW s \in Range(servers), s \notin NoJson, Result(s, j, t).skipped = ""
          PROVE  Result(s, j, t).mem = Level(j, i) - Level(j, i - 1)
      <3>1. PICK k \in 1..Len(servers) : s = servers[k]
        <4>1. s \in {servers[k] : k \in DOMAIN servers}
          BY <2>2 DEF Range
        <4>2. DOMAIN servers = 1..Len(servers)
          BY ONLY ServersAre
        <4> QED BY <4>1, <4>2
      <3>2. Rises(k, j, i)
        BY <1>3 DEF EvenInv, RowsRise, Behind
      <3>3. Row(k, j, i) = Result(s, j, t)
        BY <2>1, <3>1 DEF Row, Result
      <3>4. Quiet(k, j, i)
        <4> SUFFICES ASSUME NEW h \in 1..i
                     PROVE  ~Row(k, j, h).disturbed /\ AllDifferent(Row(k, j, h), j, h)
          BY DEF Quiet
        <4>1. h \in 1..Len(Types(args))
          BY <2>0, EarlierOnes
        <4>2. HasRow(k, j, h)
          BY <1>3, <4>1 DEF RowInv, Complete, Behind
        <4> DEFINE y == <<servers[k], j, Types(args)[h]>>
        <4>3. y \in DOMAIN results /\ Row(k, j, h) = results[y]
          BY <4>2 DEF HasRow, Row
        <4>4. ~results[y].disturbed
          BY <4>3 DEF AllEven
        <4>5. ASSUME results[y].skipped = ""
              PROVE  results[y].members = ConfigsAt(j)[Types(args)[h]].num_fields
          <5>1. /\ Types(args)[h] \in Range(Types(args)) /\ Types(args)[h] \in Range(Order)
            BY ONLY <1>2, args \in Args, <4>1, TypeIs
          <5>2. PICK F \in Nat : F = ConfigsAt(j)[Types(args)[h]].num_fields
            BY <1>2, <1>3, <5>1, ConfigFields
          <5>3. PICK n \in Nat : n = results[y].members
            <6>1. PICK e \in AllServers, l \in 1..Len(sequence), u \in Range(Types(args)) :
                    y = <<e, l, u>> /\ Tells(results[y], u, args, ConfigsAt(l)[u])
              BY <4>3, <4>5 DEF MemInv, Recorded
            <6>2. l = j /\ u = Types(args)[h]
              BY <6>1
            <6> QED BY <5>2, <6>1, <6>2, MembersAre DEF Tells
          <5>4. F - n = 0
            BY <4>3, <4>5, <5>2, <5>3 DEF AllEven, Repeated
          <5>5. n = F
            BY ONLY <5>2, <5>3, <5>4, F \in Nat, n \in Nat, NoneLeft
          <5> QED BY ONLY <5>2, <5>3, <5>5
        <4> QED BY <4>3, <4>4, <4>5 DEF AllDifferent
      <3> QED BY <2>2, <3>1, <3>2, <3>3, <3>4 DEF Rises
    <2> QED BY <1>7, <2>2
  <1> QED BY <1>5, <1>6, <1>7

\* The totals over the rows that neither server skipped.
LEMMA SameTotal ==
  ASSUME MemInv, RowInv, EvenInv, phase = "report", AllEven,
         NEW a \in Range(servers), NEW b \in Range(servers), NEW j \in DOMAIN sequence
  PROVE  total(a, b, j) = total(b, a, j)
  <1> DEFINE S == compared(a, b, j)
             first(s) == CHOOSE x \in s : TRUE
             A(g) == [s \in SUBSET S |-> IF s = {} THEN 0
                                         ELSE Result(a, j, first(s)).mem + g[s \ {first(s)}]]
             B(g) == [s \in SUBSET S |-> IF s = {} THEN 0
                                         ELSE Result(b, j, first(s)).mem + g[s \ {first(s)}]]
  <1>1. compared(b, a, j) = S
    BY DEF compared
  <1>2. total(a, b, j) = (CHOOSE g : g = A(g))[S]
    BY DEF total, MapThenSumSet, MapThenFoldSet
  <1>3. total(b, a, j) = (CHOOSE g : g = B(g))[S]
    <2>1. total(b, a, j) = MapThenSumSet(LAMBDA t : Result(b, j, t).mem, S)
      BY <1>1 DEF total
    <2> QED BY <2>1 DEF MapThenSumSet, MapThenFoldSet
  <1>4. \A t \in S : Result(a, j, t).mem = Result(b, j, t).mem
    BY SameMemory DEF compared
  <1>5. \A s \in SUBSET S : s # {} => first(s) \in S
    OBVIOUS
  <1>6. \A g : A(g) = B(g)
    <2> HIDE DEF S, first
    <2> QED BY <1>4, <1>5
  <1>7. (CHOOSE g : g = A(g)) = (CHOOSE g : g = B(g))
    <2> HIDE DEF A, B
    <2> QED BY <1>6, Zenon
  <1> HIDE DEF A, B, S
  <1> QED BY <1>2, <1>3, <1>7

\* memory_benchmark.py, print_comparison and the savings trend: between two servers
\* that hold the same keys in the same memory, members drawn at random among
\* them where none was drawn twice, every ratio is one, in the rows and in the
\* totals, whatever either of them skipped, also where two rows share their
\* names and where one server takes documents and the other does not.
THEOREM EvenServersCompareEven == Spec => []EvenServersComeOutEven
  <1>1. ASSUME MemInv, RowInv, EvenInv PROVE EvenServersComeOutEven
    <2> SUFFICES ASSUME phase = "report", AllEven,
                        NEW a \in Range(servers), NEW b \in Range(servers),
                        NEW j \in DOMAIN sequence
                 PROVE  /\ TotalRatio(a, b, j)[1] = TotalRatio(a, b, j)[2]
                        /\ \A t \in Range(types) : ratio(a, b, j, t)[1] = ratio(a, b, j, t)[2]
      BY DEF EvenServersComeOutEven, AllEven
    <2>1. \A p : <<p, p>>[1] = <<p, p>>[2]
      OBVIOUS
    <2>2. TotalRatio(a, b, j) = None \/ \E p : TotalRatio(a, b, j) = <<p, p>>
      BY <1>1, SameTotal DEF TotalRatio
    <2>3. ASSUME NEW t \in Range(types)
          PROVE  ratio(a, b, j, t) = None \/ \E p : ratio(a, b, j, t) = <<p, p>>
      BY <1>1, SameMemory DEF ratio, compared
    <2> QED BY <2>1, <2>2, <2>3 DEF None
  <1>2. Spec => [](MemInv /\ RowInv /\ EvenInv)
    BY MemInit, MemStep, RowInit, RowStep, EvenInit, EvenStep, PTL DEF Spec
  <1> QED BY <1>1, <1>2, PTL

==============================================================================
