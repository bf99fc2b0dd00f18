-------------------------- MODULE RuleSessionProofs --------------------------
(***************************************************************************)
(* One client's use of the store implements the abstract rule table, for   *)
(* every bucket count, set of rules, batch and query: the list of          *)
(* candidates is exactly the patterns that may match, every replica holds  *)
(* the same rules, and both lookup algorithms stop at the most specific    *)
(* eligible one.                                                           *)
(***************************************************************************)
EXTENDS RuleSession, SetLemmas

-----------------------------------------------------------------------------
(* Names and patterns *)

\* Labels as they are sent, and in lower case.
Texts == LabelTexts \cup {EmptyLabel}
LowerLabels == {Lower[l] : l \in Texts}

\* What normalize_fqdn returns without an error is a name of 1..MaxLabels
\* labels.
LEMMA NormalisedName ==
  ASSUME NEW raw \in RawNames, normalize_fqdn(raw) # InvalidFqdn
  PROVE  /\ normalize_fqdn(raw) \in Seq(LowerLabels)
         /\ Len(normalize_fqdn(raw)) \in 1..MaxLabels
<1> DEFINE labels == raw.labels
           kept == {i \in DOMAIN labels : labels[i] # EmptyLabel}
           s == StripTrailingDots(labels)
           name == [i \in DOMAIN s |-> Lower[s[i]]]
<1>1. labels \in Seq(LabelTexts) /\ Len(labels) \in Nat /\ DOMAIN labels = 1..Len(labels)
  BY DEF RawNames, Names
<1>2. s \in Seq(Texts) /\ Len(s) >= 1
  <2>1. CASE kept = {}
    <3>1. s = <<EmptyLabel>>
      BY <2>1 DEF StripTrailingDots
    <3>2. <<EmptyLabel>> \in Seq(Texts) /\ Len(<<EmptyLabel>>) = 1
      <4>1. EmptyLabel \in Texts
        BY DEF Texts
      <4> QED BY <4>1
    <3> HIDE DEF s
    <3> QED BY <3>1, <3>2
  <2>2. CASE kept # {}
    <3> DEFINE m == CHOOSE i \in kept : \A j \in kept : j <= i
    <3>1. \E i \in kept : \A j \in kept : j <= i
      <4>1. kept \subseteq 1..Len(labels)
        BY <1>1
      <4> HIDE DEF kept
      <4> QED BY <1>1, <4>1, <2>2, LastPosition
    <3>2. m \in 1..Len(labels)
      BY <3>1, <1>1
    <3>3. s = SubSeq(labels, 1, m)
      BY <2>2 DEF StripTrailingDots
    <3>4. SubSeq(labels, 1, m) \in Seq(LabelTexts) /\ Len(SubSeq(labels, 1, m)) = m
      <4> HIDE DEF m
      <4> QED BY <3>2, <1>1
    <3>5. s \in Seq(Texts)
      <4>1. LabelTexts \subseteq Texts
        BY DEF Texts
      <4> HIDE DEF m, s, labels, kept
      <4>2. SubSeq(labels, 1, m) \in Seq(Texts)
        BY <3>4, <4>1
      <4> QED BY <3>3, <4>2
    <3> HIDE DEF m, s
    <3> QED BY <3>2, <3>3, <3>4, <3>5
  <2> QED BY <2>1, <2>2
<1>3. name \in Seq(LowerLabels) /\ Len(name) = Len(s)
  <2> HIDE DEF s
  <2> QED BY <1>2 DEF LowerLabels
<1>4. normalize_fqdn(raw) = name /\ Len(name) <= MaxLabels
  <2>1. ~(Len(name) > MaxLabels)
    BY DEF normalize_fqdn, InvalidFqdn
  <2>2. Len(name) \in Nat /\ MaxLabels \in Nat
    <3> HIDE DEF name
    <3> QED BY <1>2, <1>3, MaxLabelsAssumption DEF GLOBAL_RANK
  <2>3. normalize_fqdn(raw) = name
    BY DEF normalize_fqdn
  <2> QED BY <2>1, <2>2, <2>3
<1> QED BY <1>2, <1>3, <1>4, MaxLabelsAssumption

-----------------------------------------------------------------------------
(* Candidate lists *)

\* A normalised name.
IsName(f) == f \in Seq(LowerLabels) /\ Len(f) \in 1..MaxLabels

\* The two modes of a query.
Modes == {SINGLE_LEVEL, MULTI_LEVEL}

\* A wildcard leaves open one label at least and all at most, unless the name
\* has just one.
LEMMA DeepestRange ==
  ASSUME NEW n \in Nat, n >= 1, NEW mode
  PROVE  /\ deepest(n, mode) \in 0..n-1
         /\ mode = MULTI_LEVEL => deepest(n, mode) = n - 1
         /\ n > 1 => deepest(n, mode) > 0
         /\ mode # MULTI_LEVEL => deepest(n, mode) < 2
<1>1. CASE mode = MULTI_LEVEL
  BY <1>1 DEF deepest
<1>2. CASE mode # MULTI_LEVEL /\ n = 1
  BY <1>2 DEF deepest
<1>3. CASE mode # MULTI_LEVEL /\ n > 1
  BY <1>3 DEF deepest
<1> QED BY <1>1, <1>2, <1>3

\* A candidate list has two entries to two more than the name has labels.
LEMMA ListLength ==
  ASSUME NEW f, IsName(f), NEW mode \in Modes
  PROVE  /\ DOMAIN field_candidates(f, mode) = 1..(deepest(Len(f), mode) + 2)
         /\ deepest(Len(f), mode) \in 0..Len(f)-1
         /\ mode = MULTI_LEVEL => deepest(Len(f), mode) = Len(f) - 1
         /\ Len(f) > 1 => deepest(Len(f), mode) > 0
         /\ mode # MULTI_LEVEL => deepest(Len(f), mode) < 2
<1>1. Len(f) \in Nat /\ Len(f) >= 1 /\ MULTI_LEVEL # SINGLE_LEVEL
  BY MaxLabelsAssumption DEF IsName, SINGLE_LEVEL, MULTI_LEVEL
<1>2. DOMAIN field_candidates(f, mode) = 1..(deepest(Len(f), mode) + 2)
  BY DEF field_candidates
<1>3. deepest(Len(f), mode) = IF mode = MULTI_LEVEL \/ Len(f) = 1 THEN Len(f) - 1 ELSE 1
  BY DEF deepest
<1> QED BY <1>1, <1>2, DeepestRange

\* The labels of a pattern, by its kind.
LEMMA PatternFields ==
  ASSUME NEW labels
  PROVE  /\ Exact(labels).kind = "exact" /\ Exact(labels).labels = labels
         /\ Wild(labels).kind = "wild" /\ Wild(labels).labels = labels
         /\ Star.kind = "star"
BY DEF Exact, Wild, Star

\* Every candidate covers the name it was generated for, is as specific as its
\* rank says, and needs the multi-level mode just when it is deep.
LEMMA CandidateCovers ==
  ASSUME NEW f, IsName(f), NEW mode \in Modes,
         NEW i \in DOMAIN field_candidates(f, mode),
         NEW c, c = field_candidates(f, mode)[i]
  PROVE  /\ Abstract!Covers(c.pattern, f)
         /\ Abstract!Specificity(c.pattern, f) = c.rank
         /\ Abstract!Deep(c.pattern, f) <=> c.needs_multi
         /\ c.needs_multi => mode = MULTI_LEVEL
         /\ c.pattern.kind = "exact" <=> i = 1
         /\ c.rank = 0 <=> i = 1
<1> DEFINE L == Len(f)
           last == deepest(L, mode) + 2
<1>1. L \in Nat /\ L >= 1 /\ L <= MaxLabels /\ MaxLabels <= 255 /\ MaxLabels \in Nat
  BY MaxLabelsAssumption DEF IsName, GLOBAL_RANK
<1>2. last \in Nat /\ i \in 1..last /\ last <= L + 1 /\ last >= 2
  BY ListLength, <1>1
<1>3. /\ c.rank = IF i = last THEN 255 ELSE i - 1
      /\ c.needs_multi <=> (2 < i /\ i < last)
      /\ c.pattern = CASE i = 1 -> Exact(f)
                       [] i = last -> Star
                       [] OTHER -> Wild(SubSeq(f, i, L))
  BY <1>2 DEF field_candidates, GLOBAL_RANK
<1>7. c.needs_multi => mode = MULTI_LEVEL
  <2>1. mode # MULTI_LEVEL => last < 4
    BY <1>1, ListLength
  <2> HIDE DEF last
  <2> QED BY <1>2, <1>3, <2>1
<1> HIDE DEF last, L
<1>4. CASE i = 1
  <2>1. c.pattern = Exact(f)
    BY <1>2, <1>3, <1>4
  <2>2. c.pattern.kind = "exact" /\ c.pattern.labels = f
    BY <2>1, PatternFields
  <2>3. c.rank = 0 /\ ~c.needs_multi
    BY <1>2, <1>3, <1>4
  <2> QED BY <1>4, <2>2, <2>3
          DEF Abstract!Covers, Abstract!Specificity, Abstract!Deep
<1>5. CASE i = last
  <2>1. c.pattern = Star
    BY <1>2, <1>3, <1>5
  <2>2. c.pattern.kind = "star"
    BY <2>1 DEF Star
  <2>3. c.rank = 255 /\ ~c.needs_multi /\ i # 1
    BY <1>2, <1>3, <1>5
  <2> QED BY <2>2, <2>3
          DEF Abstract!Covers, Abstract!Specificity, Abstract!Deep
<1>6. CASE 1 < i /\ i < last
  <2>1. c.pattern = Wild(SubSeq(f, i, L))
    BY <1>2, <1>3, <1>6
  <2>2. c.pattern.kind = "wild"
    BY <2>1, PatternFields
  <2>2a. c.pattern.labels = SubSeq(f, i, L)
    BY <2>1, PatternFields
  <2>3. Len(SubSeq(f, i, L)) = L - i + 1
    BY <1>1, <1>2, <1>6 DEF IsName, L
  <2>4. Abstract!Depth(c.pattern, f) = i - 1
    BY <1>1, <1>2, <2>2, <2>2a, <2>3 DEF Abstract!Depth, L
  <2>5. c.rank = i - 1 /\ c.rank # 0 /\ i # 1 /\ (c.needs_multi <=> 2 < i)
    BY <1>2, <1>3, <1>6
  <2>6. Abstract!Covers(c.pattern, f)
    <3>1. i - 1 + 1 = i /\ i - 1 >= 1
      BY <1>2, <1>6
    <3> QED BY <2>2, <2>2a, <2>4, <3>1 DEF Abstract!Covers, L
  <2>7. Abstract!Specificity(c.pattern, f) = c.rank
    BY <2>2, <2>4, <2>5 DEF Abstract!Specificity
  <2>8. Abstract!Deep(c.pattern, f) <=> 2 < i
    <3>1. i - 1 >= 2 <=> 2 < i
      BY <1>2
    <3> QED BY <2>2, <2>4, <3>1 DEF Abstract!Deep
  <2>9. c.pattern.kind # "exact"
    BY <2>2
  <2> QED BY <1>7, <2>5, <2>6, <2>7, <2>8, <2>9
<1> QED BY <1>2, <1>4, <1>5, <1>6, <1>7

\* Ranks grow along the list, so no pattern is listed twice.
LEMMA RanksGrow ==
  ASSUME NEW f, IsName(f), NEW mode \in Modes,
         NEW i \in DOMAIN field_candidates(f, mode),
         NEW j \in DOMAIN field_candidates(f, mode), i < j
  PROVE  field_candidates(f, mode)[i].rank < field_candidates(f, mode)[j].rank
<1> DEFINE last == deepest(Len(f), mode) + 2
<1>0. Len(f) \in Nat /\ Len(f) <= 255
  BY MaxLabelsAssumption DEF IsName, GLOBAL_RANK
<1>1. Len(f) \in Nat /\ Len(f) <= 255 /\ last \in Nat /\ last <= Len(f) + 1
  BY <1>0, ListLength
<1>2. i \in 1..last /\ j \in 1..last
  BY ListLength
<1>3. field_candidates(f, mode)[i].rank = i - 1
  BY <1>1, <1>2 DEF field_candidates
<1>4. field_candidates(f, mode)[j].rank = IF j = last THEN 255 ELSE j - 1
  BY <1>1, <1>2 DEF field_candidates, GLOBAL_RANK
<1> HIDE DEF last
<1> QED BY <1>1, <1>2, <1>3, <1>4

\* Ranks are naturals, so that they can be compared.
LEMMA RanksAreNat ==
  ASSUME NEW f, IsName(f), NEW mode \in Modes,
         NEW i \in DOMAIN field_candidates(f, mode)
  PROVE  field_candidates(f, mode)[i].rank \in Nat
<1>1. Len(f) \in Nat /\ i \in Nat /\ i >= 1
  BY ListLength DEF IsName
<1> QED BY <1>1 DEF field_candidates, GLOBAL_RANK

\* Conversely, a pattern that covers the name and is not too deep for the mode
\* is among the candidates.
LEMMA CoversIsCandidate ==
  ASSUME NEW f, IsName(f), NEW mode \in Modes, NEW p \in Patterns,
         Abstract!Covers(p, f), Abstract!Deep(p, f) => mode = MULTI_LEVEL
  PROVE  \E i \in DOMAIN field_candidates(f, mode) :
           field_candidates(f, mode)[i].pattern = p
<1> DEFINE L == Len(f)
           last == deepest(L, mode) + 2
<1>1. L \in Nat /\ L >= 1 /\ last \in Nat /\ last >= 2
  BY ListLength DEF IsName
<1>2. CASE p.kind = "exact"
  <2>1. p = Exact(f)
    BY <1>2 DEF Patterns, Star, Exact, Abstract!Covers
  <2>2. 1 \in DOMAIN field_candidates(f, mode) /\ field_candidates(f, mode)[1].pattern = Exact(f)
    BY <1>1, ListLength DEF field_candidates
  <2> QED BY <2>1, <2>2
<1>3. CASE p.kind = "star"
  <2>1. p = Star
    BY <1>3 DEF Patterns
  <2>2. /\ last \in DOMAIN field_candidates(f, mode)
        /\ field_candidates(f, mode)[last].pattern = Star
    BY <1>1, ListLength DEF field_candidates
  <2> QED BY <2>1, <2>2
<1>4. CASE p.kind = "wild"
  <2> DEFINE d == L - Len(p.labels)
  <2>1. p = Wild(p.labels) /\ Len(p.labels) \in Nat /\ Len(p.labels) >= 1
    BY <1>4 DEF Patterns, Star, Wild, Names
  <2>2. d \in Nat /\ d >= 1 /\ SubSeq(f, d + 1, L) = p.labels
    <3>1. Abstract!Depth(p, f) = d
      BY <1>4 DEF Abstract!Depth
    <3>2. d \in Int /\ d >= 1 /\ SubSeq(f, d + 1, L) = p.labels
      <4>1. /\ Abstract!Depth(p, f) >= 1
            /\ SubSeq(f, Abstract!Depth(p, f) + 1, L) = p.labels
        BY <1>4 DEF Abstract!Covers
      <4>2. d \in Int
        BY <1>1, <2>1
      <4> HIDE DEF d, L
      <4> QED BY <3>1, <4>1, <4>2
    <3> HIDE DEF d
    <3> QED BY <3>2
  <2>3. d >= 2 => mode = MULTI_LEVEL
    BY <1>4 DEF Abstract!Deep, Abstract!Depth
  <2>4. d + 1 \in 1..last /\ d + 1 # 1 /\ d + 1 # last
    <3>1. d <= L - 1
      BY <1>1, <2>1
    <3> HIDE DEF d
    <3> QED BY <1>1, <2>2, <2>3, <3>1, ListLength
  <2>5. d + 1 \in DOMAIN field_candidates(f, mode)
    BY <2>4, ListLength
  <2>6. field_candidates(f, mode)[d + 1].pattern = Wild(SubSeq(f, d + 1, L))
    <3> HIDE DEF d
    <3> QED BY <2>4, ListLength DEF field_candidates
  <2> QED BY <2>1, <2>2, <2>5, <2>6
<1> QED BY <1>2, <1>3, <1>4 DEF Patterns, Star

-----------------------------------------------------------------------------
(* Keys, and the fields a rule is written to *)

\* Rules without their value, and the fields of one.
Triples == Patterns \X Int \X Patterns

CellsOf(n, t) == cells(n, t[1], t[2], t[3])

\* A field names the pattern, the port and the other pattern of its rule, so
\* two rules share no field.
LEMMA CellTriple ==
  ASSUME NEW n, NEW p, NEW port, NEW f2, NEW x \in cells(n, p, port, f2)
  PROVE  TripleOf(x) = <<p, port, f2>>
<1>1. PICK i \in DOMAIN keys_for_pattern(n, p, port) :
           x = <<keys_for_pattern(n, p, port)[i], f2>>
  BY DEF cells
<1>2. \E tag, b : x[1] = key(n, tag, b, p, port)
  BY <1>1 DEF keys_for_pattern
<1>3. PICK tag, b : x[1] = key(n, tag, b, p, port)
  BY <1>2
<1>4. x[2] = f2
  BY <1>1
<1>5. CASE x[1] = <<Token[n][b], tag, b, p, port>>
  <2>1. x[1][Len(x[1]) - 1] = p /\ x[1][Len(x[1])] = port
    BY <1>5
  <2> QED BY <1>4, <2>1 DEF TripleOf
<1>6. CASE x[1] = <<tag, p, port>>
  <2>1. x[1][Len(x[1]) - 1] = p /\ x[1][Len(x[1])] = port
    BY <1>6
  <2> QED BY <1>4, <2>1 DEF TripleOf
<1> QED BY <1>3, <1>5, <1>6 DEF key

\* Whatever replica a query hashes to, the key it reads is one the rule was
\* written under.
LEMMA EveryBucketIsWritten ==
  ASSUME NEW n \in Nat \ {0}, NEW b \in 0..n-1, NEW p, NEW port, NEW f2
  PROVE  <<key(n, hash_tag(p), b, p, port), f2>> \in cells(n, p, port, f2)
<1> DEFINE tag == hash_tag(p)
           keys == keys_for_pattern(n, p, port)
<1>1. CASE is_bucketed_tag(tag) /\ n > 1
  <2>1. keys = [i \in 1..n |-> key(n, tag, i - 1, p, port)]
    BY <1>1 DEF keys_for_pattern
  <2>2. b + 1 \in DOMAIN keys /\ keys[b + 1] = key(n, tag, b, p, port)
    <3>1. b + 1 \in 1..n /\ (b + 1) - 1 = b
      OBVIOUS
    <3> HIDE DEF keys
    <3> QED BY <2>1, <3>1
  <2> HIDE DEF keys
  <2> QED BY <2>2 DEF cells, keys
<1>2. CASE ~(is_bucketed_tag(tag) /\ n > 1)
  <2>1. keys = <<key(n, tag, 0, p, port)>>
    BY <1>2 DEF keys_for_pattern
  <2>2. key(n, tag, 0, p, port) = key(n, tag, b, p, port)
    BY <1>2 DEF key
  <2>3. 1 \in DOMAIN keys /\ keys[1] = key(n, tag, b, p, port)
    BY <2>1, <2>2
  <2> HIDE DEF keys
  <2> QED BY <2>3 DEF cells, keys
<1> QED BY <1>1, <1>2

\* The first replica, from which the abstract table is read, is one of them.
LEMMA FirstReplicaIsWritten ==
  ASSUME NEW n \in Nat \ {0}, NEW p, NEW port, NEW f2
  PROVE  <<keys_for_pattern(n, p, port)[1], f2>> \in cells(n, p, port, f2)
<1> DEFINE tag == hash_tag(p)
           keys == keys_for_pattern(n, p, port)
<1>1. 1 \in DOMAIN keys
  <2>1. CASE is_bucketed_tag(tag) /\ n > 1
    BY <2>1 DEF keys_for_pattern
  <2>2. CASE ~(is_bucketed_tag(tag) /\ n > 1)
    BY <2>2 DEF keys_for_pattern
  <2> QED BY <2>1, <2>2
<1> QED BY <1>1 DEF cells

-----------------------------------------------------------------------------
(* The invariant: the fields of the data base are the replicas of rules *)

\* Every field belongs to the rule it names, and the rule has all its
\* replicas, with one value.
Replicated(d, n) ==
  /\ n \in Nat \ {0}
  /\ \A x \in DOMAIN d :
       /\ TripleOf(x) \in Triples
       /\ x \in CellsOf(n, TripleOf(x))
       /\ CellsOf(n, TripleOf(x)) \subseteq DOMAIN d
       /\ \A y \in CellsOf(n, TripleOf(x)) : d[y] = d[x]
       /\ d[x].scope \in {"S", "M", "B"}

\* Under it, any field of a rule tells whether the abstract table has the rule,
\* and its value.
LEMMA FieldTells ==
  ASSUME NEW d, NEW n, Replicated(d, n),
         NEW t, t = <<t[1], t[2], t[3]>>, NEW y \in CellsOf(n, t)
  PROVE  /\ y \in DOMAIN d <=> t \in DOMAIN TableOf(d, n)
         /\ y \in DOMAIN d => TableOf(d, n)[t] = d[y]
         /\ y \in DOMAIN d => d[y].scope \in {"S", "M", "B"}
<1> DEFINE R == {TripleOf(x) : x \in DOMAIN d}
<1>1. TripleOf(y) = t
  BY CellTriple DEF CellsOf
<1>2. DOMAIN TableOf(d, n) = R
  BY DEF TableOf
<1>3. ASSUME y \in DOMAIN d PROVE t \in R
  BY <1>1, <1>3
<1>4. ASSUME t \in R PROVE y \in DOMAIN d
  <2>1. PICK x \in DOMAIN d : t = TripleOf(x)
    BY <1>4
  <2> QED BY <2>1 DEF Replicated
<1>5. ASSUME y \in DOMAIN d PROVE TableOf(d, n)[t] = d[y]
  <2> DEFINE x == <<keys_for_pattern(n, t[1], t[2])[1], t[3]>>
  <2>1. x \in CellsOf(n, t)
    BY FirstReplicaIsWritten DEF CellsOf, Replicated
  <2>2. x \in DOMAIN d /\ d[x] = d[y]
    BY <1>1, <1>5, <2>1 DEF Replicated
  <2>3. TableOf(d, n)[t] = hget(d, keys_for_pattern(n, t[1], t[2])[1], t[3])
    BY <1>3, <1>5 DEF TableOf
  <2> QED BY <2>2, <2>3 DEF hget
<1> QED BY <1>2, <1>3, <1>4, <1>5 DEF Replicated

\* A rule is in the table just when it has a field.
LEMMA TableDomain ==
  ASSUME NEW d, NEW n, Replicated(d, n)
  PROVE  /\ DOMAIN TableOf(d, n) \subseteq Triples
         /\ \A t \in Triples : t \in DOMAIN TableOf(d, n) <=> CellsOf(n, t) \cap DOMAIN d # {}
<1>1. DOMAIN TableOf(d, n) = {TripleOf(x) : x \in DOMAIN d}
  BY DEF TableOf
<1>2. ASSUME NEW x \in DOMAIN d
      PROVE  TripleOf(x) \in Triples /\ x \in CellsOf(n, TripleOf(x)) \cap DOMAIN d
  BY DEF Replicated
<1>3. ASSUME NEW t \in Triples, NEW x \in CellsOf(n, t) \cap DOMAIN d
      PROVE  t = TripleOf(x)
  BY CellTriple DEF CellsOf, Triples
<1> QED BY <1>1, <1>2, <1>3

\* The table is a function on the rules that have a field.
LEMMA TableIsFunction ==
  ASSUME NEW d, NEW n
  PROVE  TableOf(d, n) = [t \in DOMAIN TableOf(d, n) |-> TableOf(d, n)[t]]
BY DEF TableOf

\* A rule of the table was read off some field.
LEMMA EveryRuleHasAField ==
  ASSUME NEW n \in Nat \ {0}, NEW t \in Triples
  PROVE  \E y : y \in CellsOf(n, t)
BY FirstReplicaIsWritten DEF CellsOf

\* Two tables are equal that have the same rules with the same values.
LEMMA SameTable ==
  ASSUME NEW d, NEW n, Replicated(d, n), NEW D, NEW f,
         f = [t \in D |-> f[t]], D \subseteq Triples,
         \A t \in Triples : \A y \in CellsOf(n, t) :
           /\ y \in DOMAIN d <=> t \in D
           /\ y \in DOMAIN d => d[y] = f[t]
  PROVE  TableOf(d, n) = f
<1>1. ASSUME NEW t \in Triples
      PROVE  (t \in DOMAIN TableOf(d, n) <=> t \in D) /\ (t \in D => TableOf(d, n)[t] = f[t])
  <2>1. PICK y : y \in CellsOf(n, t)
    BY EveryRuleHasAField DEF Replicated
  <2>2. t = <<t[1], t[2], t[3]>>
    BY DEF Triples
  <2> QED BY <2>1, <2>2, FieldTells
<1>2. DOMAIN TableOf(d, n) = D
  <2>1. DOMAIN TableOf(d, n) \subseteq Triples
    BY TableDomain
  <2> QED BY <1>1, <2>1
<1> QED BY <1>1, <1>2, TableIsFunction

-----------------------------------------------------------------------------
(* Writing *)

\* A load leaves every rule with all its replicas, and does to the table what
\* the abstract load does: of the rules of the batch with one triple the last
\* stays.
LEMMA LoadRefines ==
  ASSUME NEW d, NEW n, Replicated(d, n), NEW batch \in Seq(RuleRecords)
  PROVE  /\ Replicated(hset_all(d, n, batch), n)
         /\ TableOf(hset_all(d, n, batch), n) = Abstract!SetAll(TableOf(d, n), batch)
<1> DEFINE I == DOMAIN batch
           T(i) == Abstract!Triple(batch[i])
           C(i) == cells(n, batch[i].fqdn1, batch[i].port, batch[i].fqdn2)
           W(x) == {i \in I : x \in C(i)}
           V(i) == [scope |-> batch[i].scope, id |-> batch[i].id]
           U == UNION {C(i) : i \in I}
           e == hset_all(d, n, batch)
           A(t) == {i \in I : T(i) = t}
           old == TableOf(d, n)
           new == Abstract!SetAll(old, batch)
<1>1. I = 1..Len(batch) /\ Len(batch) \in Nat /\ \A i \in I : batch[i] \in RuleRecords
  OBVIOUS
<1>2. \A i \in I : T(i) \in Triples /\ C(i) = CellsOf(n, T(i)) /\ V(i).scope \in {"S", "M", "B"}
  BY <1>1 DEF RuleRecords, Triples, CellsOf, Abstract!Triple
<1>3. DOMAIN e = DOMAIN d \cup U /\ \A x \in DOMAIN e : e[x] = IF x \in U THEN V(Max(W(x))) ELSE d[x]
  BY DEF hset_all
<1>4. /\ DOMAIN new = DOMAIN old \cup {T(i) : i \in I}
      /\ \A t \in DOMAIN new : new[t] = IF A(t) = {} THEN old[t] ELSE V(Abstract!Max(A(t)))
      /\ new = [t \in DOMAIN new |-> new[t]]
  BY DEF Abstract!SetAll, Abstract!Value
<1>5. ASSUME NEW t \in Triples, NEW x \in CellsOf(n, t)
      PROVE  /\ TripleOf(x) = t
             /\ W(x) = A(t)
             /\ x \in U <=> A(t) # {}
  <2>1. TripleOf(x) = t
    BY CellTriple DEF CellsOf, Triples
  <2>2. ASSUME NEW i \in I PROVE x \in C(i) <=> T(i) = t
    <3>1. ASSUME x \in C(i) PROVE T(i) = t
      BY <2>1, <3>1, CellTriple DEF Abstract!Triple
    <3>2. ASSUME T(i) = t PROVE x \in C(i)
      BY <3>2, <1>2
    <3> QED BY <3>1, <3>2
  <2> HIDE DEF C, T
  <2> QED BY <2>1, <2>2
<1>6. ASSUME NEW t, A(t) # {} PROVE Max(A(t)) = Abstract!Max(A(t)) /\ Max(A(t)) \in A(t)
  <2> DEFINE S == A(t)
  <2>1. S \subseteq 1..Len(batch) /\ S # {}
    BY <1>1, <1>6
  <2> HIDE DEF S
  <2>2. Max(S) \in S /\ \A j \in S : j <= Max(S)
    BY <1>1, <2>1, MaxPosition
  <2>3. Abstract!Max(S) \in S /\ \A j \in S : j <= Abstract!Max(S)
    <3>1. \E i \in S : \A j \in S : i >= j
      BY <1>1, <2>1, LastPosition
    <3> QED BY <3>1, <1>1, <2>1 DEF Abstract!Max
  <2>4. Max(S) = Abstract!Max(S)
    <3>1. Max(S) \in Int /\ Abstract!Max(S) \in Int
      <4>1. S \subseteq Int
        BY <1>1, <2>1
      <4> QED BY <2>2, <2>3, <4>1
    <3> QED BY <2>2, <2>3, <3>1
  <2> QED BY <2>2, <2>4 DEF S
<1>7. ASSUME NEW t \in Triples, NEW x \in CellsOf(n, t)
      PROVE  /\ x \in DOMAIN e <=> t \in DOMAIN new
             /\ x \in DOMAIN e => e[x] = new[t] /\ e[x].scope \in {"S", "M", "B"}
  <2>1. t \in DOMAIN new <=> t \in DOMAIN old \/ A(t) # {}
    BY <1>4
  <2>2. x \in DOMAIN e <=> x \in DOMAIN d \/ A(t) # {}
    BY <1>3, <1>5
  <2>3. /\ x \in DOMAIN d <=> t \in DOMAIN old
        /\ x \in DOMAIN d => old[t] = d[x] /\ d[x].scope \in {"S", "M", "B"}
    BY FieldTells, t = <<t[1], t[2], t[3]>> DEF Triples
  <2>4. CASE A(t) # {}
    <3>0. W(x) = A(t) /\ x \in U /\ x \in DOMAIN e /\ t \in DOMAIN new
      BY <1>5, <2>1, <2>2, <2>4
    <3>1. e[x] = V(Max(A(t))) /\ new[t] = V(Abstract!Max(A(t)))
      <4> HIDE DEF W, A, V, U, e, new
      <4> QED BY <3>0, <2>4, <1>3, <1>4
    <3>2. Max(A(t)) \in I /\ Max(A(t)) = Abstract!Max(A(t))
      BY <2>4, <1>6
    <3>3. V(Max(A(t))).scope \in {"S", "M", "B"}
      BY <3>2, <1>2
    <3> HIDE DEF A, V, e, new, old
    <3> QED BY <2>1, <2>2, <2>3, <2>4, <3>1, <3>2, <3>3
  <2>5. CASE A(t) = {}
    <3>1. x \in DOMAIN e => e[x] = d[x] /\ new[t] = old[t]
      BY <2>1, <2>2, <2>3, <2>5, <1>3, <1>4, <1>5
    <3> HIDE DEF A, e, new, old
    <3> QED BY <2>1, <2>2, <2>3, <2>5, <3>1
  <2> QED BY <2>4, <2>5
<1>8. ASSUME NEW x \in DOMAIN e
      PROVE  TripleOf(x) \in Triples /\ x \in CellsOf(n, TripleOf(x))
  <2>1. CASE x \in DOMAIN d
    BY <2>1 DEF Replicated
  <2>2. CASE x \in U
    <3>1. PICK i \in I : x \in C(i)
      BY <2>2
    <3> QED BY <3>1, <1>2, <1>5
  <2> QED BY <1>3, <2>1, <2>2
<1>9. Replicated(e, n)
  <2> HIDE DEF e, new
  <2>1. ASSUME NEW x \in DOMAIN e, NEW y \in CellsOf(n, TripleOf(x))
        PROVE  y \in DOMAIN e /\ e[y] = e[x]
    BY <1>7, <1>8
  <2> QED BY <1>7, <1>8, <2>1 DEF Replicated
<1>10. TableOf(e, n) = new
  <2>1. DOMAIN new \subseteq Triples
    <3>1. DOMAIN old \subseteq Triples
      BY TableDomain
    <3>2. {T(i) : i \in I} \subseteq Triples
      BY <1>2
    <3> HIDE DEF new, T, old
    <3> QED BY <1>4, <3>1, <3>2
  <2> HIDE DEF e, new
  <2> QED BY <1>4, <1>7, <1>9, <2>1, SameTable
<1> QED BY <1>9, <1>10

\* A delete takes every replica of the one rule, and tells whether the table
\* had it.
LEMMA DeleteRefines ==
  ASSUME NEW d, NEW n, Replicated(d, n), NEW t \in Triples
  PROVE  LET e == [x \in DOMAIN d \ CellsOf(n, t) |-> d[x]]
         IN  /\ Replicated(e, n)
             /\ TableOf(e, n) = [u \in DOMAIN TableOf(d, n) \ {t} |-> TableOf(d, n)[u]]
             /\ CellsOf(n, t) \cap DOMAIN d # {} <=> t \in DOMAIN TableOf(d, n)
<1> DEFINE e == [x \in DOMAIN d \ CellsOf(n, t) |-> d[x]]
           old == TableOf(d, n)
           new == [u \in DOMAIN old \ {t} |-> old[u]]
<1>1. ASSUME NEW u \in Triples, NEW x \in CellsOf(n, u)
      PROVE  TripleOf(x) = u /\ (x \in CellsOf(n, t) <=> u = t)
  BY CellTriple DEF CellsOf, Triples
<1>2. ASSUME NEW u \in Triples, NEW x \in CellsOf(n, u)
      PROVE  /\ x \in DOMAIN e <=> u \in DOMAIN new
             /\ x \in DOMAIN e => e[x] = new[u] /\ e[x].scope \in {"S", "M", "B"}
  <2>1. /\ x \in DOMAIN d <=> u \in DOMAIN old
        /\ x \in DOMAIN d => old[u] = d[x] /\ d[x].scope \in {"S", "M", "B"}
    BY FieldTells, u = <<u[1], u[2], u[3]>> DEF Triples
  <2> HIDE DEF old
  <2> QED BY <1>1, <2>1
<1>3. ASSUME NEW x \in DOMAIN e
      PROVE  TripleOf(x) \in Triples /\ x \in CellsOf(n, TripleOf(x))
  BY DEF Replicated
<1>4. Replicated(e, n)
  <2> HIDE DEF e, new
  <2>1. ASSUME NEW x \in DOMAIN e, NEW y \in CellsOf(n, TripleOf(x))
        PROVE  y \in DOMAIN e /\ e[y] = e[x]
    BY <1>2, <1>3
  <2> QED BY <1>2, <1>3, <2>1 DEF Replicated
<1>5. TableOf(e, n) = new
  <2>1. DOMAIN new \subseteq Triples /\ DOMAIN new = DOMAIN old \ {t}
    <3>1. DOMAIN old \subseteq Triples
      BY TableDomain
    <3> HIDE DEF old
    <3> QED BY <3>1
  <2>2. new = [u \in DOMAIN new |-> new[u]]
    OBVIOUS
  <2> HIDE DEF e, new
  <2> QED BY <1>2, <1>4, <2>1, <2>2, SameTable
<1>6. CellsOf(n, t) \cap DOMAIN d # {} <=> t \in DOMAIN TableOf(d, n)
  BY TableDomain
<1> QED BY <1>4, <1>5, <1>6

-----------------------------------------------------------------------------
(* Looking up *)

\* The nested loop of a lookup that finds something has a first hit.
LEMMA FirstHitIsFirst ==
  ASSUME NEW m \in Nat, NEW k \in Nat, NEW H, H \subseteq (1..m) \X (1..k), H # {}
  PROVE  FirstHit(H) \in H /\ \A q \in H : Before(FirstHit(H), q)
<1> DEFINE Rows == {p[1] : p \in H}
<1>1. Rows \subseteq Nat /\ Rows # {}
  OBVIOUS
<1>2. PICK r \in Rows : \A s \in Rows : r <= s
  <2> HIDE DEF Rows
  <2> QED BY <1>1, LeastNat
<1> DEFINE Columns == {p[2] : p \in {h \in H : h[1] = r}}
<1>3. Columns \subseteq Nat /\ Columns # {}
  OBVIOUS
<1>4. PICK c \in Columns : \A s \in Columns : c <= s
  <2> HIDE DEF Columns
  <2> QED BY <1>3, LeastNat
<1>5. PICK p \in H : p[1] = r /\ p[2] = c
  OBVIOUS
<1>6. ASSUME NEW q \in H PROVE Before(p, q)
  <2>1. r <= q[1]
    BY <1>2
  <2>2. q[1] = r => c <= q[2]
    BY <1>4
  <2>3. r \in Nat /\ q[1] \in Nat
    BY <1>1
  <2> QED BY <1>5, <2>1, <2>2, <2>3 DEF Before
<1> QED BY <1>6 DEF FirstHit

\* There is only one.
LEMMA FirstHitIsUnique ==
  ASSUME NEW m \in Nat, NEW k \in Nat, NEW H, H \subseteq (1..m) \X (1..k),
         NEW p \in H, \A q \in H : Before(p, q)
  PROVE  FirstHit(H) = p
<1>1. FirstHit(H) \in H /\ \A q \in H : Before(FirstHit(H), q)
  BY FirstHitIsFirst
<1> DEFINE h == FirstHit(H)
<1>2. p[1] \in Nat /\ p[2] \in Nat /\ h[1] \in Nat /\ h[2] \in Nat
  BY <1>1
<1>3. Before(p, h) /\ Before(h, p)
  BY <1>1
<1>4. p[1] = h[1] /\ p[2] = h[2]
  BY <1>2, <1>3 DEF Before
<1> QED BY <1>1, <1>4

\* The scope filter of the lookups is the eligibility of the abstract table.
LEMMA ScopeFilter ==
  ASSUME NEW exact \in BOOLEAN, NEW deep \in BOOLEAN, NEW scope \in {"S", "M", "B"}
  PROVE  ~blocked(exact, deep, scope)
         <=> exact \/ scope = "B" \/ scope = (IF deep THEN "M" ELSE "S")
BY DEF blocked

\* The question a query asks once its names are normalised and accepted.
IsQuestion(q) ==
  /\ IsName(q.fqdn1) /\ IsName(q.fqdn2)
  /\ q.mode \in Modes
  /\ q.port \in Int
  /\ q.answerable

\* The hits of a lookup, by their positions in the two candidate lists.
AllHits(d, n, q) ==
  LET a == candidates(q.fqdn1, q.mode, n)
      b == field_candidates(q.fqdn2, q.mode)
  IN  {p \in (DOMAIN a) \X (DOMAIN b) :
         LET v == found(d, n, a[p[1]], q.port, b[p[2]])
         IN  /\ v # NoRule
             /\ ~blocked(p[1] = 1 /\ p[2] = 1,
                         a[p[1]].needs_multi \/ b[p[2]].needs_multi, v.scope)}

\* The rule a pair of candidates stands for.
RuleAt(n, q, p) ==
  <<candidates(q.fqdn1, q.mode, n)[p[1]].pattern, q.port,
    field_candidates(q.fqdn2, q.mode)[p[2]].pattern>>

\* The two candidate lists of a question differ in what they add, not in their
\* patterns and ranks.
LEMMA CandidateFields ==
  ASSUME NEW f, NEW mode, NEW n
  PROVE  /\ DOMAIN candidates(f, mode, n) = DOMAIN field_candidates(f, mode)
         /\ \A i \in DOMAIN field_candidates(f, mode) :
              LET a == candidates(f, mode, n)[i]
                  b == field_candidates(f, mode)[i]
              IN  /\ a.pattern = b.pattern /\ a.rank = b.rank
                  /\ a.needs_multi = b.needs_multi
                  /\ a.tag = hash_tag(b.pattern)
                  /\ a.bucket_index = bucket_index_of(f, n)
BY DEF candidates, candidate

\* The pair of candidates at two positions stands for a rule.
LEMMA CandidatePatterns ==
  ASSUME NEW f, IsName(f), NEW mode \in Modes, NEW i \in DOMAIN field_candidates(f, mode)
  PROVE  /\ field_candidates(f, mode)[i].pattern.kind \in {"exact", "wild", "star"}
         /\ field_candidates(f, mode)[i].needs_multi \in BOOLEAN
BY PatternFields DEF field_candidates

\* What a lookup finds at a pair of candidates is what the table holds for
\* their rule, at whatever replica the query hashes to.
LEMMA FoundInTable ==
  ASSUME NEW d, NEW n, Replicated(d, n), NEW q, IsQuestion(q),
         bucket_index_of(q.fqdn1, n) \in 0..n-1,
         NEW i \in DOMAIN field_candidates(q.fqdn1, q.mode),
         NEW j \in DOMAIN field_candidates(q.fqdn2, q.mode),
         NEW v, v = found(d, n, candidates(q.fqdn1, q.mode, n)[i], q.port,
                          field_candidates(q.fqdn2, q.mode)[j]),
         NEW t, t = RuleAt(n, q, <<i, j>>)
  PROVE  /\ v # NoRule <=> t \in DOMAIN TableOf(d, n)
         /\ v # NoRule => TableOf(d, n)[t] = v
         /\ v # NoRule => v.scope \in {"S", "M", "B"}
<1> DEFINE a == candidates(q.fqdn1, q.mode, n)[i]
           b == field_candidates(q.fqdn2, q.mode)[j]
           y == <<key(n, a.tag, a.bucket_index, a.pattern, q.port), b.pattern>>
<1>1. a.tag = hash_tag(a.pattern) /\ a.bucket_index \in 0..n-1
  BY CandidateFields
<1>2. t = <<a.pattern, q.port, b.pattern>>
  BY DEF RuleAt
<1>3. y \in CellsOf(n, t)
  <2>1. n \in Nat \ {0}
    BY DEF Replicated
  <2>2. t[1] = a.pattern /\ t[2] = q.port /\ t[3] = b.pattern
    BY <1>2
  <2> HIDE DEF a, b
  <2> QED BY <1>1, <2>1, <2>2, EveryBucketIsWritten DEF CellsOf
<1>4. v = IF y \in DOMAIN d THEN d[y] ELSE NoRule
  BY DEF found, hget
<1>5. /\ y \in DOMAIN d <=> t \in DOMAIN TableOf(d, n)
      /\ y \in DOMAIN d => TableOf(d, n)[t] = d[y]
      /\ y \in DOMAIN d => d[y].scope \in {"S", "M", "B"}
  <2>1. t = <<t[1], t[2], t[3]>>
    BY <1>2
  <2> HIDE DEF y
  <2> QED BY <1>3, <2>1, FieldTells
<1>6. NoRule.scope \notin {"S", "M", "B"}
  BY DEF NoRule
<1> HIDE DEF y
<1> QED BY <1>4, <1>5, <1>6

\* A pair of candidates is a hit just when its rule is eligible.
LEMMA HitIsEligible ==
  ASSUME NEW d, NEW n, Replicated(d, n), NEW q, IsQuestion(q),
         bucket_index_of(q.fqdn1, n) \in 0..n-1,
         NEW i \in DOMAIN field_candidates(q.fqdn1, q.mode),
         NEW j \in DOMAIN field_candidates(q.fqdn2, q.mode)
  PROVE  <<i, j>> \in AllHits(d, n, q)
         <=> RuleAt(n, q, <<i, j>>) \in Abstract!Eligible(TableOf(d, n), q)
<1> DEFINE a == candidates(q.fqdn1, q.mode, n)[i]
           b == field_candidates(q.fqdn2, q.mode)[j]
           v == found(d, n, a, q.port, b)
           t == RuleAt(n, q, <<i, j>>)
           T == TableOf(d, n)
           deep == Abstract!Deep(t[1], q.fqdn1) \/ Abstract!Deep(t[3], q.fqdn2)
           exact == i = 1 /\ j = 1
<1>0. IsName(q.fqdn1) /\ IsName(q.fqdn2) /\ q.mode \in Modes
  BY DEF IsQuestion
<1>1. t[1] = a.pattern /\ t[2] = q.port /\ t[3] = b.pattern
  BY DEF RuleAt
<1>2. /\ v # NoRule <=> t \in DOMAIN T
      /\ v # NoRule => T[t] = v
      /\ v # NoRule => v.scope \in {"S", "M", "B"}
  BY FoundInTable
<1>3. /\ Abstract!Covers(t[1], q.fqdn1)
      /\ Abstract!Deep(t[1], q.fqdn1) <=> a.needs_multi
      /\ a.needs_multi => q.mode = MULTI_LEVEL
      /\ t[1].kind = "exact" <=> i = 1
      /\ a.needs_multi \in BOOLEAN
  BY <1>0, <1>1, CandidateFields, CandidateCovers, CandidatePatterns
<1>4. /\ Abstract!Covers(t[3], q.fqdn2)
      /\ Abstract!Deep(t[3], q.fqdn2) <=> b.needs_multi
      /\ b.needs_multi => q.mode = MULTI_LEVEL
      /\ t[3].kind = "exact" <=> j = 1
      /\ b.needs_multi \in BOOLEAN
  BY <1>0, <1>1, CandidateCovers, CandidatePatterns
<1>5. <<i, j>> \in AllHits(d, n, q)
      <=> v # NoRule /\ ~blocked(exact, a.needs_multi \/ b.needs_multi, v.scope)
  BY CandidateFields DEF AllHits
<1>6. t \in Abstract!Eligible(T, q)
      <=> /\ t \in DOMAIN T
          /\ \/ t[1].kind = "exact" /\ t[3].kind = "exact"
             \/ T[t].scope = "B"
             \/ T[t].scope = IF deep THEN "M" ELSE "S"
  <2> HIDE DEF t, T, a, b
  <2> QED BY <1>1, <1>3, <1>4 DEF Abstract!Eligible, MULTI_LEVEL
<1>7. ASSUME v # NoRule
      PROVE  ~blocked(exact, a.needs_multi \/ b.needs_multi, v.scope)
             <=> exact \/ v.scope = "B" \/ v.scope = IF deep THEN "M" ELSE "S"
  <2>1. v.scope \in {"S", "M", "B"}
    BY <1>2, <1>7
  <2>2. deep <=> a.needs_multi \/ b.needs_multi
    BY <1>3, <1>4
  <2> HIDE DEF deep, v, a, b
  <2> QED BY <2>1, <2>2, <1>3, <1>4 DEF blocked
<1>8. <<i, j>> \in AllHits(d, n, q) <=> t \in Abstract!Eligible(T, q)
  <2>1. exact <=> t[1].kind = "exact" /\ t[3].kind = "exact"
    BY <1>3, <1>4
  <2> HIDE DEF deep, v, a, b, t, T, exact
  <2> QED BY <1>2, <1>5, <1>6, <1>7, <2>1
<1> QED BY <1>8

\* Every eligible rule is found at some pair of candidates.
LEMMA EligibleIsAHit ==
  ASSUME NEW d, NEW n, Replicated(d, n), NEW q, IsQuestion(q),
         bucket_index_of(q.fqdn1, n) \in 0..n-1,
         NEW x \in Abstract!Eligible(TableOf(d, n), q)
  PROVE  \E p \in AllHits(d, n, q) : RuleAt(n, q, p) = x
<1>0. IsName(q.fqdn1) /\ IsName(q.fqdn2) /\ q.mode \in Modes
  BY DEF IsQuestion
<1>1. x \in Triples
  BY TableDomain DEF Abstract!Eligible
<1>2. /\ x[2] = q.port
      /\ Abstract!Covers(x[1], q.fqdn1) /\ Abstract!Covers(x[3], q.fqdn2)
      /\ Abstract!Deep(x[1], q.fqdn1) => q.mode = MULTI_LEVEL
      /\ Abstract!Deep(x[3], q.fqdn2) => q.mode = MULTI_LEVEL
  BY DEF Abstract!Eligible, MULTI_LEVEL
<1>3. PICK i \in DOMAIN field_candidates(q.fqdn1, q.mode) :
             field_candidates(q.fqdn1, q.mode)[i].pattern = x[1]
  BY <1>0, <1>1, <1>2, CoversIsCandidate DEF Triples
<1>4. PICK j \in DOMAIN field_candidates(q.fqdn2, q.mode) :
             field_candidates(q.fqdn2, q.mode)[j].pattern = x[3]
  BY <1>0, <1>1, <1>2, CoversIsCandidate DEF Triples
<1>5. RuleAt(n, q, <<i, j>>) = x
  <2>1. candidates(q.fqdn1, q.mode, n)[i].pattern = x[1]
    BY <1>3, CandidateFields
  <2> QED BY <1>1, <1>2, <1>4, <2>1 DEF RuleAt, Triples
<1> QED BY <1>5, HitIsEligible

\* The order of the nested loop is the order of specificity.
LEMMA OrderIsSpecificity ==
  ASSUME NEW n, NEW q, IsQuestion(q),
         NEW i \in DOMAIN field_candidates(q.fqdn1, q.mode),
         NEW j \in DOMAIN field_candidates(q.fqdn2, q.mode),
         NEW k \in DOMAIN field_candidates(q.fqdn1, q.mode),
         NEW l \in DOMAIN field_candidates(q.fqdn2, q.mode),
         NEW x, x = RuleAt(n, q, <<i, j>>),
         NEW y, y = RuleAt(n, q, <<k, l>>)
  PROVE  Before(<<i, j>>, <<k, l>>)
         <=> \/ Abstract!Specificity(x[1], q.fqdn1) < Abstract!Specificity(y[1], q.fqdn1)
             \/ /\ Abstract!Specificity(x[1], q.fqdn1) = Abstract!Specificity(y[1], q.fqdn1)
                /\ Abstract!Specificity(x[3], q.fqdn2) <= Abstract!Specificity(y[3], q.fqdn2)
<1> DEFINE r1(z) == field_candidates(q.fqdn1, q.mode)[z].rank
           r2(z) == field_candidates(q.fqdn2, q.mode)[z].rank
<1>0. IsName(q.fqdn1) /\ IsName(q.fqdn2) /\ q.mode \in Modes
  BY DEF IsQuestion
<1>1. /\ Abstract!Specificity(x[1], q.fqdn1) = r1(i)
      /\ Abstract!Specificity(x[3], q.fqdn2) = r2(j)
  <2>1. /\ x[1] = field_candidates(q.fqdn1, q.mode)[i].pattern
        /\ x[3] = field_candidates(q.fqdn2, q.mode)[j].pattern
    BY CandidateFields DEF RuleAt
  <2> QED BY <1>0, <2>1, CandidateCovers
<1>2. /\ Abstract!Specificity(y[1], q.fqdn1) = r1(k)
      /\ Abstract!Specificity(y[3], q.fqdn2) = r2(l)
  <2>1. /\ y[1] = field_candidates(q.fqdn1, q.mode)[k].pattern
        /\ y[3] = field_candidates(q.fqdn2, q.mode)[l].pattern
    BY CandidateFields DEF RuleAt
  <2> QED BY <1>0, <2>1, CandidateCovers
<1>3. i \in Nat /\ j \in Nat /\ k \in Nat /\ l \in Nat
  BY <1>0, ListLength
<1>4. r1(i) \in Nat /\ r1(k) \in Nat /\ r2(j) \in Nat /\ r2(l) \in Nat
  BY <1>0, RanksAreNat
<1>5. (i < k => r1(i) < r1(k)) /\ (k < i => r1(k) < r1(i))
  BY <1>0, RanksGrow
<1>6. (j < l => r2(j) < r2(l)) /\ (l < j => r2(l) < r2(j))
  BY <1>0, RanksGrow
<1> HIDE DEF r1, r2
<1>7. (i < k <=> r1(i) < r1(k)) /\ (i = k <=> r1(i) = r1(k))
  BY <1>3, <1>4, <1>5
<1>8. j <= l <=> r2(j) <= r2(l)
  BY <1>3, <1>4, <1>6
<1>9. Before(<<i, j>>, <<k, l>>) <=> i < k \/ (i = k /\ j <= l)
  BY DEF Before
<1> QED BY <1>1, <1>2, <1>7, <1>8, <1>9

\* A hit is a pair of positions of the two lists.
LEMMA HitPositions ==
  ASSUME NEW d, NEW n, NEW q, IsQuestion(q)
  PROVE  \E m \in Nat, k \in Nat :
           /\ DOMAIN candidates(q.fqdn1, q.mode, n) = 1..m
           /\ DOMAIN field_candidates(q.fqdn2, q.mode) = 1..k
           /\ AllHits(d, n, q) \subseteq (1..m) \X (1..k)
<1> DEFINE m == deepest(Len(q.fqdn1), q.mode) + 2
           k == deepest(Len(q.fqdn2), q.mode) + 2
<1>1. IsName(q.fqdn1) /\ IsName(q.fqdn2) /\ q.mode \in Modes
  BY DEF IsQuestion
<1>2. m \in Nat /\ k \in Nat
  <2>1. Len(q.fqdn1) \in Nat /\ Len(q.fqdn2) \in Nat
    BY <1>1 DEF IsName
  <2>2. /\ deepest(Len(q.fqdn1), q.mode) \in 0..Len(q.fqdn1) - 1
        /\ deepest(Len(q.fqdn2), q.mode) \in 0..Len(q.fqdn2) - 1
    BY <1>1, ListLength
  <2> QED BY <2>1, <2>2
<1>3. /\ DOMAIN candidates(q.fqdn1, q.mode, n) = 1..m
      /\ DOMAIN field_candidates(q.fqdn2, q.mode) = 1..k
  BY <1>1, ListLength, CandidateFields
<1>4. AllHits(d, n, q) \subseteq (DOMAIN candidates(q.fqdn1, q.mode, n))
                                \X (DOMAIN field_candidates(q.fqdn2, q.mode))
  BY DEF AllHits
<1> HIDE DEF m, k
<1> QED BY <1>2, <1>3, <1>4

\* The first hit is the answer of the abstract table.
LEMMA FirstHitAnswers ==
  ASSUME NEW d, NEW n, Replicated(d, n), NEW q, IsQuestion(q),
         bucket_index_of(q.fqdn1, n) \in 0..n-1
  PROVE  LET a == candidates(q.fqdn1, q.mode, n)
             b == field_candidates(q.fqdn2, q.mode)
             H == AllHits(d, n, q)
             p == FirstHit(H)
         IN  Abstract!Answer(TableOf(d, n), q)
             = IF H = {} THEN Miss
               ELSE Match(found(d, n, a[p[1]], q.port, b[p[2]]), a[p[1]], b[p[2]], q.port)
<1> DEFINE fa == field_candidates(q.fqdn1, q.mode)
           a == candidates(q.fqdn1, q.mode, n)
           b == field_candidates(q.fqdn2, q.mode)
           H == AllHits(d, n, q)
           p == FirstHit(H)
           T == TableOf(d, n)
           E == Abstract!Eligible(T, q)
           S1(x) == Abstract!Specificity(x[1], q.fqdn1)
           S2(x) == Abstract!Specificity(x[3], q.fqdn2)
           LE(x, y) == S1(x) < S1(y) \/ (S1(x) = S1(y) /\ S2(x) <= S2(y))
           best == CHOOSE x \in E : \A y \in E : LE(x, y)
<1>0. q.answerable /\ IsName(q.fqdn1) /\ IsName(q.fqdn2) /\ q.mode \in Modes
  BY DEF IsQuestion
<1>1. H \subseteq (DOMAIN fa) \X (DOMAIN b) /\ DOMAIN a = DOMAIN fa
  BY CandidateFields DEF AllHits
<1>2. \A x \in E : \E h \in H : RuleAt(n, q, h) = x
  BY EligibleIsAHit
<1>3. \A h \in H : RuleAt(n, q, h) \in E /\ h = <<h[1], h[2]>>
  BY <1>1, HitIsEligible
<1>4. CASE H = {}
  <2>1. E = {}
    BY <1>2, <1>4
  <2>2. Abstract!Answer(T, q) = Miss
    BY <1>0, <2>1 DEF Abstract!Answer, Miss
  <2> QED BY <1>4, <2>2
<1>5. CASE H # {}
  <2>1. p \in H /\ \A h \in H : Before(p, h)
    <3>1. PICK m \in Nat, k \in Nat : H \subseteq (1..m) \X (1..k)
      BY HitPositions
    <3> HIDE DEF H
    <3> QED BY <1>5, <3>1, FirstHitIsFirst
  <2> DEFINE x == RuleAt(n, q, p)
  <2>2. x \in E
    BY <1>3, <2>1
  <2>3. ASSUME NEW h \in H, NEW g \in H
        PROVE  Before(g, h) <=> LE(RuleAt(n, q, g), RuleAt(n, q, h))
    <3>1. /\ g = <<g[1], g[2]>> /\ h = <<h[1], h[2]>>
          /\ g[1] \in DOMAIN fa /\ h[1] \in DOMAIN fa
          /\ g[2] \in DOMAIN b /\ h[2] \in DOMAIN b
      BY <1>1
    <3> DEFINE y == RuleAt(n, q, <<g[1], g[2]>>)
               z == RuleAt(n, q, <<h[1], h[2]>>)
    <3>2. Before(<<g[1], g[2]>>, <<h[1], h[2]>>) <=> LE(y, z)
      BY <3>1, OrderIsSpecificity
    <3>3. y = RuleAt(n, q, g) /\ z = RuleAt(n, q, h)
      BY <3>1
    <3> HIDE DEF y, z, LE
    <3> QED BY <3>1, <3>2, <3>3
  <2>4. \A y \in E : LE(x, y)
    <3> HIDE DEF LE, x, E, H, p
    <3> QED BY <1>2, <2>1, <2>3 DEF x
  <2>5. best \in E /\ LE(best, x)
    <3> HIDE DEF LE, x, E
    <3> QED BY <2>2, <2>4
  <2>6. best = x
    <3>1. PICK h \in H : RuleAt(n, q, h) = best
      BY <1>2, <2>5
    <3>2. Before(h, p) /\ Before(p, h)
      BY <2>1, <2>3, <2>5, <3>1
    <3>3. h[1] \in Nat /\ h[2] \in Nat /\ p[1] \in Nat /\ p[2] \in Nat
      <4>1. DOMAIN fa \subseteq Nat /\ DOMAIN b \subseteq Nat
        BY <1>0, ListLength
      <4> HIDE DEF fa, b, H, p
      <4> QED BY <1>1, <2>1, <4>1
    <3>4. h[1] = p[1] /\ h[2] = p[2]
      <4> HIDE DEF p
      <4> QED BY <3>2, <3>3 DEF Before
    <3>5. h = p
      BY <1>3, <2>1, <3>4
    <3> QED BY <3>1, <3>5
  <2> DEFINE i == p[1]
             j == p[2]
             v == found(d, n, a[i], q.port, b[j])
  <2>7. i \in DOMAIN fa /\ j \in DOMAIN b /\ p = <<i, j>>
    BY <1>1, <1>3, <2>1
  <2>8. x = <<a[i].pattern, q.port, b[j].pattern>>
    BY DEF RuleAt
  <2>9. T[x] = v
    <3>1. v # NoRule
      BY <2>1 DEF AllHits
    <3> QED BY <2>7, <3>1, FoundInTable
  <2>10. S1(x) = a[i].rank /\ S2(x) = b[j].rank
    <3>1. /\ x[1] = fa[i].pattern /\ a[i].rank = fa[i].rank
          /\ x[3] = b[j].pattern
      BY <2>7, <2>8, CandidateFields
    <3> HIDE DEF x
    <3> QED BY <1>0, <2>7, <3>1, CandidateCovers
  <2>11. Abstract!Answer(T, q) =
           [reply |-> "match", rule_id |-> T[best].id, fqdn1_pattern |-> best[1],
            port |-> q.port, fqdn2_pattern |-> best[3],
            rank1 |-> S1(best), rank2 |-> S2(best)]
    <3>1. E # {}
      BY <2>2
    <3> QED BY <1>0, <3>1 DEF Abstract!Answer
  <2>12. x[1] = a[i].pattern /\ x[3] = b[j].pattern
    BY <2>8
  <2>13. Abstract!Answer(T, q) = Match(v, a[i], b[j], q.port)
    <3> HIDE DEF x, best, S1, S2, v, T, a, b, i, j
    <3> QED BY <2>6, <2>9, <2>10, <2>11, <2>12 DEF Match
  <2> QED BY <1>5, <2>13
<1> QED BY <1>4, <1>5

\* What the two lookups have in common: the normalised question, and the bucket
\* it hashes to.
LEMMA AcceptedQuestion ==
  ASSUME NEW n \in Nat \ {0}, NEW q \in RawQueries, Normalised(q).answerable
  PROVE  /\ IsQuestion(Normalised(q))
         /\ bucket_index_of(Normalised(q).fqdn1, n) \in 0..n-1
<1> DEFINE f1 == normalize_fqdn(q.fqdn1)
           f2 == normalize_fqdn(q.fqdn2)
           Q == Normalised(q)
<1>1. /\ Q.fqdn1 = f1 /\ Q.fqdn2 = f2 /\ Q.port = q.port /\ Q.mode = q.mode
      /\ f1 # InvalidFqdn /\ f2 # InvalidFqdn
  BY DEF Normalised
<1>2. /\ q.fqdn1 \in RawNames /\ q.fqdn2 \in RawNames /\ q.port \in Int
      /\ q.mode \in Modes /\ Crc32[f1] \in Nat
  BY <1>1, QueriesAssumption DEF Modes
<1>3. IsName(f1) /\ IsName(f2)
  BY <1>1, <1>2, NormalisedName DEF IsName
<1>4. bucket_index_of(f1, n) \in 0..n-1
  <2>1. CASE n > 1
    <3>1. Crc32[f1] % n \in 0..n-1
      BY <1>2, <2>1
    <3> QED BY <2>1, <3>1 DEF bucket_index_of
  <2>2. CASE ~(n > 1)
    BY <2>2 DEF bucket_index_of
  <2> QED BY <2>1, <2>2
<1> QED BY <1>1, <1>2, <1>3, <1>4 DEF IsQuestion

\* Both refuse the same questions as the abstract table.
LEMMA RefusedQuestion ==
  ASSUME NEW d, NEW n, NEW q, ~Normalised(q).answerable
  PROVE  /\ LuaLookup(d, n, q.fqdn1, q.port, q.fqdn2, q.mode) = Error
         /\ NoScriptLookup(d, n, q.fqdn1, q.port, q.fqdn2, q.mode) = Error
         /\ Abstract!Answer(TableOf(d, n), Normalised(q)) = Error
<1>1. \/ normalize_fqdn(q.fqdn1) = InvalidFqdn
      \/ normalize_fqdn(q.fqdn2) = InvalidFqdn
      \/ ~valid_port(q.port)
  BY DEF Normalised
<1>2. Abstract!Answer(TableOf(d, n), Normalised(q)) = Error
  BY DEF Abstract!Answer, Error
<1> QED BY <1>1, <1>2 DEF LuaLookup, NoScriptLookup

\* The scan of store.go answers as the abstract table.
LEMMA NoScriptAnswers ==
  ASSUME NEW d, NEW n, Replicated(d, n), NEW q \in RawQueries
  PROVE  NoScriptLookup(d, n, q.fqdn1, q.port, q.fqdn2, q.mode)
         = Abstract!Answer(TableOf(d, n), Normalised(q))
<1> DEFINE Q == Normalised(q)
           f1 == normalize_fqdn(q.fqdn1)
           f2 == normalize_fqdn(q.fqdn2)
           a == candidates(f1, q.mode, n)
           b == field_candidates(f2, q.mode)
           vals == [p \in (DOMAIN a) \X (DOMAIN b) |-> found(d, n, a[p[1]], q.port, b[p[2]])]
           hits == {p \in DOMAIN vals :
                      /\ vals[p] # NoRule
                      /\ ~blocked(a[p[1]].rank = 0 /\ b[p[2]].rank = 0,
                                  a[p[1]].needs_multi \/ b[p[2]].needs_multi, vals[p].scope)}
           H == AllHits(d, n, Q)
           h == FirstHit(hits)
           p0 == FirstHit(H)
<1> SUFFICES ASSUME Q.answerable
             PROVE  NoScriptLookup(d, n, q.fqdn1, q.port, q.fqdn2, q.mode)
                    = Abstract!Answer(TableOf(d, n), Q)
  BY RefusedQuestion
<1>1. IsQuestion(Q) /\ bucket_index_of(Q.fqdn1, n) \in 0..n-1
  BY AcceptedQuestion DEF Replicated
<1>2. /\ Q.fqdn1 = f1 /\ Q.fqdn2 = f2 /\ Q.port = q.port /\ Q.mode = q.mode
      /\ f1 # InvalidFqdn /\ f2 # InvalidFqdn /\ valid_port(q.port)
  BY DEF Normalised
<1>3. candidates(Q.fqdn1, Q.mode, n) = a /\ field_candidates(Q.fqdn2, Q.mode) = b
  BY <1>2
<1>4. NoScriptLookup(d, n, q.fqdn1, q.port, q.fqdn2, q.mode)
      = IF hits = {} THEN Miss ELSE Match(vals[h], a[h[1]], b[h[2]], q.port)
  BY <1>2 DEF NoScriptLookup
<1>5. Abstract!Answer(TableOf(d, n), Q)
      = IF H = {} THEN Miss
        ELSE Match(found(d, n, a[p0[1]], q.port, b[p0[2]]), a[p0[1]], b[p0[2]], q.port)
  <2> HIDE DEF Q, a, b, p0
  <2> QED BY <1>1, <1>2, <1>3, FirstHitAnswers DEF p0
<1>6. hits = H
  <2>1. ASSUME NEW p \in (DOMAIN a) \X (DOMAIN b)
        PROVE  p \in hits <=> p \in H
    <3>1. a[p[1]].rank = 0 <=> p[1] = 1
      BY <1>1, <1>2, CandidateFields, CandidateCovers DEF IsQuestion
    <3>2. b[p[2]].rank = 0 <=> p[2] = 1
      BY <1>1, <1>2, CandidateFields, CandidateCovers DEF IsQuestion
    <3>3. (a[p[1]].rank = 0 /\ b[p[2]].rank = 0) = (p[1] = 1 /\ p[2] = 1)
      BY <3>1, <3>2
    <3>4. vals[p] = found(d, n, a[p[1]], Q.port, b[p[2]])
      BY <1>2
    <3>5. p \in H <=> /\ found(d, n, a[p[1]], Q.port, b[p[2]]) # NoRule
                      /\ ~blocked(p[1] = 1 /\ p[2] = 1,
                                  a[p[1]].needs_multi \/ b[p[2]].needs_multi,
                                  found(d, n, a[p[1]], Q.port, b[p[2]]).scope)
      <4> HIDE DEF Q, a, b
      <4> QED BY <1>3 DEF AllHits
    <3> HIDE DEF a, b, H
    <3> QED BY <3>3, <3>4, <3>5
  <2>2. hits \subseteq (DOMAIN a) \X (DOMAIN b)
    OBVIOUS
  <2>3. H \subseteq (DOMAIN a) \X (DOMAIN b)
    <3> HIDE DEF Q, a, b
    <3> QED BY <1>3 DEF AllHits
  <2> HIDE DEF hits, H
  <2> QED BY <2>1, <2>2, <2>3
<1>7. ASSUME H # {}
      PROVE  vals[p0] = found(d, n, a[p0[1]], q.port, b[p0[2]])
  <2>1. p0 \in H
    <3>1. PICK m \in Nat, k \in Nat : H \subseteq (1..m) \X (1..k)
      BY <1>1, HitPositions
    <3> HIDE DEF H
    <3> QED BY <1>7, <3>1, FirstHitIsFirst
  <2>2. p0 \in (DOMAIN a) \X (DOMAIN b)
    <3> HIDE DEF vals, p0, H
    <3> QED BY <1>6, <2>1 DEF hits, vals
  <2> HIDE DEF p0
  <2> QED BY <2>2
<1> HIDE DEF vals, hits, H, a, b
<1> QED BY <1>4, <1>5, <1>6, <1>7

\* Asking the groups one by one and keeping the most specific of their answers
\* gives the first hit of the whole list: ranks grow along the list, and a row
\* belongs to one group.
LEMMA LuaAnswers ==
  ASSUME NEW d, NEW n, Replicated(d, n), NEW q \in RawQueries
  PROVE  LuaLookup(d, n, q.fqdn1, q.port, q.fqdn2, q.mode)
         = Abstract!Answer(TableOf(d, n), Normalised(q))
<1> DEFINE Q == Normalised(q)
           f1 == normalize_fqdn(q.fqdn1)
           f2 == normalize_fqdn(q.fqdn2)
           a == candidates(f1, q.mode, n)
           b == field_candidates(f2, q.mode)
           H == AllHits(d, n, Q)
           In(g) == {p \in H : p[1] \in g}
           At(p) == Match(found(d, n, a[p[1]], q.port, b[p[2]]), a[p[1]], b[p[2]], q.port)
           Group(j) == {i \in DOMAIN a : a[i].tag = a[j].tag}
           groups == {{i \in DOMAIN a : a[i].tag = a[j].tag} : j \in DOMAIN a}
           Reply(g) == LuaGroup(d, n, a, g, q.port, b)
           answers == {LuaGroup(d, n, a, group, q.port, field_candidates(f2, q.mode)) :
                         group \in groups} \ {Miss}
           p0 == FirstHit(H)
           best == CHOOSE m \in answers : \A o \in answers : o # m => more_specific(m, o)
<1> SUFFICES ASSUME Q.answerable
             PROVE  LuaLookup(d, n, q.fqdn1, q.port, q.fqdn2, q.mode)
                    = Abstract!Answer(TableOf(d, n), Q)
  BY RefusedQuestion
<1>1. IsQuestion(Q) /\ bucket_index_of(Q.fqdn1, n) \in 0..n-1
  BY AcceptedQuestion DEF Replicated
<1>2. /\ Q.fqdn1 = f1 /\ Q.fqdn2 = f2 /\ Q.port = q.port /\ Q.mode = q.mode
      /\ f1 # InvalidFqdn /\ f2 # InvalidFqdn /\ valid_port(q.port)
  BY DEF Normalised
<1>3. candidates(Q.fqdn1, Q.mode, n) = a /\ field_candidates(Q.fqdn2, Q.mode) = b
  BY <1>2
<1>4. LuaLookup(d, n, q.fqdn1, q.port, q.fqdn2, q.mode) = IF answers = {} THEN Miss ELSE best
  BY <1>2 DEF LuaLookup
<1>5. Abstract!Answer(TableOf(d, n), Q) = IF H = {} THEN Miss ELSE At(p0)
  <2> HIDE DEF Q, a, b, p0
  <2> QED BY <1>1, <1>2, <1>3, FirstHitAnswers DEF p0
<1>6. PICK mm \in Nat, kk \in Nat :
        /\ DOMAIN a = 1..mm /\ DOMAIN b = 1..kk
        /\ H \subseteq (1..mm) \X (1..kk)
  <2> HIDE DEF Q, a, b
  <2> QED BY <1>1, <1>3, HitPositions
\* One group's script returns its first hit.
<1>7. ASSUME NEW g \in SUBSET (DOMAIN a)
      PROVE  Reply(g) = IF In(g) = {} THEN Miss ELSE At(FirstHit(In(g)))
  <2> DEFINE hits == {p \in g \X DOMAIN b :
                        LET v == found(d, n, a[p[1]], q.port, b[p[2]])
                        IN  /\ v # NoRule
                            /\ ~blocked(a[p[1]].rank = 0 /\ p[2] = 1,
                                        a[p[1]].needs_multi \/ b[p[2]].needs_multi, v.scope)}
  <2>1. ASSUME NEW p \in g \X DOMAIN b
        PROVE  p \in hits <=> p \in H
    <3> DEFINE v == found(d, n, a[p[1]], Q.port, b[p[2]])
    <3>1. a[p[1]].rank = 0 <=> p[1] = 1
      BY <1>1, <1>2, CandidateFields, CandidateCovers DEF IsQuestion
    <3>2. (a[p[1]].rank = 0 /\ p[2] = 1) = (p[1] = 1 /\ p[2] = 1)
      BY <3>1
    <3>3. p \in (DOMAIN a) \X (DOMAIN b)
      <4> HIDE DEF a, b
      <4> QED BY SMT
    <3>4. p \in H <=> /\ v # NoRule
                      /\ ~blocked(p[1] = 1 /\ p[2] = 1,
                                  a[p[1]].needs_multi \/ b[p[2]].needs_multi, v.scope)
      <4> HIDE DEF Q, a, b
      <4> QED BY <1>3, <3>3 DEF AllHits
    <3>5. v = found(d, n, a[p[1]], q.port, b[p[2]])
      BY <1>2
    <3> HIDE DEF a, b, H, v
    <3> QED BY <3>2, <3>4, <3>5
  <2>2. hits = In(g)
    <3>1. hits \subseteq g \X DOMAIN b /\ In(g) \subseteq g \X DOMAIN b
      <4> HIDE DEF a, H, b
      <4> QED BY <1>6
    <3>2. \A p \in g \X DOMAIN b : p \in In(g) <=> p \in H
      <4> HIDE DEF H, b
      <4> QED BY SMT
    <3> HIDE DEF hits, In, H, b
    <3> QED BY <2>1, <3>1, <3>2
  <2>3. Reply(g) = IF hits = {} THEN Miss
                   ELSE LET p == FirstHit(hits)
                        IN  Match(found(d, n, a[p[1]], q.port, b[p[2]]), a[p[1]], b[p[2]], q.port)
    <3> HIDE DEF a, b
    <3> QED BY DEF LuaGroup
  <2> HIDE DEF hits, In, a, b
  <2> QED BY <2>2, <2>3
<1>8. \A p : At(p) # Miss
  BY DEF Match, Miss
<1>9. \A g \in groups : g \subseteq DOMAIN a
  OBVIOUS
<1>10. answers = {Reply(g) : g \in groups} \ {Miss}
  OBVIOUS
<1>11. ASSUME NEW g \in SUBSET (DOMAIN a), In(g) # {}
       PROVE  FirstHit(In(g)) \in In(g)
  <2>1. In(g) \subseteq (1..mm) \X (1..kk)
    BY <1>6
  <2> HIDE DEF In
  <2> QED BY <1>11, <2>1, FirstHitIsFirst
<1> HIDE DEF groups, answers, Reply, best
<1>12. CASE H = {}
  <2>1. answers = {}
    <3>1. \A g \in groups : In(g) = {}
      BY <1>12
    <3> QED BY <1>7, <1>9, <1>10, <3>1
  <2> HIDE DEF H, p0, At
  <2> QED BY <1>4, <1>5, <1>12, <2>1
<1>13. CASE H # {}
  <2>1. p0 \in H /\ \A p \in H : Before(p0, p)
    <3> HIDE DEF H
    <3> QED BY <1>6, <1>13, FirstHitIsFirst
  <2>2. p0[1] \in DOMAIN a
    <3> HIDE DEF p0, H, a
    <3> QED BY <1>6, <2>1
  <2> DEFINE g0 == Group(p0[1])
  <2>3. g0 \in groups /\ g0 \in SUBSET (DOMAIN a) /\ p0[1] \in g0
    <3> HIDE DEF p0, a
    <3> QED BY <2>2 DEF groups
  <2>4. Reply(g0) = At(p0)
    <3>1. p0 \in In(g0) /\ In(g0) \subseteq H
      <4> HIDE DEF p0, H, g0
      <4> QED BY <2>1, <2>3
    <3>2. FirstHit(In(g0)) = p0
      <4>1. In(g0) \subseteq (1..mm) \X (1..kk)
        BY <1>6, <3>1
      <4> HIDE DEF In, g0, H, p0
      <4> QED BY <2>1, <3>1, <4>1, FirstHitIsUnique
    <3> HIDE DEF In, g0, H, p0, At, a, b
    <3> QED BY <1>7, <2>3, <3>1, <3>2
  <2>5. At(p0) \in answers
    <3> HIDE DEF At, g0
    <3> QED BY <1>8, <1>10, <2>3, <2>4
  \* The answer of any other group comes from a later row.
  <2>6. ASSUME NEW o \in answers, o # At(p0)
        PROVE  more_specific(At(p0), o) /\ ~more_specific(o, At(p0))
    <3>1. PICK g \in groups : o = Reply(g) /\ o # Miss
      BY <1>10
    <3> DEFINE h == FirstHit(In(g))
    <3>2. g \in SUBSET (DOMAIN a)
      BY <1>9
    <3>3. In(g) # {} /\ o = At(h)
      <4> HIDE DEF In, At
      <4> QED BY <1>7, <3>1, <3>2
    <3>4. h \in H /\ h[1] \in g
      <4>1. h \in In(g)
        <5> HIDE DEF In
        <5> QED BY <1>11, <3>2, <3>3
      <4> HIDE DEF h, H
      <4> QED BY <4>1
    <3>5. p0[1] # h[1]
      <4>1. SUFFICES ASSUME p0[1] = h[1] PROVE FALSE
        OBVIOUS
      <4>2. PICK j \in DOMAIN a : g = Group(j)
        BY DEF groups
      <4>3. a[h[1]].tag = a[j].tag
        BY <3>4, <4>2
      <4>4. g = g0
        <5> HIDE DEF p0, h, a
        <5> QED BY <4>1, <4>2, <4>3
      <4> HIDE DEF g0, At, h
      <4> QED BY <2>4, <2>6, <3>1, <4>4
    <3>6. Before(p0, h)
      BY <2>1, <3>4
    <3>7. p0[1] < h[1] /\ p0[1] \in DOMAIN a /\ h[1] \in DOMAIN a
      <4>1. p0[1] \in 1..mm /\ h[1] \in 1..mm /\ p0[2] \in 1..kk /\ h[2] \in 1..kk
        <5> HIDE DEF p0, h, H
        <5> QED BY <1>6, <2>1, <3>4
      <4> HIDE DEF p0, h, a
      <4> QED BY <1>6, <3>5, <3>6, <4>1 DEF Before
    <3>8. a[p0[1]].rank < a[h[1]].rank /\ a[p0[1]].rank \in Nat /\ a[h[1]].rank \in Nat
      <4>1. IsName(f1) /\ q.mode \in Modes
        BY <1>1, <1>2 DEF IsQuestion
      <4>2. /\ p0[1] \in DOMAIN field_candidates(f1, q.mode)
            /\ h[1] \in DOMAIN field_candidates(f1, q.mode)
        <5> HIDE DEF p0, h
        <5> QED BY <3>7, CandidateFields
      <4>3. /\ a[p0[1]].rank = field_candidates(f1, q.mode)[p0[1]].rank
            /\ a[h[1]].rank = field_candidates(f1, q.mode)[h[1]].rank
        <5> HIDE DEF p0, h
        <5> QED BY <4>2, CandidateFields
      <4> HIDE DEF p0, h, f1
      <4> QED BY <3>7, <4>1, <4>2, <4>3, RanksGrow, RanksAreNat
    <3>9. At(p0).rank1 = a[p0[1]].rank /\ o.rank1 = a[h[1]].rank
      <4> HIDE DEF p0, h, a, b
      <4> QED BY <3>3 DEF Match
    <3> HIDE DEF At, p0, h, a
    <3> QED BY <3>8, <3>9 DEF more_specific
  <2>7. best = At(p0)
    <3> HIDE DEF At, p0
    <3> QED BY <2>5, <2>6 DEF best
  <2> HIDE DEF At, p0, H
  <2> QED BY <1>4, <1>5, <1>13, <2>5, <2>7
<1> QED BY <1>12, <1>13

-----------------------------------------------------------------------------
(* The refinement *)

\* The invariant: whole replicas.
Inv == Replicated(db, num_buckets)

\* An empty data base is an empty table.
LEMMA InitRefines ==
  Init => Inv /\ Abstract!Init
<1> SUFFICES ASSUME Init PROVE Inv /\ Abstract!Init
  OBVIOUS
<1>1. Inv
  BY CountsAssumption DEF Init, Inv, Replicated
<1>2. TableOfStore = [x \in {} |-> Abstract!Ok]
  <2>1. DOMAIN TableOfStore = {}
    BY DEF Init, TableOfStore, TableOf
  <2>2. TableOfStore = [x \in DOMAIN TableOfStore |-> TableOfStore[x]]
    BY TableIsFunction DEF TableOfStore
  <2> QED BY <2>1, <2>2
<1>3. Abstract!Init
  BY <1>2 DEF Init, Abstract!Init, Ok, Abstract!Ok
<1> QED BY <1>1, <1>3

\* The ports the store accepts are the legal ones of the abstract table.
LEMMA SamePorts ==
  ASSUME NEW port \in Int
  PROVE  valid_port(port) <=> Abstract!LegalPort(port)
BY DEF valid_port, Abstract!LegalPort

\* A load of legal rules, by put or put_many, is the abstract load.
LEMMA WriteRefines ==
  ASSUME Inv, NEW batch \in Seq(RuleRecords),
         IF \E i \in DOMAIN batch : ~valid_port(batch[i].port)
         THEN reply' = Error /\ db' = db
         ELSE db' = hset_all(db, num_buckets, batch) /\ reply' = Ok,
         num_buckets' = num_buckets, loaded' = loaded
  PROVE  Inv' /\ Abstract!Load(batch)
<1>1. ASSUME NEW i \in DOMAIN batch
      PROVE  valid_port(batch[i].port) <=> Abstract!LegalPort(batch[i].port)
  <2>1. batch[i] \in RuleRecords
    OBVIOUS
  <2>2. batch[i].port \in Int
    BY <2>1 DEF RuleRecords
  <2> QED BY <2>2, SamePorts
<1>2. (\E i \in DOMAIN batch : ~valid_port(batch[i].port))
      <=> ~\A i \in DOMAIN batch : Abstract!LegalPort(batch[i].port)
  BY <1>1
<1>3. CASE \E i \in DOMAIN batch : ~valid_port(batch[i].port)
  <2>1. db' = db /\ reply' = Error
    BY <1>3
  <2>2. TableOfStore' = TableOfStore /\ Inv'
    BY <2>1 DEF TableOfStore, Inv
  <2> QED BY <1>2, <1>3, <2>1, <2>2 DEF Abstract!Load, Abstract!Failed, Error
<1>4. CASE ~\E i \in DOMAIN batch : ~valid_port(batch[i].port)
  <2>1. db' = hset_all(db, num_buckets, batch) /\ reply' = Ok
    BY <1>4
  <2>2. Inv'
    BY <2>1, LoadRefines DEF Inv
  <2>3. TableOfStore' = Abstract!SetAll(TableOfStore, batch)
    <3>1. TableOf(hset_all(db, num_buckets, batch), num_buckets)
          = Abstract!SetAll(TableOf(db, num_buckets), batch)
      BY LoadRefines DEF Inv
    <3> QED BY <2>1, <3>1 DEF TableOfStore
  <2> QED BY <1>2, <1>4, <2>1, <2>2, <2>3 DEF Abstract!Load, Abstract!Ok, Ok
<1> QED BY <1>3, <1>4

\* What the application registers are rules.
LEMMA RulesAreTriples ==
  ASSUME NEW rule \in RuleRecords
  PROVE  /\ <<rule.fqdn1, rule.port, rule.fqdn2>> \in Triples
         /\ Abstract!Triple(rule) = <<rule.fqdn1, rule.port, rule.fqdn2>>
         /\ <<rule>> \in Seq(RuleRecords)
         /\ DOMAIN <<rule>> = {1} /\ <<rule>>[1] = rule
BY DEF RuleRecords, Triples, Abstract!Triple

\* Every call keeps the replicas whole, and is a step of the abstract table or
\* none.
LEMMA StepRefines ==
  Inv /\ [Next]_vars => Inv' /\ [Abstract!Next]_(Abstract!vars)
<1> SUFFICES ASSUME Inv, [Next]_vars PROVE Inv' /\ [Abstract!Next]_(Abstract!vars)
  OBVIOUS
<1>1. ASSUME db' = db, num_buckets' = num_buckets
      PROVE  Inv' /\ TableOfStore' = TableOfStore
  BY <1>1 DEF Inv, TableOfStore
<1>2. CASE Open
  <2>1. Abstract!Reopen
    BY <1>1, <1>2 DEF Open, Abstract!Reopen, Ok, Abstract!Ok
  <2> QED BY <1>1, <1>2, <2>1 DEF Open, Abstract!Next
<1>3. CASE Close
  <2>1. Abstract!Reopen
    BY <1>1, <1>3 DEF Close, Abstract!Reopen, Ok, Abstract!Ok
  <2> QED BY <1>1, <1>3, <2>1 DEF Close, Abstract!Next
<1>4. CASE Restart
  <2>1. Abstract!Restart
    BY <1>1, <1>4 DEF Restart, Abstract!Restart
  <2> QED BY <1>1, <1>4, <2>1 DEF Restart, Abstract!Next
<1>5. ASSUME NEW rule \in Rules, put(rule) PROVE Inv' /\ Abstract!Next
  <2>1. rule \in RuleRecords
    BY RulesAssumption
  <2>2. Inv' /\ Abstract!Load(<<rule>>)
    <3> DEFINE batch == <<rule>>
    <3>1. batch \in Seq(RuleRecords) /\ DOMAIN batch = {1} /\ batch[1] = rule
      BY <2>1, RulesAreTriples
    <3>2. (\E i \in DOMAIN batch : ~valid_port(batch[i].port)) <=> ~valid_port(rule.port)
      BY <3>1
    <3>3. /\ IF ~valid_port(rule.port) THEN reply' = Error /\ db' = db
             ELSE db' = hset_all(db, num_buckets, batch) /\ reply' = Ok
          /\ num_buckets' = num_buckets /\ loaded' = loaded
      BY <1>5 DEF put
    <3> HIDE DEF batch
    <3> QED BY <3>1, <3>2, <3>3, WriteRefines DEF batch
  <2> QED BY <2>2 DEF Abstract!Next, Abstract!Put
<1>6. ASSUME NEW batch \in Batches, put_many(batch) PROVE Inv' /\ Abstract!Next
  <2>1. batch \in Seq(RuleRecords)
    BY RulesAssumption
  <2>2. Inv' /\ Abstract!Load(batch)
    BY <1>6, <2>1, WriteRefines DEF put_many
  <2> QED BY <2>2 DEF Abstract!Next
<1>7. ASSUME NEW rule \in Rules, delete(rule.fqdn1, rule.port, rule.fqdn2)
      PROVE  Inv' /\ Abstract!Next
  <2> DEFINE t == <<rule.fqdn1, rule.port, rule.fqdn2>>
             gone == CellsOf(num_buckets, t)
             e == [x \in DOMAIN db \ gone |-> db[x]]
  <2>1. t \in Triples /\ Abstract!Triple(rule) = t
    BY RulesAssumption, RulesAreTriples
  <2>2. gone = cells(num_buckets, rule.fqdn1, rule.port, rule.fqdn2)
    BY DEF CellsOf
  <2>3. /\ db' = e /\ num_buckets' = num_buckets /\ loaded' = loaded
        /\ reply' = [reply |-> "deleted", existed |-> gone \cap DOMAIN db # {}]
    BY <1>7, <2>2 DEF delete
  <2>4. /\ Replicated(e, num_buckets)
        /\ TableOf(e, num_buckets)
           = [u \in DOMAIN TableOf(db, num_buckets) \ {t} |-> TableOf(db, num_buckets)[u]]
        /\ gone \cap DOMAIN db # {} <=> t \in DOMAIN TableOf(db, num_buckets)
    <3> HIDE DEF t
    <3> QED BY <2>1, DeleteRefines DEF Inv
  <2>5. Inv'
    BY <2>3, <2>4 DEF Inv
  <2>6. TableOfStore' = [u \in DOMAIN TableOfStore \ {t} |-> TableOfStore[u]]
    BY <2>3, <2>4 DEF TableOfStore
  <2>7. reply' = Abstract!Deleted(t \in DOMAIN TableOfStore)
    <3>1. (gone \cap DOMAIN db # {}) = (t \in DOMAIN TableOfStore)
      BY <2>4 DEF TableOfStore
    <3> HIDE DEF gone, t
    <3> QED BY <2>3, <3>1 DEF Abstract!Deleted
  <2>8. Abstract!Delete(t)
    <3> HIDE DEF t
    <3> QED BY <2>3, <2>6, <2>7 DEF Abstract!Delete
  <2> QED BY <2>1, <2>5, <2>8 DEF Abstract!Next
<1>8. ASSUME NEW q \in RawQueries, lookup_lua(q) \/ lookup_noscript(q)
      PROVE  Inv' /\ Abstract!Next
  <2>1. db' = db /\ num_buckets' = num_buckets /\ loaded' = loaded
    BY <1>8 DEF lookup_lua, lookup_noscript
  <2>2. reply' = Abstract!Answer(TableOfStore, Normalised(q)) \/ (~loaded /\ reply' = Error)
    <3>1. CASE lookup_lua(q)
      BY <3>1, LuaAnswers DEF lookup_lua, Inv, TableOfStore
    <3>2. CASE lookup_noscript(q)
      BY <3>2, NoScriptAnswers DEF lookup_noscript, Inv, TableOfStore
    <3> QED BY <1>8, <3>1, <3>2
  <2>3. Abstract!Lookup(Normalised(q))
    BY <1>1, <2>1, <2>2 DEF Abstract!Lookup, Abstract!Failed, Error
  <2> QED BY <1>1, <2>1, <2>3 DEF Abstract!Next
<1>9. CASE UNCHANGED vars
  <2>1. db' = db /\ num_buckets' = num_buckets /\ loaded' = loaded /\ reply' = reply
    BY <1>9 DEF vars
  <2> QED BY <1>1, <2>1 DEF Abstract!vars
<1> QED BY <1>2, <1>3, <1>4, <1>5, <1>6, <1>7, <1>8, <1>9 DEF Next

\* Every rule in the data base has all its replicas, with one value, after any
\* sequence of calls and restarts.
THEOREM ReplicasAreWhole == Spec => []Inv
<1>1. Init => Inv
  BY InitRefines
<1>2. Inv /\ [Next]_vars => Inv'
  BY StepRefines
<1> QED BY <1>1, <1>2, PTL DEF Spec

\* For one client the store is a rule table, whatever the bucket count, the
\* names, the rules and the batches.
THEOREM StoreImplementsRuleTable == Spec => StoreIsARuleTable
<1>1. Init => Inv /\ Abstract!Init
  BY InitRefines
<1>2. Inv /\ [Next]_vars => Inv' /\ [Abstract!Next]_(Abstract!vars)
  BY StepRefines
<1> QED BY <1>1, <1>2, PTL DEF Spec, StoreIsARuleTable, Abstract!Spec
==============================================================================
