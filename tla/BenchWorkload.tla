---------------------------- MODULE BenchWorkload ----------------------------
(***************************************************************************)
(* The benchmark's workload (go-benchmark/layout.go, rulemix.go, main.go;  *)
(* benchmark.py has the same without the tier mix): how numRules synthetic *)
(* rules are split into tiers and keys, written in batches, and paired     *)
(* with queries that are meant to hit exactly the rule they were made for. *)
(*                                                                         *)
(* Random draws are nondeterministic; rates are in per cent.               *)
(***************************************************************************)
EXTENDS RuleLookup, TLC

CONSTANTS
  NumRules,       \* -num-rules
  Rates,          \* <<-global-rule-rate, -tld-rule-rate>> pairs to try
  TierSpecs,      \* -rule-depth-tiers: sequences of [pct, lo, hi]
  BatchSize,      \* -write-batch-size
  NumBuckets,     \* -num-buckets
  NumDomains,     \* numDomains
  NumTlds         \* numSyntheticTlds

ASSUME WorkloadAssumption ==
  /\ NumRules \in Nat \ {0} /\ BatchSize \in Nat \ {0} /\ NumBuckets \in Nat \ {0}
  /\ NumDomains \in Nat \ {0} /\ NumTlds \in Nat \ {0}

\* Depths and percentages are parsed as numbers.
ASSUME TierSpecsAssumption == TierSpecs \subseteq Seq([pct : Int, lo : Int, hi : Int])

benchPorts == <<443, 8443, 80>>

VARIABLES
  phase,          \* how far the program has come
  rates,          \* the two rates
  tiers,          \* the depth tiers
  sizes,          \* KeySizes: how many rules each apex key holds
  batchIdx,       \* batches written
  totalRules,     \* rules written
  db              \* the rule hashes

workloadVars == <<phase, rates, tiers, sizes, batchIdx, totalRules, db>>

-----------------------------------------------------------------------------
(* Tiers and keys *)

validateRuleMixRates(r) == r[1] \in 0..100 /\ r[2] \in 0..100 /\ r[1] + r[2] <= 100

parseDepthTiers(spec) ==
  \A i \in DOMAIN spec : spec[i].pct > 0 /\ spec[i].lo >= 1 /\ spec[i].hi >= spec[i].lo

\* math.Round(numRules * rate)
Share(rate) == (2 * NumRules * rate + 100) \div 200

Minimum(a, b) == IF a < b THEN a ELSE b

\* partitionRuleCounts: rounding both shares up must not exceed the total.
partitionRuleCounts(r) ==
  LET global == Minimum(Share(r[1]), NumRules)
      tld == Minimum(Share(r[2]), NumRules - global)
  IN  [global |-> global, tld |-> tld, apex |-> NumRules - global - tld]

mix == partitionRuleCounts(rates)

prefix[j \in 0..Len(sizes)] == IF j = 0 THEN 0 ELSE prefix[j-1] + sizes[j]

\* Keys are numbered from 0: the first whose running total exceeds i.
KeyForRule(i) == Cardinality({j \in 1..Len(sizes) : prefix[j] <= i})

Tier(i) ==
  IF i < mix.global THEN [tier |-> "global", index |-> i]
  ELSE IF i < mix.global + mix.tld THEN [tier |-> "tld", index |-> i - mix.global]
  ELSE [tier |-> "apex", index |-> i - mix.global - mix.tld]

-----------------------------------------------------------------------------
(* Rules and queries *)

Name(text, n) == text \o ToString(n)

syntheticTld(index) == Name("ztld", index % NumTlds)

\* The labels every rule of an apex key shares, and its port.
keyLabels(k) == <<Name("host", k), Name("corp", k % 1000), Name("dragonfly", k % NumDomains), "com">>
keyPort(k) == benchPorts[(k % 3) + 1]

portOf(i) ==
  LET t == Tier(i)
  IN  IF t.tier = "apex" THEN keyPort(KeyForRule(t.index)) ELSE benchPorts[(i % 3) + 1]

ruleForIndex(i) ==
  LET t == Tier(i)
  IN  [fqdn1 |-> CASE t.tier = "global" -> Star
                   [] t.tier = "tld"    -> Wild(<<syntheticTld(t.index)>>)
                   [] t.tier = "apex"   -> Wild(keyLabels(KeyForRule(t.index))),
       port |-> portOf(i),
       fqdn2 |-> Wild(<<Name("dest", i), "example", "com">>),
       scope |-> "B", id |-> Name("rule:", i)]

Raw(labels) == [padded |-> FALSE, labels |-> labels]

matchingQueryForIndex(i) ==
  LET t == Tier(i)
  IN  [fqdn1 |-> Raw(CASE t.tier = "global" -> <<Name("probe", i), "global-bench", "invalid">>
                       [] t.tier = "tld"    -> <<Name("probe", i), syntheticTld(t.index)>>
                       [] t.tier = "apex"   -> <<"probe">> \o keyLabels(KeyForRule(t.index))),
       port |-> portOf(i),
       fqdn2 |-> Raw(<<"probe", Name("dest", i), "example", "com">>)]

missQuery(n, junk) ==
  [fqdn1 |-> Raw(<<Name("nomatch", n), Name("junk", junk), "invalid">>),
   port |-> 443, fqdn2 |-> Raw(<<Name("nomatch", n), "invalid">>)]

\* The names asked for, on either side: lower-case text of few labels, and for
\* different rules different text.
askedFqdn1 ==
  LET I == 0..NumRules-1
  IN  {<<Name("probe", i), "global-bench", "invalid">> : i \in I}
      \cup {<<Name("probe", i), syntheticTld(j)>> : i, j \in I}
      \cup {<<"probe">> \o keyLabels(k) : k \in I}
      \cup {<<Name("nomatch", n), Name("junk", n + 1), "invalid">> : n \in 0..2}

askedFqdn2 ==
  {<<"probe", Name("dest", i), "example", "com">> : i \in 0..NumRules-1}
  \cup {<<Name("nomatch", n), "invalid">> : n \in 0..2}

ASSUME NamesAssumption ==
  /\ \A f \in askedFqdn1 \cup askedFqdn2 :
       /\ Len(f) <= MaxLabels
       /\ \A i \in DOMAIN f : Lower[f[i]] = f[i] /\ f[i] \notin {EmptyLabel, AnyLabel}
  /\ \A f \in askedFqdn1 : Crc32[f] \in Nat
  /\ \A i, j \in 0..NumRules-1 : Name("dest", i) = Name("dest", j) => i = j

-----------------------------------------------------------------------------
(* The program up to the query phase *)

WorkloadInit ==
  /\ phase = "args"
  /\ rates \in Rates
  /\ tiers \in TierSpecs
  /\ sizes = <<>>
  /\ batchIdx = 0
  /\ totalRules = 0
  /\ db = [x \in {} |-> NoRule]

Validate ==
  /\ phase = "args"
  /\ phase' = IF validateRuleMixRates(rates) /\ parseDepthTiers(tiers)
              THEN "layout" ELSE "rejected"
  /\ UNCHANGED <<rates, tiers, sizes, batchIdx, totalRules, db>>

\* The last key is trimmed.
trimmed(size) == Minimum(size, mix.apex - prefix[Len(sizes)])

\* One turn of buildKeySizes: pick a tier, draw a size.
DrawKey ==
  /\ phase = "layout"
  /\ prefix[Len(sizes)] < mix.apex
  /\ \E t \in DOMAIN tiers : \E size \in tiers[t].lo..tiers[t].hi :
       sizes' = Append(sizes, trimmed(size))
  /\ UNCHANGED <<phase, rates, tiers, batchIdx, totalRules, db>>

StartWriting ==
  /\ phase = "layout"
  /\ prefix[Len(sizes)] >= mix.apex
  /\ phase' = "write"
  /\ UNCHANGED <<rates, tiers, sizes, batchIdx, totalRules, db>>

numBatches == (NumRules + BatchSize - 1) \div BatchSize

M_batch_floor == [lo |-> batchIdx * BatchSize, hi |-> batchIdx * BatchSize + BatchSize - 1]

\* The indices of the next batch, hi excluded.
batch == [lo |-> batchIdx * BatchSize, hi |-> Minimum((batchIdx + 1) * BatchSize, NumRules)]

WriteBatch ==
  LET rules == [j \in 1..(batch.hi - batch.lo) |-> ruleForIndex(batch.lo + j - 1)]
  IN  /\ phase = "write"
      /\ batchIdx < numBatches
      /\ db' = hset_all(db, NumBuckets, rules)
      /\ totalRules' = totalRules + Len(rules)
      /\ batchIdx' = batchIdx + 1
      /\ UNCHANGED <<phase, rates, tiers, sizes>>

\* PutMany returns an error: the program ends before any query is made.
WriteFails ==
  /\ phase = "write"
  /\ batchIdx < numBatches
  /\ phase' = "failed"
  /\ UNCHANGED <<rates, tiers, sizes, batchIdx, totalRules, db>>

EndWriting ==
  /\ phase = "write"
  /\ batchIdx = numBatches
  /\ phase' = "query"
  /\ UNCHANGED <<rates, tiers, sizes, batchIdx, totalRules, db>>

WorkloadNext ==
  Validate \/ DrawKey \/ StartWriting \/ WriteBatch \/ WriteFails \/ EndWriting

WorkloadSpec == WorkloadInit /\ [][WorkloadNext]_workloadVars

-----------------------------------------------------------------------------
(* Properties *)

\* The three tiers share out exactly NumRules rules however the rates round,
\* and the keys share out exactly the apex rules: every apex rule lies at a
\* position its key has room for, and no key is empty.
LayoutPartitionsRules ==
  phase \in {"write", "query"} =>
    /\ mix.global >= 0 /\ mix.tld >= 0 /\ mix.apex >= 0
    /\ mix.global + mix.tld + mix.apex = NumRules
    /\ prefix[Len(sizes)] = mix.apex
    /\ \A i \in 0..mix.apex-1 :
         LET k == KeyForRule(i)
         IN  k \in 0..Len(sizes)-1 /\ i - prefix[k] \in 0..sizes[k+1]-1

Answers(q, mode) ==
  {LuaLookup(db, NumBuckets, q.fqdn1, q.port, q.fqdn2, mode),
   NoScriptLookup(db, NumBuckets, q.fqdn1, q.port, q.fqdn2, mode)}

\* The hit rate the benchmark prints means something: every rule has its place,
\* and once the write phase is over, the query made for rule i is answered with
\* rule i by both kinds of store and in both modes, in whatever tier, batch and
\* key the rule is, and a miss query is answered by none.
LoadedRulesAreHit ==
  /\ LayoutPartitionsRules
  /\ phase = "query" =>
     /\ totalRules = NumRules
     /\ \A mode \in {SINGLE_LEVEL, MULTI_LEVEL} :
          /\ \A i \in 0..NumRules-1 :
               \A m \in Answers(matchingQueryForIndex(i), mode) :
                 m.reply = "match" /\ m.rule_id = Name("rule:", i)
          /\ \A n \in 0..2 : Answers(missQuery(n, n + 1), mode) = {Miss}
==============================================================================
