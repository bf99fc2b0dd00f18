----------------------------- MODULE BucketTable -----------------------------
(***************************************************************************)
(* The deterministic token table that spreads the catch-all tiers over the *)
(* cluster's hash slots: fqdn_slots.py and its two Go ports (slots.go).    *)
(*                                                                         *)
(* The slot space 0..NumSlots-1 is cut into num_buckets contiguous ranges. *)
(* The search draws the counters 0, 1, 2, ... ; a counter whose decimal    *)
(* text hashes to a slot of a range that has no token yet becomes that     *)
(* range's token.  Writers and readers in different languages never talk   *)
(* to each other about the table: they agree on key names only because the *)
(* search is a function of num_buckets.                                    *)
(***************************************************************************)
EXTENDS SlotRanges

CONSTANTS
  BucketCounts,   \* the num_buckets arguments the table is asked for
  SlotOf,         \* SlotOf[k]: the hash slot of the decimal text of k
  MaxDraw,        \* the largest counter SlotOf is given for
  CapFactor,      \* 200 in the code
  CapFloor        \* 10_000 in the code

ASSUME BucketCountsAssumption == BucketCounts \subseteq Int
ASSUME MaxDrawAssumption == MaxDraw \in Nat
ASSUME SlotOfAssumption == SlotOf \in [0..MaxDraw -> 0..NumSlots-1]
ASSUME CapConstantsAssumption == CapFactor \in Nat /\ CapFloor \in Nat

\* math.ceil(math.log(n)) for 2 <= n <= 22026: the thresholds are floor(e^i).
CeilLn(n) ==
  1 + Cardinality({e \in {2, 7, 20, 54, 148, 403, 1096, 2980, 8103} : e < n})

iteration_cap(n) == CapFactor * n * CeilLn(IF n < 2 THEN 2 ELSE n) + CapFloor

ASSUME CapAssumption ==
  \A n \in BucketCounts \cap 1..NumSlots : iteration_cap(n) \in 0..MaxDraw

None == -1        \* a bucket without a token

VARIABLES
  num_buckets,    \* the argument of the call
  phase,          \* how far the call has come
  modulo_safe,    \* whether tokens must also satisfy slot % num_buckets = bucket
  k,              \* the next counter to draw
  tokens,         \* tokens[b]: the counter chosen for bucket b, or None
  filled          \* how many buckets have a token

vars == <<num_buckets, phase, modulo_safe, k, tokens, filled>>

-----------------------------------------------------------------------------
(* The search *)

\* A counter with slot s may become the token of bucket b.
Fits(s, b, n, safe) == BucketFor(s, n) = b /\ (safe => s % n = b)

Init ==
  /\ num_buckets \in BucketCounts
  /\ phase = "called"
  /\ modulo_safe = FALSE
  /\ k = 0
  /\ tokens = [b \in {} |-> None]
  /\ filled = 0

\* An argument outside [1, NumSlots] is refused before anything is computed.
Reject ==
  /\ phase = "called"
  /\ num_buckets \notin 1..NumSlots
  /\ phase' = "invalid"
  /\ UNCHANGED <<num_buckets, modulo_safe, k, tokens, filled>>

Prepare ==
  /\ phase = "called"
  /\ num_buckets \in 1..NumSlots
  /\ phase' = "searching"
  /\ modulo_safe' = is_modulo_safe(num_buckets)
  /\ tokens' = [b \in 0..num_buckets-1 |-> None]
  /\ UNCHANGED <<num_buckets, k, filled>>

\* The bucket of slot s has no token yet and s suits it.
Accepts(s) ==
  LET b == BucketFor(s, num_buckets)
  IN  tokens[b] = None /\ (modulo_safe => s % num_buckets = b)

M_TakeLatest ==
  /\ phase = "searching" /\ filled < num_buckets /\ k <= iteration_cap(num_buckets)
  /\ tokens' = [tokens EXCEPT ![BucketFor(SlotOf[k], num_buckets)] = k]
  /\ filled' = filled + 1
  /\ k' = k + 1
  /\ UNCHANGED <<num_buckets, phase, modulo_safe>>

\* One turn of the loop that keeps the drawn counter ...
Take ==
  /\ phase = "searching" /\ filled < num_buckets /\ k <= iteration_cap(num_buckets)
  /\ Accepts(SlotOf[k])
  /\ tokens' = [tokens EXCEPT ![BucketFor(SlotOf[k], num_buckets)] = k]
  /\ filled' = filled + 1
  /\ k' = k + 1
  /\ UNCHANGED <<num_buckets, phase, modulo_safe>>

\* ... and one that discards it.
Skip ==
  /\ phase = "searching" /\ filled < num_buckets /\ k <= iteration_cap(num_buckets)
  /\ ~Accepts(SlotOf[k])
  /\ k' = k + 1
  /\ UNCHANGED <<num_buckets, phase, modulo_safe, tokens, filled>>

GiveUp ==
  /\ phase = "searching" /\ filled < num_buckets /\ k > iteration_cap(num_buckets)
  /\ phase' = "gaveup"
  /\ UNCHANGED <<num_buckets, modulo_safe, k, tokens, filled>>

Finish ==
  /\ phase = "searching" /\ filled = num_buckets
  /\ phase' = "done"
  /\ UNCHANGED <<num_buckets, modulo_safe, k, tokens, filled>>

Next == Reject \/ Prepare \/ Take \/ Skip \/ GiveUp \/ Finish

Spec == Init /\ [][Next]_vars

-----------------------------------------------------------------------------
(* Properties *)

TypeOK ==
  /\ num_buckets \in BucketCounts
  /\ phase \in {"called", "invalid", "searching", "gaveup", "done"}
  /\ modulo_safe \in BOOLEAN
  /\ k \in 0..MaxDraw+1
  /\ filled \in Nat
  /\ phase \in {"searching", "gaveup", "done"} =>
       /\ num_buckets \in 1..NumSlots
       /\ tokens \in [0..num_buckets-1 -> 0..MaxDraw \cup {None}]

InTable == phase \in {"searching", "gaveup", "done"}

\* The table is a function of num_buckets alone, whatever process or language
\* computes it: a bucket's token is the least counter that fits the bucket,
\* and a bucket still without one has been offered none that fits
\* (fqdn_slots.py compute_bucket_table: the "frozen contract").
FirstFit ==
  InTable =>
    \A b \in 0..num_buckets-1 :
      \A j \in 0..k-1 :
        Fits(SlotOf[j], b, num_buckets, modulo_safe) =>
          tokens[b] # None /\ tokens[b] <= j

\* Every token hashes into the slot range of the bucket it was chosen for, so
\* the replicas of a catch-all rule lie in different parts of the slot space;
\* with modulo_safe its slot is also congruent to the bucket index.
TokensHitTheirBucket ==
  InTable =>
    \A b \in 0..num_buckets-1 :
      tokens[b] # None =>
        /\ SlotOf[tokens[b]] \in slot_range(b, num_buckets)
        /\ modulo_safe => SlotOf[tokens[b]] % num_buckets = b

\* The loop counts buckets, not draws: when it ends no bucket is left without
\* a token, so no store ever builds a key from a missing token.
DoneMeansFull ==
  phase = "done" => \A b \in 0..num_buckets-1 : tokens[b] # None

\* The "frozen contract" between the programs that write replicas and those
\* that read them: a token is the least counter of its bucket's own range and
\* residue, for every bucket, and no table is handed out before it is whole.
TableIsTheContract == FirstFit /\ TokensHitTheirBucket /\ DoneMeansFull

-----------------------------------------------------------------------------
(* The arithmetic of the ranges, for the count of the search *)

\* The Python predicate, which relies on a non-negative %, and the Go one,
\* which normalises a truncated % by hand, classify every count alike;
\* otherwise a Go reader would pick other tokens than the Python writer.
PortsAgreeOnModuloSafety ==
  InTable => (is_modulo_safe(num_buckets) <=> GoIsModuloSafe(num_buckets))

\* The ranges of a count cover the slot space without overlap, none is empty
\* and their widths differ by at most one slot ("Range widths differ by at
\* most 1 slot", slot_range).
RangesPartitionTheSlots ==
  InTable =>
    LET Buckets == 0..num_buckets-1
        Width(b) == Cardinality(slot_range(b, num_buckets))
    IN  /\ \A s \in 0..NumSlots-1 : \E i \in Buckets :
             /\ s \in slot_range(i, num_buckets)
             /\ \A j \in Buckets : s \in slot_range(j, num_buckets) => j = i
        /\ \A i, j \in Buckets : Width(i) > 0 /\ Width(i) <= Width(j) + 1

\* Both ways of finding a slot's bucket return the one whose range holds it,
\* always a legal index into the table.
BisectFindsTheRange ==
  InTable =>
    \A s \in 0..NumSlots-1 :
      LET b == BucketFor(s, num_buckets)
      IN  /\ b \in 0..num_buckets-1
          /\ s \in slot_range(b, num_buckets)
          /\ SortSearch(s, num_buckets) - 1 = b

\* Every slot belongs to one bucket, and all ports find it.
SlotsHaveOneBucket == RangesPartitionTheSlots /\ BisectFindsTheRange
==============================================================================
