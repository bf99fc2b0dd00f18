----------------------------- MODULE SlotRanges ------------------------------
(***************************************************************************)
(* The arithmetic under the token table (fqdn_slots.py and the two         *)
(* slots.go): num_buckets contiguous ranges of hash slots, the bucket a    *)
(* slot belongs to, and whether every range also holds a slot that the     *)
(* interleaved policy (slot % num_buckets) would give the same bucket.     *)
(***************************************************************************)
EXTENDS Integers, FiniteSets

CONSTANT NumSlots    \* NUM_SLOTS: 16384 in the code

ASSUME NumSlotsAssumption == NumSlots \in Nat \ {0}

\* The first slot of bucket i; bucket i ends where bucket i+1 begins.
Boundary(i, n) == (i * NumSlots) \div n

slot_range(i, n) == Boundary(i, n) .. (Boundary(i + 1, n) - 1)

\* bisect.bisect_right on the ascending list of range starts: how many of
\* them are at or below s.
M_bisect_left(s, n) == Cardinality({i \in 0..n-1 : Boundary(i, n) < s})

bisect_right(s, n) == Cardinality({i \in 0..n-1 : Boundary(i, n) <= s})

BucketFor(s, n) == bisect_right(s, n) - 1

\* Go finds the same position with sort.Search: the least index whose start
\* is above s, or n when there is none.
SortSearch(s, n) ==
  CHOOSE i \in 0..n : /\ i < n => Boundary(i, n) > s
                      /\ \A j \in 0..i-1 : Boundary(j, n) <= s

\* Python's % is already non-negative for a positive divisor, as TLA+'s is.
M_MatchFromZero(lo, hi, n, i) == lo + (i % n) < hi

bucket_has_modulo_match(lo, hi, n, i) == lo + ((i - lo) % n) < hi

\* Go's % truncates: the result has the sign of the dividend.
TruncatedMod(a, n) == IF a >= 0 THEN a % n ELSE -((-a) % n)

\* The Go ports normalise the truncated remainder by hand.
M_GoUnnormalised(lo, hi, n, i) == lo + TruncatedMod(i - lo, n) < hi

GoBucketHasModuloMatch(lo, hi, n, i) ==
  lo + TruncatedMod(TruncatedMod(i - lo, n) + n, n) < hi

is_modulo_safe(n) ==
  \A i \in 0..n-1 :
     bucket_has_modulo_match(Boundary(i, n), Boundary(i + 1, n), n, i)

GoIsModuloSafe(n) ==
  \A i \in 0..n-1 :
     GoBucketHasModuloMatch(Boundary(i, n), Boundary(i + 1, n), n, i)
==============================================================================
