----------------------------- MODULE FqdnPattern -----------------------------
(***************************************************************************)
(* The pure matching vocabulary of fqdn_pattern.py (ported to Go in the    *)
(* two pattern.go): normalisation of a queried name, hash tags, and the    *)
(* candidate patterns of a name, most specific first.                      *)
(*                                                                         *)
(* A name is the sequence of its labels; the text "a.b." is <<"a", "b",    *)
(* "">>.  A label is an atom: "" is the empty label, "*" stands for any    *)
(* label that contains a star.                                             *)
(***************************************************************************)
EXTENDS Integers, Sequences

CONSTANTS
  MaxLabels,   \* MAX_LABELS: 20 in the code
  Lower,       \* Lower[l]: label l in lower case
  Crc32        \* Crc32[fqdn]: zlib.crc32 of the text of a normalised name

GLOBAL_RANK == 255

\* The rank of the bare star exceeds that of any wildcard.
ASSUME MaxLabelsAssumption == MaxLabels \in 1..GLOBAL_RANK

SINGLE_LEVEL == "single"
MULTI_LEVEL == "multi"

EmptyLabel == ""
AnyLabel == "*"

\* InvalidFqdn was raised.
InvalidFqdn == <<>>

\* rstrip("."): every trailing empty label goes; the empty text that may
\* remain still splits into one empty label.
StripTrailingDots(labels) ==
  LET kept == {i \in DOMAIN labels : labels[i] # EmptyLabel}
  IN  IF kept = {} THEN <<EmptyLabel>>
      ELSE SubSeq(labels, 1, CHOOSE i \in kept : \A j \in kept : j <= i)

\* raw.padded: the text has white space around it, which strip() removes
\* after the two early tests on the unstripped text.
normalize_fqdn(raw) ==
  LET stripped == StripTrailingDots(raw.labels)
      name == [i \in DOMAIN stripped |-> Lower[stripped[i]]]
  IN  IF \/ ~raw.padded /\ raw.labels \in {<<EmptyLabel>>, <<AnyLabel>>}
         \/ \E i \in DOMAIN name : name[i] \in {EmptyLabel, AnyLabel}
         \/ Len(name) > MaxLabels
      THEN InvalidFqdn
      ELSE name

-----------------------------------------------------------------------------
(* Patterns: a literal name, "*." followed by labels, or the bare "*". *)

Exact(labels) == [kind |-> "exact", labels |-> labels]
Wild(labels) == [kind |-> "wild", labels |-> labels]
Star == [kind |-> "star", labels |-> <<>>]

\* A text has at least one label, though it may be empty.
LabelTexts == STRING
Names == Seq(LabelTexts) \ {<<>>}
RawNames == [padded : BOOLEAN, labels : Names]
Patterns == [kind : {"exact", "wild"}, labels : Names] \cup {Star}

\* The co-location group of a pattern's key: its registrable domain, its
\* top-level label, or the one global group.
hash_tag(pattern) ==
  LET n == Len(pattern.labels)
  IN  IF pattern.kind = "star" THEN <<"__global__">>
      ELSE IF n = 1 THEN <<"__tld__", pattern.labels[1]>>
      ELSE <<"apex", pattern.labels[n-1], pattern.labels[n]>>

is_bucketed_tag(tag) == tag[1] \in {"__global__", "__tld__"}

bucket_index_of(fqdn, num_buckets) ==
  IF num_buckets > 1 THEN Crc32[fqdn] % num_buckets ELSE 0

\* How many leading labels a wildcard may leave open under the mode.
deepest(n, mode) == IF mode = MULTI_LEVEL \/ n = 1 THEN n - 1 ELSE 1

\* Every pattern that could match a normalised name, most specific first: at
\* position k + 1 the one that leaves k labels open, the bare star last.
field_candidates(fqdn, mode) ==
  LET n == Len(fqdn)
      last == deepest(n, mode) + 2
  IN  [i \in 1..last |->
         [pattern |-> CASE i = 1 -> Exact(fqdn)
                        [] i = last -> Star
                        [] OTHER -> Wild(SubSeq(fqdn, i, n)),
          rank |-> IF i = last THEN GLOBAL_RANK ELSE i - 1,
          needs_multi |-> 2 < i /\ i < last]]

\* The same list for the side that is part of a key: with the tag, and the
\* bucket that the whole name hashes to.
candidate(c, bucket_index) ==
  [pattern |-> c.pattern, rank |-> c.rank, needs_multi |-> c.needs_multi,
   tag |-> hash_tag(c.pattern), bucket_index |-> bucket_index]

candidates(fqdn, mode, num_buckets) ==
  LET fields == field_candidates(fqdn, mode)
  IN  [i \in DOMAIN fields |->
         candidate(fields[i], bucket_index_of(fqdn, num_buckets))]
==============================================================================
