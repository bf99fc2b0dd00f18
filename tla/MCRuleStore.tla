----------------------------- MODULE MCRuleStore -----------------------------
(***************************************************************************)
(* One rule of the apex tier and one of the global tier.  Two counts share *)
(* the token of bucket 0, as the golden tables of 2 and 8 buckets do.      *)
(***************************************************************************)
EXTENDS RuleStore, TLC

CONSTANTS w1, w2, r1, v1, v2, apex, star, q1

MCToken == [n \in {1, 2, 3} |-> [i \in 0..n-1 |-> IF i = 0 THEN "3" ELSE ToString(10 * n + i)]]

One(c, v) == <<[cell |-> c, val |-> v]>>

MCBatches == { One(star, v1), One(star, v2), One(apex, v1), One(star, v1) \o One(apex, v2) }

\* The replicated rule alone, and a load naming it twice.
MCStarBatches == { One(star, v1), One(star, v1) \o One(star, v2) }

MCChecksum == [q \in {q1} |-> 5]

\* The apex group first, the global group second;
\* v2 is out of scope for the catch-all rule.
MCGroups == [q \in {q1} |-> << {apex} \cap Cells, {star} >>]

MCRank == [q \in {q1} |-> [c \in Cells |-> IF c = apex THEN 0 ELSE 1]]

MCBlocked == [q \in {q1} |-> {<<star, v2>>}]

WriterSymmetry == Permutations({w1, w2})
=============================================================================
