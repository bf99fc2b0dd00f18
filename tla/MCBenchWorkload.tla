--------------------------- MODULE MCBenchWorkload ---------------------------
(***************************************************************************)
(* Seven rules, so that shares round up together and batches do not divide *)
(* evenly; two domains and two top-level labels, so that keys collide.     *)
(* Or else several runs of the Python benchmark, one after another.        *)
(***************************************************************************)
EXTENDS BenchWorkload, BenchSession

VARIABLE which

TierSpec(pct, lo, hi) == [pct |-> pct, lo |-> lo, hi |-> hi]

allVars == <<which, workloadVars, sessionVars>>

MCInit ==
  /\ which \in {"workload", "session"}
  /\ WorkloadInit /\ SessionInit
  /\ which = "session" => rates = <<0, 0>> /\ tiers = <<TierSpec(100, 3, 3)>>

Workload == which = "workload" /\ WorkloadNext /\ UNCHANGED <<which, sessionVars>>

Session == which = "session" /\ SessionNext /\ UNCHANGED <<which, workloadVars>>

MCSpec == MCInit /\ [][Workload \/ Session]_allVars

MCLower == [l \in STRING |-> l]

MCCrc32 == [f \in Seq(STRING) |-> 3 * Len(f) + 1]

MCToken == [n \in {2, 3} |-> [i \in 0..n-1 |-> 10 * n + i]]

MCRates == {<<0, 0>>, <<50, 50>>, <<30, 20>>, <<100, 0>>, <<60, 50>>, <<8, 8>>, <<7, 36>>}

MCTierSpecs == { <<TierSpec(50, 1, 2), TierSpec(10, 4, 5)>>, <<TierSpec(100, 3, 3)>>,
                 <<TierSpec(0, 1, 2)>>, <<TierSpec(50, 0, 2)>>, <<TierSpec(50, 3, 2)>> }

\* What random.Random(seed) draws from a tier specification.
DrawnSizes ==
  [tiers1 |-> [s \in {1, 2, 1337} |-> CASE s = 1 -> <<1, 3, 2>> [] s = 2 -> <<3, 1, 3>>
                                        [] s = 1337 -> <<2, 1, 3>>],
   tiers2 |-> [s \in {1, 2, 1337} |-> <<4, 4>>]]

MCDrawn == DrawnSizes

Args(source, no_flush, num_rules, num_queries, seed, given_tiers) ==
  [query_source |-> source, no_flush |-> no_flush, num_rules |-> num_rules,
   num_queries |-> num_queries, seed |-> seed, tiers |-> given_tiers,
   miss_percent |-> IF num_queries = 3 THEN 50 ELSE 25, num_buckets |-> num_queries,
   write_batch_size |-> 3, query_file_batch_size |-> 2]

\* Loads of four and five rules, reruns under another seed, another number of
\* rules or other tiers, and three queries in batches of two.
ArgumentLists ==
  {Args("memory", FALSE, 5, 2, 1, "tiers1"), Args("disk", FALSE, 4, 3, 1, "tiers1"),
   Args("memory", TRUE, 4, 3, 2, "tiers1"), Args("memory", TRUE, 5, 2, 2, "tiers1"),
   Args("memory", TRUE, 4, 2, 2, "tiers2"),
   Args("disk", TRUE, 4, 3, 2, "tiers1"), Args("reuse", TRUE, 4, 3, 1, "tiers1"),
   Args("reuse", TRUE, 4, 2, 1, "tiers1"), Args("reuse", FALSE, 5, 2, 2, "tiers1")}

MCArguments == ArgumentLists
==============================================================================
