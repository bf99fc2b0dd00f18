----------------------------- MODULE BenchSession ----------------------------
(***************************************************************************)
(* One run of benchmark.py after another on one data base and one query    *)
(* file: what main() flushes, writes, builds, stages on disk and reuses,   *)
(* up to the answers of the queries (BenchPool models how these are        *)
(* issued).  Queries are drawn with --seed, the layout with LAYOUT_SEED.   *)
(***************************************************************************)
EXTENDS Integers, Sequences, FiniteSets, SequencesExt

CONSTANTS
  Arguments,      \* command lines, as records
  Drawn,          \* (external) Drawn[tiers][seed]: the sizes rng draws from the tiers
  LAYOUT_SEED,
  OtherCounts     \* bucket counts the Go benchmark may have recorded

ASSUME SessionAssumption ==
  \A a \in Arguments :
    /\ {a.num_rules, a.num_queries, a.num_buckets, a.write_batch_size,
        a.query_file_batch_size} \subseteq Nat \ {0}
    /\ a.miss_percent \in 0..100

VARIABLES
  args,           \* of the run
  doing,          \* how far main() has come
  layout,         \* key_sizes
  rules,          \* the rules of the name space: <<key, rule index>>
  count_record,   \* its recorded bucket count, 0 when there is none
  batch_idx,      \* batches written
  queries,        \* the queries of the run
  query_file,     \* the lines of --query-file
  answers,        \* what the queries were answered
  loaded,         \* history: the arguments of the load that rules is from
  staged          \* history: the arguments of the run query_file is from

sessionVars == <<args, doing, layout, rules, count_record, batch_idx, queries, query_file,
                 answers, loaded, staged>>

Nothing == [none |-> TRUE]
MissQuery == <<"nomatch">>

Smaller(a, b) == IF a < b THEN a ELSE b

-----------------------------------------------------------------------------
(* Layout, rules and queries *)

Total(sizes, k) == FoldLeft(LAMBDA sum, s : sum + s, 0, SubSeq(sizes, 1, k))

\* Keys have a rule at least, and rng draws until there are keys enough.
ASSUME DrawnAssumption ==
  \A a \in Arguments :
    LET drawn == Drawn[a.tiers][LAYOUT_SEED]
    IN  drawn \in Seq(Nat \ {0}) /\ Total(drawn, Len(drawn)) >= a.num_rules

\* The drawn sizes until they reach num_rules, the last one trimmed.
build_key_sizes(num_rules, drawn) ==
  LET last == CHOOSE k \in DOMAIN drawn :
                Total(drawn, k) >= num_rules /\ Total(drawn, k - 1) < num_rules
  IN  [k \in 1..last |-> Smaller(drawn[k], num_rules - Total(drawn, k - 1))]

key_for_rule(i) == Cardinality({k \in DOMAIN layout : Total(layout, k) <= i})

rule_for_index(i) == <<key_for_rule(i), i>>

\* The name and port asked for are those of the key, the other name is the
\* rule's own.
matching_query_for_index(i) == <<key_for_rule(i), i>>

\* round() takes a half to the even side.
num_hits ==
  LET hundredths == args.num_queries * (100 - args.miss_percent)
      below == hundredths \div 100
  IN  IF 2 * (hundredths % 100) > 100 \/ (2 * (hundredths % 100) = 100 /\ (below % 2) = 1)
      THEN below + 1 ELSE below

\* Shuffled: the misses may be anywhere.
built_queries ==
  {q \in [1..args.num_queries ->
            {matching_query_for_index(i) : i \in 0..args.num_rules-1} \cup {MissQuery}] :
     Cardinality({j \in DOMAIN q : q[j] # MissQuery}) = num_hits}

-----------------------------------------------------------------------------
(* Batches *)

\* The slices of a sequence, the last one maybe shorter.
Slices(list, size) ==
  [b \in 1..((Len(list) + size - 1) \div size) |->
     SubSeq(list, (b - 1) * size + 1, Smaller(b * size, Len(list)))]

write_queries_to_file(list) == FlattenSeq(Slices(list, args.query_file_batch_size))

\* Full batches are moved over one by one, and what is left behind them.
read_queries_from_file(lines) ==
  FoldLeft(LAMBDA r, line :
             IF Len(r.batch) + 1 >= args.query_file_batch_size
             THEN [queries |-> r.queries \o Append(r.batch, line), batch |-> <<>>]
             ELSE [r EXCEPT !.batch = Append(@, line)],
           [queries |-> <<>>, batch |-> <<>>], lines)

M_AllOf_full_batches(r) == r.queries

\* What the loop has left over is added.
AllOf(r) == r.queries \o r.batch

-----------------------------------------------------------------------------
(* main() *)

SessionInit ==
  /\ args = Nothing /\ doing = "exited"
  /\ layout = <<>> /\ rules = {} /\ count_record = 0 /\ batch_idx = 0
  /\ queries = <<>> /\ query_file = <<>> /\ answers = <<>>
  /\ loaded = Nothing /\ staged = Nothing

\* A reused file must exist; the server must answer the PING.
Start ==
  /\ doing = "exited"
  /\ \E a \in Arguments :
       /\ a.query_source = "reuse" => staged # Nothing
       /\ args' = a
  /\ doing' = "open"
  /\ layout' = <<>> /\ batch_idx' = 0 /\ queries' = <<>> /\ answers' = <<>>
  /\ UNCHANGED <<rules, count_record, query_file, loaded, staged>>

OpenStore ==
  /\ doing = "open"
  /\ doing' = IF count_record \in {0, args.num_buckets} THEN "layout" ELSE "exited"
  /\ UNCHANGED <<args, layout, rules, count_record, batch_idx, queries, query_file, answers,
                 loaded, staged>>

M_layout_seed == args.seed

layout_seed == LAYOUT_SEED

BuildLayout ==
  /\ doing = "layout"
  /\ layout' = IF ~args.no_flush \/ args.query_source # "reuse"
               THEN build_key_sizes(args.num_rules, Drawn[args.tiers][layout_seed])
               ELSE <<>>
  /\ doing' = IF args.no_flush THEN "queries" ELSE "flush"
  /\ UNCHANGED <<args, rules, count_record, batch_idx, queries, query_file, answers, loaded,
                 staged>>

FlushDb ==
  /\ doing = "flush"
  /\ rules' = {} /\ count_record' = 0 /\ loaded' = Nothing
  /\ doing' = "write"
  /\ UNCHANGED <<args, layout, batch_idx, queries, query_file, answers, staged>>

Indices == [j \in 1..args.num_rules |-> j - 1]

\* All its rules are of the apex tier: no bucket count is recorded.
WriteBatches ==
  LET batches == Slices(Indices, args.write_batch_size)
  IN  /\ doing = "write"
      /\ IF batch_idx < Len(batches)
         THEN /\ rules' = rules \cup
                   {rule_for_index(i) : i \in ToSet(batches[batch_idx + 1])}
              /\ batch_idx' = batch_idx + 1
              /\ UNCHANGED <<doing, loaded>>
         ELSE /\ doing' = "queries"
              /\ loaded' = args
              /\ UNCHANGED <<rules, batch_idx>>
      /\ UNCHANGED <<args, layout, count_record, queries, query_file, answers, staged>>

\* Too short a file ends the run; otherwise it is trimmed.
Reuse ==
  LET lines == AllOf(read_queries_from_file(query_file))
  IN  /\ doing = "queries" /\ args.query_source = "reuse"
      /\ IF Len(lines) < args.num_queries
         THEN doing' = "exited" /\ queries' = queries
         ELSE doing' = "ask" /\ queries' = SubSeq(lines, 1, args.num_queries)
      /\ UNCHANGED <<args, layout, rules, count_record, batch_idx, query_file, answers,
                     loaded, staged>>

BuildQueries ==
  /\ doing = "queries" /\ args.query_source # "reuse"
  /\ queries' \in built_queries
  /\ doing' = IF args.query_source = "disk" THEN "stage" ELSE "ask"
  /\ UNCHANGED <<args, layout, rules, count_record, batch_idx, query_file, answers, loaded,
                 staged>>

Stage ==
  /\ doing = "stage"
  /\ query_file' = write_queries_to_file(queries)
  /\ staged' = args
  /\ doing' = "read back"
  /\ UNCHANGED <<args, layout, rules, count_record, batch_idx, queries, answers, loaded>>

ReadBack ==
  /\ doing = "read back"
  /\ queries' = AllOf(read_queries_from_file(query_file))
  /\ doing' = "ask"
  /\ UNCHANGED <<args, layout, rules, count_record, batch_idx, query_file, answers, loaded,
                 staged>>

\* A query hits the rule of its key and index, if that was written.
Ask ==
  /\ doing = "ask"
  /\ answers' = [j \in DOMAIN queries |-> IF queries[j] \in rules THEN "hit" ELSE "MISS"]
  /\ doing' = "reported"
  /\ UNCHANGED <<args, layout, rules, count_record, batch_idx, queries, query_file, loaded,
                 staged>>

\* The run ends, or an exception or an interrupt ends it earlier; the file may
\* have been written in part, up to a batch.
EndRun ==
  /\ doing # "exited"
  /\ doing' = "exited"
  /\ \/ UNCHANGED <<query_file, staged>>
     \/ /\ doing = "stage"
        /\ \E b \in 0..Len(Slices(queries, args.query_file_batch_size))-1 :
             query_file' = SubSeq(queries, 1, b * args.query_file_batch_size)
        /\ staged' = args
  /\ UNCHANGED <<args, layout, rules, count_record, batch_idx, queries, answers, loaded>>

\* (external) The Go benchmark, which uses the same name space, has flushed it
\* and written rules of its own, catch-all rules under its bucket count.
GoBenchmarkRan ==
  /\ doing = "exited"
  /\ count_record' \in OtherCounts
  /\ rules' = {} /\ loaded' = Nothing
  /\ UNCHANGED <<args, doing, layout, batch_idx, queries, query_file, answers, staged>>

SessionNext ==
  \/ Start \/ OpenStore \/ BuildLayout \/ FlushDb \/ WriteBatches
  \/ Reuse \/ BuildQueries \/ Stage \/ ReadBack \/ Ask \/ EndRun \/ GoBenchmarkRan

SessionSpec == SessionInit /\ [][SessionNext]_sessionVars

-----------------------------------------------------------------------------
(* Properties *)

\* "a rerun with a different --seed resamples queries against the same
\* previously-written keys": whatever source, seed and number of rules up to
\* the written one a run has, its queries hit what an earlier run loaded under
\* the same tiers, and the misses are as many as --miss-rate asks for.
RerunQueriesHit ==
  LET made_by == IF args.query_source = "reuse" THEN staged ELSE args
  IN  (/\ doing = "reported" /\ loaded # Nothing
       /\ made_by.tiers = loaded.tiers /\ made_by.num_rules <= loaded.num_rules) =>
        /\ \A j \in DOMAIN queries : answers[j] = "MISS" <=> queries[j] = MissQuery
        /\ args.query_source # "reuse" =>
             Cardinality({j \in DOMAIN queries : queries[j] # MissQuery}) = num_hits

\* A run that reports has asked exactly --num-queries queries, whether they
\* came from memory, through the file or from an older file, some run of which
\* may have been interrupted.
AsksWhatIsAskedFor == doing = "reported" => Len(answers) = args.num_queries
==============================================================================
