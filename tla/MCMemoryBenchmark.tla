-------------------------- MODULE MCMemoryBenchmark --------------------------
(***************************************************************************)
(* Command lines, each off the beaten track in another way: a sweep over   *)
(* the counts 1, 3 and 4, the last two from the two series, in which six   *)
(* commands are six stream keys of one entry, two of three or one of four; *)
(* scaled counts and counts that are given; members and children both      *)
(* given; the JSON rows with and without the depth "all", and two rows of  *)
(* one depth; a sweep of streams larger than a batch; command lines that   *)
(* are refused.  Six keys stand for half a million, two for a thousand;    *)
(* up to two members of a set are drawn before, enough for a larger set    *)
(* to come out smaller.                                                    *)
(***************************************************************************)
EXTENDS MemoryBenchmark, TLC

MCOrder == <<"strings", "hashes", "lists", "sets", "sorted_sets", "streams", "hyperloglog",
             "json", "json_flat", "json_medium", "json_deep">>

MCDefaultKeys == [type \in Range(MCOrder) |-> IF type = "strings" THEN 8 ELSE 6]

NoOption == [x \in {} |-> 0]

Plain ==
  [dragonfly_only |-> FALSE, redis_only |-> FALSE, types |-> {}, enable_json |-> FALSE,
   json_depth |-> "flat", scale |-> <<1, 4>>, keys |-> NoOption, fields |-> NoOption,
   children |-> 0, repeat |-> <<>>, pipeline_batch |-> 0, ttl |-> TRUE]

Sweep ==
  [Plain EXCEPT !.types = {"strings", "streams"}, !.children = 4, !.repeat = <<2, 1>>,
                !.keys = [streams |-> 3], !.pipeline_batch = 6]

CommandLines ==
  { [Plain EXCEPT !.fields = [sorted_sets |-> 1]],
    [Plain EXCEPT !.types = {"strings", "hyperloglog"}, !.keys = [strings |-> 5],
                  !.pipeline_batch = 2, !.ttl = FALSE],
    [Plain EXCEPT !.types = {"hashes", "streams", "json"}, !.fields = [hashes |-> 3],
                  !.scale = <<1, 1>>, !.children = 2, !.pipeline_batch = 8],
    [Plain EXCEPT !.types = {"strings", "json", "json_deep"}, !.enable_json = TRUE,
                  !.json_depth = "deep", !.keys = [json |-> 3]],
    [Plain EXCEPT !.types = {"json_flat", "json_medium", "json_deep"}, !.enable_json = TRUE,
                  !.json_depth = "all", !.keys = [json |-> 3], !.pipeline_batch = 2,
                  !.dragonfly_only = TRUE],
    [Plain EXCEPT !.enable_json = TRUE, !.json_depth = "all", !.dragonfly_only = TRUE,
                  !.ttl = FALSE],
    [Plain EXCEPT !.types = {"json", "json_deep"}, !.scale = <<1, 1>>],
    Sweep,
    [Sweep EXCEPT !.types = {"streams", "json"}, !.enable_json = TRUE, !.ttl = FALSE],
    [Sweep EXCEPT !.types = {"streams"}, !.children = 9, !.repeat = <<3>>],
    [Sweep EXCEPT !.types = {"sets", "lists"}, !.fields = [sets |-> 7], !.redis_only = TRUE,
                  !.keys = NoOption],
    [Sweep EXCEPT !.children = 0],
    [Sweep EXCEPT !.dragonfly_only = TRUE, !.redis_only = TRUE],
    [Plain EXCEPT !.dragonfly_only = TRUE, !.redis_only = TRUE] }

MCArgs == CommandLines
==============================================================================
