---------------------------- MODULE MemoryConfigs ----------------------------
(***************************************************************************)
(* What a run of the memory benchmark writes (memory_benchmark.py): the    *)
(* configuration of every data type, made from the defaults and the        *)
(* command line, and the counts of children a sweep goes through.          *)
(*                                                                         *)
(* Of the command line, args, an option that was not given is 0, {} or the *)
(* empty function; scale is a fraction.  Value sizes are left out: every   *)
(* field is as large as another.  They decide how many of the members that *)
(* are drawn at random are different, which is left open.                  *)
(***************************************************************************)
EXTENDS InOrder, Sequences, SequencesExt, FiniteSetsExt

CONSTANTS
  Order,       \* the types, in the order of DEFAULT_CONFIGS
  DefaultKeys, \* the keys of each type before any option
  MinKeys,     \* what scaling leaves at least, 1000
  MaxRepeats   \* members of a key that repeat another (bound)

ASSUME DefaultsAssumption ==
  /\ Order \in Seq(Range(Order)) /\ IsInjective(Order)
  /\ {"strings", "json"} \subseteq Range(Order)
  /\ DefaultKeys \in [Range(Order) -> Nat] /\ MinKeys \in Nat /\ MaxRepeats \in Nat

Containers == {"streams", "hashes", "lists", "sets", "sorted_sets"}

JsonDepths == [json |-> "flat", json_flat |-> "flat", json_medium |-> "medium",
               json_deep |-> "deep"]

JsonTypes == DOMAIN JsonDepths

\* Members per key, 10 where a type has no say in it.
DefaultFields(type) ==
  CASE type \in {"sets", "sorted_sets"} -> 15
    [] type = "streams" -> 5
    [] type = "hyperloglog" -> 100
    [] type \in JsonTypes -> 8
    [] OTHER -> 10

DEFAULT_CONFIGS ==
  [type \in Range(Order) |->
    [enabled |-> type \notin JsonTypes, num_keys |-> DefaultKeys[type],
     num_fields |-> DefaultFields(type), pipeline_batch |-> 5000,
     json_depth |-> IF type \in JsonTypes THEN JsonDepths[type] ELSE "flat"]]

Largest(a, b) == IF a > b THEN a ELSE b

Scaled(n, scale) == Largest(MinKeys, (n * scale[1]) \div scale[2])

\* A count that was asked for, or the scaled default.
M_OwnKeys_scaled_after(type, args) ==
  Scaled(IF type \in DOMAIN args.keys THEN args.keys[type] ELSE DefaultKeys[type], args.scale)

OwnKeys(type, args) ==
  IF type \in DOMAIN args.keys THEN args.keys[type]
  ELSE IF args.scale = <<1, 1>> THEN DefaultKeys[type] ELSE Scaled(DefaultKeys[type], args.scale)

\* "json" is on by its flag or its key count; with depth "all" three other
\* rows stand for it.
JsonIsOn(args) == args.enable_json \/ "json" \in DOMAIN args.keys

SplitsJson(args) == JsonIsOn(args) /\ args.json_depth = "all"

\* HyperLogLogs are as many as strings unless their count was given.
num_keys(type, args) ==
  CASE type = "hyperloglog" /\ type \notin DOMAIN args.keys -> OwnKeys("strings", args)
    [] type \in JsonTypes /\ SplitsJson(args) -> OwnKeys("json", args)
    [] OTHER -> OwnKeys(type, args)

\* --types has the last word, but does not choose the depth again.
enabled(type, args) ==
  IF args.types # {} THEN type \in args.types
  ELSE CASE type = "json" -> JsonIsOn(args) /\ ~SplitsJson(args)
         [] type \in JsonTypes -> SplitsJson(args)
         [] OTHER -> TRUE

json_depth(type, args) ==
  IF type = "json" /\ JsonIsOn(args) /\ ~SplitsJson(args) THEN args.json_depth
  ELSE DEFAULT_CONFIGS[type].json_depth

\* --hash-fields and its like come after --container-children-count.
num_fields(type, args, children) ==
  IF type \in DOMAIN args.fields THEN args.fields[type]
  ELSE IF type \in Containers /\ children # 0 THEN children
  ELSE DEFAULT_CONFIGS[type].num_fields

build_configs(args, children) ==
  [type \in Range(Order) |->
    [enabled |-> enabled(type, args), num_keys |-> num_keys(type, args),
     num_fields |-> num_fields(type, args, children), json_depth |-> json_depth(type, args),
     pipeline_batch |-> IF args.pipeline_batch = 0 THEN 5000 ELSE args.pipeline_batch]]

\* In a sweep the count of the step replaces even --hash-fields.
iter_configs(args, children) ==
  LET base_configs == build_configs(args, 0)
  IN  [type \in Range(Order) |->
        IF type \in Containers THEN [base_configs[type] EXCEPT !.num_fields = children]
        ELSE base_configs[type]]

type_order(configs) == Picked(Order, {i \in DOMAIN Order : configs[Order[i]].enabled})

-----------------------------------------------------------------------------
(* What the populate functions put into key i *)

\* Python's round: halves go to the even neighbour.
RoundHalfEven(a, b) ==
  LET q == a \div b
      twice == 2 * (a % b)
  IN  IF twice < b \/ (twice = b /\ q % 2 = 0) THEN q ELSE q + 1

\* The parts of a JSON document, beyond those all of one depth share: fields,
\* or the cases of the five deep documents the keys go through.
DocumentSize(cfg, i) ==
  CASE cfg.json_depth = "flat" -> cfg.num_fields
    [] cfg.json_depth = "medium" -> 10
    [] cfg.json_depth = "deep" -> 20 + 3 + (i % 5)

\* The members of sets and sorted sets are random strings of --value-size
\* characters, drawn once for all keys of the type: a short one is drawn more
\* than once, and stored once.
Drawn == {"sets", "sorted_sets"}

DifferentMembers(type, cfg) ==
  IF type \in Drawn
  THEN {n \in 0..cfg.num_fields : cfg.num_fields - n <= MaxRepeats /\ (cfg.num_fields > 0 => n > 0)}
  ELSE {cfg.num_fields}

\* The configuration of keys with n different members.
Holding(cfg, n) == [cfg EXCEPT !.num_fields = n]

Elements(type, cfg, i) ==
  CASE type = "strings" -> 1
    [] type = "hyperloglog" -> RoundHalfEven(cfg.num_fields, 10)
    [] type \in JsonTypes -> DocumentSize(cfg, i)
    [] OTHER -> cfg.num_fields

\* Keys are named by their type, or the depth of their document.
key_prefix(type, cfg) == IF type \in JsonTypes THEN <<"json", cfg.json_depth>> ELSE <<type>>

M_KeysPerFlush_of_keys(type, cfg) == cfg.pipeline_batch

\* The pipeline is sent whenever this many keys have been added; a stream
\* takes a command for each entry.  Where this is 0 the remainder by it is an
\* exception.
KeysPerFlush(type, cfg) ==
  IF type = "streams" THEN cfg.pipeline_batch \div Largest(cfg.num_fields, 1)
  ELSE cfg.pipeline_batch

\* The commands of one key: those that write and, with a time to live, an
\* EXPIRE, which for strings is an option of SET.
WritesPerKey(type, cfg) == IF type = "streams" THEN cfg.num_fields ELSE 1

ExpiresPerKey(type, ttl) == IF ttl /\ type # "strings" THEN 1 ELSE 0

CommandsPerKey(type, cfg, ttl) == WritesPerKey(type, cfg) + ExpiresPerKey(type, ttl)

-----------------------------------------------------------------------------
(* compute_children_sequence *)

\* Of each count, the first.
Deduplicated(counts) ==
  Picked(counts, {i \in DOMAIN counts : \A j \in 1..i-1 : counts[j] # counts[i]})

\* max_children / d for the denominators max_children, n-1, .., 1.
BaseCounts(max_children, num_repeats) ==
  LET n == Largest(IF num_repeats < max_children THEN num_repeats ELSE max_children, 1)
      denominators == <<max_children>> \o [i \in 1..n-1 |-> n - i]
  IN  [i \in DOMAIN denominators |-> Largest(1, RoundHalfEven(max_children, denominators[i]))]

\* The denominators 1 + i/n2 and, last, 2 - 1/(2*n2).
UpperCounts(max_children, n2) ==
  [i \in 1..n2 |-> Largest(1, IF i < n2 THEN RoundHalfEven(max_children * n2, n2 + i)
                              ELSE RoundHalfEven(max_children * 2 * n2, 4 * n2 - 1))]

\* With the second series the sequence is sorted in the end.
compute_children_sequence(max_children, num_repeats, n2) ==
  LET base == BaseCounts(max_children, num_repeats)
  IN  IF n2 = 0 THEN Deduplicated(base)
      ELSE Ascending(Range(base \o UpperCounts(max_children, n2)))
==============================================================================
