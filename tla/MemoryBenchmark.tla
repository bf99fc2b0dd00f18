--------------------------- MODULE MemoryBenchmark ---------------------------
(***************************************************************************)
(* The memory benchmark (memory_benchmark.py): on every server, and in a   *)
(* sweep for one children count after the other, flush, fill one data type *)
(* after the other through pipelines, and take as the memory of a type the *)
(* growth since the reading before it.  Keys may expire at any time.       *)
(*                                                                         *)
(* Memory is counted in elements, the same on every server: a key of n     *)
(* elements takes n + 1, so that what the reports show can be told from    *)
(* what the servers hold.                                                  *)
(***************************************************************************)
EXTENDS MemoryConfigs

CONSTANTS
  Args,           \* the command lines
  NoJson,         \* the servers without the JSON module
  BaseMemory,     \* what an empty server uses
  MaxExpiries     \* how often keys expire (bound)

\* The depth of documents is one of four choices.  Numbers are not negative,
\* which argparse itself does not ask: no other count has a meaning here.
ASSUME ArgsAssumption ==
  /\ BaseMemory \in Nat /\ MaxExpiries \in Nat
  /\ \A a \in Args :
       /\ a.json_depth \in {"flat", "medium", "deep", "all"}
       /\ \A type \in DOMAIN a.keys : a.keys[type] \in Nat
       /\ \A type \in DOMAIN a.fields : a.fields[type] \in Nat
       /\ a.scale[1] \in Nat /\ a.scale[2] \in Nat \ {0}
       /\ a.children \in Nat /\ a.pipeline_batch \in Nat
       /\ a.repeat \in Seq(Nat)

VARIABLES
  args,           \* the command line
  phase,          \* where the program is
  step, srv, typ, \* positions in the sequence, the servers and the types
  configs,        \* the configuration of this step
  made,           \* keys of this type put into the pipeline so far
  members,        \* the different members of each of them
  queued,         \* those of them the pipeline still holds
  stored,         \* what each server holds: <<prefix, index>> -> memory
  prev_mem,       \* the last memory reading
  expiries,       \* how often keys have expired
  disturbed,      \* history: something expired since that reading
  results         \* <<server, step, type>> -> result

vars == <<args, phase, step, srv, typ, configs, made, members, queued, stored, prev_mem,
          expiries, disturbed, results>>

Sweeps == args.repeat # <<>>

\* The children counts; a run that is no sweep has one step (nor has a sweep
\* without a count, which is refused).
sequence ==
  IF ~Sweeps \/ args.children = 0 THEN <<args.children>>
  ELSE compute_children_sequence(args.children, args.repeat[1],
                                 IF Len(args.repeat) > 1 THEN args.repeat[2] ELSE 0)

ConfigsAt(j) ==
  IF Sweeps THEN iter_configs(args, sequence[j]) ELSE build_configs(args, args.children)

AllServers == {"Dragonfly", "Redis"}

servers ==
  (IF args.redis_only THEN <<>> ELSE <<"Dragonfly">>) \o
  (IF args.dragonfly_only THEN <<>> ELSE <<"Redis">>)

types == type_order(configs)

Server == servers[srv]
Type == types[typ]
Config == configs[Type]

KeysBetween(type, cfg, from, to) ==
  [x \in {<<key_prefix(type, cfg), i>> : i \in from..to} |-> Elements(type, cfg, x[2]) + 1]

\* What the keys of this type are filled with.
Written == Holding(Config, members)

Footprint(keys) == MapThenSumSet(LAMBDA x : keys[x], DOMAIN keys)

get_memory == BaseMemory + Footprint(stored[Server])

With(f, g) == [x \in DOMAIN f \cup DOMAIN g |-> IF x \in DOMAIN g THEN g[x] ELSE f[x]]

Nothing == [x \in {} |-> 0]

-----------------------------------------------------------------------------
Init ==
  /\ args \in Args
  /\ phase = "start"
  /\ step = 1 /\ srv = 1 /\ typ = 1
  /\ configs = ConfigsAt(1)
  /\ made = 0 /\ members = 0 /\ queued = 0
  /\ stored = [s \in AllServers |-> Nothing]
  /\ prev_mem = 0 /\ expiries = 0
  /\ disturbed = FALSE
  /\ results = Nothing

\* A sweep needs a children count, and there must be something to measure.
Start ==
  /\ phase = "start"
  /\ phase' = CASE Sweeps /\ args.children = 0 -> "refused"
                [] types = <<>> -> "refused"
                [] servers = <<>> -> IF Sweeps THEN "crashed" ELSE "pause"
                [] OTHER -> "connect"
  /\ UNCHANGED <<args, step, srv, typ, configs, made, members, queued, stored, prev_mem,
                 expiries, disturbed, results>>

Skipped(reason) ==
  [skipped |-> reason, num_keys |-> 0, total_elements |-> 0, mem |-> 0, members |-> 0,
   disturbed |-> FALSE]

\* The next instance: the other server, then the next count, then the report,
\* for which a plain run waits until Enter is pressed.
Advance ==
  LET last == srv = Len(servers)
      more == step < Len(sequence)
  IN  /\ typ' = 1
      /\ phase' = IF ~last \/ more THEN "connect" ELSE IF Sweeps THEN "report" ELSE "pause"
      /\ srv' = IF ~last THEN srv + 1 ELSE IF more THEN 1 ELSE srv
      /\ step' = IF last /\ more THEN step + 1 ELSE step
      /\ configs' = IF last /\ more THEN ConfigsAt(step + 1) ELSE configs

\* FLUSHALL, and a first reading.
Connect ==
  /\ phase = "connect"
  /\ stored' = [stored EXCEPT ![Server] = Nothing]
  /\ prev_mem' = BaseMemory
  /\ disturbed' = FALSE
  /\ phase' = "type"
  /\ UNCHANGED <<args, expiries, step, srv, typ, configs, made, members, queued, results>>

\* The server cannot be reached: all of its types are skipped.
ConnectFails ==
  /\ phase = "connect"
  /\ results' = With(results, [x \in {<<Server, step, t>> : t \in Range(types)} |->
                                 Skipped("connection failed")])
  /\ Advance
  /\ UNCHANGED <<args, expiries, made, members, queued, stored, prev_mem, disturbed>>

\* Only "json" is passed over without the module; the rows of its three depths
\* are tried.
Passed == Type = "json" /\ Server \in NoJson

StartType ==
  /\ phase = "type"
  /\ typ <= Len(types)
  /\ ~Passed
  /\ phase' = "populate"
  /\ made' = 0 /\ queued' = 0
  /\ members' \in DifferentMembers(Type, Config)
  /\ UNCHANGED <<args, expiries, step, srv, typ, configs, stored, prev_mem, disturbed, results>>

SkipType ==
  /\ phase = "type"
  /\ typ <= Len(types)
  /\ Passed
  /\ results' = With(results, [x \in {<<Server, step, Type>>} |-> Skipped("no module")])
  /\ typ' = typ + 1
  /\ UNCHANGED <<args, expiries, phase, step, srv, configs, made, members, queued, stored,
                 prev_mem, disturbed>>

EndInstance ==
  /\ phase = "type"
  /\ typ > Len(types)
  /\ Advance
  /\ UNCHANGED <<args, expiries, made, members, queued, stored, prev_mem, disturbed, results>>

\* DEBUG POPULATE: all strings at once, where the server allows it.
DebugPopulate ==
  /\ phase = "populate"
  /\ Type = "strings" /\ ~args.ttl /\ made = 0
  /\ stored' = [stored EXCEPT ![Server] =
                  With(@, KeysBetween(Type, Written, 0, Config.num_keys - 1))]
  /\ phase' = "settle"
  /\ UNCHANGED <<args, expiries, step, srv, typ, configs, made, members, queued, prev_mem,
                 disturbed, results>>

Understood == Type \notin JsonTypes \/ Server \notin NoJson

\* The keys the pipeline holds, after n in all.
Sent(n, count) == With(stored[Server], KeysBetween(Type, Written, n - count, n - 1))

\* One key's commands into the pipeline, and the pipeline to the server when
\* it is time.
AddKey ==
  LET full == KeysPerFlush(Type, Config)
      sends == full # 0 /\ (made + 1) % full = 0
  IN  /\ phase = "populate"
      /\ made < Config.num_keys
      /\ full # 0
      /\ sends => Understood
      /\ made' = made + 1
      /\ queued' = IF sends THEN 0 ELSE queued + 1
      /\ stored' = IF sends THEN [stored EXCEPT ![Server] = Sent(made + 1, queued + 1)]
                   ELSE stored
      /\ UNCHANGED <<args, expiries, phase, step, srv, typ, configs, members, prev_mem,
                     disturbed, results>>

\* The last pipe.execute() sends what no full batch took along.
EndPopulate ==
  /\ phase = "populate"
  /\ made = Config.num_keys
  /\ queued > 0 => Understood
  /\ stored' = [stored EXCEPT ![Server] = Sent(made, queued)]
  /\ queued' = 0
  /\ phase' = "settle"
  /\ UNCHANGED <<args, expiries, step, srv, typ, configs, made, members, prev_mem, disturbed,
                 results>>

\* An exception ends the program and all results with it: a command or a
\* pipeline that fails, or the remainder by zero.
Raise ==
  /\ phase \in {"connect", "populate", "settle"}
  /\ phase' = "crashed"
  /\ UNCHANGED <<args, expiries, step, srv, typ, configs, made, members, queued, stored, prev_mem,
                 disturbed, results>>

M_baseline_flushed == BaseMemory

baseline == prev_mem

total_elements(type, cfg) ==
  IF type = "strings" THEN cfg.num_keys ELSE cfg.num_keys * cfg.num_fields

Measure ==
  /\ phase = "settle"
  /\ results' = With(results, [x \in {<<Server, step, Type>>} |->
                  [skipped |-> "", num_keys |-> Config.num_keys,
                   total_elements |-> total_elements(Type, Config),
                   mem |-> get_memory - baseline, members |-> members,
                   disturbed |-> disturbed]])
  /\ prev_mem' = get_memory
  /\ disturbed' = FALSE
  /\ typ' = typ + 1
  /\ phase' = "type"
  /\ UNCHANGED <<args, expiries, step, srv, configs, made, members, queued, stored>>

PressEnter ==
  /\ phase = "pause"
  /\ phase' = "report"
  /\ UNCHANGED <<args, expiries, step, srv, typ, configs, made, members, queued, stored, prev_mem,
                 disturbed, results>>

\* (external) The keys of a type expire.
Expire(prefix) ==
  /\ args.ttl /\ expiries < MaxExpiries /\ phase \in {"type", "populate", "settle"}
  /\ \E x \in DOMAIN stored[Server] : x[1] = prefix
  /\ stored' = [stored EXCEPT ![Server] =
                  [x \in {y \in DOMAIN @ : y[1] # prefix} |-> @[x]]]
  /\ disturbed' = TRUE
  /\ expiries' = expiries + 1
  /\ UNCHANGED <<args, phase, step, srv, typ, configs, made, members, queued, prev_mem, results>>

Next ==
  \/ Start \/ Connect \/ ConnectFails \/ StartType \/ SkipType \/ EndInstance
  \/ DebugPopulate \/ AddKey \/ EndPopulate \/ Raise \/ Measure \/ PressEnter
  \/ \E type \in Range(types) : Expire(key_prefix(type, configs[type]))

Spec == Init /\ [][Next]_vars

-----------------------------------------------------------------------------
(* The reports *)

Result(s, j, t) == results[<<s, j, t>>]

Shown(s, j, t) == Result(s, j, t).skipped = "" /\ Result(s, j, t).mem > 0

ShownBefore(s, t, j) == {i \in 1..j-1 : Shown(s, i, t)}

\* print_sweep_report's running prev_mem at step j, 0 for None: the last
\* row, if it was shown.
M_prev_mem_kept(s, t, j) ==
  IF ShownBefore(s, t, j) = {} THEN 0 ELSE Result(s, Max(ShownBefore(s, t, j)), t).mem

prev_mem_shown(s, t, j) ==
  IF j > 1 /\ Shown(s, j - 1, t) THEN Result(s, j - 1, t).mem ELSE 0

\* min_mem is that of the first row shown.
min_mem(s, t, j) == Result(s, Min(ShownBefore(s, t, j) \cup {j}), t).mem

None == <<0, 0>>

\* The columns "vs prev" and "vs min" of a row, as fractions.
vs_prev(s, t, j) ==
  IF Shown(s, j, t) /\ prev_mem_shown(s, t, j) # 0
  THEN <<Result(s, j, t).mem, prev_mem_shown(s, t, j)>> ELSE None

vs_min(s, t, j) == IF Shown(s, j, t) THEN <<Result(s, j, t).mem, min_mem(s, t, j)>> ELSE None

M_compared_own(a, b, j) == {t \in Range(types) : Result(a, j, t).skipped = ""}

\* The types neither server skipped.
compared(a, b, j) ==
  {t \in Range(types) : Result(a, j, t).skipped = "" /\ Result(b, j, t).skipped = ""}

\* "Ratio" of print_comparison, and of the savings trend of a sweep.
ratio(a, b, j, t) ==
  IF t \in compared(a, b, j) /\ Shown(a, j, t) /\ Shown(b, j, t)
  THEN <<Result(a, j, t).mem, Result(b, j, t).mem>> ELSE None

total(a, b, j) == MapThenSumSet(LAMBDA t : Result(a, j, t).mem, compared(a, b, j))

TotalRatio(a, b, j) ==
  IF total(a, b, j) > 0 /\ total(b, a, j) > 0 THEN <<total(a, b, j), total(b, a, j)>> ELSE None

-----------------------------------------------------------------------------
(* Properties *)

\* Two JSON rows of one depth write the same keys.
HasOwnNames(t) ==
  \A u \in Range(types) \ {t} : key_prefix(u, configs[u]) # key_prefix(t, configs[t])

Undisturbed(x) == results[x].skipped = "" /\ ~results[x].disturbed /\ HasOwnNames(x[3])

\* Members of each key that were drawn more than once.
Repeated(x) ==
  IF results[x].skipped = "" THEN ConfigsAt(x[2])[x[3]].num_fields - results[x].members ELSE 0

\* What a type is charged is what it takes: through full and partial batches,
\* skipped types, DEBUG POPULATE, documents in rotation and the types filled
\* before it, the growth recorded for a type is the footprint of all of its
\* keys with their different members, unless something expired between the
\* two readings or another row goes by the same key names.
GrowthIsOwnFootprint ==
  \A x \in DOMAIN results :
    Undisturbed(x) =>
      LET cfg == ConfigsAt(x[2])[x[3]]
      IN  results[x].mem =
            Footprint(KeysBetween(x[3], Holding(cfg, results[x].members), 0, cfg.num_keys - 1))

\* "Total Elements" and with it "B/element" count what was put together: what
\* a container or a string is charged is its keys and the elements reported,
\* but for those of a set or sorted set that are there only once though they
\* were drawn, and are counted, more than once.
ElementsAreCounted ==
  \A x \in DOMAIN results :
    (Undisturbed(x) /\ x[3] \in Containers \cup {"strings"}) =>
      /\ results[x].mem =
           results[x].num_keys + results[x].total_elements - results[x].num_keys * Repeated(x)
      /\ Repeated(x) >= 0 /\ (Repeated(x) > 0 => x[3] \in {"sets", "sorted_sets"})

\* Bytes per key divide what was measured by the keys it was measured for, and
\* bytes per element are too few by what was repeated, and no more.
RowsMeasureWhatTheyWrote == GrowthIsOwnFootprint /\ ElementsAreCounted

\* The sweep report sets a row against the one just above it, never across a
\* gap, and against the smallest of those above; between two rows lies what
\* the keys' different members account for.  Where no members repeat, memory
\* never seems to shrink as children are added: counts rise from row to row.
SweepShowsGrowth ==
  (phase = "report" /\ Sweeps) =>
    \A s \in Range(servers), t \in Range(types) \cap Containers :
      (\A i \in DOMAIN sequence : ~Result(s, i, t).disturbed) =>
        \A j \in DOMAIN sequence :
          LET prev == vs_prev(s, t, j)
              least == vs_min(s, t, j)
              num_members(i) == Result(s, i, t).members
          IN  /\ prev # None =>
                   /\ j > 1
                   /\ prev[1] - prev[2] =
                        configs[t].num_keys * (num_members(j) - num_members(j - 1))
              /\ (\A i \in DOMAIN sequence : Repeated(<<s, i, t>>) = 0) =>
                   /\ prev # None => prev[1] > prev[2]
                   /\ least # None =>
                        least[1] >= least[2] /\ (least[1] = least[2] => prev = None)

\* Two servers with the same appetite come out even, in every row, in the
\* totals and in the trend of a sweep, whatever one of them had to skip; each
\* draws its own members, though, so only where none repeat.
EvenServersComeOutEven ==
  (phase = "report" /\ \A x \in DOMAIN results : ~results[x].disturbed /\ Repeated(x) = 0) =>
    \A a, b \in Range(servers), j \in DOMAIN sequence :
      /\ TotalRatio(a, b, j)[1] = TotalRatio(a, b, j)[2]
      /\ \A t \in Range(types) : ratio(a, b, j, t)[1] = ratio(a, b, j, t)[2]

\* A key count that was asked for is the one written and reported: scaling
\* does not touch it, the three JSON rows take that of "json", and
\* HyperLogLogs that of the strings unless they have their own.
CountsAreAsAsked ==
  \A x \in DOMAIN results :
    LET stands_for == CASE x[3] \in JsonTypes /\ SplitsJson(args) -> "json"
                        [] x[3] = "hyperloglog" /\ x[3] \notin DOMAIN args.keys -> "strings"
                        [] OTHER -> x[3]
    IN  (results[x].skipped = "" /\ stands_for \in DOMAIN args.keys) =>
           results[x].num_keys = args.keys[stands_for]

\* The keys in the pipeline when it is next sent, if this key is the last.
Held == IF made < Config.num_keys THEN queued + 1 ELSE queued

\* No pipeline that is sent holds more commands that write than
\* --pipeline-batch allows, though it is sent by keys and a stream takes many
\* commands; beside them there is at most one EXPIRE for a key, so that twice
\* the batch is the most there can be.
FlushesStayWithinTheBatch ==
  (phase = "populate" /\ KeysPerFlush(Type, Config) # 0) =>
    LET expires == Held * ExpiresPerKey(Type, args.ttl)
    IN  /\ Held * CommandsPerKey(Type, Config, args.ttl) <= Config.pipeline_batch + expires
        /\ expires <= Config.pipeline_batch

\* --pipeline-batch, "Commands per pipeline flush" (violated where keys have a
\* time to live, as they do by default).
CommandsStayWithinTheBatch ==
  (phase = "populate" /\ KeysPerFlush(Type, Config) # 0) =>
    Held * CommandsPerKey(Type, Config, args.ttl) <= Config.pipeline_batch
==============================================================================
