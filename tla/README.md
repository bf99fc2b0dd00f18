# FunWithDragonflyDB: a verification project

The repository holds several small programs around one in-memory data base
(Dragonfly, Redis, Valkey). The largest, `fqdnrules`, stores routing rules for
pairs of domain names and answers "which rule governs this connection?"; it
exists three times (Python, a Go benchmark, a Go gRPC service), and the three
must agree byte for byte on key names without ever talking about them. Around it
stand a changefeed listener that copies CockroachDB rows into JSON documents, a
memory benchmark for server comparisons, and a rate-limited snack bar demo.

This directory models those programs in TLA+, checks the models with TLC and
proves the most important invariants with TLAPS. `PROJECT.json` maps every
definition to the lines it stands for and lists the hazards the properties are
aimed at.

    tlc -config MCRuleStore.cfg MCRuleStore      # any run of the table below
    tlapm RuleStoreProofs.tla                    # the proofs

## 1. Inventory

| Component | State | Operations | What is hard |
|---|---|---|---|
| Token tables (`fqdn_slots.py`, two `slots.go`) | memo of tables per bucket count | `compute_bucket_table` | three ports must compute one table; `%` of negative numbers; a budget that may run out; goroutines racing for the first computation |
| Patterns (`fqdn_pattern.py`, two `pattern.go`) | none | `normalize_fqdn`, `hash_tag`, `candidates` | boundaries of normalisation; the order of candidates |
| Rule store (`fqdn_router.py`, `router.go`, `store.go`) | the rule hashes, the recorded bucket count, open store objects, the server's script cache | open, `put`, `put_many`, `delete`, `lookup` | replicas written one command at a time by a pipeline that is no transaction; broken connections, and pipelines that the client library sends again; readers between two writes; stores with different bucket counts; a server that restarts and forgets the script |
| routerd (`server.go`, `cmd/routerd`) | one store object for ever | `Lookup` RPC | a count read once at the start |
| Benchmark load (`main.go`, `layout.go`, `rulemix.go`, `benchmark.py`) | layout, rules, batches; between runs the data base and the query file | lay out, load, ask, reuse | rounding of shares, partial last key and batch; rules, layout seed, count and query file of different runs |
| Benchmark query phase (`main.go`, `lookuper.go`) | channel, per-worker lists, latency list, round-robin counter | feed, look up, merge | workers sharing lists and a counter; a full channel; two-step truncation |
| Warm-up, thread and connection pool (`main.go`, `benchmark.py`) | barrier, executor queue, connections, samples | one lookup per task | barrier against pool size; an empty pool; results fetched in order; a failed lookup |
| Changefeed listener (`cdc_topic_guided_listener.go`) | the documents | one HTTP handler | requests repeated while the first is at work; failed writes that are only logged; a change that can never be stored |
| Memory benchmark (`memory_benchmark.py`) | configuration, last reading, results | configure, populate, measure, sweep, compare | overlapping options, random members that coincide, baselines, partial batches, unreachable servers, failing pipelines, expiring keys, rounding |
| Snack bar (`fast_api_snack_bar/app`) | limiter counters, sorted set | sell, read leaderboard, worker loop, start, stop | limiter and record are two steps; errors and shutdown in between |
| Connection diagnostic (`diagnose_thread_pinning.py`) | a trial's connections, two `CLIENT LIST`s | trial, verdict | other clients coming and going between the snapshots; failed pings |
| Disk correlation (`correlate_iowait.py`) | iostat's log, the benchmark's output | sample, parse, match | iostat stopped in the middle of a line, its last reports still in a buffer; clocks and time zones; the first sample |
| Load diagnostics (`diagnose_hot_tag_routing.py`, `diagnose_router_hotspot.py`) | worker counts, CPU ticks of two moments | drive load, report | threads that see the deadline at different times; server threads that come, go and work while they are read; a baseline taken too early |
| Golden cross-check (`crosscheck_python.py` and the Go test) | one golden file, two namespaces | load, ask, replay | interrupted and repeated steps, another bucket count in between |
| Histogram, stub, generated code | none | print | nothing stateful |

How they interact: stores of different processes and languages share only the
data base, so key names are their protocol; they are a function of the token
tables, which every process computes for itself. The benchmark loads rules
through a store and asks through a store or through routerd. Within a process,
goroutines share the token memo, the query channel and counters. The listener is
driven by a sender that repeats what is not acknowledged. The snack bar's worker
posts to the app it runs in.

What makes each of them correct:

* token tables: one table per count whatever the port, every token in its own
  slot range, never an unfinished table, one answer for all racing callers;
* one rule store used alone: a rule table that answers with the most specific
  eligible rule, under both lookup algorithms;
* rule stores used together: an undisturbed complete write is in all replicas
  and stays there, `delete` says whether a replica held the rule (as far as a repeated
  pipeline can), a lookup never loses a rule that nobody touched, and a namespace with
  replicated rules has a recorded count;
* benchmark: every rule gets a place, every query made for a rule finds it, in
  later runs too, every query is asked once and the report tells the truth
  about it;
* pools: no lookup starts before every task has its thread, and none is refused
  a connection as long as the pool may have one per thread;
* listener: what it acknowledged is stored, and nothing blocks the feed;
* memory benchmark: the options give what they ask for, a type is charged its
  own memory, and reports compare like with like, but for members that coincide;
* snack bar: sales never outrun the rates, the board ranks every snack;
* diagnostics: a verdict follows from what the server did, not from who else
  was connected, where iostat was stopped or which phase came before.

## 2. The modules

| Module | Models | Notes |
|---|---|---|
| `SlotRanges` | slot ranges, `bisect` and `sort.Search`, the modulo condition of both languages | pure operators |
| `Crc16` | CRC-16/XMODEM by bits, decimal text of counters, the slot of a whole key with its hash tag | pure, recursive functions |
| `BucketTable` | the token search, one loop turn per action, for any slot function | EXTENDS `SlotRanges` |
| `BucketTableMemo` | routerd's `sync.Once` memo and the benchmark's load-or-store memo | the port is chosen in `Init` |
| `FqdnPattern` | normalisation, hash tags, candidate lists | labels are atoms, names sequences of them |
| `RuleLookup` | key layout, writes, the Lua lookup and the script-free one | EXTENDS `FqdnPattern`; a data base is a function from existing (key, field) pairs |
| `RuleTable` | the abstract specification: a table of rules and the most specific answer, stated on names without candidates, keys or replicas | |
| `RuleSession` | one store, call after call, on a server that may restart | implements `RuleTable` through a refinement mapping |
| `RuleStore` | many writers, readers and counts, command by command | ghosts record what is settled |
| `BenchWorkload` | layout and loading of the Go benchmark, and the queries it makes | EXTENDS `RuleLookup`: load and lookup use the same store model |
| `BenchSession` | one run of `benchmark.py` after another on one data base and query file | |
| `QueryPhase` | the Go query phase: feeder, bounded channel, workers, backends, merged report | |
| `BenchPool` | both warm-ups, the Python thread pool and connection pool, its reports | |
| `CdcListener` | the handler from body to status, and its sender | |
| `MemoryConfigs` | the configurations built from the command line, the counts of a sweep | pure operators |
| `MemoryBenchmark` | the measuring loop, the sweep, the reports | EXTENDS `MemoryConfigs` |
| `SnackBar` | worker, sale route, limiter, leaderboard, start and stop of the app | |
| `ThreadPinning` | connection trials and their verdict | |
| `IowaitCorrelation` | iostat beside a benchmark, its buffer, the parsers, the nearest sample | logs are lines of a kind; a torn line is what it reads as |
| `HotspotLoad` | load threads up to a deadline, the server's threads beside them, two readings and the CPU report | which thread a command costs how much is left open |
| `Crosscheck` | golden file, Python namespace, Go replay; the demonstration of `fqdn_router.py` | EXTENDS `RuleLookup` |
| `InOrder` | numbers of a set in order, elements at a set of positions, the stable sort of a list | pure; what filters, `dict.fromkeys` and `sort` of the code come to, in a closed form that can be reasoned about |

Proofs: `BucketTableProofs` (search, ranges, memo), `RuleStoreProofs`,
`RuleSessionProofs`, `QueryPhaseProofs` (Go phase, thread pool, the load and the
sessions before them), `ServiceProofs` (listener and snack bar), `DiagnosticsProofs`,
`MemoryBenchmarkProofs`. `SetLemmas` holds what they share: induction, order,
sorting, sums, remainders, folds.

`MC*` modules give small constants. Some compose: `MCBucketTable` runs the search
on the real hash and on a small hard one, or else the memo; `MCQueryPhase` runs the
warm-up of `BenchPool` before either timed phase; `MCBenchWorkload` runs `BenchWorkload` or
`BenchSession`; `MCServices` the listener or the snack bar; `MCDiagnostics` one of the four
diagnostic scripts. Where there is an "or", `Init` chooses, and the variables of what does
not run stay as they are.

Operators named `M_...` are plausible slips of the operator that follows them (a
missing guard, an off-by-one, a stale value); with the slip in its place TLC finds
the property violated, so no property is idle.

### How state and actions correspond to the code

*`BucketTable`.* `phase` is the position in `compute_bucket_table`; `k`, `tokens`
and `filled` are its locals. `Reject` is the `ValueError`, `Prepare` the set-up
before the loop, `Take` and `Skip` one turn each, `GiveUp` the exhausted budget,
`Finish` the return. `CeilLn` gives `ceil(log n)` by its integer thresholds.

*`BucketTableMemo`.* `Call` checks the count and, in go-benchmark, the map.
`Enter` and `Await` are the two sides of `Once.Do`. `Build` is the search and the
publication of its result.

*`RuleSession`.* One action per method, with its whole effect: `put` and
`put_many` validate, write all replicas and the recorded count; `delete` removes
all replicas and never touches the count; both lookups run in one step because
nobody else writes. A restart of the server keeps the data and loses the script;
`EVALSHA` then answers with an error that neither redis-py's nor go-redis' call
repeats as `EVAL`, until a store is opened anew. `RuleTable` has the same restart as a
step after which lookups may be unavailable, never wrong.

*`RuleStore`.* A call is first sent (`Put`, `Delete`), then executed by the
server one command at a time (`Command`, `RecordCount`), then returns (`Return`).
Where the connection breaks or the replies do not come, the client library sends the
whole pipeline again inside the same call (`Resend`: what was executed stays executed,
and no reply of it is kept) until it gives up (`Drop`). A caller that times
out and repeats the call elsewhere is a second `Put` while the first pipeline is
still being executed. A lookup reads one tag group (an `EVALSHA`) or one key (an
`HMGET`) per `ReadGroup`. `Open` is the constructor's guard. The ghosts
`settled`, `clean`, `wrote`, `prior`, `resent` and `stable` say what the properties need to
know of the past; no action of the program reads them.

*`QueryPhase`, `BenchPool`.* One action per step another goroutine or thread can
come between: channel operations, submitting and taking a task, the barrier,
drawing and giving back a connection, a result fetched by the main thread.
redis-py raises on an empty pool, go-redis waits; the pools differ in `Draw`.

*`BenchSession`.* One action per stage of `main()`: `Start` parses the options,
`OpenStore` opens or refuses, `BuildLayout`, `FlushDb`, `WriteBatches` or `Reuse`,
then `BuildQueries`, `Stage` and `ReadBack` where queries go through the file, and
`Ask`. `GoBenchmarkRan` is a run of the Go benchmark in between, which leaves its own
layout and count. A run's command line is a record. What the random generator
draws from a seed is a constant function, so that a reused layout is the same
layout.

*`CdcListener`, `MemoryBenchmark`, `SnackBar`.* One action per step that another
request or process can come between: single commands of a pipeline, one key's
population, the limiter's hit and the record of a sale. In `MemoryBenchmark` memory is
counted in elements, the same on every server, so that a wrong charge shows as a
wrong number. The members of a set or sorted set are random strings of `--value-size`
characters, drawn once for all keys of the type; how many of them are different is
left open (`DifferentMembers`), which is all that the size of values decides. The
elements of a HyperLogLog are drawn with sixteen characters and taken as different.
`SnackBar!Shutdown` waits for the clients' requests and cancels the worker wherever it
waits: an admitted sale is then recorded or lost.

*Diagnostics.* `ThreadPinning` has one action per step of a trial, between which
other clients connect and leave. In `IowaitCorrelation` the log that iostat writes to is
behind its reports by any number of lines (`Write`), since the output is buffered;
`Terminate` stops it anywhere, and the last line it wrote may be any beginning of one:
`Pieces` says what such a beginning is read as, a smaller number, a time without a zone,
or nothing. The benchmark's output ends anywhere too (`Printed`). A time without a
zone cannot be compared with a row's, and the script ends with an exception
(`run = "raised"`). `HotspotLoad` has one action per round trip of a load thread (a command,
a pipeline or a lookup) and one for each thread opened in a reading of the ticks
(`ListThreads`, `ReadThread`). Beside them the server's threads work, start and end
at any moment (`Spend`, `ThreadStarts`, `ThreadEnds`); the server itself stays up, and its
worker threads with it. `Crosscheck` has one action per stage of either program (wiping the
tagged keys, wiping the replicas, opening, loading, asking, writing the file or
replaying it), and `Interrupted` may end it between any two.

Not under `src/`, hence modelled only as far as the code relies on it: hashes
and pipelines of the data base, its scripts and restarts, broken connections, the
changefeed that posts and repeats batches, redis-py and go-redis sending a pipeline
again, executors and connection pools, the rate limiter, expiry, iostat, CPU accounting.

## 3. The runs

| Run | Module, configuration | What it shows |
|---|---|---|
| `token_tables` | `MCBucketTable` | The token search, twice. With the real CRC-16 and 16384 slots: first-fit tables are those committed in `testdata/slot_tokens_golden.json`, far within the draw budget, the modulo-safe counts among all 16384 are those the comment lists, and a replica's whole key lies in its bucket's range. With 23 slots and a hash that misses half of them, for every count from -1 to 24: tables are first-fit and never returned unfinished, every slot has one bucket, both ports agree. Or else the memo, with three racing goroutines, a good, an illegal and an unfillable count, either port: one table for all, one computation behind a Once, every call returns |
| `store_is_a_rule_table` | `MCRuleSession` | One store on a server that may restart implements `RuleTable` (refinement), under both lookups, with literal, shallow, deep and catch-all patterns and every scope |
| `store_writers` | `MCRuleStore` | Two writers under counts 2 and 3, broken connections, pipelines sent again, FLUSHDB: `SettledReplicasAgree`, `SettledRulesAreGuarded`, `DeleteReportsExistence` |
| `store_lookups` | `MCRuleStore`, `MCRuleStoreLookup.cfg` | A reader between two writers: `LookupSeesSettledRules`, and the types |
| `count_mismatch` | `MCRuleStore`, `MCRuleStoreCounts.cfg` | *Violation*, see section 6 |
| `delete_resent` | `MCRuleStore`, `MCRuleStoreResend.cfg` | *Violation*, see section 6 |
| `query_phase` | `MCQueryPhase` | The thread pool of both benchmarks, and behind it the Go query phase: each query once and evenly served, tasks start together, no lookup is refused a connection that the pool may open, reports complete and correct, percentiles are ranks, both phases end |
| `bench_workload` | `MCBenchWorkload` | For rates and tiers at the boundaries every rule has a place and every query made for it finds it. Over runs of the Python benchmark one after another (load, reuse, query files, flushes, another count, the Go benchmark in between) the queries made for a rule still find one, and as many are asked as were asked for |
| `services` | `MCServices` | The listener, with two overlapping requests and two faults: what was acknowledged is stored, save for the two exceptions the property names, and the feed drains. Or the snack bar: the board stays within the rates though sales are lost between limiter and record and the app is shut down and restarted; only its own error, or the end of the app, stops the worker |
| `memory` | `MCMemoryBenchmark` | Fourteen command lines against two servers: counts are as asked, a flush holds no more writes than the batch and no more EXPIREs than keys, undisturbed growth is a type's own footprint and falls short of the reported elements by the members drawn twice, sweep rows are set against their neighbours only, and servers that behave alike compare alike |
| `commands_per_flush` | `MCMemoryBenchmark`, `MCMemoryBenchmarkBatch.cfg` | *Violation*, see section 6 |
| `diagnostics` | `MCDiagnostics` | One of four scripts: a thread verdict fits the server, slow queries meet the disk samples of their time, a CPU report is about its own phase while the server's threads work, start and end, the golden file replays; and the demonstration's stated answers hold |

Some properties are conjunctions of named parts: `TableIsTheContract` is `FirstFit`,
`TokensHitTheirBucket` and `DoneMeansFull`; `SlotsHaveOneBucket` is
`RangesPartitionTheSlots` and `BisectFindsTheRange`; `WorkIsSharedOut` is
`EveryQueryOnce` and `BackendsEvenlyUsed`; `ReportTellsAll` is `TopSlowIsGlobal`
and `ReportCountsFailures`; `RowsMeasureWhatTheyWrote` is `GrowthIsOwnFootprint`
and `ElementsAreCounted`; `SlowQueriesMeetTheDisk` is `SamplesTellTheDisk`,
`NearestIsNear` and `AllSlowRowsParsed`; `StatedAnswersHold` is
`ExpectedIsTheBestMatch` and `DemoLabelsHold`.

### Bounds, and why they are enough

* `NumSlots = 23`: a prime, so that no count but 1 and 23 divides it and ranges
  of both widths occur; it has modulo-safe and other counts. `MaxDraw` is no bound
  on the behaviour: `CapAssumption` says that the budget ends before it. The
  arithmetic is proved for all sizes (section 5).
* Golden counts: all of the golden file up to 16.
* `Callers` (3) and counts (3) of the memo: one computes, one waits, one comes
  late, and two counts at a time.
* `MaxRules = 2` in `RuleSession`: precedence is a relation of two rules, and any
  two of the rule set are tried together. Queries have one to five labels, with
  `MaxLabels = 4` so that the label limit is exceeded too.
* `Writers` (2), one reader, `Counts` {2, 3} or {2}, `MaxOpen = 2`: a race needs
  two; more writers, counts and replicas are covered by the proofs. The tokens of
  bucket 0 coincide for two counts, as in the golden tables. Of the two store
  runs one has replicas of two counts and no reader, the other a reader and two
  cells but one count; the product of both exceeds what can be enumerated, and the
  proofs do not need it.
* `QueryPhase`: 4 queries, 2 workers, one slow query kept, and a channel of 2
  (`ChannelFactor` is 1 instead of the 2 of the code, so that 4 queries fill it): the
  channel fills and drains, lists are cut at both levels.
* `BenchPool`: `MaxConcurrency = 3` threads, pools (`Limits`) of 2 and of 9
  connections, so that the pool is smaller than the threads and larger; 4 queries
  and
  2 sampled rows (`SampleRows` is even, so that the divisor is odd and Go and Python,
  which round halves differently, agree).
* `BenchWorkload`: `NumRules = 7`, `BatchSize = 3`: nothing divides evenly.
* `BenchSession`: nine command lines in any order and number, of four and five
  rules in batches of three and two or three queries in files of two; `OtherCounts`
  are those a Go run may leave.
* `CdcListener`: `Log` of six changes, `MaxItems = 3`, `maxBatchSize = 2`,
  two `Handlers`, `MaxFaults = 2`: requests of one and of two chunks, a request
  that overlaps its own repetition, and a second thing going wrong.
* `MemoryBenchmark`: 8 and 6 default keys stand for the millions of the code and
  `MinKeys = 2` for 1000; a type fills no batch, one and a part, or all; counts
  of a sweep double or grow by thirds; `MaxExpiries = 1`, since one key that is
  gone too early already shows in every difference; `MaxRepeats = 2` members of a set
  drawn before, which is enough for a larger set of a sweep to come out smaller.
* `SnackBar`: `MaxWindows = 2`, `MaxRestarts = 1`, one other client, rates 1 and 2: a
  snack that is sold out, a window that ends between hit and record.
* `ThreadPinning`: `NumConnections = 3`, `NumTrials = 2` so that a trial has
  a predecessor, `MaxForeign = 1` client that comes or goes.
* `IowaitCorrelation`: `Interval = 2`, `MaxTime = 5`, `MaxSlow = 2`: two intervals and three
  reports, of which the log holds any part; slow queries before, between and after the
  samples. `Waits` {1, 2} tell intervals apart, and `SinceBoot = 3` from both.
* `HotspotLoad`: `Concurrency = 2`, `PipelineSizes` {2}, `MaxTurns = 2`: load threads end
  with different counts on both sides of the deadline. `CpuThreads = 2` workers and
  `MaxStarted = 1` thread beside them, that is there for one reading, for both or for
  none; `MaxTicks = 3`: a thread works before a reading, in it and after it.
* `Crosscheck`: `BucketCountsTried` {1, 2, 4}, of which two are tried in turn.

`CHECK_DEADLOCK FALSE` stands where the program ends (searches, workload, query
phase, memory benchmark, diagnostics) or where a bound exhausts the inputs
(faults, the acknowledged log). The rule stores and the session never stop, and are
checked for deadlock.

### Fairness

* `BucketTableMemo!MemoSpec`: every goroutine that is inside a call keeps running;
  new calls need not come.
* `MCQueryPhase!MCSpec`: threads and goroutines are kept scheduled by the runtimes,
  and every lookup returns, with an error at the latest when its read timeout
  ends. Fairness of the whole pool and of the whole timed phase is enough: neither
  has a step that can be repeated for ever.
* `CdcListener!Spec`: handlers are goroutines that run to their end, and the
  changefeed keeps sending while something is unacknowledged. Faults are bounded
  (`MaxFaults`); a feed refused for ever does not drain, of course. The
  run's property is `TheFeedDrains`, which is `FeedDrains` where the listener is what runs.
* `SnackBar!SnackSpec`: requests and the worker are tasks of one event loop. Errors,
  other clients' posts, the clock and the operator get no fairness. `TheWorkerGoesOn` is
  `OnlyItsOwnErrorStopsTheWorker` where the snack bar runs.

The other specifications state none and are checked for safety only.

## 4. Reading the main properties

*`SettledReplicasAgree`.* A pipeline makes its cells unsettled when it is sent.
When all of its commands were executed and no other pipeline touched the cell
in between, the value is settled, and all replicas must hold it until the next
write. Torn replicas therefore come only from a broken pipeline or a race, and one
more complete, undisturbed write repairs them.

*`LookupSeesSettledRules`.* The groups of a lookup are read at different moments.
The property compares the answer with the cells that nobody was writing at any
moment of it: the answer is at least as specific as each of those, and if it is
one of them it has that cell's value.

*`DeleteReportsExistence`.* `prior` is taken when `delete` is called. True is then always
right, however often the client library sends the pipeline; false is right only of a
pipeline that was sent once, since a repeat counts what its first sending left. What
the docstring says of the answer is a run of its own (`delete_resent`, section 6).

*`StoreIsARuleTable`.* `RuleTable` knows patterns and names only. The refinement
mapping reads the table off the first replica of every rule; that the other
replicas serve the same answers is part of what is checked, for the queries hash
to different ones.

*`NoLookupRefused`.* A connection goes back to the pool however its lookup ends,
so through both phases no more are opened than there are threads, and a pool that
may hold as many refuses none of them. With a smaller pool redis-py does refuse; the
property says nothing then.

*`RerunQueriesHit`.* A rerun rebuilds its layout from a fixed seed instead of reading
it. The queries it makes hit what an earlier run loaded as long as the tiers are
those of the load and the rules no more than were loaded; under another count the
store does not open. A query file is judged by the run that wrote it.

*`AcknowledgedIsStored`.* The handler answers 200 even if writes failed. The
property says that nothing but that, or a write made for a sender that had
already given up, may leave an acknowledged change missing: repeated requests,
repeated pipelines and a feed that starts over never do. The key is built from the
row as it came: built from the rewritten row, two positions within one millisecond
would share a document (the run's mutant).

*`RowsMeasureWhatTheyWrote`.* It is about rows that nothing disturbed: no key of
theirs expired, no other row of the run writes the same key names
(`HasOwnNames`), and no populate failed. Then growth is what the keys hold with the
members that are different, and the elements it is divided by are those and the ones
that coincide, which only sets and sorted sets have.

*`SlowQueriesMeetTheDisk`.* Wherever iostat is stopped, and whatever it had buffered, a
sample says what the disk did in its interval, with one exception: the last one may say
too little, for its report was torn. The property says so of it and of no other.

*`ReportIsThisPhase`.* A thread's ticks are read at another moment than its neighbour's,
and it may end before it is opened. What the report charges it is what it spent between
its own two readings; a thread that started in between is charged all it spent.

*`GrowthWithinRate`.* The record of a sale is one ZINCRBY, taken as sent once; where redis-py
repeats one whose reply was lost, a sale would be counted twice.

*`GoldenReplays`.* Both ports are the same lookup in this model (that their algorithms
agree is `StoreIsARuleTable`); what is checked is the protocol of wiping, recording and
replaying.

*`VerdictFitsServer`.* The two snapshots of a trial may differ by foreign clients;
those can only add to what is counted as new. Without them the verdict is `PINNED`
just when one thread serves everything, and `SPREAD` when a server that hands
out its threads in turn has as many as the verdict asks for.

*`OnlyItsOwnErrorStopsTheWorker`.* Either every snack is tried again and again, or
from some point on the worker has ended (`turn = 0`) or the app is down. A
worker that waits for ever on a sold-out snack, or skips one, violates it.

## 5. What is proved

TLAPS proves the following for every value of the constants that meets the named
assumptions of the modules. Each invariant below was first checked by TLC. What
follows by induction over numbers or over finite sets is proved by the least
counterexample: `SetLemmas!LeastNat` and `LeastSubset` give one, from the
well-foundedness of the strict subsets of a finite set.

### Token tables: `BucketTableProofs`

Assumed: `NumSlots` positive, `SlotOf` a function from `0..MaxDraw` to slots, the
budget within `MaxDraw`; for the memo, invalid and unfillable counts are counts.

* `BucketForIsTheRange`, `SortSearchIsBisect`: bisection finds the one range that
  holds a slot, and the two library searches are the same function. The argument
  replaces every division by the products it stands between (`BoundaryAtOrBelow`).
* `TableTypeCorrect`, `TableIsFirstFit`, `TokensAreInRange`,
  `FinishedTableIsFull`, together `TableKeepsTheContract`: from the inductive
  invariant `TableInv`. The properties are not inductive alone: that a finished
  table is full needs `filled` to be the number of buckets that have a token; that
  tokens are in range needs each token to be a counter already drawn that fits its
  bucket.
* `ModuloPortsAgree`, `SlotsFindTheirRange`, `SlotsArePartitioned`,
  `SlotsLieInOneBucket`: what `token_tables` checks for 23 slots, for every slot
  space. The first rests on `NormalisedRemainder`: truncating, adding the divisor
  and truncating again is flooring.
* `CallersShareOneTable`: that no two callers hold different tables is not
  inductive; `MemoInv` says that whatever was returned is what the memo holds for
  good (`MemoIsFinal`), that a hopeless count is only ever refused, and that behind
  the Once the one goroutine that builds is the one that claimed (`OneBuilder`).

### One store: `RuleSessionProofs`

Assumed: counts are positive (`CountsAssumption`); rules, batches and queries have
the fields of theirs, and the checksum of a name is unsigned (`RulesAssumption`,
`QueriesAssumption`); `MaxLabels` is at most the rank of the catch-all
(`MaxLabelsAssumption`).

* `StoreImplementsRuleTable`: `Spec => StoreIsARuleTable`, the refinement. `InitRefines`
  and `StepRefines` are its two halves: an empty data base is an empty table, and
  every call is one step of `RuleTable` or a stutter. The refinement mapping reads
  the table off the first replica; the invariant that makes it work is
  `ReplicasAreWhole`: every rule in the data base has all its replicas, with one
  value.
* The lemmas it rests on are of interest by themselves. `CandidateCovers` and
  `CoversIsCandidate`: the candidates of a name are exactly the patterns that cover
  it. `LoadRefines`: a batch, item by item and replica by replica, is one update.
  `LuaAnswers` and `NoScriptAnswers`: the group-by-group scan of the script and the
  flat scan of routerd both stop at the most specific eligible rule, since
  candidates come by falling specificity (`OrderIsSpecificity`) and no scope is
  filtered that is eligible (`ScopeFilter`).

### Many stores: `RuleStoreProofs`

Assumed: the catch-all cells are cells, counts are positive, values differ from
the two markers, batches are sequences of items, ranks are naturals, groups
sequences of sets of cells.

* `StoreTypeCorrect`: the types, for any writers, readers, rules and counts.
* `SettledWritesReachAllReplicas`: `SettledReplicasAgree`. The inductive
  invariant `StoreInv` adds `PipelineBounds` (the next command names an existing
  replica), `WritingUnsettles` (a cell on its way to being written is settled
  under no count), `CleanIsExclusive` (a clean cell belongs to one pipeline),
  `RulesWritten` (the rules a pipeline is past are recorded in `wrote`) and
  `ReplicasWritten`, the heart of it: the replicas of a clean cell hold the rule
  being written up to the next command and the previous one from there on. When
  the pipeline is through, the two halves meet and the cell can be settled.
  Keys of different cells and replicas are distinct (`KeyNamesCell`,
  `KeyNamesReplica`), so another pipeline cannot disturb them.
* `SettledRulesHaveACount` and `DeleteTellsTheTruth`: on top of `StoreInv`, `CallInv`
  says that a pipeline past its count which still has a clean cell leaves a record
  (a flush in between takes all clean cells: `CountIsRecorded`), that what a
  delete has found so far, or a replica ahead of it holds, was there when it was called,
  and that of a pipeline sent once it is all that was there (`DeleteFindsAll`).
* `LookupsSeeWhatIsSettled`: `ScanInv` says that cells a lookup relies on are not
  being written, that the groups read so far hid no cell that is owed
  (`GroupsAnswered`), and that the best hit is still what its cell holds if that cell
  was left alone (`HitHolds`).

### Query phase and pool: `QueryPhaseProofs`

Assumed: workers are finite and there is one, as there is a query and a backend;
latencies are naturals; at least two sampled points. For the pool
`BenchPoolAssumption`: positive durations, an even number of sampled rows.

* `EveryQueryIsLookedUpOnce` from `PhaseInv`: the channel holds the last indices
  fed, in order, and every index is untaken, with one worker, or done.
  `BackendsShareEvenly` from the counter: `RoundRobin` says how often each backend was
  chosen, as quotient and remainder. `WorkIsDoneOnceAndEvenly` is both.
* `ReportIsOfAllLookups`: `ReportTellsAll`. `ReportInv` says of every worker that a
  lookup it answered is on its list or no slower than any of a full list
  (`SlowKept`), that its samples are the sampled indices it answered, and that its
  error count is that of its failures. `InsertKeeps` is one insertion, `CutIsSlowest`
  the cut of the merged lists: what two cuts dropped was dropped rightly.
* `ThreadsFindConnections`. Every open connection is idle or held by one thread
  (`Balanced`), so a thread that finds none idle proves that fewer are open than
  there are threads.
* `WarmUpHasAllThreads`: `WarmUpStartsTogether`. `WarmInv` distinguishes two halves:
  while threads gather, those at the barrier have different tasks of the ones handed
  out, so that as many as the barrier asks for have them all; from then on every
  task has its thread.
* `ReportedRunsAreComplete`: in the timed phase (`RunInv`) busy threads have
  different pending tasks, a task is done just when its result is kept, what was
  sampled are the done tasks to be sampled, each once, and results are consumed in
  order, only when done. At the end that is everything, and sorting makes the list
  ascend.
* `PercentilesRank`: `NearestRankIsPercentile`, for any list of latencies and any
  permille. `SetLemmas!PositionsAreSorted` shows that the sort of `InOrder` is one,
  `SortedCounts` how many elements lie on either side of a place in it.

The load, in the same module. Assumed: rules, batches, buckets and domains are
positive, tiers are numbers (`TierSpecsAssumption`); the names a run asks for are short
lower-case text with an unsigned checksum, and no two rules have the same destination
(`NamesAssumption`: the code writes the rule's number into it).

* `LoadedRulesHit`: `LoadedRulesAreHit`. `LayoutInv` says that the sizes drawn so far are
  positive and never exceed the apex rules, and make up all of them once writing
  begins; so each rule lies in exactly one key (`KeyPlace`, over the running totals).
  `LoadInv` says that the data base holds exactly the cells of the rules written so
  far, each with its own rule's value: no two rules share a cell, whatever tier they
  are in, for the field names the destination (`CellsApart`). A query's own pair of
  patterns is then the only pair of candidates under which anything is stored
  (`HitAtRule`), its bucket is one the rule was written to (`ReadKeyIsWritten`), and
  where one pair has a rule both lookups return it (`OneHit`).

Runs of `benchmark.py`, in the same module. Assumed: a command line's counts are positive
and its share of misses a percentage (`SessionAssumption`), and what is drawn for a tier
specification are positive sizes that reach the command line's number of rules (`DrawnAssumption`: `parse_depth_tiers` refuses depths below
one, and the loop of `build_key_sizes` draws until the rules are placed).

* `RerunsHit`: `RerunQueriesHit`. `KeysDoNotMove` is the reason: a rule's key is found from
  the sizes before it, so it is the same in a layout for fewer rules. `SessionInv` says
  what the data base, the query file and the run in progress hold of which arguments.
* `AskedAsMany`: `AsksWhatIsAskedFor`. A list cut into batches and read back is the list
  (`SlicesJoin`, `AllLinesAreRead`), whether or not the batch divides it. The folds that
  join batches are recursive functions underneath; `SetLemmas!FoldLeftRun` gives their
  value step by step once `FoldLeftExists` has shown that there is one.

### Listener and snack bar: `ServiceProofs`

Assumed of the log: it is a sequence (`CdcAssumption`), and one table's rows with the
same id have the same key columns (`RowsAssumption`). The second says what the code
relies on: ids join the columns by `_`, and two rows whose columns join to the same
text would share a document. Of the snack bar: rates are naturals, clients finite,
the registry names every snack once (it is a dictionary).

* `AcknowledgedChangesAreStored`: `AcknowledgedIsStored`. `CdcInv` says that at most one
  request is awaited and it starts at what is acknowledged (`OneAwaited`), that a
  handler writes what its first pass listed (`ListIsKept`), and that every key nothing
  has happened to holds the document of the last change done, or a later one, where
  done is what is acknowledged or what the awaited request has written (`Stored`).
* `SalesStayWithinTheRates`: the count alone is not inductive, since hit and record are
  two steps: `WithinHits` adds the sales between them and those lost there, and bounds
  the sum by the rate of every second gone plus the hits of this one.
* `BoardIsRanked`: from the same types and `PositionsAreSorted`.

### Memory benchmark: `MemoryBenchmarkProofs`

Assumed: types have default counts and are listed once (`DefaultsAssumption`), the
options of a command line are numbers and known words (`ArgsAssumption`).

* `RowsAreMeasured`: `RowsMeasureWhatTheyWrote`. In `MemInv`, `Growth` says that, unless
  something expired, the last reading is what the server takes, and while a type is
  filled what it takes but for this type's keys, which are exactly those sent so far;
  `Pipeline` that what was sent are whole batches; `FilledBefore` that only types before
  it in the run have keys. Memory is a sum over keys, and the sum over two
  disjoint parts is that of their sums (`SetLemmas!SumsUnion`, `FootprintSplits`). A row
  keeps the number of different members its keys were given, for any number up to the
  asked, so the shortfall against "Total Elements" is exact.
* `CountsAreTheAsked`: from `Recorded`, for any sequence of options that set a count.
* `FlushesFit`: from `Pipeline`, for any batch and keys of any number of commands: the
  writes of a flush fit the batch, and its EXPIREs, one for a key, come on top.
* `SweepGrows`: `SweepShowsGrowth`. `RowInv` says that every type of every instance behind
  the program has a row, be it one that names why it was skipped, so the report reads
  no row that is missing. The counts rise: rounding is monotone, so the first series
  never falls and without its repeats it rises, and with the second it is sorted
  (`RoundingRises`, `BaseRises`, `SequenceRises`). The rows of a
  container are then `RowsAreMeasured` at two steps, whose configurations differ in the
  children alone; they differ by what their different members account for, and where none
  coincide they rise.
* `EvenServersCompareEven`: `EvenServersComeOutEven`. `EvenInv` says that what a server with
  JSON holds is determined by the types it is past, and each row is the rise over its
  type; a server without the module got through a document type only if there were
  no documents to write, and skips the rest. Rows are compared type by type, both
  sides of a pair are there or the pair is left out, and the totals are over the same
  types. Where members coincide the servers may differ by chance: the theorem is about
  runs in which none did.

### Diagnostics: `DiagnosticsProofs`

Assumed: connections, trials, threads and counts are positive, as is the
interval of iostat (`CorrelationAssumption`).

* `VerdictsAreRight`: `PinInv` says that a trial has one connection for every connect
  made, that what is new besides is foreign, and that without foreigners the trial
  holds the server's last ids, which a server dealing in turn puts on as many threads
  as there are, or as there are connections.
* `ReportsAreOfTheirPhase`: `ReportIsThisPhase`. `HotInv` says which threads there are and
  which were read (`HotTypes`), that what was executed is the sum of what the load threads
  went through (`HotCounts`), that a thread is either still to be opened
  or read, the workers among them (`HotReadings`), and that ticks are those of the
  first reading and what was spent since (`HotSpent`).
* `SlowQueriesMeetDisk`: `SlowQueriesMeetTheDisk`. `DiskInv` ties the log to the readings
  behind it. The parsers go over lines; the state of one after any number of lines is
  that of the report those lines end in (`KnowsAfter`), and a report's section gives its
  readings whatever stands around it (`SectionParsed`). Of a report in which the log ends,
  torn line included, a reading is the report's, less, or none. `SomeIsNear` finds a sample at
  most half an interval from a row that lies between two.
* `GoldenFileReplays`: `CrossInv` follows both sides from wipe to load and answer: once
  the wipe is through nothing is recorded, so the constructor accepts; and a current
  golden file holds the answers of the rules under its count.

### Only model-checked

* Everything temporal under fairness (`CallsReturn`, `PhasesEnd`, `FeedDrains`,
  `OnlyItsOwnErrorStopsTheWorker`): beyond the prover.
* `ReachesGoldenTable`, `ModuloSafeWhereDocumented`, `ReplicaKeysLieInTheirRange`: facts
  about one hash function and one table, and a finite computation.
* `StatedAnswersHold`: about the one set of rules of the demonstration.

## 6. Where the code and its documents differ

`count_mismatch` (`NoSilentMiss`): `HOWTORUN.md` promises that reusing rules with
another `--num-buckets` "raises a clear error rather than silently misbehaving".
The count is recorded only by a write that has replicas. A store with one bucket
writes a catch-all rule without a record; a store with two buckets opens, looks in
replica keys that do not exist and misses the rule without an error.

`delete_resent` (`DeleteSaysWhetherItExisted`): the docstring of `delete` says that "a second
call returns `False`" and that the result is true if the field existed in any replica.
redis-py, and go-redis with its default of three retries, send a pipeline whose replies
were lost again inside the same call. If the first one was executed, the second deletes
nothing, and the caller is told `False` of a rule that existed and that nobody else
touched. The rule is gone either way.

`commands_per_flush` (`CommandsStayWithinTheBatch`): `pipeline_batch` is "Commands per
pipeline flush", but with a TTL, the default, every key of a type other than strings adds an
`EXPIRE`, so a flush holds up to twice as many.

Other differences and surprises met while modelling, without a run of their own;
the models follow the code.

Rule store and benchmark:

* `bucketing_and_routerd_explained.md` says every bucket holds an identical copy
  of the catch-all rules. Two concurrent writes of one rule leave different
  replicas for good; `SettledReplicasAgree` says exactly when they do agree.
* `WildcardScope.SINGLE` "never matches via a rank >= 2 candidate"; the bare `*`
  has rank 255 but no deep bit, and matches. `RuleTable!Deep` follows the code.
* The script is loaded when a store is opened. After a restart of the server neither
  redis-py's nor go-redis' `EVALSHA` is repeated as `EVAL`: Lua lookups fail until
  a store is opened anew.
* The warm-up barrier is said to give one thread "and one warmed connection" per task.
  It gives the thread; a lookup that ends early hands its connection on.
* With `--uri` redis-py's pool raises rather than waits when `--query-concurrency`
  exceeds its connections.
* `benchmark.py` opens the store before it flushes: a namespace recorded under another
  count is refused even by a run that would have flushed it.

Memory benchmark:

* The docstring of `compute_children_sequence` gives `[1, 2, 3, 5]` for 5 children
  in 4 steps; Python rounds 2.5 to 2 and the code returns `[1, 2, 5]`.
* `populate_sets` writes "set keys with N members each". The members are random strings of
  `--value-size` letters and digits; short ones coincide (at most 62 differ with one
  character) and are stored once, while "Total Elements" counts N.
  `RowsMeasureWhatTheyWrote` says by how much the row is wrong.
* For streams of more entries than a batch the remainder is taken by zero, and the results of
  the run are lost.
* `scriptSpecification.txt` and `memBenchmarkNotes.MD` give a HyperLogLog as many
  elements as the other types; the code adds a tenth, while "Total Elements" counts all.
* Two JSON rows of one depth write the same key names, so the second shows no growth.
  `--types json --json-depth deep` stays flat; `--json-keys` does not reach a
  `json_deep` chosen by `--types`; without the module `json` is skipped, but the other
  three raise.
* With both `--dragonfly-only` and `--redis-only` a plain run reports nothing and a sweep
  ends with an `IndexError`. A sweep overrides `--hash-fields`; in a plain run
  `--hash-fields` overrides `--container-children-count`.

Others:

* "It attempts a sale for every snack on each tick": after one failed request of its
  own the worker's task has ended, and nothing but a new start of the app restarts it.
* `correlate_iowait.py`: a Go timestamp that ends in `Z` is not read by Python before
  3.11; the nearest sample may cover the interval before the query; a log with a
  single report keeps the averages since boot; a number iostat was stopped in is read as the
  smaller one its first digits say. A timestamp it was stopped in, before the offset, is
  parsed as a time without a zone; comparing it with a row's raises, and nothing is
  correlated (`run = "raised"`), though "both logs parse into one comparable,
  timezone-aware datetime type".
* `diagnose_thread_pinning.py` cannot say `SPREAD` of a server with two or three threads
  when it opens four or more connections.
* The namespace of `diagnose_router_hotspot.py` cannot be reopened with its default count of 1
  after a replicated run.

## 7. Not modelled, and why

* Printing and layout of reports, plots: pure output.
* The share of the busiest thread and the words that `diagnose_hot_tag_routing.py` and
  `diagnose_router_hotspot.py` draw from it: what they mean depends on what a command costs
  the threads that read, parse and dispatch it beside the one that executes it, which is
  the server's affair. The differences the share is computed from are modelled.
* A ZINCRBY of the snack bar that redis-py sends again.
* `keyspace_size_histogram.py`, one pass that reads and prints, and the stub
  `memoryBenchmarkScript/main.py`.
* Generated gRPC code; routerd's flags and listener: input and output. Its service is
  a reader of `RuleStore` that never opens anew.
* `cdc_listener.go`, the single-table predecessor of the listener: its handler is
  a special case of the modelled one.
* The SDK's cached leaderboard: library code, of which the app sees only staleness.

## 8. Plan

Order of work, the most important behaviour first:

1. *(done)* Token tables: `SlotRanges`, `BucketTable`, `Crc16`, `BucketTableMemo`,
   with their proofs.
2. *(done)* The rule store: `RuleStore` with type correctness and its four safety
   properties proved; `RuleTable` as the abstract specification, `RuleSession`
   implementing it, on a server that restarts.
3. *(done)* The programs around it: `BenchWorkload`, `BenchSession`, `QueryPhase`,
   `BenchPool`, `CdcListener`, `MemoryConfigs`, `MemoryBenchmark`, `SnackBar`.
4. *(done)* The diagnostics: `ThreadPinning`, `IowaitCorrelation`, `HotspotLoad`,
   `Crosscheck`.
5. *(done)* The proofs of section 5: the refinement of the store, and the safety
   invariants of load, runs, pool, query phase, listener, memory benchmark, snack bar
   and diagnostics. Every safety invariant that is about more than one table or one set
   of rules is proved.
6. State as refinements: the memo as one atomic table; the query phase as a loop
   over all queries.
7. Model if it grows: the single-table listener, the cached leaderboard and its expiry.
