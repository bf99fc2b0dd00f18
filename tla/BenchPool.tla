------------------------------ MODULE BenchPool ------------------------------
(***************************************************************************)
(* Threads and connections of a benchmark: the warm-up of the Python       *)
(* (benchmark.py) and of the Go benchmark, and the timed phase of the      *)
(* Python one, which hands its queries to a thread pool and draws a        *)
(* connection from the client's pool for every lookup.  (QueryPhase is the *)
(* timed phase of the Go benchmark.)                                       *)
(***************************************************************************)
EXTENDS Integers, Sequences, FiniteSets, InOrder

CONSTANTS
  MaxConcurrency,  \* bound on --query-concurrency
  Limits,          \* max_connections: 64 with --uri, else practically none
  QueryCount,      \* --num-queries
  SampleRows,      \* sampled rows aimed at: 10 in the code
  Durations        \* latencies a lookup may have

\* With an odd divisor no index falls halfway, so that Python's and Go's
\* rounding agree.
ASSUME BenchPoolAssumption ==
  /\ MaxConcurrency \in Nat \ {0} /\ QueryCount \in Nat \ {0}
  /\ Limits \subseteq Nat \ {0} /\ Durations \subseteq Nat \ {0}
  /\ SampleRows \in Nat \ {0} /\ SampleRows % 2 = 0

VARIABLES
  program,        \* which of the benchmarks
  concurrency,    \* --query-concurrency
  limit,          \* max_connections
  stage,          \* "warm", "query", and how it ended
  submitted,      \* tasks handed to the executor
  queue,          \* those no thread has taken yet
  thread,         \* thread[t]: "none", "free", or where its task is
  task,           \* task[t]: the task of thread t
  future,         \* future[i]: of the i-th task
  consumed,       \* results the main thread has seen
  opened,         \* connections of the pool,
  idle,           \* ... and those of them that nobody holds
  latency,        \* latencies_ms, 0 before the lookup
  sampled,        \* samples, by index
  stats,          \* compute_latency_stats
  refused         \* history: lookups for which the pool had no connection

poolVars == <<program, concurrency, limit, stage, submitted, queue, thread, task, future,
              consumed, opened, idle, latency, sampled, stats, refused>>

Threads == 1..concurrency

\* A miss query per thread, or the queries.
NumTasks == IF stage = "warm" THEN concurrency ELSE QueryCount

\* round(i * (n - 1) / 9), halves never occurring.
sample_indices ==
  {(2 * i * (QueryCount - 1) + SampleRows - 1) \div (2 * (SampleRows - 1)) :
     i \in 0..SampleRows-1}

NewExecutor ==
  /\ submitted' = 0 /\ queue' = <<>> /\ consumed' = 0
  /\ thread' = [t \in Threads |-> "none"]
  /\ task' = [t \in Threads |-> 0]
  /\ future' = [i \in 1..QueryCount |-> "pending"]

\* A single thread is not warmed up, its queries run on the calling thread.
PoolInit ==
  /\ program \in {"python", "go"}
  /\ concurrency \in 1..MaxConcurrency
  /\ limit \in Limits
  /\ program = "go" => limit >= concurrency       \* PoolSize
  /\ stage = IF concurrency > 1 THEN "warm" ELSE IF program = "go" THEN "timed" ELSE "query"
  /\ submitted = 0 /\ queue = <<>> /\ consumed = 0
  /\ thread = [t \in Threads |-> "none"]
  /\ task = [t \in Threads |-> 0]
  /\ future = [i \in 1..NumTasks |-> "pending"]
  /\ opened = 1 /\ idle = 1                         \* the PING, the script, the load
  /\ latency = [i \in 1..QueryCount |-> 0]
  /\ sampled = <<>> /\ stats = <<>> /\ refused = {}

-----------------------------------------------------------------------------
(* The executor *)

\* (external) Before a task has ended no thread can be idle, and every task
\* starts one; later a thread that has ended a task may be there for it.
Submit ==
  /\ stage \in {"warm", "query"}
  /\ submitted < NumTasks
  /\ concurrency > 1 \/ consumed = submitted
  /\ submitted' = submitted + 1
  /\ queue' = Append(queue, submitted + 1)
  /\ LET unborn == {t \in Threads : thread[t] = "none"}
     IN  \/ /\ unborn # {}
            /\ thread' = [thread EXCEPT ![CHOOSE t \in unborn : \A u \in unborn : t <= u] = "free"]
         \/ /\ unborn = {} \/ \E i \in 1..submitted : future[i] # "pending"
            /\ thread' = thread
  /\ UNCHANGED <<program, concurrency, limit, stage, task, future, consumed, opened, idle,
                 latency, sampled, stats, refused>>

TakeTask(t) ==
  /\ thread[t] = "free" /\ queue # <<>>
  /\ queue' = Tail(queue)
  /\ task' = [task EXCEPT ![t] = Head(queue)]
  /\ thread' = [thread EXCEPT ![t] = IF stage = "warm" THEN "barrier" ELSE "draw"]
  /\ UNCHANGED <<program, concurrency, limit, stage, submitted, future, consumed, opened,
                 idle, latency, sampled, stats, refused>>

M_parties_but_one == concurrency - 1
M_parties_and_main == concurrency + 1
parties == concurrency

AtBarrier == {t \in Threads : thread[t] = "barrier"}

PassBarrier ==
  /\ Cardinality(AtBarrier) >= parties
  /\ AtBarrier # {}
  /\ thread' = [t \in Threads |-> IF t \in AtBarrier THEN "draw" ELSE thread[t]]
  /\ UNCHANGED <<program, concurrency, limit, stage, submitted, queue, task, future,
                 consumed, opened, idle, latency, sampled, stats, refused>>

-----------------------------------------------------------------------------
(* A lookup *)

Ends(t, how) ==
  /\ thread' = [thread EXCEPT ![t] = "free"]
  /\ future' = [future EXCEPT ![task[t]] = how]

\* An idle connection, or a new one as long as there may be more.  redis-py
\* raises then; go-redis waits for one.
Draw(t) ==
  /\ thread[t] = "draw"
  /\ IF idle > 0 \/ opened < limit
     THEN /\ idle' = IF idle > 0 THEN idle - 1 ELSE idle
          /\ opened' = IF idle > 0 THEN opened ELSE opened + 1
          /\ thread' = [thread EXCEPT ![t] = "lookup"]
          /\ UNCHANGED <<future, refused>>
     ELSE /\ program = "python"
          /\ Ends(t, "failed")
          /\ refused' = refused \cup {task[t]}
          /\ UNCHANGED <<opened, idle>>
  /\ UNCHANGED <<program, concurrency, limit, stage, submitted, queue, task, consumed,
                 latency, sampled, stats>>

M_given_back_unless_failed(fails) == IF fails THEN idle ELSE idle + 1

\* The connection goes back to the pool, whatever came of the lookup.
given_back(fails) == idle + 1

\* Without an exception the latency is kept, and the row if it is sampled; the
\* warm-up keeps nothing, and the Go one not even the error.
Return(t, ms, fails) ==
  /\ thread[t] = "lookup"
  /\ idle' = given_back(fails)
  /\ Ends(t, IF fails /\ program = "python" THEN "failed" ELSE "done")
  /\ IF stage = "query" /\ ~fails
     THEN /\ latency' = [latency EXCEPT ![task[t]] = ms]
          /\ sampled' = IF task[t] - 1 \in sample_indices THEN Append(sampled, task[t] - 1)
                        ELSE sampled
     ELSE UNCHANGED <<latency, sampled>>
  /\ UNCHANGED <<program, concurrency, limit, stage, submitted, queue, task, consumed,
                 opened, stats, refused>>

-----------------------------------------------------------------------------
(* The main thread *)

M_Consume_unchecked ==
  /\ stage \in {"warm", "query"} /\ consumed < submitted
  /\ concurrency = 1 \/ submitted = NumTasks
  /\ future[consumed + 1] # "pending"
  /\ consumed' = consumed + 1
  /\ UNCHANGED <<program, concurrency, limit, stage, submitted, queue, thread, task, future,
                 opened, idle, latency, sampled, stats, refused>>

\* Results are fetched in the order of the tasks; an exception cancels what no
\* thread has taken.
Consume ==
  /\ stage \in {"warm", "query"} /\ consumed < submitted
  /\ concurrency = 1 \/ submitted = NumTasks
  /\ \/ /\ future[consumed + 1] = "done"
        /\ consumed' = consumed + 1
        /\ UNCHANGED <<stage, queue>>
     \/ /\ future[consumed + 1] = "failed"
        /\ queue' = <<>>
        /\ stage' = "raising"
        /\ UNCHANGED consumed
  /\ UNCHANGED <<program, concurrency, limit, submitted, thread, task, future, opened,
                 idle, latency, sampled, stats, refused>>

AllFree == \A t \in Threads : thread[t] \in {"none", "free"}

\* The executor is shut down when its threads have ended, and the exception
\* ends the script.
Raise ==
  /\ stage = "raising" /\ AllFree
  /\ stage' = "raised"
  /\ UNCHANGED <<program, concurrency, limit, submitted, queue, thread, task, future,
                 consumed, opened, idle, latency, sampled, stats, refused>>

EndWarmUp ==
  /\ stage = "warm" /\ consumed = NumTasks /\ AllFree
  /\ stage' = IF program = "go" THEN "timed" ELSE "query"
  /\ NewExecutor
  /\ UNCHANGED <<program, concurrency, limit, opened, idle, latency, sampled, stats, refused>>

Least(a, b) == IF a < b THEN a ELSE b

M_nearest_rank_of_gaps(sorted, p) == sorted[(p * (Len(sorted) - 1)) \div 1000 + 1]

\* idx = min(n - 1, floor(p * n)), with p in thousandths.
nearest_rank(sorted, p) == sorted[Least(Len(sorted) - 1, (p * Len(sorted)) \div 1000) + 1]

compute_latency_stats ==
  LET sorted == Sorted(latency)
  IN  [least |-> sorted[1], p |-> [p \in {500, 900, 990, 999} |-> nearest_rank(sorted, p)],
       most |-> sorted[Len(sorted)]]

PrintReports ==
  /\ stage = "query" /\ consumed = NumTasks /\ AllFree
  /\ stage' = "reported"
  /\ sampled' = Sorted(sampled)
  /\ stats' = compute_latency_stats
  /\ UNCHANGED <<program, concurrency, limit, submitted, queue, thread, task, future,
                 consumed, opened, idle, latency, refused>>

Returns(t) == \E ms \in Durations, fails \in BOOLEAN : Return(t, ms, fails)

PoolNext ==
  \/ Submit \/ PassBarrier \/ Consume \/ Raise \/ EndWarmUp \/ PrintReports
  \/ \E t \in Threads : TakeTask(t) \/ Draw(t) \/ Returns(t)

PoolSpec == PoolInit /\ [][PoolNext]_poolVars

-----------------------------------------------------------------------------
(* Properties *)

\* "A barrier forces every task to block until all concurrency of them are
\* running, which guarantees one thread ... per task": no warm-up lookup draws
\* a connection before every task has a thread of its own.
WarmUpStartsTogether ==
  (stage = "warm" /\ \E t \in Threads : thread[t] \in {"draw", "lookup"}) =>
    /\ submitted = concurrency /\ queue = <<>>
    /\ {task[t] : t \in Threads} = 1..concurrency

\* Connections return to the pool however a lookup ends, so that through both
\* phases there are never more than threads, and a pool of as many
\* refuses none of them.
NoLookupRefused ==
  /\ opened <= concurrency /\ opened <= limit
  /\ limit >= concurrency => refused = {}

\* A run that prints its reports has looked up every query successfully, and
\* shows exactly the sampled rows, in order, whatever order they ended in; a
\* failed lookup leaves no report.
ReportedRunIsComplete ==
  stage = "reported" =>
    /\ \A i \in 1..QueryCount : latency[i] \in Durations /\ future[i] = "done"
    /\ {sampled[k] : k \in DOMAIN sampled} = sample_indices
    /\ \A j, k \in DOMAIN sampled : j < k => sampled[j] < sampled[k]

AtMost(ms) == Cardinality({i \in 1..QueryCount : latency[i] <= ms})
LessThan(ms) == Cardinality({i \in 1..QueryCount : latency[i] < ms})

\* A percentile is an observed latency which at least that share of the
\* queries did not exceed, and which the larger percentiles reach.
PercentilesAreRanks ==
  stage = "reported" =>
    \A p \in DOMAIN stats.p :
      /\ 1000 * AtMost(stats.p[p]) >= p * QueryCount
      /\ 1000 * LessThan(stats.p[p]) <= p * QueryCount
      /\ stats.least <= stats.p[p] /\ stats.p[p] <= stats.most

==============================================================================
