----------------------------- MODULE HotspotLoad -----------------------------
(***************************************************************************)
(* diagnose_hot_tag_routing.py and diagnose_router_hotspot.py: drive load  *)
(* from several threads until a deadline, against one key, many keys, or   *)
(* as real rule lookups, and read the CPU ticks of the server's threads    *)
(* before and after.  Which of its threads a command costs how much is the *)
(* server's affair (the thread of a connection reads, parses and           *)
(* dispatches, that of the key executes), so any thread may spend time at  *)
(* any moment; threads beside its workers come and go.                     *)
(***************************************************************************)
EXTENDS Integers, Sequences, FiniteSets, FiniteSetsExt

CONSTANTS
  Concurrency,      \* --concurrency
  PipelineSizes,    \* --pipeline-size values to try
  CpuThreads,       \* the server's worker threads, there while it runs
  MaxStarted,       \* threads the server may start beside them (bound)
  MaxTicks,         \* CPU ticks a thread may have (bound)
  MaxTurns          \* turns a load thread may make before the deadline (bound)

ASSUME HotspotAssumption ==
  /\ Concurrency \in Nat \ {0} /\ PipelineSizes \subseteq Nat \ {0}
  /\ CpuThreads \in Nat \ {0} /\ MaxStarted \in Nat /\ MaxTicks \in Nat /\ MaxTurns \in Nat

VARIABLES
  phases,         \* the load phases still to run, the running one first
  pipeline_size,
  claimed,        \* the count recorded in the namespace, 0 when there is none
  replicas,       \* the bucket count of the stores
  step_of,        \* where the script is
  expired,        \* the deadline has passed
  n,              \* n[w]: keys the load thread w has gone through
  counts,         \* counts[w], once w has ended
  ended,          \* the load threads that have ended
  ticks,          \* (external) CPU ticks of each living thread of the server
  started,        \* (external) how many threads it has started beside its workers
  listed,         \* threads the reading that is going on has still to open
  read,           \* what that reading has found
  before_ticks,   \* the reading before the load
  spent,          \* history: ticks of each thread between its two readings
  executed,       \* history: commands the server executed in this phase
  total_ops,      \* what the phase reports as issued
  deltas          \* what the report is made of

hotspotVars == <<phases, pipeline_size, claimed, replicas, step_of, expired, n, counts, ended, ticks, started,
                 listed, read, before_ticks, spent, executed, total_ops, deltas>>

setting == <<phases, pipeline_size, claimed, replicas>>
load == <<expired, n, counts, ended, executed>>
reading == <<listed, read, before_ticks>>
reported == <<total_ops, deltas>>

LoadThreads == 0..Concurrency-1
CpuIds == 0..CpuThreads-1
Tids == 0..CpuThreads+MaxStarted-1

Empty == [x \in {} |-> 0]

WithThread(f, t, value) == [u \in DOMAIN f \cup {t} |-> IF u = t THEN value ELSE f[u]]

DefaultBuckets == 16

\* The server's thread count, if it reports one and INFO does not fail.
recommended_num_buckets(count) == IF count = 0 THEN DefaultBuckets ELSE count

HotspotInit ==
  /\ phases \in {<<"concentrated", "distributed">>, <<"distributed">>, <<"router">>}
  /\ IF phases = <<"router">>
     THEN /\ pipeline_size = 1
          /\ replicas \in {1, recommended_num_buckets(0), recommended_num_buckets(CpuThreads)}
          /\ claimed \in {0, CpuThreads}
          /\ step_of = "setup"
     ELSE /\ pipeline_size \in PipelineSizes
          /\ replicas = 1 /\ claimed = 0
          /\ step_of = "sample"
  /\ expired = FALSE
  /\ n = [w \in LoadThreads |-> 0]
  /\ counts = [w \in LoadThreads |-> 0]
  /\ ended = {}
  /\ ticks = [t \in CpuIds |-> 1]    \* what ran before the script
  /\ started = 0
  /\ listed = {} /\ read = Empty /\ before_ticks = Empty
  /\ spent = [t \in Tids |-> 0]
  /\ executed = 0 /\ total_ops = 0
  /\ deltas = Empty

-----------------------------------------------------------------------------
(* The server's threads *)

\* Time counts for the phase from a thread's first reading, or from its start,
\* to its last.
InPhase(t) == step_of \in {"before", "load"} \/ (step_of = "after" /\ t \in listed)

Spend(t) ==
  /\ t \in DOMAIN ticks /\ ticks[t] < MaxTicks
  /\ ticks' = [ticks EXCEPT ![t] = @ + 1]
  /\ spent' = IF InPhase(t) THEN [spent EXCEPT ![t] = @ + 1] ELSE spent
  /\ UNCHANGED <<setting, step_of, load, started, reading, reported>>

ThreadStarts ==
  /\ started < MaxStarted
  /\ ticks' = WithThread(ticks, CpuThreads + started, 0)
  /\ started' = started + 1
  /\ UNCHANGED <<setting, step_of, load, reading, spent, reported>>

ThreadEnds(t) ==
  /\ t \in DOMAIN ticks \ CpuIds
  /\ ticks' = [u \in DOMAIN ticks \ {t} |-> ticks[u]]
  /\ UNCHANGED <<setting, step_of, load, started, reading, spent, reported>>

-----------------------------------------------------------------------------
\* The rules are loaded first, if the store does not refuse its count.
SetUp ==
  /\ step_of = "setup"
  /\ IF claimed \in {0, replicas}
     THEN /\ step_of' = "sample"
          /\ claimed' = IF replicas > 1 THEN replicas ELSE claimed
     ELSE step_of' = "crashed" /\ UNCHANGED claimed
  /\ UNCHANGED <<phases, pipeline_size, replicas, load, ticks, started, reading, spent, reported>>

\* The threads' directory is listed, and what it held is opened one by one; a
\* thread that has ended in between is passed over.
ListThreads ==
  /\ step_of = "sample"
  /\ step_of' = "before"
  /\ listed' = DOMAIN ticks /\ read' = Empty
  /\ spent' = [t \in Tids |-> 0]
  /\ UNCHANGED <<setting, load, ticks, started, before_ticks, reported>>

ReadThread(t) ==
  /\ step_of \in {"before", "after"} /\ t \in listed
  /\ listed' = listed \ {t}
  /\ read' = IF t \in DOMAIN ticks THEN WithThread(read, t, ticks[t]) ELSE read
  /\ spent' = IF step_of = "before" THEN [spent EXCEPT ![t] = 0] ELSE spent
  /\ UNCHANGED <<setting, step_of, load, ticks, started, before_ticks, reported>>

M_FirstReading == before_ticks

FirstReading == read

StartLoad ==
  /\ step_of = "before" /\ listed = {}
  /\ before_ticks' = FirstReading
  /\ n' = [w \in LoadThreads |-> 0]
  /\ counts' = [w \in LoadThreads |-> 0]
  /\ ended' = {} /\ expired' = FALSE /\ executed' = 0
  /\ step_of' = "load"
  /\ UNCHANGED <<setting, ticks, started, listed, read, spent, reported>>

\* One INCR, one pipeline of them, or one lookup.
Turn(w) ==
  /\ step_of = "load" /\ w \notin ended /\ ~expired
  /\ n[w] < MaxTurns
  /\ executed' = executed + pipeline_size
  /\ n' = [n EXCEPT ![w] = @ + pipeline_size]
  /\ UNCHANGED <<setting, step_of, expired, counts, ended, ticks, started, reading, spent, reported>>

\* A command fails, or a store refuses the bucket count: the exception ends
\* the script.
TurnFails(w) ==
  /\ step_of = "load" /\ w \notin ended
  /\ step_of' = "crashed"
  /\ UNCHANGED <<setting, load, ticks, started, reading, spent, reported>>

Expired ==
  /\ step_of = "load" /\ ~expired
  /\ expired' = TRUE
  /\ UNCHANGED <<setting, step_of, n, counts, ended, executed, ticks, started, reading, spent, reported>>

M_counted(w) == 1

counted(w) == n[w]

EndThread(w) ==
  /\ step_of = "load" /\ expired /\ w \notin ended
  /\ counts' = [counts EXCEPT ![w] = counted(w)]
  /\ ended' = ended \cup {w}
  /\ UNCHANGED <<setting, step_of, expired, n, executed, ticks, started, reading, spent, reported>>

\* The pool's end waits for every load thread; then the threads are read again.
EndLoad ==
  /\ step_of = "load" /\ ended = LoadThreads
  /\ total_ops' = MapThenSumSet(LAMBDA w : counts[w], LoadThreads)
  /\ step_of' = "after"
  /\ listed' = DOMAIN ticks /\ read' = Empty
  /\ UNCHANGED <<setting, load, ticks, started, before_ticks, spent, deltas>>

\* print_thread_report: only threads that are there afterwards and did more
\* than before.
Reading(t) == IF t \in DOMAIN before_ticks THEN before_ticks[t] ELSE 0

PrintReport ==
  /\ step_of = "after" /\ listed = {}
  /\ deltas' = [t \in {u \in DOMAIN read : read[u] > Reading(u)} |-> read[t] - Reading(t)]
  /\ step_of' = "report"
  /\ UNCHANGED <<setting, load, ticks, started, reading, spent, total_ops>>

NextPhase ==
  /\ step_of = "report"
  /\ phases' = IF Len(phases) > 1 THEN Tail(phases) ELSE phases
  /\ step_of' = IF Len(phases) > 1 THEN "sample" ELSE "end"
  /\ UNCHANGED <<pipeline_size, claimed, replicas, load, ticks, started, reading, spent, reported>>

HotspotNext ==
  \/ SetUp \/ ListThreads \/ StartLoad \/ Expired \/ EndLoad \/ PrintReport \/ NextPhase
  \/ \E w \in LoadThreads : Turn(w) \/ TurnFails(w) \/ EndThread(w)
  \/ \E t \in listed : ReadThread(t)
  \/ /\ step_of \notin {"crashed", "end"}    \* what comes then is nobody's concern
     /\ ThreadStarts \/ \E t \in DOMAIN ticks : Spend(t) \/ ThreadEnds(t)

-----------------------------------------------------------------------------
(* Properties *)

\* What a phase reports is its own: the operations are those the server
\* executed for it, through pipelines and a deadline that stops the threads at
\* different counts; and a thread is charged what it spent between its readings
\* and nothing of earlier phases, while threads start, end and work through
\* both readings.  No worker thread is missing.
ReportIsThisPhase ==
  step_of = "report" =>
    /\ total_ops = executed
    /\ \A t \in CpuIds \cup DOMAIN read :
         IF t \in DOMAIN deltas THEN deltas[t] = spent[t] ELSE spent[t] = 0

==============================================================================
