----------------------------- MODULE QueryPhase ------------------------------
(***************************************************************************)
(* The timed query phase of the Go benchmark (go-benchmark/main.go         *)
(* runQueryPhase): a feeder pushes query indices into a bounded channel,   *)
(* workers take them, look them up and keep their own samples, error       *)
(* counts and slowest queries, which are merged when all have ended.       *)
(* Lookups may go to several routerd instances in turn (lookuper.go).      *)
(***************************************************************************)
EXTENDS Integers, Sequences, FiniteSets, FiniteSetsExt

CONSTANTS
  Workers,        \* the goroutines
  NumQueries,     \* len(queries)
  ChannelFactor,  \* channel slots per worker: 2 in the code
  SamplePoints,   \* how many sampled rows are aimed at: 10 in the code
  TopSlowLimit,   \* 10 in the code
  Gate,           \* slowLatencyGate
  Latencies,      \* latencies a lookup may take
  Backends        \* number of routerd addresses

ASSUME WorkersAssumption == Workers # {} /\ IsFiniteSet(Workers)
ASSUME NumQueriesAssumption == NumQueries \in Nat \ {0}
ASSUME SamplePointsAssumption == SamplePoints \in Nat \ {0, 1}
ASSUME BackendsAssumption == Backends \in Nat \ {0}
ASSUME LatenciesAssumption == Latencies \subseteq Nat /\ TopSlowLimit \in Nat \ {0}
ASSUME ChannelAssumption == ChannelFactor \in Nat \ {0}

VARIABLES
  fed,            \* how many indices the feeder has pushed
  indices,        \* the channel
  closed,         \* close(indices) has been called
  job,            \* job[w]: the index worker w looks up, or a state
  latencies,      \* latencies[idx], 0 until the lookup returns
  topSlow,        \* topSlow[w]: the worker's slowest queries
  samples,        \* samples[w]: indices the worker sampled
  errors,         \* perWorkerErrors
  next,           \* the round-robin counter
  report,         \* what the phase returns
  lookups,        \* ghost: how often each index was looked up
  failures,       \* ghost: indices whose lookup failed
  served          \* ghost: lookups sent to each backend

vars == <<fed, indices, closed, job, latencies, topSlow, samples, errors,
          next, report, lookups, failures, served>>

Queries == 0..NumQueries-1

Waiting == -1     \* blocked in the channel receive
Ended == -2       \* returned

NoReport == [done |-> FALSE, topSlow |-> {}, samples |-> {}, numErrors |-> 0]

capacity == ChannelFactor * Cardinality(Workers)

\* math.Round: halves away from zero.
Round(a, b) == (2 * a + b) \div (2 * b)

sampleIndices == {Round(i * (NumQueries - 1), SamplePoints - 1) : i \in 0..SamplePoints-1}

-----------------------------------------------------------------------------
(* The slowest queries.  The list is sorted by an unstable sort, so among   *)
(* equal latencies any may come last.                                       *)

Fastest(list) == {e \in list : \A o \in list : e.ms <= o.ms}

M_insertTopSlow_append(list, entry) ==
  IF Cardinality(list) < TopSlowLimit THEN {list \cup {entry}} ELSE {list}

\* The lists that insertTopSlow may return.
insertTopSlow(list, entry) ==
  IF Cardinality(list) < TopSlowLimit THEN {list \cup {entry}}
  ELSE IF \E e \in Fastest(list) : entry.ms <= e.ms THEN {list}
  ELSE {(list \ {e}) \cup {entry} : e \in Fastest(list)}

\* The lists that sorting and cutting the merged lists may return.
Truncated(all) ==
  {s \in kSubset(IF Cardinality(all) > TopSlowLimit THEN TopSlowLimit
                 ELSE Cardinality(all), all) :
     \A e \in s, o \in all \ s : e.ms >= o.ms}

-----------------------------------------------------------------------------

Init ==
  /\ fed = 0 /\ indices = <<>> /\ closed = FALSE
  /\ job = [w \in Workers |-> Waiting]
  /\ latencies = [i \in Queries |-> 0]
  /\ topSlow = [w \in Workers |-> {}]
  /\ samples = [w \in Workers |-> {}]
  /\ errors = [w \in Workers |-> 0]
  /\ next = 0
  /\ report = NoReport
  /\ lookups = [i \in Queries |-> 0]
  /\ failures = {}
  /\ served = [b \in 0..Backends-1 |-> 0]

Feed ==
  /\ fed < NumQueries
  /\ Len(indices) < capacity
  /\ indices' = Append(indices, fed)
  /\ fed' = fed + 1
  /\ UNCHANGED <<closed, job, latencies, topSlow, samples, errors, next, report,
                 lookups, failures, served>>

CloseChannel ==
  /\ fed = NumQueries /\ ~closed
  /\ closed' = TRUE
  /\ UNCHANGED <<fed, indices, job, latencies, topSlow, samples, errors, next,
                 report, lookups, failures, served>>

\* next.Add(1) - 1 modulo the number of clients.
backend == next % Backends

\* A worker receives an index and sends the lookup to the next backend.
Take(w) ==
  /\ job[w] = Waiting
  /\ indices # <<>>
  /\ job' = [job EXCEPT ![w] = Head(indices)]
  /\ indices' = Tail(indices)
  /\ next' = next + 1
  /\ served' = [served EXCEPT ![backend] = @ + 1]
  /\ UNCHANGED <<fed, closed, latencies, topSlow, samples, errors, report,
                 lookups, failures>>

counted_errors(n, failed) == IF failed THEN n + 1 ELSE n

\* The lookup returns after ms, with an answer or an error.
Answer(w, ms, failed) ==
  LET idx == job[w]
  IN  /\ idx \in Queries
      /\ latencies' = [latencies EXCEPT ![idx] = ms]
      /\ errors' = [errors EXCEPT ![w] = counted_errors(@, failed)]
      /\ IF ms >= Gate
         THEN \E list \in insertTopSlow(topSlow[w], [idx |-> idx, ms |-> ms]) :
                topSlow' = [topSlow EXCEPT ![w] = list]
         ELSE topSlow' = topSlow
      /\ samples' = [samples EXCEPT ![w] = IF idx \in sampleIndices THEN @ \cup {idx} ELSE @]
      /\ job' = [job EXCEPT ![w] = Waiting]
      /\ lookups' = [lookups EXCEPT ![idx] = @ + 1]
      /\ failures' = IF failed THEN failures \cup {idx} ELSE failures
      /\ UNCHANGED <<fed, indices, closed, next, report, served>>

\* range over a closed and drained channel ends.
Exit(w) ==
  /\ job[w] = Waiting /\ closed /\ indices = <<>>
  /\ job' = [job EXCEPT ![w] = Ended]
  /\ UNCHANGED <<fed, indices, closed, latencies, topSlow, samples, errors, next,
                 report, lookups, failures, served>>

M_AllEnded_one == \E w \in Workers : job[w] = Ended

AllEnded == \A w \in Workers : job[w] = Ended

\* The sum of perWorkerErrors.
merged_errors == MapThenSumSet(LAMBDA w : errors[w], Workers)

\* wg.Wait returns and the workers' results are merged.
Merge ==
  /\ AllEnded /\ closed /\ ~report.done
  /\ \E cut \in Truncated(UNION {topSlow[w] : w \in Workers}) :
       report' = [done |-> TRUE, topSlow |-> cut,
                  samples |-> UNION {samples[w] : w \in Workers},
                  numErrors |-> merged_errors]
  /\ UNCHANGED <<fed, indices, closed, job, latencies, topSlow, samples, errors,
                 next, lookups, failures, served>>

Next ==
  \/ Feed
  \/ CloseChannel
  \/ \E w \in Workers :
       \/ Take(w)
       \/ \E ms \in Latencies, failed \in BOOLEAN : Answer(w, ms, failed)
       \/ Exit(w)
  \/ Merge

Spec == Init /\ [][Next]_vars

-----------------------------------------------------------------------------
(* Properties *)

\* When the phase returns, every query has been looked up exactly once,
\* whichever worker took it: none was left in the channel when it was closed
\* and the latency list has no entry that was never measured.
EveryQueryOnce ==
  report.done => \A i \in Queries : lookups[i] = 1 /\ latencies[i] \in Latencies

\* Cutting each worker's list and then the merged one loses nothing: the
\* report holds the slowest queries of the whole phase, as many as the limit
\* allows, and none below the gate.
TopSlowIsGlobal ==
  report.done =>
    LET slow == {i \in Queries : latencies[i] >= Gate}
        kept == {e.idx : e \in report.topSlow}
    IN  /\ kept \subseteq slow
        /\ Cardinality(kept) = IF Cardinality(slow) > TopSlowLimit THEN TopSlowLimit
                                ELSE Cardinality(slow)
        /\ \A i \in kept, j \in slow \ kept : latencies[i] >= latencies[j]

\* "a run whose every lookup failed would otherwise post an excellent
\* queries/sec figure": the reported number of errors is the number of
\* lookups that failed, and the sampled rows are exactly those asked for.
ReportCountsFailures ==
  report.done => report.numErrors = Cardinality(failures) /\ report.samples = sampleIndices

\* Concurrent callers share one counter, and still no routerd instance gets
\* more than one lookup more than another.
BackendsEvenlyUsed ==
  \A b, c \in DOMAIN served : served[b] <= served[c] + 1

\* The work is done once, and shared out evenly.
WorkIsSharedOut == EveryQueryOnce /\ BackendsEvenlyUsed

\* What is printed of the phase is true of all of its lookups.
ReportTellsAll == TopSlowIsGlobal /\ ReportCountsFailures

==============================================================================
