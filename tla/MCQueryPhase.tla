---------------------------- MODULE MCQueryPhase -----------------------------
(***************************************************************************)
(* Both benchmarks' query phases: the warm-up of either, then the timed    *)
(* phase, BenchPool's for Python and QueryPhase's for Go.                  *)
(***************************************************************************)
EXTENDS QueryPhase, BenchPool

allVars == <<vars, poolVars>>

MCInit ==
  /\ Init /\ PoolInit
  /\ program = "go" => concurrency = Cardinality(Workers) /\ limit = concurrency

Pool == PoolNext /\ UNCHANGED vars

Timed == stage = "timed" /\ Next /\ UNCHANGED poolVars

MCNext == Pool \/ Timed

\* As for QueryPhase: threads and goroutines keep being scheduled, and every
\* lookup returns.
MCSpec ==
  /\ MCInit /\ [][MCNext]_allVars
  /\ WF_allVars(Pool)
  /\ WF_allVars(Timed)

\* Neither the barrier of the warm-up nor an empty pool, nor in the Go benchmark
\* a full channel, a slow worker or a failing lookup, holds a run for ever.
PhasesEnd ==
  <>(stage \in {"reported", "raised"} \/ (stage = "timed" /\ report.done))
==============================================================================
