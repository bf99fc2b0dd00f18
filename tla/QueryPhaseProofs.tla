-------------------------- MODULE QueryPhaseProofs ---------------------------
(***************************************************************************)
(* The query phase for any number of workers, queries and backends, any    *)
(* channel and any latencies: the work is done once and shared out evenly, *)
(* and the report tells of all of it.  The thread pool of both benchmarks, *)
(* for any number of threads.  Sessions of the Python benchmark, for any   *)
(* command lines and any drawn layout: a rerun's queries find what an      *)
(* earlier run loaded, and as many are asked as were asked for.  The Go    *)
(* benchmark's workload, for any number of rules, rates, tiers, keys and   *)
(* batches: every query made for a rule is answered with that rule.        *)
(***************************************************************************)
EXTENDS QueryPhase, BenchPool, BenchSession, BenchWorkload, SetLemmas

-----------------------------------------------------------------------------
(* The invariant *)

\* The indices that workers have received.
taken == fed - Len(indices)

PhaseTypes ==
  /\ fed \in 0..NumQueries
  /\ indices \in Seq(Nat) /\ Len(indices) <= fed
  /\ closed \in BOOLEAN
  /\ job \in [Workers -> Queries \cup {Waiting, Ended}]
  /\ lookups \in [Queries -> Nat]
  /\ latencies \in [Queries -> Nat]

\* The channel holds the last indices fed, in their order.
ChannelInOrder == \A j \in 1..Len(indices) : indices[j] = taken + j - 1

Untaken(i) == lookups[i] = 0 /\ \A w \in Workers : job[w] # i

BeingDone(i) ==
  /\ lookups[i] = 0
  /\ \E w \in Workers : job[w] = i /\ \A v \in Workers : job[v] = i => v = w

Done(i) ==
  lookups[i] = 1 /\ latencies[i] \in Latencies /\ \A w \in Workers : job[w] # i

\* Every index is untaken, or with one worker, or looked up once.
Progress ==
  \A i \in Queries : IF i < taken THEN BeingDone(i) \/ Done(i) ELSE Untaken(i)

\* Workers leave, and the report is made, when nothing is left.
EndInOrder ==
  /\ closed => fed = NumQueries
  /\ \A w \in Workers : job[w] = Ended => closed /\ indices = <<>>
  /\ report.done => AllEnded

PhaseInv == PhaseTypes /\ ChannelInOrder /\ Progress /\ EndInOrder

-----------------------------------------------------------------------------

LEMMA QueryIndices ==
  /\ Waiting \notin Queries /\ Ended \notin Queries /\ Waiting # Ended
  /\ Queries \subseteq Nat /\ \A i \in Nat : i < NumQueries => i \in Queries
  BY NumQueriesAssumption DEF Queries, Waiting, Ended

LEMMA PhaseInit == Init => PhaseInv
  <1> SUFFICES ASSUME Init PROVE PhaseInv
    OBVIOUS
  <1>1. /\ fed = 0 /\ indices = <<>> /\ closed = FALSE /\ report.done = FALSE
        /\ job = [w \in Workers |-> Waiting] /\ lookups = [i \in Queries |-> 0]
        /\ latencies = [i \in Queries |-> 0]
    BY DEF Init, NoReport
  <1>2. Len(indices) = 0 /\ indices \in Seq(Nat)
    BY <1>1
  <1>3. PhaseTypes
    <2>0. closed \in BOOLEAN
      <3>1. closed = FALSE
        BY <1>1
      <3> QED BY <3>1
    <2>1. fed \in 0..NumQueries
      BY <1>1, NumQueriesAssumption
    <2>2. job \in [Workers -> Queries \cup {Waiting, Ended}]
      BY <1>1
    <2>3. lookups \in [Queries -> Nat] /\ latencies \in [Queries -> Nat]
      BY <1>1
    <2> QED BY <1>1, <1>2, <2>0, <2>1, <2>2, <2>3 DEF PhaseTypes
  <1>4. ChannelInOrder
    BY <1>2 DEF ChannelInOrder
  <1>5. Progress
    BY <1>1, <1>2, QueryIndices DEF Progress, Untaken, taken
  <1>6. EndInOrder
    BY <1>1, QueryIndices DEF EndInOrder
  <1> QED BY <1>3, <1>4, <1>5, <1>6 DEF PhaseInv

LEMMA FeedKeepsInv == ASSUME PhaseInv, Feed PROVE PhaseInv'
  <1>1. /\ fed < NumQueries /\ fed' = fed + 1 /\ indices' = Append(indices, fed)
        /\ UNCHANGED <<closed, job, latencies, lookups, report>>
    BY DEF Feed
  <1>2. /\ fed \in Nat /\ indices \in Seq(Nat) /\ Len(indices) \in Nat /\ Len(indices) <= fed
        /\ NumQueries \in Nat
    BY NumQueriesAssumption DEF PhaseInv, PhaseTypes
  <1>3. /\ indices' \in Seq(Nat) /\ Len(indices') = Len(indices) + 1
        /\ \A j \in 1..Len(indices) : indices'[j] = indices[j]
        /\ indices'[Len(indices) + 1] = fed
    BY <1>1, <1>2
  <1>4. taken' = taken
    BY <1>1, <1>2, <1>3 DEF taken
  <1>5. PhaseTypes'
    BY <1>1, <1>2, <1>3 DEF PhaseInv, PhaseTypes
  <1>6. ChannelInOrder'
    BY <1>1, <1>2, <1>3, <1>4 DEF PhaseInv, ChannelInOrder, taken
  <1>7. Progress'
    BY <1>1, <1>4 DEF PhaseInv, Progress, Untaken, BeingDone, Done
  <1>8. EndInOrder'
    BY <1>1, <1>2 DEF PhaseInv, PhaseTypes, EndInOrder, AllEnded
  <1> QED BY <1>5, <1>6, <1>7, <1>8 DEF PhaseInv

LEMMA TakeKeepsInv ==
  ASSUME PhaseInv, NEW w \in Workers, Take(w)
  PROVE  PhaseInv'
  <1>1. /\ job[w] = Waiting /\ indices # <<>> /\ indices' = Tail(indices)
        /\ job' = [job EXCEPT ![w] = Head(indices)]
        /\ UNCHANGED <<fed, closed, latencies, lookups, report>>
    BY DEF Take
  <1>2. /\ fed \in Nat /\ fed <= NumQueries /\ indices \in Seq(Nat) /\ Len(indices) \in Nat \ {0}
        /\ Len(indices) <= fed /\ NumQueries \in Nat
    BY <1>1, NumQueriesAssumption DEF PhaseInv, PhaseTypes
  <1>3. /\ indices' \in Seq(Nat) /\ Len(indices') = Len(indices) - 1
        /\ \A j \in 1..Len(indices') : indices'[j] = indices[j + 1]
    BY <1>1, <1>2
  <1>4. taken' = taken + 1 /\ taken \in Nat /\ taken < NumQueries
    BY <1>1, <1>2, <1>3 DEF taken
  <1>5. Head(indices) = taken /\ taken \in Queries
    BY <1>2, <1>4, QueryIndices DEF PhaseInv, ChannelInOrder, taken
  <1>6. job'[w] = taken /\ \A v \in Workers \ {w} : job'[v] = job[v]
    BY <1>1, <1>5 DEF PhaseInv, PhaseTypes
  <1>7. PhaseTypes'
    BY <1>1, <1>2, <1>3, <1>5 DEF PhaseInv, PhaseTypes
  <1>8. ChannelInOrder'
    <2> SUFFICES ASSUME NEW j \in 1..Len(indices') PROVE indices'[j] = taken' + j - 1
      BY DEF ChannelInOrder
    <2>1. j \in Nat /\ j + 1 \in 1..Len(indices)
      BY <1>2, <1>3
    <2>2. indices'[j] = indices[j + 1] /\ indices[j + 1] = taken + (j + 1) - 1
      BY <1>3, <2>1 DEF PhaseInv, ChannelInOrder
    <2> QED BY <1>4, <2>1, <2>2
  <1>9. Progress'
    <2> SUFFICES ASSUME NEW i \in Queries
                 PROVE  IF i < taken' THEN (BeingDone(i) \/ Done(i))' ELSE Untaken(i)'
      BY DEF Progress
    <2>0. i \in Nat
      BY QueryIndices
    <2>1. CASE i < taken
      <3>1. BeingDone(i) \/ Done(i)
        BY <2>1 DEF PhaseInv, Progress
      <3>2. taken # i /\ job[w] # i
        BY <1>1, <1>4, <2>0, <2>1, QueryIndices
      <3>3. \A v \in Workers : job'[v] = i <=> job[v] = i
        BY <1>6, <3>2
      <3>4. (BeingDone(i) \/ Done(i))'
        BY <1>1, <3>1, <3>3 DEF BeingDone, Done
      <3> QED BY <1>4, <2>0, <2>1, <3>4
    <2>2. CASE i = taken
      <3>1. Untaken(i)
        BY <1>4, <2>2 DEF PhaseInv, Progress
      <3>2. BeingDone(i)'
        BY <1>1, <1>6, <2>2, <3>1 DEF Untaken, BeingDone
      <3> QED BY <1>4, <2>2, <3>2
    <2>3. CASE taken < i
      <3>1. Untaken(i) /\ ~(i < taken')
        BY <1>4, <2>0, <2>3 DEF PhaseInv, Progress
      <3>2. Untaken(i)'
        BY <1>1, <1>4, <1>6, <2>0, <2>3, <3>1 DEF Untaken
      <3> QED BY <3>1, <3>2
    <2> QED BY <1>4, <2>0, <2>1, <2>2, <2>3
  <1>10. EndInOrder'
    <2>1. ~AllEnded
      BY <1>1, QueryIndices DEF AllEnded
    <2>2. \A v \in Workers : job'[v] # Ended
      BY <1>1, <1>5, <1>6, QueryIndices DEF PhaseInv, EndInOrder
    <2> QED BY <1>1, <2>1, <2>2 DEF PhaseInv, EndInOrder
  <1> QED BY <1>7, <1>8, <1>9, <1>10 DEF PhaseInv

LEMMA AnswerKeepsInv ==
  ASSUME PhaseInv, NEW w \in Workers, NEW ms \in Latencies, NEW failed \in BOOLEAN,
         Answer(w, ms, failed)
  PROVE  PhaseInv'
  <1>1. PICK k \in Queries : k = job[w]
    BY DEF Answer
  <1>2. /\ latencies' = [latencies EXCEPT ![k] = ms]
        /\ lookups' = [lookups EXCEPT ![k] = @ + 1]
        /\ job' = [job EXCEPT ![w] = Waiting]
        /\ UNCHANGED <<fed, indices, closed, report>>
    BY <1>1 DEF Answer
  <1>3. job'[w] = Waiting /\ \A v \in Workers \ {w} : job'[v] = job[v]
    BY <1>2 DEF PhaseInv, PhaseTypes
  <1>4. PhaseTypes'
    BY <1>2, LatenciesAssumption DEF PhaseInv, PhaseTypes
  <1>5. taken' = taken /\ ChannelInOrder'
    BY <1>2 DEF PhaseInv, ChannelInOrder, taken
  <1>6. BeingDone(k) /\ k < taken
    BY <1>1 DEF PhaseInv, Progress, Untaken, Done
  <1>7. Done(k)'
    <2>1. \A v \in Workers : job'[v] # k
      BY <1>1, <1>3, <1>6, QueryIndices DEF BeingDone
    <2>2. lookups'[k] = 1 /\ latencies'[k] = ms
      BY <1>2, <1>6 DEF PhaseInv, PhaseTypes, BeingDone
    <2> QED BY <2>1, <2>2 DEF Done
  <1>8. Progress'
    <2> SUFFICES ASSUME NEW i \in Queries
                 PROVE  IF i < taken' THEN (BeingDone(i) \/ Done(i))' ELSE Untaken(i)'
      BY DEF Progress
    <2>1. CASE i = k
      BY <1>5, <1>6, <1>7, <2>1
    <2>2. CASE i # k
      <3>1. lookups'[i] = lookups[i] /\ latencies'[i] = latencies[i]
        BY <1>2, <2>2 DEF PhaseInv, PhaseTypes
      <3>2. \A v \in Workers : job'[v] = i <=> job[v] = i
        BY <1>1, <1>3, <2>2, QueryIndices
      <3>3. IF i < taken THEN BeingDone(i) \/ Done(i) ELSE Untaken(i)
        BY DEF PhaseInv, Progress
      <3> QED BY <1>5, <3>1, <3>2, <3>3 DEF BeingDone, Done, Untaken
    <2> QED BY <2>1, <2>2
  <1>9. EndInOrder'
    <2>1. ~AllEnded
      BY <1>1, QueryIndices DEF AllEnded
    <2>2. \A v \in Workers : job'[v] = Ended => job[v] = Ended
      BY <1>3, QueryIndices
    <2> QED BY <1>2, <2>1, <2>2 DEF PhaseInv, EndInOrder
  <1> QED BY <1>4, <1>5, <1>8, <1>9 DEF PhaseInv

LEMMA ExitKeepsInv ==
  ASSUME PhaseInv, NEW w \in Workers, Exit(w)
  PROVE  PhaseInv'
  <1>1. /\ job[w] = Waiting /\ closed /\ indices = <<>> /\ job' = [job EXCEPT ![w] = Ended]
        /\ UNCHANGED <<fed, indices, closed, latencies, lookups, report>>
    BY DEF Exit
  <1>2. job'[w] = Ended /\ \A v \in Workers \ {w} : job'[v] = job[v]
    BY <1>1 DEF PhaseInv, PhaseTypes
  <1>3. PhaseTypes'
    BY <1>1 DEF PhaseInv, PhaseTypes
  <1>4. taken' = taken /\ ChannelInOrder'
    BY <1>1 DEF PhaseInv, ChannelInOrder, taken
  <1>5. \A v \in Workers, i \in Queries : job'[v] = i <=> job[v] = i
    BY <1>1, <1>2, QueryIndices
  <1>6. Progress'
    <2> SUFFICES ASSUME NEW i \in Queries
                 PROVE  IF i < taken' THEN (BeingDone(i) \/ Done(i))' ELSE Untaken(i)'
      BY DEF Progress
    <2>1. IF i < taken THEN BeingDone(i) \/ Done(i) ELSE Untaken(i)
      BY DEF PhaseInv, Progress
    <2> QED BY <1>1, <1>4, <1>5, <2>1 DEF BeingDone, Done, Untaken
  <1>7. EndInOrder'
    BY <1>1, <1>2, QueryIndices DEF PhaseInv, EndInOrder, AllEnded
  <1> QED BY <1>3, <1>4, <1>6, <1>7 DEF PhaseInv

LEMMA MainKeepsInv == ASSUME PhaseInv, CloseChannel \/ Merge PROVE PhaseInv'
  <1>1. UNCHANGED <<fed, indices, job, latencies, lookups>>
    BY DEF CloseChannel, Merge
  <1>2. ChannelInOrder' /\ Progress'
    BY <1>1 DEF PhaseInv, ChannelInOrder, Progress, taken, Untaken, BeingDone, Done
  <1>3. PhaseTypes'
    BY <1>1 DEF PhaseInv, PhaseTypes, CloseChannel, Merge
  <1>4. EndInOrder'
    BY <1>1 DEF PhaseInv, EndInOrder, AllEnded, CloseChannel, Merge
  <1> QED BY <1>2, <1>3, <1>4 DEF PhaseInv

LEMMA PhaseStep == PhaseInv /\ [Next]_vars => PhaseInv'
  <1> SUFFICES ASSUME PhaseInv, [Next]_vars PROVE PhaseInv'
    OBVIOUS
  <1>1. CASE UNCHANGED vars
    BY <1>1 DEF vars, PhaseInv, PhaseTypes, ChannelInOrder, Progress, EndInOrder, taken,
                Untaken, BeingDone, Done, AllEnded
  <1>2. CASE Feed \/ CloseChannel \/ Merge
    BY <1>2, FeedKeepsInv, MainKeepsInv
  <1>3. CASE \E w \in Workers : Take(w) \/ Exit(w)
    BY <1>3, TakeKeepsInv, ExitKeepsInv
  <1>4. CASE \E w \in Workers : \E ms \in Latencies, failed \in BOOLEAN : Answer(w, ms, failed)
    BY <1>4, AnswerKeepsInv
  <1> QED BY <1>1, <1>2, <1>3, <1>4 DEF Next

\* Whatever the number of workers and the size of the channel, when the report
\* is made every query has been looked up once and has a measured latency
\* (runQueryPhase's feeder, range loops and wg.Wait).
THEOREM EveryQueryIsLookedUpOnce == Spec => []EveryQueryOnce
  <1>1. PhaseInv => EveryQueryOnce
    <2> SUFFICES ASSUME PhaseInv, report.done, NEW i \in Queries
                 PROVE  lookups[i] = 1 /\ latencies[i] \in Latencies
      BY DEF EveryQueryOnce
    <2>1. \A w \in Workers : job[w] = Ended
      BY DEF PhaseInv, EndInOrder, AllEnded
    <2>2. fed = NumQueries /\ indices = <<>>
      BY <2>1, WorkersAssumption DEF PhaseInv, EndInOrder
    <2>3. taken = NumQueries
      BY <2>2, NumQueriesAssumption DEF taken
    <2>4. i < taken
      BY <2>3, NumQueriesAssumption DEF Queries
    <2>5. ~BeingDone(i)
      BY <2>1, QueryIndices DEF BeingDone
    <2> QED BY <2>4, <2>5 DEF PhaseInv, Progress, Done
  <1> QED BY <1>1, PhaseInit, PhaseStep, PTL DEF Spec

-----------------------------------------------------------------------------
(* The backends *)

\* One more, modulo b.
LEMMA NextRemainder ==
  ASSUME NEW n \in Nat, NEW b \in Nat \ {0}
  PROVE  /\ (n % b) \in 0..b-1
         /\ ((n + 1) % b) = IF (n % b) = b - 1 THEN 0 ELSE (n % b) + 1
  <1>1. PICK q \in Nat, r \in 0..b-1 : n = b * q + r /\ r = (n % b)
    OBVIOUS
  <1> QED BY <1>1

\* The backends before the next one's turn have had one lookup more.
RoundRobin ==
  /\ next \in Nat
  /\ served \in [0..Backends-1 -> Nat]
  /\ \E q \in Nat : \A b \in 0..Backends-1 :
       served[b] = IF b < (next % Backends) THEN q + 1 ELSE q

LEMMA RoundRobinInit == Init => RoundRobin
  <1> SUFFICES ASSUME Init PROVE RoundRobin
    OBVIOUS
  <1>1. next = 0 /\ served = [b \in 0..Backends-1 |-> 0]
    BY DEF Init
  <1>2. (0 % Backends) = 0
    BY BackendsAssumption
  <1>3. \A b \in 0..Backends-1 : served[b] = IF b < (next % Backends) THEN 0 + 1 ELSE 0
    BY <1>1, <1>2, BackendsAssumption
  <1> QED BY <1>1, <1>3 DEF RoundRobin

LEMMA RoundRobinStep == RoundRobin /\ [Next]_vars => RoundRobin'
  <1> SUFFICES ASSUME RoundRobin, [Next]_vars PROVE RoundRobin'
    OBVIOUS
  <1>1. ASSUME NEW w \in Workers, Take(w) PROVE RoundRobin'
    <2> DEFINE r == next % Backends
               r1 == (next + 1) % Backends
    <2>1. next' = next + 1 /\ served' = [served EXCEPT ![r] = @ + 1]
      BY <1>1 DEF Take, backend
    <2>2. /\ Backends \in Nat \ {0} /\ r \in 0..Backends-1
          /\ r1 = IF r = Backends - 1 THEN 0 ELSE r + 1
      BY BackendsAssumption, NextRemainder DEF RoundRobin
    <2>3. PICK q \in Nat : \A b \in 0..Backends-1 : served[b] = IF b < r THEN q + 1 ELSE q
      BY DEF RoundRobin
    <2>4. next \in Nat /\ served \in [0..Backends-1 -> Nat]
      BY DEF RoundRobin
    <2>5. next' % Backends = r1
      BY <2>1
    <2> HIDE DEF r, r1
    <2>6. /\ served' \in [0..Backends-1 -> Nat]
          /\ \A b \in 0..Backends-1 : served'[b] = IF b = r THEN served[b] + 1 ELSE served[b]
      BY <2>1, <2>2, <2>4
    <2>7. \A b \in 0..Backends-1 : served'[b] = IF b < r + 1 THEN q + 1 ELSE q
      BY <2>2, <2>3, <2>6
    <2>8. \E p \in Nat : \A b \in 0..Backends-1 : served'[b] = IF b < r1 THEN p + 1 ELSE p
      <3>1. CASE r = Backends - 1
        <4>1. \A b \in 0..Backends-1 : served'[b] = IF b < r1 THEN (q + 1) + 1 ELSE q + 1
          BY <2>2, <2>7, <3>1
        <4> QED BY <4>1
      <3>2. CASE r # Backends - 1
        BY <2>2, <2>7, <3>2
      <3> QED BY <3>1, <3>2
    <2>9. \E p \in Nat : \A b \in 0..Backends-1 :
            served'[b] = IF b < (next' % Backends) THEN p + 1 ELSE p
      BY <2>5, <2>8
    <2>10. next' \in Nat
      BY <2>1, <2>4
    <2> QED BY <2>6, <2>9, <2>10 DEF RoundRobin
  <1>2. CASE UNCHANGED <<next, served>>
    <2>1. PICK q \in Nat : \A b \in 0..Backends-1 :
            served[b] = IF b < (next % Backends) THEN q + 1 ELSE q
      BY DEF RoundRobin
    <2>2. next' % Backends = next % Backends /\ served' = served
      BY <1>2
    <2>3. \A b \in 0..Backends-1 :
            served'[b] = IF b < (next' % Backends) THEN q + 1 ELSE q
      BY <2>1, <2>2
    <2>4. \E p \in Nat : \A b \in 0..Backends-1 :
            served'[b] = IF b < (next' % Backends) THEN p + 1 ELSE p
      BY <2>3
    <2>5. next' \in Nat /\ served' \in [0..Backends-1 -> Nat]
      BY <1>2 DEF RoundRobin
    <2> QED BY <2>4, <2>5 DEF RoundRobin
  <1>3. CASE Feed \/ CloseChannel \/ Merge \/ (\E w \in Workers : Exit(w)) \/ UNCHANGED vars
    <2>1. Feed \/ CloseChannel \/ (\E w \in Workers : Exit(w)) => UNCHANGED <<next, served>>
      BY DEF Feed, CloseChannel, Exit
    <2>2. Merge => UNCHANGED <<next, served>>
      BY DEF Merge
    <2>3. UNCHANGED vars => UNCHANGED <<next, served>>
      BY DEF vars
    <2> QED BY <1>2, <1>3, <2>1, <2>2, <2>3
  <1>4. ASSUME NEW w \in Workers, NEW ms \in Latencies, NEW failed \in BOOLEAN,
               Answer(w, ms, failed)
        PROVE  RoundRobin'
    BY <1>2, <1>4 DEF Answer
  <1> QED BY <1>1, <1>3, <1>4 DEF Next

\* For any number of backends, no routerd instance is ever a lookup ahead of
\* another by more than one (GRPCLookuper's atomic counter).
THEOREM BackendsShareEvenly == Spec => []BackendsEvenlyUsed
  <1>1. RoundRobin => BackendsEvenlyUsed
    <2> SUFFICES ASSUME RoundRobin, NEW b \in 0..Backends-1, NEW c \in 0..Backends-1
                 PROVE  served[b] <= served[c] + 1
      BY DEF RoundRobin, BackendsEvenlyUsed
    <2>1. PICK q \in Nat : served[b] \in {q, q + 1} /\ served[c] \in {q, q + 1}
      BY DEF RoundRobin
    <2> QED BY <2>1
  <1> QED BY <1>1, RoundRobinInit, RoundRobinStep, PTL DEF Spec

\* Both together.
THEOREM WorkIsDoneOnceAndEvenly == Spec => []WorkIsSharedOut
  <1>1. EveryQueryOnce /\ BackendsEvenlyUsed => WorkIsSharedOut
    BY DEF WorkIsSharedOut
  <1> QED BY <1>1, EveryQueryIsLookedUpOnce, BackendsShareEvenly, PTL

-----------------------------------------------------------------------------
(* The thread pool of both benchmarks, for any concurrency, pool and load:  *)
(* a pool of one connection per thread never runs out.                      *)

\* The threads that hold a connection.
Holders == {t \in Threads : thread[t] = "lookup"}

PoolTypes ==
  /\ concurrency \in Nat \ {0} /\ limit \in Nat \ {0}
  /\ opened \in Nat /\ idle \in Nat
  /\ thread \in [Threads -> {"none", "free", "barrier", "draw", "lookup"}]

\* Every connection is idle or held by one thread.
Balanced == opened = idle + Cardinality(Holders)

PoolInv == PoolTypes /\ Balanced /\ NoLookupRefused

-----------------------------------------------------------------------------

LEMMA HoldersBound ==
  ASSUME PoolTypes
  PROVE  /\ IsFiniteSet(Threads) /\ Cardinality(Threads) = concurrency
         /\ IsFiniteSet(Holders) /\ Cardinality(Holders) \in 0..concurrency
         /\ \A t \in Threads \ Holders : Cardinality(Holders) < concurrency
  <1>1. IsFiniteSet(Threads) /\ Cardinality(Threads) = concurrency
    BY FS_Interval DEF PoolTypes, Threads
  <1>2. Holders \in SUBSET Threads
    BY DEF Holders
  <1>3. /\ IsFiniteSet(Holders) /\ Cardinality(Holders) <= concurrency
        /\ Cardinality(Holders) = concurrency => Holders = Threads
    BY <1>1, <1>2, FS_Subset
  <1>4. Cardinality(Holders) \in Nat
    BY <1>3, FS_CardinalityType
  <1> QED BY <1>1, <1>3, <1>4 DEF PoolTypes

\* A step that changes who works, but not who holds a connection.
LEMMA SameHolders ==
  ASSUME PoolInv, UNCHANGED <<concurrency, limit, opened, idle, refused>>,
         thread' \in [Threads -> {"none", "free", "barrier", "draw", "lookup"}],
         \A t \in Threads : thread'[t] = "lookup" <=> thread[t] = "lookup"
  PROVE  PoolInv'
  <1>1. Threads' = Threads
    BY DEF Threads
  <1>2. Holders' = Holders
    BY <1>1 DEF Holders
  <1> QED BY <1>1, <1>2 DEF PoolInv, PoolTypes, Balanced, NoLookupRefused

LEMMA PoolStart == PoolInit => PoolInv
  <1> SUFFICES ASSUME PoolInit PROVE PoolInv
    OBVIOUS
  <1>1. /\ concurrency \in Nat \ {0} /\ limit \in Nat \ {0} /\ opened = 1 /\ idle = 1
        /\ thread = [t \in Threads |-> "none"] /\ refused = {}
    BY BenchPoolAssumption DEF PoolInit
  <1>2. Holders = {}
    BY <1>1 DEF Holders
  <1>3. Cardinality(Holders) = 0
    BY <1>2, FS_EmptySet
  <1>4. PoolTypes
    BY <1>1 DEF PoolTypes
  <1> QED BY <1>1, <1>3, <1>4 DEF PoolInv, Balanced, NoLookupRefused

LEMMA DrawKeepsInv ==
  ASSUME PoolInv, NEW t \in Threads, Draw(t)
  PROVE  PoolInv'
  <1>1. thread[t] = "draw" /\ UNCHANGED <<concurrency, limit>> /\ Threads' = Threads
    BY DEF Draw, Threads
  <1>2. t \notin Holders /\ IsFiniteSet(Holders) /\ Cardinality(Holders) \in Nat
        /\ Cardinality(Holders) < concurrency
    BY <1>1, HoldersBound DEF PoolInv, Holders
  <1>3. CASE idle > 0 \/ opened < limit
    <2>1. /\ thread' = [thread EXCEPT ![t] = "lookup"] /\ refused' = refused
          /\ idle' = IF idle > 0 THEN idle - 1 ELSE idle
          /\ opened' = IF idle > 0 THEN opened ELSE opened + 1
      BY <1>3 DEF Draw
    <2>2. Holders' = Holders \cup {t}
      BY <1>1, <2>1 DEF Holders, PoolInv, PoolTypes
    <2>3. Cardinality(Holders') = Cardinality(Holders) + 1
      BY <1>2, <2>2, FS_AddElement
    <2>4. PoolTypes'
      BY <1>1, <2>1 DEF PoolInv, PoolTypes
    <2>5. opened' = idle' + Cardinality(Holders')
      BY <1>2, <2>1, <2>3 DEF PoolInv, PoolTypes, Balanced
    <2>6. opened' <= concurrency /\ opened' <= limit
      BY <1>2, <1>3, <2>1 DEF PoolInv, PoolTypes, Balanced, NoLookupRefused
    <2> QED BY <1>1, <2>1, <2>4, <2>5, <2>6 DEF PoolInv, Balanced, NoLookupRefused
  <1>4. CASE ~(idle > 0 \/ opened < limit)
    <2>1. /\ thread' = [thread EXCEPT ![t] = "free"] /\ UNCHANGED <<opened, idle>>
      BY <1>4 DEF Draw, Ends
    <2>2. ~(limit >= concurrency)
      BY <1>2, <1>4 DEF PoolInv, PoolTypes, Balanced
    <2>3. Holders' = Holders
      BY <1>1, <1>2, <2>1 DEF Holders, PoolInv, PoolTypes
    <2>4. PoolTypes'
      BY <1>1, <2>1 DEF PoolInv, PoolTypes
    <2> QED BY <1>1, <2>1, <2>2, <2>3, <2>4 DEF PoolInv, Balanced, NoLookupRefused
  <1> QED BY <1>3, <1>4

LEMMA ReturnKeepsInv ==
  ASSUME PoolInv, NEW t \in Threads, NEW ms, NEW fails, Return(t, ms, fails)
  PROVE  PoolInv'
  <1>1. /\ thread[t] = "lookup" /\ thread' = [thread EXCEPT ![t] = "free"] /\ idle' = idle + 1
        /\ UNCHANGED <<concurrency, limit, opened, refused>> /\ Threads' = Threads
    BY DEF Return, Ends, given_back, Threads
  <1>2. t \in Holders /\ IsFiniteSet(Holders) /\ Cardinality(Holders) \in Nat
    BY <1>1, HoldersBound DEF PoolInv, Holders
  <1>3. Holders' = Holders \ {t}
    BY <1>1 DEF Holders, PoolInv, PoolTypes
  <1>4. Cardinality(Holders') = Cardinality(Holders) - 1
    BY <1>2, <1>3, FS_RemoveElement
  <1>5. PoolTypes'
    BY <1>1 DEF PoolInv, PoolTypes
  <1>6. opened' = idle' + Cardinality(Holders')
    BY <1>1, <1>2, <1>4 DEF PoolInv, PoolTypes, Balanced
  <1> QED BY <1>1, <1>5, <1>6 DEF PoolInv, Balanced, NoLookupRefused

LEMMA ExecutorKeepsInv ==
  ASSUME PoolInv, Submit \/ (\E t \in Threads : TakeTask(t)) \/ PassBarrier
  PROVE  PoolInv'
  <1>1. UNCHANGED <<concurrency, limit, opened, idle, refused>>
    BY DEF Submit, TakeTask, PassBarrier
  <1>2. /\ thread' \in [Threads -> {"none", "free", "barrier", "draw", "lookup"}]
        /\ \A t \in Threads : thread'[t] = "lookup" <=> thread[t] = "lookup"
    <2>1. CASE Submit
      <3>1. CASE thread' = thread
        BY <3>1 DEF PoolInv, PoolTypes
      <3> DEFINE unborn == {t \in Threads : thread[t] = "none"}
                 t1 == CHOOSE t \in unborn : \A u \in unborn : t <= u
      <3>2. CASE unborn # {} /\ thread' = [thread EXCEPT ![t1] = "free"]
        <4>1. unborn \in SUBSET Nat
          BY DEF Threads
        <4>2. t1 \in unborn
          <5> HIDE DEF unborn
          <5> QED BY <3>2, <4>1, LeastNat
        <4> QED BY <3>2, <4>2 DEF PoolInv, PoolTypes
      <3> QED BY <2>1, <3>1, <3>2 DEF Submit
    <2>2. CASE \E t \in Threads : TakeTask(t)
      BY <2>2 DEF TakeTask, PoolInv, PoolTypes
    <2>3. CASE PassBarrier
      BY <2>3 DEF PassBarrier, AtBarrier, PoolInv, PoolTypes
    <2> QED BY <2>1, <2>2, <2>3
  <1> QED BY <1>1, <1>2, SameHolders

LEMMA MainThreadKeepsInv ==
  ASSUME PoolInv, Consume \/ Raise \/ EndWarmUp \/ PrintReports
  PROVE  PoolInv'
  <1>1. UNCHANGED <<concurrency, limit, opened, idle, refused>> /\ Threads' = Threads
    BY DEF Consume, Raise, EndWarmUp, PrintReports, Threads
  <1>2. /\ thread' \in [Threads -> {"none", "free", "barrier", "draw", "lookup"}]
        /\ \A t \in Threads : thread'[t] = "lookup" <=> thread[t] = "lookup"
    <2>1. CASE EndWarmUp
      <3>1. thread' = [t \in Threads |-> "none"] /\ \A t \in Threads : thread[t] \in {"none", "free"}
        BY <1>1, <2>1 DEF EndWarmUp, NewExecutor, AllFree
      <3> QED BY <3>1
    <2>2. CASE Consume \/ Raise \/ PrintReports
      <3>1. thread' = thread
        BY <2>2 DEF Consume, Raise, PrintReports
      <3> QED BY <3>1 DEF PoolInv, PoolTypes
    <2> QED BY <2>1, <2>2
  <1> QED BY <1>1, <1>2, SameHolders

LEMMA PoolStep == PoolInv /\ [PoolNext]_poolVars => PoolInv'
  <1> SUFFICES ASSUME PoolInv, [PoolNext]_poolVars PROVE PoolInv'
    OBVIOUS
  <1>1. CASE UNCHANGED poolVars
    BY <1>1, SameHolders DEF poolVars, PoolInv, PoolTypes
  <1>2. CASE Submit \/ PassBarrier \/ \E t \in Threads : TakeTask(t)
    BY <1>2, ExecutorKeepsInv
  <1>3. CASE Consume \/ Raise \/ EndWarmUp \/ PrintReports
    BY <1>3, MainThreadKeepsInv
  <1>4. CASE \E t \in Threads : Draw(t) \/ Returns(t)
    BY <1>4, DrawKeepsInv, ReturnKeepsInv DEF Returns
  <1> QED BY <1>1, <1>2, <1>3, <1>4 DEF PoolNext

\* For any number of threads, any pool and any workload: the pool never has
\* more connections than threads, and one that may have as many refuses no
\* lookup, in the warm-up and in the timed phase (benchmark.py's clients,
\* main.go's PoolSize).
THEOREM ThreadsFindConnections == PoolSpec => []NoLookupRefused
  <1>1. PoolInv => NoLookupRefused
    BY DEF PoolInv
  <1> QED BY <1>1, PoolStart, PoolStep, PTL DEF PoolSpec

-----------------------------------------------------------------------------
(* The executor's queue *)

\* The tasks that threads have taken from it.
handedOut == submitted - Len(queue)

\* It holds the later ones in their order.
QueueInOrder ==
  /\ submitted \in Nat
  /\ queue \in Seq(Nat) /\ Len(queue) <= submitted
  /\ \A j \in 1..Len(queue) : queue[j] = handedOut + j

\* A task is added.
LEMMA HandIn ==
  ASSUME QueueInOrder, submitted' = submitted + 1, queue' = Append(queue, submitted + 1)
  PROVE  QueueInOrder' /\ handedOut' = handedOut /\ handedOut \in Nat
  <1>1. PICK n \in Nat, m \in Nat : n = Len(queue) /\ m = submitted /\ n <= m
    BY DEF QueueInOrder
  <1>2. /\ queue' \in Seq(Nat) /\ Len(queue') = n + 1
        /\ \A j \in 1..n : queue'[j] = queue[j]
        /\ queue'[n + 1] = m + 1
    BY <1>1 DEF QueueInOrder
  <1>3. handedOut = m - n /\ handedOut' = m - n
    BY <1>1, <1>2 DEF handedOut
  <1>4. \A j \in 1..n : queue'[j] = (m - n) + j
    BY <1>1, <1>2, <1>3 DEF QueueInOrder
  <1>5. \A j \in 1..n+1 : queue'[j] = (m - n) + j
    BY <1>2, <1>4
  <1> QED BY <1>1, <1>2, <1>3, <1>5 DEF QueueInOrder

\* The first one is taken.
LEMMA HandOut ==
  ASSUME QueueInOrder, queue # <<>>, queue' = Tail(queue), submitted' = submitted
  PROVE  /\ QueueInOrder' /\ handedOut' = handedOut + 1 /\ handedOut \in Nat
         /\ Head(queue) = handedOut' /\ handedOut' <= submitted
  <1>1. PICK n \in Nat \ {0}, m \in Nat : n = Len(queue) /\ m = submitted /\ n <= m
    BY DEF QueueInOrder
  <1>2. /\ queue' \in Seq(Nat) /\ Len(queue') = n - 1
        /\ \A j \in 1..n-1 : queue'[j] = queue[j + 1]
        /\ Head(queue) = queue[1]
    BY <1>1 DEF QueueInOrder
  <1>3. handedOut = m - n /\ handedOut' = (m - n) + 1
    BY <1>1, <1>2 DEF handedOut
  <1>4. \A j \in 1..n : queue[j] = (m - n) + j
    BY <1>1, <1>3 DEF QueueInOrder
  <1>5. \A j \in 1..n-1 : queue'[j] = ((m - n) + 1) + j
    <2> TAKE j \in 1..n-1
    <2>1. j + 1 \in 1..n
      OBVIOUS
    <2>2. queue'[j] = queue[j + 1] /\ queue[j + 1] = (m - n) + (j + 1)
      BY <1>2, <1>4, <2>1
    <2>3. j \in Nat /\ (m - n) + (j + 1) = ((m - n) + 1) + j
      OBVIOUS
    <2> QED BY <2>2, <2>3
  <1>6. queue[1] = (m - n) + 1
    BY <1>4
  <1> QED BY <1>1, <1>2, <1>3, <1>5, <1>6 DEF QueueInOrder

-----------------------------------------------------------------------------
(* The barrier of the warm-up *)

\* Until the barrier opens, the threads at it have different tasks, all of them
\* handed out.
Gathering ==
  /\ \A t \in Threads : thread[t] \in {"none", "free", "barrier"}
  /\ QueueInOrder /\ submitted <= concurrency
  /\ \A t \in AtBarrier : task[t] \in 1..handedOut
  /\ \A t, u \in AtBarrier : task[t] = task[u] => t = u

\* Then nothing is left to hand out.
Started ==
  /\ submitted = concurrency /\ queue = <<>>
  /\ {task[t] : t \in Threads} = 1..concurrency

WarmInv ==
  stage = "warm" =>
    /\ concurrency \in Nat
    /\ thread \in [Threads -> {"none", "free", "barrier", "draw", "lookup"}]
    /\ task \in [Threads -> Nat]
    /\ Gathering \/ Started

LEMMA WarmStart == PoolInit => WarmInv
  <1> SUFFICES ASSUME PoolInit PROVE WarmInv
    OBVIOUS
  <1>1. /\ concurrency \in Nat \ {0} /\ submitted = 0 /\ queue = <<>>
        /\ thread = [t \in Threads |-> "none"] /\ task = [t \in Threads |-> 0]
    BY BenchPoolAssumption DEF PoolInit
  <1>2. Len(queue) = 0 /\ queue \in Seq(Nat) /\ AtBarrier = {}
    BY <1>1 DEF AtBarrier
  <1>3. Gathering
    BY <1>1, <1>2 DEF Gathering, QueueInOrder
  <1> QED BY <1>1, <1>3 DEF WarmInv

LEMMA SubmitKeepsWarm == ASSUME WarmInv, Submit PROVE WarmInv'
  <1> SUFFICES ASSUME stage = "warm" PROVE WarmInv'
    BY DEF Submit, WarmInv
  <1>1. /\ submitted < concurrency /\ submitted' = submitted + 1
        /\ queue' = Append(queue, submitted + 1)
        /\ UNCHANGED <<concurrency, stage, task>> /\ Threads' = Threads
    BY DEF Submit, NumTasks, Threads
  <1>2. /\ concurrency \in Nat /\ task \in [Threads -> Nat]
        /\ thread \in [Threads -> {"none", "free", "barrier", "draw", "lookup"}]
    BY DEF WarmInv
  <1>3. Gathering
    BY <1>1, <1>2 DEF WarmInv, Started
  <1>4. /\ thread' \in [Threads -> {"none", "free", "barrier"}]
        /\ AtBarrier' = AtBarrier
    <2>0. thread \in [Threads -> {"none", "free", "barrier"}]
      BY <1>2, <1>3 DEF Gathering
    <2> DEFINE unborn == {t \in Threads : thread[t] = "none"}
               t1 == CHOOSE t \in unborn : \A u \in unborn : t <= u
    <2>1. CASE thread' = thread
      BY <1>1, <2>0, <2>1 DEF AtBarrier
    <2>2. CASE unborn # {} /\ thread' = [thread EXCEPT ![t1] = "free"]
      <3>1. unborn \in SUBSET Nat
        BY DEF Threads
      <3>2. t1 \in unborn
        <4> HIDE DEF unborn
        <4> QED BY <2>2, <3>1, LeastNat
      <3> QED BY <1>1, <2>0, <2>2, <3>2 DEF AtBarrier
    <2> QED BY <2>1, <2>2 DEF Submit
  <1>5. QueueInOrder' /\ handedOut' = handedOut
    BY <1>1, <1>3, HandIn DEF Gathering
  <1>6. submitted' <= concurrency
    BY <1>1, <1>2, <1>3 DEF Gathering, QueueInOrder
  <1>7. Gathering'
    BY <1>1, <1>3, <1>4, <1>5, <1>6 DEF Gathering
  <1> QED BY <1>1, <1>2, <1>4, <1>7 DEF WarmInv

LEMMA TakeTaskKeepsWarm ==
  ASSUME WarmInv, NEW t \in Threads, TakeTask(t)
  PROVE  WarmInv'
  <1> SUFFICES ASSUME stage = "warm" PROVE WarmInv'
    BY DEF TakeTask, WarmInv
  <1>1. /\ thread[t] = "free" /\ queue # <<>> /\ queue' = Tail(queue)
        /\ task' = [task EXCEPT ![t] = Head(queue)]
        /\ thread' = [thread EXCEPT ![t] = "barrier"]
        /\ UNCHANGED <<concurrency, stage, submitted>> /\ Threads' = Threads
    BY DEF TakeTask, Threads
  <1>2. /\ concurrency \in Nat /\ task \in [Threads -> Nat]
        /\ thread \in [Threads -> {"none", "free", "barrier", "draw", "lookup"}]
    BY DEF WarmInv
  <1>3. Gathering
    BY <1>1 DEF WarmInv, Started
  <1>4. /\ QueueInOrder' /\ handedOut' = handedOut + 1 /\ handedOut \in Nat
        /\ Head(queue) = handedOut'
    BY <1>1, <1>3, HandOut DEF Gathering
  <1>5. AtBarrier' = AtBarrier \cup {t} /\ t \notin AtBarrier
    BY <1>1, <1>2 DEF AtBarrier
  <1>6. task'[t] = handedOut' /\ \A u \in Threads \ {t} : task'[u] = task[u]
    BY <1>1, <1>2, <1>4
  <1>7. \A u \in AtBarrier : task'[u] = task[u] /\ task[u] \in 1..handedOut
    BY <1>3, <1>5, <1>6 DEF Gathering, AtBarrier
  <1>8. /\ \A u \in AtBarrier' : task'[u] \in 1..handedOut'
        /\ \A u, v \in AtBarrier' : task'[u] = task'[v] => u = v
    <2>1. \A u \in AtBarrier : task'[u] \in 1..handedOut' /\ task'[u] # handedOut'
      BY <1>4, <1>7
    <2>2. handedOut' \in 1..handedOut'
      BY <1>4
    <2>3. \A u, v \in AtBarrier : task'[u] = task'[v] => u = v
      BY <1>3, <1>7 DEF Gathering
    <2> QED BY <1>5, <1>6, <2>1, <2>2, <2>3
  <1>9. /\ task' \in [Threads' -> Nat]
        /\ thread' \in [Threads' -> {"none", "free", "barrier", "draw", "lookup"}]
        /\ \A u \in Threads' : thread'[u] \in {"none", "free", "barrier"}
    BY <1>1, <1>2, <1>3, <1>4 DEF Gathering
  <1>10. Gathering'
    BY <1>1, <1>3, <1>4, <1>8, <1>9 DEF Gathering
  <1> QED BY <1>1, <1>2, <1>9, <1>10 DEF WarmInv

\* All threads have arrived when the barrier opens, and hold all tasks.
LEMMA PassKeepsWarm == ASSUME WarmInv, PassBarrier PROVE WarmInv'
  <1> SUFFICES ASSUME stage = "warm" PROVE WarmInv'
    BY DEF PassBarrier, WarmInv
  <1>1. /\ thread' = [t \in Threads |-> IF t \in AtBarrier THEN "draw" ELSE thread[t]]
        /\ Cardinality(AtBarrier) >= concurrency
        /\ UNCHANGED <<concurrency, stage, submitted, queue, task>> /\ Threads' = Threads
    BY DEF PassBarrier, parties, Threads
  <1>2. /\ concurrency \in Nat /\ task \in [Threads -> Nat]
        /\ thread' \in [Threads' -> {"none", "free", "barrier", "draw", "lookup"}]
    BY <1>1 DEF WarmInv
  <1>3. Started
    <2>1. SUFFICES ASSUME Gathering PROVE Started
      BY DEF WarmInv
    <2>2. IsFiniteSet(Threads) /\ Cardinality(Threads) = concurrency
      BY <1>2, FS_Interval DEF Threads
    <2>3. AtBarrier = Threads
      <3>1. AtBarrier \in SUBSET Threads
        BY DEF AtBarrier
      <3>2. Cardinality(AtBarrier) <= Cardinality(Threads) /\ Cardinality(AtBarrier) \in Nat
        BY <2>2, <3>1, FS_Subset, FS_CardinalityType
      <3> QED BY <1>1, <1>2, <2>2, <3>1, <3>2, FS_Subset
    <2>4. PICK n \in Nat : n = handedOut /\ n <= submitted /\ Len(queue) = submitted - n
      <3>1. submitted \in Nat /\ Len(queue) \in Nat /\ Len(queue) <= submitted
        BY <2>1 DEF Gathering, QueueInOrder
      <3> QED BY <3>1 DEF handedOut
    <2>5. task \in Injection(Threads, 1..n)
      <3>1. \A t \in Threads : task[t] \in 1..n
        BY <2>1, <2>3, <2>4 DEF Gathering
      <3>2. task \in [Threads -> 1..n]
        BY <1>2, <3>1
      <3>3. \A t, u \in Threads : task[t] = task[u] => t = u
        BY <2>1, <2>3 DEF Gathering
      <3> QED BY <3>2, <3>3 DEF Injection, IsInjective
    <2>6. IsFiniteSet(1..n) /\ Cardinality(1..n) = n
      BY FS_Interval
    <2>7. concurrency <= n
      BY <2>2, <2>5, <2>6, FS_Injection
    <2>8. submitted \in Nat /\ submitted <= concurrency /\ queue \in Seq(Nat)
      BY <2>1 DEF Gathering, QueueInOrder
    <2>9. n = concurrency /\ submitted = concurrency /\ Len(queue) = 0
      BY <1>2, <2>4, <2>7, <2>8
    <2>10. queue = <<>>
      BY <2>8, <2>9
    <2>11. task \in Surjection(Threads, 1..n)
      BY <2>2, <2>5, <2>6, <2>9, FS_Injection
    <2>12. {task[t] : t \in Threads} = 1..concurrency
      BY <2>9, <2>11 DEF Surjection
    <2> QED BY <2>9, <2>10, <2>12 DEF Started
  <1>4. Started'
    BY <1>1, <1>3 DEF Started
  <1> QED BY <1>1, <1>2, <1>4 DEF WarmInv

LEMMA LookupKeepsWarm ==
  ASSUME WarmInv, NEW t \in Threads, Draw(t) \/ Returns(t)
  PROVE  WarmInv'
  <1> SUFFICES ASSUME stage = "warm" PROVE WarmInv'
    BY DEF Draw, Returns, Return, WarmInv
  <1>1. /\ UNCHANGED <<concurrency, stage, submitted, queue, task>> /\ Threads' = Threads
        /\ thread[t] \in {"draw", "lookup"}
    BY DEF Draw, Returns, Return, Threads
  <1>2. /\ concurrency \in Nat /\ task \in [Threads -> Nat]
        /\ thread \in [Threads -> {"none", "free", "barrier", "draw", "lookup"}]
    BY DEF WarmInv
  <1>3. Started
    BY <1>1 DEF WarmInv, Gathering
  <1>4. thread' = [thread EXCEPT ![t] = "free"] \/ thread' = [thread EXCEPT ![t] = "lookup"]
    BY DEF Draw, Returns, Return, Ends
  <1>5. thread' \in [Threads -> {"none", "free", "barrier", "draw", "lookup"}]
    BY <1>2, <1>4
  <1> QED BY <1>1, <1>2, <1>3, <1>5 DEF WarmInv, Started

LEMMA WarmStep == WarmInv /\ [PoolNext]_poolVars => WarmInv'
  <1> SUFFICES ASSUME WarmInv, [PoolNext]_poolVars PROVE WarmInv'
    OBVIOUS
  <1>1. ASSUME UNCHANGED <<concurrency, submitted, thread, task>>,
               stage' # "warm" \/ UNCHANGED <<stage, queue>>
        PROVE  WarmInv'
    BY <1>1 DEF WarmInv, Gathering, QueueInOrder, Started, AtBarrier, Threads, handedOut
  <1>2. CASE Consume \/ Raise \/ PrintReports \/ UNCHANGED poolVars
    BY <1>1, <1>2 DEF Consume, Raise, PrintReports, poolVars
  <1>3. CASE EndWarmUp
    BY <1>3 DEF EndWarmUp, WarmInv
  <1>4. CASE Submit \/ PassBarrier \/ \E t \in Threads : TakeTask(t)
    BY <1>4, SubmitKeepsWarm, PassKeepsWarm, TakeTaskKeepsWarm
  <1>5. CASE \E t \in Threads : Draw(t) \/ Returns(t)
    BY <1>5, LookupKeepsWarm
  <1> QED BY <1>2, <1>3, <1>4, <1>5 DEF PoolNext

\* For any number of threads, and in whatever order the executor starts them:
\* no warm-up lookup draws a connection before every thread has a task of its
\* own (the threading.Barrier of warm_up in benchmark.py).
THEOREM WarmUpHasAllThreads == PoolSpec => []WarmUpStartsTogether
  <1>1. WarmInv => WarmUpStartsTogether
    <2> SUFFICES ASSUME WarmInv, stage = "warm", NEW t \in Threads, thread[t] \in {"draw", "lookup"}
                 PROVE  Started
      BY DEF WarmUpStartsTogether, Started
    <2> QED BY DEF WarmInv, Gathering
  <1> QED BY <1>1, WarmStart, WarmStep, PTL DEF PoolSpec

-----------------------------------------------------------------------------
(* The timed phase of the thread pool *)

Busy == {t \in Threads : thread[t] \in {"draw", "lookup"}}

IsDone(i) == i \in 1..QueryCount /\ future[i] = "done"

\* The tasks of busy threads are handed out, different and pending, as is what
\* is not handed out.
TasksApart ==
  /\ QueueInOrder /\ submitted <= QueryCount
  /\ \A t \in Threads : thread[t] # "barrier"
  /\ \A t \in Busy : task[t] \in 1..handedOut /\ future[task[t]] = "pending"
  /\ \A t, u \in Busy : task[t] = task[u] => t = u
  /\ \A i \in 1..QueryCount : i > handedOut => future[i] = "pending"

\* What is kept of the lookups that succeeded.
ResultsKept ==
  /\ \A i \in 1..QueryCount : future[i] = "done" => latency[i] \in Durations
  /\ sampled \in Seq(Int)
  /\ \A x \in Int : (\E k \in 1..Len(sampled) : sampled[k] = x) <=>
                      (x \in sample_indices /\ IsDone(x + 1))
  /\ \A j, k \in 1..Len(sampled) : sampled[j] = sampled[k] => j = k

RunTypes ==
  /\ program = "python"
  /\ task \in [Threads -> Nat]
  /\ future \in [1..QueryCount -> {"pending", "done", "failed"}]

InOrderConsumed ==
  consumed \in 0..submitted /\ \A i \in 1..consumed : future[i] = "done"

\* The percentiles of st are ranks of these latencies.
AreRanks(st, lat) ==
  \A p \in DOMAIN st.p :
    /\ 1000 * Within(lat, QueryCount, st.p[p]) >= p * QueryCount
    /\ 1000 * Below(lat, QueryCount, st.p[p]) <= p * QueryCount
    /\ st.least <= st.p[p] /\ st.p[p] <= st.most

RunInv ==
  /\ program \in {"python", "go"} /\ latency \in [1..QueryCount -> Nat]
  /\ stage = "warm" => sampled = <<>>
  /\ stage = "query" => RunTypes /\ TasksApart /\ ResultsKept /\ InOrderConsumed
  /\ stage = "reported" =>
       queue = <<>> /\ AllFree /\ ReportedRunIsComplete /\ AreRanks(stats, latency)

-----------------------------------------------------------------------------

\* The sampled rows lie among the queries: the rounding stays within them.
LEMMA RoundedWithin ==
  ASSUME NEW n \in Nat, NEW b \in Nat \ {0}, NEW i \in 0..b
  PROVE  (2 * (i * n) + b) \div (2 * b) \in 0..n
  <1>1. PICK a \in Nat : a = i * n /\ a <= b * n
    <2>1. i \in Nat /\ b - i \in Nat
      OBVIOUS
    <2>2. i * n \in Nat /\ (b - i) * n \in Nat
      BY <2>1
    <2>3. (b - i) * n = b * n - i * n
      BY <2>1
    <2> QED BY <2>2, <2>3
  <1>2. PICK d \in Nat \ {0}, q \in Int, r \in Nat :
          d = 2 * b /\ q = (2 * a + b) \div d /\ 2 * a + b = d * q + r /\ r < d
    <2> DEFINE c == 2 * a + b
               d == 2 * b
    <2>1. c \in Int /\ d \in Nat \ {0}
      OBVIOUS
    <2>2. (c % d) \in Nat /\ (c % d) < d /\ (c \div d) \in Int /\ c = d * (c \div d) + (c % d)
      <3> HIDE DEF c, d
      <3> QED BY <2>1, ModBounds
    <2> QED BY <2>1, <2>2
  <1>3. d * q < d * n + d
    <2>1. d * n = b * n + b * n
      BY <1>2
    <2>2. b * n \in Nat /\ d * q \in Int
      BY <1>2
    <2> QED BY <1>1, <1>2, <2>1, <2>2
  <1>4. d * 0 < d * q + d
    <2>1. d * q \in Int
      BY <1>2
    <2> QED BY <1>1, <1>2, <2>1
  <1>5. q <= n /\ 0 <= q
    BY <1>3, <1>4, MulGap
  <1> QED BY <1>1, <1>2, <1>5

LEMMA SampledRowsExist == \A x \in sample_indices : x \in Int /\ x + 1 \in 1..QueryCount
  <1> SUFFICES ASSUME NEW i \in 0..SampleRows-1
               PROVE  (2 * i * (QueryCount - 1) + SampleRows - 1) \div (2 * (SampleRows - 1))
                        \in 0..QueryCount-1
    BY BenchPoolAssumption DEF sample_indices
  <1>1. SampleRows \in Nat \ {0, 1}
    BY BenchPoolAssumption
  <1>2. PICK n \in Nat, b \in Nat \ {0} : n = QueryCount - 1 /\ b = SampleRows - 1 /\ i \in 0..b
    BY <1>1, BenchPoolAssumption
  <1>3. 2 * i * (QueryCount - 1) + SampleRows - 1 = 2 * (i * n) + b
    BY <1>1, <1>2
  <1>4. (2 * (i * n) + b) \div (2 * b) \in 0..n
    BY <1>2, RoundedWithin
  <1> QED BY <1>2, <1>3, <1>4

\* The nearest rank of any latencies: at least that share of them does not
\* exceed it, and no larger share is less.
IsPercentile(v, p, lat, n) ==
  /\ 1000 * Within(lat, n, v) >= p * n /\ 1000 * Below(lat, n, v) <= p * n
  /\ Sorted(lat)[1] <= v /\ v <= Sorted(lat)[n]

LEMMA NearestRankIsPercentile ==
  ASSUME NEW n \in Nat \ {0}, NEW lat \in [1..n -> Nat], NEW p \in Nat, p <= 1000
  PROVE  Len(Sorted(lat)) = n /\ IsPercentile(nearest_rank(Sorted(lat), p), p, lat, n)
  <1> DEFINE sorted == Sorted(lat)
  <1>1. DOMAIN lat = 1..n /\ lat \in [1..n -> Int]
    OBVIOUS
  <1>2. PICK pos : pos = SortedPositions(lat) /\ Sorts(pos, lat, n)
    BY <1>1, PositionsAreSorted
  <1>3. /\ pos \in [1..n -> 1..n]
        /\ \A q, r \in 1..n : q < r => lat[pos[q]] <= lat[pos[r]]
    <2>1. Sorts(pos, lat, n)
      BY <1>2
    <2>2. pos \in [1..n -> 1..n]
      BY <2>1 DEF Sorts
    <2> QED BY <2>1, <2>2 DEF Sorts
  <1>4. sorted = [q \in 1..n |-> lat[pos[q]]]
    BY <1>1, <1>2 DEF Sorted
  <1>5. sorted \in [1..n -> Nat]
    <2>1. \A q \in 1..n : lat[pos[q]] \in Nat
      <3> TAKE q \in 1..n
      <3>1. pos[q] \in 1..n
        BY <1>3
      <3> QED BY <3>1
    <2> HIDE DEF sorted
    <2> QED BY <1>4, <2>1
  <1>6. Len(sorted) = n
    <2> HIDE DEF sorted
    <2> QED BY <1>5
  <1> HIDE DEF sorted
  <1>7. PICK m \in Nat, d \in Nat : /\ m = p * n /\ m <= 1000 * n /\ d = (p * n) \div 1000
                                    /\ 1000 * d <= m /\ m < 1000 * d + 1000
    <2>1. p \in Nat /\ 1000 - p \in Nat
      OBVIOUS
    <2>2. p * n \in Nat /\ (1000 - p) * n \in Nat /\ (1000 - p) * n = 1000 * n - p * n
      BY <2>1
    <2>3. PICK m \in Nat : m = p * n
      BY <2>2
    <2>4. m <= 1000 * n
      BY <2>2, <2>3
    <2>5. PICK d \in Nat : d = m \div 1000 /\ 1000 * d <= m /\ m < 1000 * d + 1000
      OBVIOUS
    <2> QED BY <2>3, <2>4, <2>5
  <1>8. PICK k \in 1..n : k = Least(n - 1, d) + 1 /\ k - 1 <= d /\ (k = n \/ k = d + 1)
    BY DEF Least
  <1>9. PICK v \in Nat : v = nearest_rank(sorted, p) /\ v = sorted[k] /\ v = lat[pos[k]]
    <2>1. nearest_rank(sorted, p) = sorted[Least(n - 1, (p * n) \div 1000) + 1]
      BY <1>6 DEF nearest_rank
    <2>2. Least(n - 1, (p * n) \div 1000) + 1 = k
      BY <1>7, <1>8
    <2>3. sorted[k] = lat[pos[k]] /\ sorted[k] \in Nat
      BY <1>4, <1>5
    <2> QED BY <2>1, <2>2, <2>3
  <1>10. IsRanked(v, k, lat, n)
    BY <1>1, <1>2, <1>9, SortedCounts
  <1>11. PICK w \in Nat, u \in Nat : /\ w = Within(lat, n, v) /\ w >= k
                                     /\ u = Below(lat, n, v) /\ u <= k - 1
    BY <1>10 DEF IsRanked
  <1>12. 1000 * w >= m /\ 1000 * u <= m
    <2>1. m <= 1000 * n /\ 1000 * d <= m /\ m < 1000 * d + 1000
      BY <1>7
    <2>2. w >= k /\ u <= k - 1 /\ k - 1 <= d /\ (k = n \/ k = d + 1)
      BY <1>8, <1>11
    <2> QED BY <2>1, <2>2
  <1>13. sorted[1] <= v /\ v <= sorted[n]
    <2>1. 1 \in 1..n /\ n \in 1..n /\ (k = 1 \/ 1 < k) /\ (k = n \/ k < n)
      OBVIOUS
    <2>2. \A q, r \in 1..n : q < r => sorted[q] <= sorted[r]
      BY <1>3, <1>4
    <2>3. sorted[1] <= sorted[k] /\ sorted[k] <= sorted[n]
      BY <1>5, <2>1, <2>2
    <2> QED BY <1>9, <2>3
  <1> QED BY <1>6, <1>7, <1>9, <1>11, <1>12, <1>13 DEF IsPercentile, sorted

\* So are those of the report.
LEMMA RanksOfPercentiles ==
  ASSUME NEW st, st = compute_latency_stats, latency \in [1..QueryCount -> Nat]
  PROVE  AreRanks(st, latency)
  <1>1. QueryCount \in Nat \ {0}
    BY BenchPoolAssumption
  <1>2. Len(Sorted(latency)) = QueryCount
    <2>1. 0 \in Nat /\ 0 <= 1000
      OBVIOUS
    <2> QED BY <1>1, <2>1, NearestRankIsPercentile
  <1>3. /\ st.least = Sorted(latency)[1] /\ st.most = Sorted(latency)[QueryCount]
        /\ DOMAIN st.p = {500, 900, 990, 999}
        /\ \A p \in {500, 900, 990, 999} : st.p[p] = nearest_rank(Sorted(latency), p)
    BY <1>2 DEF compute_latency_stats
  <1>4. ASSUME NEW p \in Nat, p <= 1000
        PROVE  IsPercentile(nearest_rank(Sorted(latency), p), p, latency, QueryCount)
    BY <1>1, <1>4, NearestRankIsPercentile
  <1> SUFFICES ASSUME NEW p \in {500, 900, 990, 999}
               PROVE  IsPercentile(st.p[p], p, latency, QueryCount)
    BY <1>3 DEF AreRanks, IsPercentile
  <1>5. p \in Nat /\ p <= 1000
    OBVIOUS
  <1>6. IsPercentile(nearest_rank(Sorted(latency), p), p, latency, QueryCount)
    BY <1>4, <1>5
  <1> QED BY <1>3, <1>6

-----------------------------------------------------------------------------

LEMMA RunStart == PoolInit => RunInv
  <1> SUFFICES ASSUME PoolInit PROVE RunInv
    OBVIOUS
  <1>1. /\ program \in {"python", "go"} /\ concurrency \in Nat \ {0}
        /\ stage = IF concurrency > 1 THEN "warm" ELSE IF program = "go" THEN "timed" ELSE "query"
        /\ submitted = 0 /\ queue = <<>> /\ consumed = 0 /\ sampled = <<>>
        /\ thread = [t \in Threads |-> "none"] /\ task = [t \in Threads |-> 0]
        /\ latency = [i \in 1..QueryCount |-> 0]
        /\ future = [i \in 1..NumTasks |-> "pending"]
    BY BenchPoolAssumption DEF PoolInit
  <1>2. latency \in [1..QueryCount -> Nat]
    BY <1>1
  <1>3. stage # "reported"
    BY <1>1
  <1>4. ASSUME stage = "query" PROVE RunTypes /\ TasksApart /\ ResultsKept /\ InOrderConsumed
    <2>1. program = "python" /\ NumTasks = QueryCount
      BY <1>1, <1>4 DEF NumTasks
    <2>2. RunTypes
      BY <1>1, <2>1 DEF RunTypes
    <2>3. Busy = {} /\ QueueInOrder
      BY <1>1 DEF Busy, QueueInOrder
    <2>4. TasksApart
      BY <1>1, <2>1, <2>3, BenchPoolAssumption DEF TasksApart
    <2>5. ResultsKept
      BY <1>1, <2>1 DEF ResultsKept, IsDone
    <2>6. InOrderConsumed
      BY <1>1 DEF InOrderConsumed
    <2> QED BY <2>2, <2>4, <2>5, <2>6
  <1> QED BY <1>1, <1>2, <1>3, <1>4 DEF RunInv

\* In the timed phase, the steps of the executor leave the results alone, and
\* give no two threads one task.
LEMMA SubmitKeepsRun ==
  ASSUME PoolInv, RunInv, Submit, stage = "query"
  PROVE  RunInv'
  <1>1. /\ submitted < QueryCount /\ submitted' = submitted + 1
        /\ queue' = Append(queue, submitted + 1) /\ stage' = "query" /\ Threads' = Threads
        /\ UNCHANGED <<program, concurrency, task, future, consumed, latency, sampled>>
    BY DEF Submit, NumTasks, Threads
  <1>2. RunTypes /\ TasksApart /\ ResultsKept /\ InOrderConsumed
        /\ latency \in [1..QueryCount -> Nat]
    BY DEF RunInv
  <1>3. QueueInOrder' /\ handedOut' = handedOut
    BY <1>1, <1>2, HandIn DEF TasksApart
  <1>4. submitted' <= QueryCount /\ consumed \in 0..submitted'
    BY <1>1, <1>2, BenchPoolAssumption DEF TasksApart, QueueInOrder, InOrderConsumed
  <1>5. thread' = thread \/ \E t1 \in Threads : thread[t1] = "none" /\ thread' = [thread EXCEPT ![t1] = "free"]
    <2> DEFINE unborn == {t \in Threads : thread[t] = "none"}
               t1 == CHOOSE t \in unborn : \A u \in unborn : t <= u
    <2>1. CASE unborn # {} /\ thread' = [thread EXCEPT ![t1] = "free"]
      <3>1. unborn \in SUBSET Nat
        BY DEF Threads
      <3>2. t1 \in unborn
        <4> HIDE DEF unborn
        <4> QED BY <2>1, <3>1, LeastNat
      <3> QED BY <2>1, <3>2
    <2> QED BY <2>1 DEF Submit
  <1>6. Busy' = Busy /\ \A t \in Threads : thread'[t] # "barrier"
    BY <1>1, <1>2, <1>5 DEF Busy, TasksApart, PoolInv, PoolTypes
  <1>7. TasksApart'
    BY <1>1, <1>2, <1>3, <1>4, <1>6 DEF TasksApart
  <1> QED BY <1>1, <1>2, <1>4, <1>7 DEF RunInv, RunTypes, ResultsKept, IsDone, InOrderConsumed

LEMMA TakeTaskKeepsRun ==
  ASSUME PoolInv, RunInv, NEW t \in Threads, TakeTask(t), stage = "query"
  PROVE  RunInv'
  <1>1. /\ thread[t] = "free" /\ queue # <<>> /\ queue' = Tail(queue)
        /\ task' = [task EXCEPT ![t] = Head(queue)]
        /\ thread' = [thread EXCEPT ![t] = "draw"]
        /\ stage' = "query" /\ Threads' = Threads
        /\ UNCHANGED <<program, concurrency, submitted, future, consumed, latency, sampled>>
    BY DEF TakeTask, Threads
  <1>2. RunTypes /\ TasksApart /\ ResultsKept /\ InOrderConsumed
        /\ latency \in [1..QueryCount -> Nat]
    BY DEF RunInv
  <1>3. /\ QueueInOrder' /\ handedOut' = handedOut + 1 /\ handedOut \in Nat
        /\ Head(queue) = handedOut' /\ handedOut' <= submitted
    BY <1>1, <1>2, HandOut DEF TasksApart
  <1>4. handedOut' \in 1..QueryCount
    BY <1>2, <1>3, BenchPoolAssumption DEF TasksApart, QueueInOrder
  <1>5. /\ Busy' = Busy \cup {t} /\ t \notin Busy
        /\ \A u \in Threads : thread'[u] # "barrier"
    BY <1>1, <1>2 DEF Busy, TasksApart, PoolInv, PoolTypes
  <1>6. /\ task'[t] = handedOut' /\ \A u \in Threads \ {t} : task'[u] = task[u]
        /\ task' \in [Threads -> Nat]
    BY <1>1, <1>2, <1>3 DEF RunTypes
  <1>7. future[handedOut'] = "pending"
    BY <1>2, <1>3, <1>4 DEF TasksApart
  <1>8. \A u \in Busy : task'[u] = task[u] /\ task[u] \in 1..handedOut /\ future[task[u]] = "pending"
    BY <1>2, <1>5, <1>6 DEF TasksApart, Busy
  <1>9. /\ \A u \in Busy' : task'[u] \in 1..handedOut' /\ future[task'[u]] = "pending"
        /\ \A u, v \in Busy' : task'[u] = task'[v] => u = v
    <2>1. \A u \in Busy : task'[u] \in 1..handedOut' /\ task'[u] # handedOut'
      BY <1>3, <1>8
    <2>2. handedOut' \in 1..handedOut'
      BY <1>3
    <2>3. \A u, v \in Busy : task'[u] = task'[v] => u = v
      BY <1>2, <1>8 DEF TasksApart
    <2> QED BY <1>5, <1>6, <1>7, <1>8, <2>1, <2>2, <2>3
  <1>10. \A i \in 1..QueryCount : i > handedOut' => future[i] = "pending"
    BY <1>2, <1>3 DEF TasksApart
  <1>11. TasksApart'
    BY <1>1, <1>2, <1>3, <1>5, <1>9, <1>10 DEF TasksApart
  <1>12. RunTypes' /\ ResultsKept' /\ InOrderConsumed'
    BY <1>1, <1>2, <1>6 DEF RunTypes, ResultsKept, IsDone, InOrderConsumed
  <1> QED BY <1>1, <1>2, <1>11, <1>12 DEF RunInv

\* A thread becomes free with what came of its task: that was pending.
LEMMA EndsKeepsApart ==
  ASSUME PoolInv, RunTypes, TasksApart, NEW t \in Busy, NEW how \in {"done", "failed"},
         Ends(t, how), UNCHANGED <<program, concurrency, submitted, queue, task, consumed>>
  PROVE  /\ RunTypes' /\ TasksApart'
         /\ task[t] \in 1..QueryCount /\ future[task[t]] = "pending" /\ future'[task[t]] = how
         /\ \A i \in 1..QueryCount \ {task[t]} : future'[i] = future[i]
         /\ InOrderConsumed => InOrderConsumed'
  <1>1. /\ thread' = [thread EXCEPT ![t] = "free"] /\ future' = [future EXCEPT ![task[t]] = how]
        /\ Threads' = Threads /\ handedOut' = handedOut
    BY DEF Ends, Threads, handedOut
  <1>2. t \in Threads /\ handedOut \in Nat /\ handedOut <= QueryCount
    <2>1. submitted \in Nat /\ Len(queue) \in Nat /\ Len(queue) <= submitted /\ submitted <= QueryCount
      BY DEF TasksApart, QueueInOrder
    <2> QED BY <2>1, BenchPoolAssumption DEF Busy, handedOut
  <1>3. task[t] \in 1..handedOut /\ task[t] \in 1..QueryCount /\ future[task[t]] = "pending"
    BY <1>2, BenchPoolAssumption DEF TasksApart
  <1>4. /\ future' \in [1..QueryCount -> {"pending", "done", "failed"}]
        /\ future'[task[t]] = how
        /\ \A i \in 1..QueryCount \ {task[t]} : future'[i] = future[i]
    BY <1>1, <1>3 DEF RunTypes
  <1>5. Busy' = Busy \ {t} /\ \A u \in Threads : thread'[u] # "barrier"
    BY <1>1, <1>2 DEF Busy, TasksApart, PoolInv, PoolTypes
  <1>6. \A u \in Busy' : task[u] \in 1..handedOut /\ future'[task[u]] = "pending"
    <2> TAKE u \in Busy'
    <2>1. u \in Busy /\ u # t
      BY <1>5
    <2>2. task[u] \in 1..handedOut /\ future[task[u]] = "pending" /\ task[u] # task[t]
      BY <2>1 DEF TasksApart
    <2>3. task[u] \in 1..QueryCount
      BY <1>2, <2>2, BenchPoolAssumption
    <2> QED BY <1>4, <2>2, <2>3
  <1>7. \A i \in 1..QueryCount : i > handedOut => future'[i] = "pending"
    BY <1>2, <1>3, <1>4 DEF TasksApart
  <1>8. QueueInOrder'
    BY <1>1 DEF TasksApart, QueueInOrder
  <1>9. TasksApart'
    BY <1>1, <1>5, <1>6, <1>7, <1>8 DEF TasksApart
  <1>10. InOrderConsumed => InOrderConsumed'
    <2> SUFFICES ASSUME InOrderConsumed PROVE InOrderConsumed'
      OBVIOUS
    <2>1. consumed \in 0..submitted /\ submitted \in Nat /\ submitted <= QueryCount
      BY DEF InOrderConsumed, TasksApart, QueueInOrder
    <2>2. \A i \in 1..consumed : i \in 1..QueryCount /\ future[i] = "done"
      BY <2>1, BenchPoolAssumption DEF InOrderConsumed
    <2>3. \A i \in 1..consumed : future'[i] = "done"
      BY <1>3, <1>4, <2>2
    <2> QED BY <2>1, <2>3 DEF InOrderConsumed
  <1> QED BY <1>1, <1>3, <1>4, <1>9, <1>10 DEF RunTypes

\* A failure changes no result.
LEMMA FailureKeepsResults ==
  ASSUME ResultsKept, UNCHANGED <<latency, sampled>>, NEW k \in 1..QueryCount,
         future[k] = "pending", future'[k] = "failed",
         \A i \in 1..QueryCount \ {k} : future'[i] = future[i]
  PROVE  ResultsKept'
  <1>1. \A i \in 1..QueryCount : future'[i] = "done" <=> future[i] = "done"
    OBVIOUS
  <1>2. \A x \in Int : IsDone(x + 1)' <=> IsDone(x + 1)
    BY <1>1 DEF IsDone
  <1>3. sample_indices' = sample_indices
    BY DEF sample_indices
  <1> QED BY <1>1, <1>2, <1>3 DEF ResultsKept

LEMMA DrawKeepsRun ==
  ASSUME PoolInv, RunInv, NEW t \in Threads, Draw(t), stage = "query"
  PROVE  RunInv'
  <1>1. /\ thread[t] = "draw" /\ stage' = "query" /\ Threads' = Threads
        /\ UNCHANGED <<program, concurrency, submitted, queue, task, consumed, latency, sampled>>
    BY DEF Draw, Threads
  <1>2. RunTypes /\ TasksApart /\ ResultsKept /\ InOrderConsumed
        /\ latency \in [1..QueryCount -> Nat]
    BY DEF RunInv
  <1>3. CASE idle > 0 \/ opened < limit
    <2>1. thread' = [thread EXCEPT ![t] = "lookup"] /\ future' = future
      BY <1>3 DEF Draw
    <2>2. Busy' = Busy /\ \A u \in Threads : thread'[u] # "barrier"
      BY <1>1, <1>2, <2>1 DEF Busy, TasksApart, PoolInv, PoolTypes
    <2>3. handedOut' = handedOut
      BY <1>1 DEF handedOut
    <2>4. TasksApart'
      BY <1>1, <1>2, <2>1, <2>2, <2>3 DEF TasksApart, QueueInOrder
    <2> QED BY <1>1, <1>2, <2>1, <2>4 DEF RunInv, RunTypes, ResultsKept, IsDone, InOrderConsumed
  <1>4. CASE ~(idle > 0 \/ opened < limit)
    <2>1. Ends(t, "failed") /\ t \in Busy
      BY <1>1, <1>4 DEF Draw, Busy
    <2>2. /\ RunTypes' /\ TasksApart' /\ InOrderConsumed'
          /\ task[t] \in 1..QueryCount /\ future[task[t]] = "pending"
          /\ future'[task[t]] = "failed"
          /\ \A i \in 1..QueryCount \ {task[t]} : future'[i] = future[i]
      BY <1>1, <1>2, <2>1, EndsKeepsApart
    <2>3. ResultsKept'
      BY <1>1, <1>2, <2>2, FailureKeepsResults
    <2> QED BY <1>1, <1>2, <2>2, <2>3 DEF RunInv
  <1> QED BY <1>3, <1>4

LEMMA ReturnKeepsRun ==
  ASSUME PoolInv, RunInv, NEW t \in Threads, NEW ms \in Durations, NEW fails \in BOOLEAN,
         Return(t, ms, fails), stage = "query"
  PROVE  RunInv'
  <1>1. /\ thread[t] = "lookup" /\ stage' = "query" /\ t \in Busy
        /\ UNCHANGED <<program, concurrency, submitted, queue, task, consumed>>
    BY DEF Return, Busy
  <1>2. RunTypes /\ TasksApart /\ ResultsKept /\ InOrderConsumed
        /\ latency \in [1..QueryCount -> Nat]
    BY DEF RunInv
  <1>3. CASE fails
    <2>1. Ends(t, "failed") /\ UNCHANGED <<latency, sampled>>
      BY <1>2, <1>3 DEF Return, RunTypes
    <2>2. /\ RunTypes' /\ TasksApart' /\ InOrderConsumed'
          /\ task[t] \in 1..QueryCount /\ future[task[t]] = "pending"
          /\ future'[task[t]] = "failed"
          /\ \A i \in 1..QueryCount \ {task[t]} : future'[i] = future[i]
      BY <1>1, <1>2, <2>1, EndsKeepsApart
    <2>3. ResultsKept'
      BY <1>2, <2>1, <2>2, FailureKeepsResults
    <2> QED BY <1>1, <1>2, <2>1, <2>2, <2>3 DEF RunInv
  <1>4. CASE ~fails
    <2>1. PICK k : k = task[t]
      OBVIOUS
    <2>2. /\ Ends(t, "done") /\ latency' = [latency EXCEPT ![k] = ms]
          /\ sampled' = IF k - 1 \in sample_indices THEN Append(sampled, k - 1) ELSE sampled
      BY <1>4, <2>1 DEF Return
    <2>3. /\ RunTypes' /\ TasksApart' /\ InOrderConsumed'
          /\ k \in 1..QueryCount /\ future[k] = "pending" /\ future'[k] = "done"
          /\ \A i \in 1..QueryCount \ {k} : future'[i] = future[i]
      BY <1>1, <1>2, <2>1, <2>2, EndsKeepsApart
    <2>4. /\ latency' \in [1..QueryCount -> Nat] /\ latency'[k] = ms
          /\ \A i \in 1..QueryCount \ {k} : latency'[i] = latency[i]
      BY <1>2, <2>2, <2>3, BenchPoolAssumption
    <2>5. \A i \in 1..QueryCount : future'[i] = "done" => latency'[i] \in Durations
      BY <1>2, <2>3, <2>4 DEF ResultsKept
    <2>6. \A x \in Int : IsDone(x + 1)' <=> (IsDone(x + 1) \/ x = k - 1)
      BY <2>3 DEF IsDone
    <2>7. k - 1 \in Int /\ ~IsDone((k - 1) + 1)
      BY <2>3 DEF IsDone
    <2>8. CASE k - 1 \notin sample_indices
      <3>1. sampled' = sampled
        BY <2>2, <2>8
      <3>2. \A x \in Int : x \in sample_indices => (IsDone(x + 1)' <=> IsDone(x + 1))
        BY <2>6, <2>8
      <3>3. ResultsKept'
        BY <1>2, <2>5, <3>1, <3>2 DEF ResultsKept, sample_indices
      <3> QED BY <1>1, <2>3, <2>4, <3>3 DEF RunInv
    <2>9. CASE k - 1 \in sample_indices
      <3>1. PICK n \in Nat : n = Len(sampled) /\ sampled \in Seq(Int)
        BY <1>2 DEF ResultsKept
      <3>2. /\ sampled' \in Seq(Int) /\ Len(sampled') = n + 1 /\ sampled'[n + 1] = k - 1
            /\ \A j \in 1..n : sampled'[j] = sampled[j]
        BY <2>2, <2>7, <2>9, <3>1
      <3>3. \A x \in Int : (\E j \in 1..n : sampled[j] = x) <=> (x \in sample_indices /\ IsDone(x + 1))
        BY <1>2, <3>1 DEF ResultsKept
      <3>4. \A j \in 1..n : sampled[j] # k - 1
        BY <2>7, <3>3
      <3>5. \A x \in Int : (\E j \in 1..n+1 : sampled'[j] = x) <=>
                             ((\E j \in 1..n : sampled[j] = x) \/ x = k - 1)
        BY <3>2
      <3>6. \A x \in Int : (\E j \in 1..n+1 : sampled'[j] = x) <=>
                             (x \in sample_indices /\ IsDone(x + 1)')
        BY <2>6, <2>9, <3>3, <3>5
      <3>7. \A i, j \in 1..n+1 : sampled'[i] = sampled'[j] => i = j
        <4>1. \A i, j \in 1..n : sampled[i] = sampled[j] => i = j
          BY <1>2, <3>1 DEF ResultsKept
        <4> QED BY <3>2, <3>4, <4>1
      <3>8. ResultsKept'
        BY <2>5, <3>2, <3>6, <3>7 DEF ResultsKept, sample_indices
      <3> QED BY <1>1, <2>3, <2>4, <3>8 DEF RunInv
    <2> QED BY <2>8, <2>9
  <1> QED BY <1>3, <1>4

\* A result is consumed after its lookup succeeded; a failure raises.
LEMMA ConsumeKeepsRun ==
  ASSUME RunInv, Consume, stage = "query"
  PROVE  RunInv'
  <1>1. /\ consumed < submitted /\ Threads' = Threads
        /\ UNCHANGED <<program, concurrency, submitted, thread, task, future, latency, sampled>>
    BY DEF Consume, Threads
  <1>2. RunTypes /\ TasksApart /\ ResultsKept /\ InOrderConsumed
        /\ program \in {"python", "go"} /\ latency \in [1..QueryCount -> Nat]
    BY DEF RunInv
  <1>3. CASE stage' = "raising"
    BY <1>1, <1>2, <1>3 DEF RunInv
  <1>4. CASE /\ future[consumed + 1] = "done" /\ consumed' = consumed + 1
             /\ UNCHANGED <<stage, queue>>
    <2>1. consumed \in Nat /\ submitted \in Nat
      BY <1>2 DEF InOrderConsumed, TasksApart, QueueInOrder
    <2>2. InOrderConsumed'
      BY <1>1, <1>2, <1>4, <2>1 DEF InOrderConsumed
    <2>3. TasksApart'
      BY <1>1, <1>2, <1>4 DEF TasksApart, QueueInOrder, Busy, handedOut
    <2>4. RunTypes' /\ ResultsKept'
      BY <1>1, <1>2 DEF RunTypes, ResultsKept, IsDone, sample_indices
    <2> QED BY <1>1, <1>2, <1>4, <2>2, <2>3, <2>4 DEF RunInv
  <1> QED BY <1>3, <1>4 DEF Consume

\* The timed phase starts with an executor of its own.
LEMMA EndWarmUpKeepsRun == ASSUME PoolInv, RunInv, EndWarmUp PROVE RunInv'
  <1>1. /\ stage = "warm" /\ stage' = IF program = "go" THEN "timed" ELSE "query"
        /\ submitted' = 0 /\ queue' = <<>> /\ consumed' = 0
        /\ thread' = [t \in Threads |-> "none"] /\ task' = [t \in Threads |-> 0]
        /\ future' = [i \in 1..QueryCount |-> "pending"] /\ Threads' = Threads
        /\ UNCHANGED <<program, concurrency, latency, sampled>>
    BY DEF EndWarmUp, NewExecutor, Threads
  <1>2. /\ program \in {"python", "go"} /\ latency \in [1..QueryCount -> Nat]
        /\ sampled = <<>>
    BY <1>1 DEF RunInv
  <1>3. ASSUME stage' = "query" PROVE RunTypes' /\ TasksApart' /\ ResultsKept' /\ InOrderConsumed'
    <2>1. RunTypes'
      BY <1>1, <1>2, <1>3 DEF RunTypes
    <2>2. Busy' = {} /\ QueueInOrder'
      BY <1>1 DEF Busy, QueueInOrder
    <2>3. TasksApart'
      BY <1>1, <2>2, BenchPoolAssumption DEF TasksApart
    <2>4. ResultsKept'
      BY <1>1, <1>2 DEF ResultsKept, IsDone
    <2>5. InOrderConsumed'
      BY <1>1 DEF InOrderConsumed
    <2> QED BY <2>1, <2>3, <2>4, <2>5
  <1> QED BY <1>1, <1>2, <1>3 DEF RunInv

\* The reports are printed when every lookup has succeeded, and show the rows
\* sampled in their order.
LEMMA PrintKeepsRun == ASSUME RunInv, PrintReports PROVE RunInv'
  <1>1. /\ stage = "query" /\ consumed = QueryCount /\ AllFree /\ stage' = "reported"
        /\ sampled' = Sorted(sampled) /\ stats' = compute_latency_stats
        /\ Threads' = Threads
        /\ UNCHANGED <<program, concurrency, submitted, queue, thread, future, latency>>
    BY DEF PrintReports, NumTasks, Threads
  <1>2. RunTypes /\ TasksApart /\ ResultsKept /\ InOrderConsumed
        /\ program \in {"python", "go"} /\ latency \in [1..QueryCount -> Nat]
    BY <1>1 DEF RunInv
  <1>3. \A i \in 1..QueryCount : future[i] = "done" /\ latency[i] \in Durations
    BY <1>1, <1>2 DEF InOrderConsumed, ResultsKept
  <1>4. queue = <<>>
    <2>1. submitted \in Nat /\ submitted <= QueryCount /\ Len(queue) \in Nat /\ queue \in Seq(Nat)
      BY <1>2 DEF TasksApart, QueueInOrder
    <2>2. consumed <= submitted
      BY <1>2 DEF InOrderConsumed
    <2>3. SUFFICES ASSUME Len(queue) # 0 PROVE FALSE
      BY <2>1
    <2>4. QueryCount > handedOut /\ QueryCount \in 1..QueryCount
      BY <1>1, <2>1, <2>2, <2>3, BenchPoolAssumption DEF handedOut
    <2>5. future[QueryCount] = "pending"
      BY <1>2, <2>4 DEF TasksApart
    <2> QED BY <1>3, <2>4, <2>5
  <1>5. PICK n \in Nat : n = Len(sampled) /\ sampled \in [1..n -> Int]
    BY <1>2 DEF ResultsKept
  <1>6. PICK pos : pos = SortedPositions(sampled) /\ Sorts(pos, sampled, n)
    BY <1>5, PositionsAreSorted
  <1>7. /\ pos \in [1..n -> 1..n]
        /\ \A i \in 1..n : \E p \in 1..n : pos[p] = i
        /\ \A p, q \in 1..n : p < q => pos[p] # pos[q] /\ sampled[pos[p]] <= sampled[pos[q]]
    <2>1. Sorts(pos, sampled, n)
      BY <1>6
    <2> QED BY <2>1 DEF Sorts
  <1>8. /\ DOMAIN sampled' = 1..n
        /\ \A p \in 1..n : sampled'[p] = sampled[pos[p]] /\ sampled'[p] \in Int
    <2>1. DOMAIN sampled = 1..n
      BY <1>5
    <2>2. sampled' = [p \in 1..n |-> sampled[pos[p]]]
      BY <1>1, <1>6, <2>1 DEF Sorted
    <2>3. \A p \in 1..n : pos[p] \in 1..n
      BY <1>7
    <2> QED BY <1>5, <2>2, <2>3
  <1>9. ASSUME NEW j \in 1..n, NEW k \in 1..n, j < k PROVE sampled'[j] < sampled'[k]
    <2>1. pos[j] \in 1..n /\ pos[k] \in 1..n /\ pos[j] # pos[k]
          /\ sampled[pos[j]] <= sampled[pos[k]]
      BY <1>7, <1>9
    <2>2. sampled[pos[j]] # sampled[pos[k]]
      BY <1>2, <1>5, <2>1 DEF ResultsKept
    <2> QED BY <1>8, <2>1, <2>2
  <1>10. {sampled'[k] : k \in 1..n} = sample_indices
    <2>1. \A x \in Int : (\E k \in 1..n : sampled[k] = x) <=> (x \in sample_indices /\ IsDone(x + 1))
      BY <1>2, <1>5 DEF ResultsKept
    <2>2. \A x \in sample_indices : x \in Int /\ IsDone(x + 1)
      BY <1>3, SampledRowsExist DEF IsDone
    <2>3. \A x \in sample_indices : \E k \in 1..n : sampled'[k] = x
      <3> TAKE x \in sample_indices
      <3>1. PICK i \in 1..n : sampled[i] = x
        BY <2>1, <2>2
      <3>2. PICK k \in 1..n : pos[k] = i
        BY <1>7
      <3> QED BY <1>8, <3>1, <3>2
    <2>4. \A k \in 1..n : sampled'[k] \in sample_indices
      <3> TAKE k \in 1..n
      <3>1. pos[k] \in 1..n /\ sampled'[k] = sampled[pos[k]] /\ sampled'[k] \in Int
        BY <1>7, <1>8
      <3> QED BY <2>1, <3>1
    <2> QED BY <2>3, <2>4
  <1>11. ReportedRunIsComplete'
    <2>1. sample_indices' = sample_indices
      BY DEF sample_indices
    <2>2. \A i \in 1..QueryCount : latency'[i] \in Durations /\ future'[i] = "done"
      BY <1>1, <1>3
    <2> QED BY <1>8, <1>9, <1>10, <2>1, <2>2 DEF ReportedRunIsComplete
  <1>12. AreRanks(stats', latency')
    <2>1. PICK st : st = stats'
      OBVIOUS
    <2>2. AreRanks(st, latency)
      BY <1>1, <1>2, <2>1, RanksOfPercentiles
    <2> QED BY <1>1, <2>1, <2>2
  <1> QED BY <1>1, <1>2, <1>4, <1>11, <1>12 DEF RunInv, AllFree

-----------------------------------------------------------------------------

\* In the warm-up, and when a lookup has failed, no result is kept.
LEMMA UntimedKeepsRun ==
  ASSUME RunInv, NEW s, stage = s, s \notin {"query", "reported"}, stage' \in {s, "raising", "raised"},
         UNCHANGED <<program, latency, sampled>>
  PROVE  RunInv'
  BY DEF RunInv

LEMMA RunStep == PoolInv /\ RunInv /\ [PoolNext]_poolVars => RunInv'
  <1> SUFFICES ASSUME PoolInv, RunInv, [PoolNext]_poolVars PROVE RunInv'
    OBVIOUS
  <1>1. CASE stage = "reported"
    <2>1. queue = <<>> /\ AllFree /\ ReportedRunIsComplete /\ AreRanks(stats, latency)
          /\ program \in {"python", "go"} /\ latency \in [1..QueryCount -> Nat]
      BY <1>1 DEF RunInv
    <2>2. UNCHANGED poolVars
      <3>1. ~Submit /\ ~Consume /\ ~Raise /\ ~EndWarmUp /\ ~PrintReports
        BY <1>1 DEF Submit, Consume, Raise, EndWarmUp, PrintReports
      <3>2. AtBarrier = {}
        BY <2>1 DEF AllFree, AtBarrier
      <3>3. ~PassBarrier
        BY <3>2 DEF PassBarrier
      <3>4. \A t \in Threads : ~TakeTask(t) /\ ~Draw(t) /\ ~Returns(t)
        BY <2>1 DEF AllFree, TakeTask, Draw, Returns, Return
      <3> QED BY <3>1, <3>3, <3>4 DEF PoolNext
    <2>3. UNCHANGED <<program, concurrency, stage, queue, thread, future, latency, sampled, stats>>
      BY <2>2 DEF poolVars
    <2>4. AllFree'
      BY <2>1, <2>3 DEF AllFree, Threads
    <2>5. ReportedRunIsComplete'
      BY <2>1, <2>3 DEF ReportedRunIsComplete, sample_indices
    <2>6. AreRanks(stats', latency')
      BY <2>1, <2>3
    <2> QED BY <1>1, <2>1, <2>3, <2>4, <2>5, <2>6 DEF RunInv
  <1>2. CASE stage = "query"
    <2>1. CASE UNCHANGED poolVars
      <3>1. UNCHANGED <<program, concurrency, stage, submitted, queue, thread, task, future,
                        consumed, latency, sampled>>
        BY <2>1 DEF poolVars
      <3>2. RunTypes /\ TasksApart /\ ResultsKept /\ InOrderConsumed
            /\ program \in {"python", "go"} /\ latency \in [1..QueryCount -> Nat]
        BY <1>2 DEF RunInv
      <3>3. RunTypes' /\ InOrderConsumed'
        BY <3>1, <3>2 DEF RunTypes, InOrderConsumed, Threads
      <3>4. TasksApart'
        BY <3>1, <3>2 DEF TasksApart, QueueInOrder, Busy, handedOut, Threads
      <3>5. ResultsKept'
        BY <3>1, <3>2 DEF ResultsKept, IsDone, sample_indices
      <3> QED BY <1>2, <3>1, <3>2, <3>3, <3>4, <3>5 DEF RunInv
    <2>2. CASE Submit
      BY <1>2, <2>2, SubmitKeepsRun
    <2>3. CASE PassBarrier
      <3>1. AtBarrier = {}
        BY <1>2 DEF RunInv, TasksApart, AtBarrier
      <3> QED BY <2>3, <3>1 DEF PassBarrier
    <2>4. CASE Consume
      BY <1>2, <2>4, ConsumeKeepsRun
    <2>5. CASE Raise \/ EndWarmUp
      BY <1>2, <2>5 DEF Raise, EndWarmUp
    <2>6. CASE PrintReports
      BY <2>6, PrintKeepsRun
    <2>7. ASSUME NEW t \in Threads, TakeTask(t) \/ Draw(t) \/ Returns(t) PROVE RunInv'
      BY <1>2, <2>7, TakeTaskKeepsRun, DrawKeepsRun, ReturnKeepsRun DEF Returns
    <2> QED BY <2>1, <2>2, <2>3, <2>4, <2>5, <2>6, <2>7 DEF PoolNext
  <1>3. CASE EndWarmUp
    BY <1>3, EndWarmUpKeepsRun
  <1>4. CASE stage \notin {"query", "reported"} /\ ~EndWarmUp
    <2>1. stage' \in {stage, "raising", "raised"} /\ UNCHANGED <<program, latency, sampled>>
      <3>1. CASE UNCHANGED poolVars
        BY <3>1 DEF poolVars
      <3>2. CASE Submit \/ PassBarrier \/ Consume \/ Raise
        BY <3>2 DEF Submit, PassBarrier, Consume, Raise
      <3>3. ASSUME NEW t \in Threads, TakeTask(t) \/ Draw(t) \/ Returns(t)
            PROVE  stage' \in {stage, "raising", "raised"} /\ UNCHANGED <<program, latency, sampled>>
        BY <1>4, <3>3 DEF TakeTask, Draw, Returns, Return
      <3>4. ~PrintReports
        BY <1>4 DEF PrintReports
      <3> QED BY <1>4, <3>1, <3>2, <3>3, <3>4 DEF PoolNext
    <2>2. PICK s : s = stage
      OBVIOUS
    <2> QED BY <1>4, <2>1, <2>2, UntimedKeepsRun
  <1> QED BY <1>1, <1>2, <1>3, <1>4

\* For any number of threads, any pool and any latencies: reports are only
\* printed after every lookup has succeeded, with a latency for each of them
\* and exactly the sampled rows, in order, however the threads interleave
\* (benchmark.py's run_query_phase and sample_indices).
THEOREM ReportedRunsAreComplete == PoolSpec => []ReportedRunIsComplete
  <1>1. RunInv => ReportedRunIsComplete
    BY DEF RunInv, ReportedRunIsComplete
  <1>2. PoolInv /\ RunInv /\ [PoolNext]_poolVars => PoolInv' /\ RunInv'
    BY PoolStep, RunStep
  <1> QED BY <1>1, <1>2, PoolStart, RunStart, PTL DEF PoolSpec

\* For any latencies of any number of queries: what compute_latency_stats
\* reports as a percentile is a latency that occurred, at least that share of
\* the queries did not exceed it, and at most that share stayed below it.
THEOREM PercentilesRank == PoolSpec => []PercentilesAreRanks
  <1>1. RunInv => PercentilesAreRanks
    <2>1. \A ms : AtMost(ms) = Within(latency, QueryCount, ms)
                  /\ LessThan(ms) = Below(latency, QueryCount, ms)
      BY DEF AtMost, LessThan, Within, Below
    <2> QED BY <2>1 DEF RunInv, PercentilesAreRanks, AreRanks
  <1>2. PoolInv /\ RunInv /\ [PoolNext]_poolVars => PoolInv' /\ RunInv'
    BY PoolStep, RunStep
  <1> QED BY <1>1, <1>2, PoolStart, RunStart, PTL DEF PoolSpec

-----------------------------------------------------------------------------
(* The report of the phase                                                  *)

\* The queries whose lookup has returned, those of them over the gate, and how
\* a worker lists one.
Answered == {i \in Queries : lookups[i] # 0}
SlowOnes == {i \in Answered : latencies[i] >= Gate}
Entry(i) == [idx |-> i, ms |-> latencies[i]]

\* A list which only queries as slow as m can still enter.
ClosedTo(list, m) ==
  Cardinality(list) = TopSlowLimit /\ \A e \in list : e.ms >= m

\* The workers' lists hold slow queries, and one that is on no list found a full
\* one on which every query was as slow.
SlowKept ==
  /\ topSlow \in [Workers -> SUBSET [idx : Queries, ms : Nat]]
  /\ \A w \in Workers : IsFiniteSet(topSlow[w]) /\ Cardinality(topSlow[w]) <= TopSlowLimit
  /\ \A w \in Workers : \A e \in topSlow[w] : \E i \in SlowOnes : e = Entry(i)
  /\ \A i \in SlowOnes : \E w \in Workers :
       Entry(i) \in topSlow[w] \/ ClosedTo(topSlow[w], latencies[i])

SamplesKept ==
  /\ samples \in [Workers -> SUBSET Queries]
  /\ UNION {samples[w] : w \in Workers} = sampleIndices \cap Answered

FailuresCounted ==
  /\ failures \in SUBSET Answered
  /\ errors \in [Workers -> Nat]
  /\ Sums(errors, Workers)[Workers] = Cardinality(failures)

\* The report is merged from what the workers have.
MergedReport ==
  report.done =>
    /\ report.topSlow \in Truncated(UNION {topSlow[w] : w \in Workers})
    /\ report.samples = UNION {samples[w] : w \in Workers}
    /\ report.numErrors = Sums(errors, Workers)[Workers]

ReportInv == SlowKept /\ SamplesKept /\ FailuresCounted /\ MergedReport

-----------------------------------------------------------------------------
(* Lists of slow queries *)

\* What insertTopSlow may do to a list: take the entry in, or, when the list is
\* full, leave out one that is nowhere slower than what stays.
LEMMA InsertKeeps ==
  ASSUME NEW list \in SUBSET [idx : Queries, ms : Nat], NEW entry \in [idx : Queries, ms : Nat],
         IsFiniteSet(list), Cardinality(list) <= TopSlowLimit, entry \notin list,
         NEW kept \in insertTopSlow(list, entry)
  PROVE  /\ kept \subseteq list \cup {entry}
         /\ IsFiniteSet(kept) /\ Cardinality(kept) <= TopSlowLimit
         /\ \A x \in list \cup {entry} : x \in kept \/ ClosedTo(kept, x.ms)
         /\ \A m \in Nat : ClosedTo(list, m) => ClosedTo(kept, m)
  <1>1. TopSlowLimit \in Nat /\ Cardinality(list) \in Nat
    BY LatenciesAssumption, FS_CardinalityType
  <1>2. \A e \in list \cup {entry} : e.ms \in Nat
    OBVIOUS
  <1>3. CASE Cardinality(list) < TopSlowLimit
    <2>1. kept = list \cup {entry}
      BY <1>3 DEF insertTopSlow
    <2>2. IsFiniteSet(kept) /\ Cardinality(kept) = Cardinality(list) + 1
      BY <2>1, FS_AddElement
    <2> QED BY <1>1, <1>3, <2>1, <2>2 DEF ClosedTo
  <1>4. CASE ~(Cardinality(list) < TopSlowLimit) /\ \E e \in Fastest(list) : entry.ms <= e.ms
    <2>1. kept = list
      BY <1>4 DEF insertTopSlow
    <2>2. Cardinality(list) = TopSlowLimit
      BY <1>1, <1>4
    <2>3. \A o \in list : o.ms >= entry.ms
      BY <1>2, <1>4 DEF Fastest
    <2> QED BY <1>1, <2>1, <2>2, <2>3 DEF ClosedTo
  <1>5. CASE ~(Cardinality(list) < TopSlowLimit) /\ ~ \E e \in Fastest(list) : entry.ms <= e.ms
    <2>1. PICK e \in Fastest(list) : kept = (list \ {e}) \cup {entry}
      BY <1>5 DEF insertTopSlow
    <2>2. Cardinality(list) = TopSlowLimit
      BY <1>1, <1>5
    <2>3. e \in list /\ \A o \in list : o.ms >= e.ms
      BY <1>2, <2>1 DEF Fastest
    <2>4. entry.ms >= e.ms
      BY <1>2, <1>5, <2>1, <2>3
    <2>5. IsFiniteSet(list \ {e}) /\ Cardinality(list \ {e}) = Cardinality(list) - 1
      BY <2>3, FS_RemoveElement
    <2>6. IsFiniteSet(kept) /\ Cardinality(kept) = Cardinality(list \ {e}) + 1
      BY <2>1, <2>5, FS_AddElement
    <2>7. Cardinality(kept) = TopSlowLimit
      BY <1>1, <2>2, <2>5, <2>6
    <2>8. \A o \in kept : o.ms >= e.ms
      BY <2>1, <2>3, <2>4
    <2>9. \A m \in Nat : ClosedTo(list, m) => ClosedTo(kept, m)
      <3> SUFFICES ASSUME NEW m \in Nat, ClosedTo(list, m), NEW o \in kept PROVE o.ms >= m
        BY <2>7 DEF ClosedTo
      <3>1. e.ms >= m /\ e.ms \in Nat /\ o.ms \in Nat /\ o.ms >= e.ms
        BY <1>2, <2>1, <2>3, <2>8 DEF ClosedTo
      <3> QED BY <3>1
    <2>10. \A x \in list \cup {entry} : x \in kept \/ x = e
      BY <2>1
    <2>11. ClosedTo(kept, e.ms)
      BY <2>7, <2>8 DEF ClosedTo
    <2>12. kept \subseteq list \cup {entry} /\ Cardinality(kept) <= TopSlowLimit
      BY <1>1, <2>1, <2>7
    <2> QED BY <2>6, <2>9, <2>10, <2>11, <2>12
  <1> QED BY <1>3, <1>4, <1>5

\* The lists are of slow queries, and closed to a slow one that none of them holds.
AreOfSlow(lists, slow, lat) ==
  /\ \A w \in Workers : \A e \in lists[w] : \E i \in slow : e = [idx |-> i, ms |-> lat[i]]
  /\ \A i \in slow : \E w \in Workers :
       [idx |-> i, ms |-> lat[i]] \in lists[w] \/ ClosedTo(lists[w], lat[i])

AreSlowest(kept, slow, lat) ==
  /\ kept \subseteq slow
  /\ Cardinality(kept) = IF Cardinality(slow) > TopSlowLimit THEN TopSlowLimit
                          ELSE Cardinality(slow)
  /\ \A i \in kept, j \in slow \ kept : lat[i] >= lat[j]

\* Such lists have the slowest of all in common: cutting what they hold
\* together gives the slowest queries.
LEMMA CutIsSlowest ==
  ASSUME NEW lat \in [Queries -> Nat], NEW slow \in SUBSET Queries,
         NEW lists \in [Workers -> SUBSET [idx : Queries, ms : Nat]],
         \A w \in Workers : IsFiniteSet(lists[w]), AreOfSlow(lists, slow, lat),
         NEW cut \in Truncated(UNION {lists[w] : w \in Workers})
  PROVE  AreSlowest({e.idx : e \in cut}, slow, lat)
  <1> DEFINE all == UNION {lists[w] : w \in Workers}
             entry(i) == [idx |-> i, ms |-> lat[i]]
             kept == {e.idx : e \in cut}
             held == {i \in slow : entry(i) \in all}
             f == [i \in held |-> entry(i)]
             g == [e \in cut |-> e.idx]
  <1>1. /\ IsFiniteSet(slow) /\ Cardinality(slow) \in Nat /\ TopSlowLimit \in Nat \ {0}
        /\ IsFiniteSet(all) /\ Cardinality(all) \in Nat
    <2>1. IsFiniteSet(Queries)
      BY NumQueriesAssumption, FS_Interval DEF Queries
    <2>2. IsFiniteSet(slow)
      BY <2>1, FS_Subset
    <2>3. IsFiniteSet({lists[w] : w \in Workers})
      <3> DEFINE T == {lists[w] : w \in Workers}
                 h == [w \in Workers |-> lists[w]]
      <3>1. h \in Surjection(Workers, T)
        BY DEF Surjection
      <3> HIDE DEF T, h
      <3> QED BY <3>1, WorkersAssumption, FS_Surjection DEF T
    <2>4. IsFiniteSet(all)
      BY <2>3, FS_UNION
    <2> QED BY <2>2, <2>4, FS_CardinalityType, LatenciesAssumption
  <1>2. /\ \A e \in all : e.idx \in slow /\ e = entry(e.idx) /\ e.ms = lat[e.idx]
        /\ \A i \in slow : entry(i).idx = i /\ entry(i).ms = lat[i] /\ lat[i] \in Nat
    BY DEF AreOfSlow
  <1>3. /\ cut \in SUBSET all /\ IsFiniteSet(cut)
        /\ Cardinality(cut) = IF Cardinality(all) > TopSlowLimit THEN TopSlowLimit
                               ELSE Cardinality(all)
        /\ \A e \in cut, o \in all \ cut : e.ms >= o.ms
    <2>1. cut \in SUBSET all
      BY DEF Truncated, kSubset
    <2>2. /\ Cardinality(cut) = IF Cardinality(all) > TopSlowLimit THEN TopSlowLimit
                               ELSE Cardinality(all)
          /\ \A e \in cut, o \in all \ cut : e.ms >= o.ms
      BY DEF Truncated, kSubset
    <2> HIDE DEF all
    <2> QED BY <1>1, <2>1, <2>2, FS_Subset
  <1> HIDE DEF all
  <1>4. kept \in SUBSET slow /\ \A i \in slow : i \in kept <=> entry(i) \in cut
    BY <1>2, <1>3
  <1>5. held \in SUBSET slow /\ IsFiniteSet(held) /\ Cardinality(held) = Cardinality(all)
    <2>1. f \in Injection(held, all)
      BY <1>2 DEF Injection, IsInjective
    <2>2. f \in Surjection(held, all)
      BY <1>2 DEF Surjection
    <2> HIDE DEF f, held
    <2>3. Cardinality(held) = Cardinality(all) /\ IsFiniteSet(held)
      BY <1>1, <2>1, <2>2, FS_Injection
    <2> QED BY <2>3 DEF held
  <1>6. Cardinality(kept) = Cardinality(cut)
    <2>1. g \in Injection(cut, kept)
      BY <1>2, <1>3 DEF Injection, IsInjective
    <2>2. g \in Surjection(cut, kept)
      BY DEF Surjection
    <2>3. IsFiniteSet(kept)
      <3> HIDE DEF kept
      <3> QED BY <1>1, <1>4, FS_Subset
    <2> HIDE DEF g, kept
    <2> QED BY <2>1, <2>2, <2>3, FS_Injection
  <1>7. \A i \in slow \ held : \E w \in Workers : ClosedTo(lists[w], lat[i]) /\ lists[w] \subseteq all
    BY DEF all, AreOfSlow
  <1>8. \A w \in Workers : Cardinality(lists[w]) \in Nat /\ IsFiniteSet(lists[w])
    BY FS_CardinalityType
  <1>9. Cardinality(kept) = IF Cardinality(slow) > TopSlowLimit THEN TopSlowLimit
                             ELSE Cardinality(slow)
    <2>1. CASE held = slow
      BY <1>3, <1>5, <1>6, <2>1
    <2>2. CASE held # slow
      <3>1. PICK i \in slow \ held, w \in Workers :
              ClosedTo(lists[w], lat[i]) /\ lists[w] \subseteq all
        BY <1>5, <1>7, <2>2
      <3>2. Cardinality(all) >= TopSlowLimit
        BY <1>1, <1>8, <3>1, FS_Subset DEF ClosedTo
      <3>3. Cardinality(held) < Cardinality(slow)
        <4> HIDE DEF held
        <4> QED BY <1>1, <1>5, <2>2, FS_Subset, FS_CardinalityType
      <3> HIDE DEF kept, held
      <3>4. Cardinality(slow) > TopSlowLimit
        BY <1>1, <1>5, <3>2, <3>3
      <3> QED BY <1>1, <1>3, <1>6, <3>2, <3>4
    <2> QED BY <2>1, <2>2
  <1>10. ASSUME NEW i \in kept, NEW j \in slow \ kept PROVE lat[i] >= lat[j]
    <2>1. i \in slow /\ entry(i) \in cut /\ entry(j) \notin cut /\ lat[i] \in Nat /\ lat[j] \in Nat
      BY <1>2, <1>4
    <2>2. CASE entry(j) \in all
      <3>1. entry(i).ms >= entry(j).ms
        BY <1>3, <2>1, <2>2
      <3> QED BY <1>2, <2>1, <3>1
    <2>3. CASE entry(j) \notin all
      <3>1. PICK w \in Workers : ClosedTo(lists[w], lat[j]) /\ lists[w] \in SUBSET all
        BY <1>7, <2>3
      <3>2. CASE entry(i) \in lists[w]
        <4>1. entry(i).ms >= lat[j]
          BY <3>1, <3>2 DEF ClosedTo
        <4> QED BY <1>2, <2>1, <4>1
      <3>3. CASE \E e \in lists[w] : e \notin cut
        <4>1. PICK e \in lists[w] : e \notin cut
          BY <3>3
        <4>2. entry(i).ms >= e.ms /\ e.ms >= lat[j] /\ e.ms \in Nat
          BY <1>2, <1>3, <2>1, <3>1, <4>1 DEF ClosedTo
        <4> QED BY <1>2, <2>1, <4>2
      <3>4. CASE entry(i) \notin lists[w] /\ lists[w] \subseteq cut
        <4>1. lists[w] \cup {entry(i)} \in SUBSET cut
          BY <2>1, <3>4
        <4>2. Cardinality(lists[w] \cup {entry(i)}) = TopSlowLimit + 1
          BY <1>8, <3>1, <3>4, FS_AddElement DEF ClosedTo
        <4>3. TopSlowLimit + 1 <= Cardinality(cut)
          BY <1>3, <4>1, <4>2, FS_Subset
        <4> QED BY <1>1, <1>3, <4>3
      <3> QED BY <3>2, <3>3, <3>4
    <2> QED BY <2>2, <2>3
  <1> QED BY <1>4, <1>9, <1>10 DEF AreSlowest

-----------------------------------------------------------------------------

LEMMA ReportInit == Init => ReportInv
  <1> SUFFICES ASSUME Init PROVE ReportInv
    OBVIOUS
  <1>1. /\ topSlow = [w \in Workers |-> {}] /\ samples = [w \in Workers |-> {}]
        /\ errors = [w \in Workers |-> 0] /\ failures = {} /\ report.done = FALSE
        /\ lookups = [i \in Queries |-> 0]
    BY DEF Init, NoReport
  <1>2. Answered = {}
    BY <1>1 DEF Answered
  <1>3. IsFiniteSet({}) /\ Cardinality({}) = 0
    BY FS_EmptySet
  <1>4. SlowKept
    BY <1>1, <1>2, <1>3, LatenciesAssumption DEF SlowKept, SlowOnes
  <1>5. SamplesKept
    BY <1>1, <1>2 DEF SamplesKept
  <1>6. Sums(errors, Workers)[Workers] = 0
    BY <1>1, SumsOfZero, WorkersAssumption
  <1>7. FailuresCounted
    BY <1>1, <1>3, <1>6 DEF FailuresCounted
  <1>8. MergedReport
    BY <1>1 DEF MergedReport
  <1> QED BY <1>4, <1>5, <1>7, <1>8 DEF ReportInv

\* What the end of a lookup changes, in the words of the invariant: it is the
\* first of its query.
LEMMA AnswerIsNew ==
  ASSUME PhaseInv, NEW w \in Workers, NEW ms \in Latencies, NEW failed \in BOOLEAN,
         Answer(w, ms, failed)
  PROVE  \E k \in Queries \ Answered :
           /\ k = job[w] /\ Answered' = Answered \cup {k}
           /\ SlowOnes' = IF ms >= Gate THEN SlowOnes \cup {k} ELSE SlowOnes
           /\ Entry(k)' = [idx |-> k, ms |-> ms] /\ latencies'[k] = ms
           /\ \A i \in Answered : Entry(i)' = Entry(i) /\ latencies'[i] = latencies[i]
           /\ ~report.done
  <1>1. PICK k \in Queries : k = job[w]
    BY DEF Answer
  <1>2. /\ latencies' = [latencies EXCEPT ![k] = ms] /\ lookups' = [lookups EXCEPT ![k] = @ + 1]
        /\ latencies \in [Queries -> Nat] /\ lookups \in [Queries -> Nat]
    BY <1>1 DEF Answer, PhaseInv, PhaseTypes
  <1>3. BeingDone(k)
    BY <1>1 DEF PhaseInv, Progress, Untaken, Done
  <1>4. k \notin Answered /\ lookups'[k] # 0 /\ latencies'[k] = ms
    BY <1>2, <1>3 DEF Answered, BeingDone
  <1>5. \A i \in Queries \ {k} : lookups'[i] = lookups[i] /\ latencies'[i] = latencies[i]
    BY <1>2
  <1>6. Answered' = Answered \cup {k}
    BY <1>4, <1>5 DEF Answered
  <1>7. SlowOnes' = IF ms >= Gate THEN SlowOnes \cup {k} ELSE SlowOnes
    <2>1. \A i \in Answered : latencies'[i] = latencies[i]
      BY <1>4, <1>5 DEF Answered
    <2> QED BY <1>4, <1>6, <2>1 DEF SlowOnes
  <1>8. /\ Entry(k)' = [idx |-> k, ms |-> ms]
        /\ \A i \in Answered : Entry(i)' = Entry(i) /\ latencies'[i] = latencies[i]
    BY <1>4, <1>5 DEF Entry, Answered
  <1>9. ~report.done
    BY <1>1, QueryIndices DEF PhaseInv, EndInOrder, AllEnded
  <1> QED BY <1>1, <1>4, <1>6, <1>7, <1>8, <1>9

LEMMA AnswerKeepsSlow ==
  ASSUME PhaseInv, SlowKept, NEW w \in Workers, NEW ms \in Latencies, NEW failed \in BOOLEAN,
         Answer(w, ms, failed)
  PROVE  SlowKept'
  <1>1. PICK k \in Queries \ Answered :
           /\ k = job[w] /\ Answered' = Answered \cup {k}
           /\ SlowOnes' = IF ms >= Gate THEN SlowOnes \cup {k} ELSE SlowOnes
           /\ Entry(k)' = [idx |-> k, ms |-> ms] /\ latencies'[k] = ms
           /\ \A i \in Answered : Entry(i)' = Entry(i) /\ latencies'[i] = latencies[i]
    BY AnswerIsNew
  <1>2. ms \in Nat /\ \A i \in Queries : latencies[i] \in Nat
    BY LatenciesAssumption DEF PhaseInv, PhaseTypes
  <1>3. SlowOnes \subseteq Answered
    BY DEF SlowOnes
  <1>4. CASE ~(ms >= Gate)
    <2>1. topSlow' = topSlow /\ SlowOnes' = SlowOnes
      BY <1>1, <1>4 DEF Answer
    <2>2. \A i \in SlowOnes : Entry(i)' = Entry(i) /\ latencies'[i] = latencies[i]
      BY <1>1, <1>3
    <2> QED BY <2>1, <2>2 DEF SlowKept
  <1>5. CASE ms >= Gate
    <2> DEFINE entry == [idx |-> k, ms |-> ms]
               list == topSlow[w]
    <2>1. PICK new \in insertTopSlow(list, entry) : topSlow' = [topSlow EXCEPT ![w] = new]
      BY <1>1, <1>5 DEF Answer
    <2>2. /\ list \in SUBSET [idx : Queries, ms : Nat] /\ entry \in [idx : Queries, ms : Nat]
          /\ IsFiniteSet(list) /\ Cardinality(list) <= TopSlowLimit
      BY <1>2 DEF SlowKept
    <2>3. entry \notin list
      BY <1>3 DEF SlowKept, Entry
    <2>4. /\ new \subseteq list \cup {entry}
          /\ IsFiniteSet(new) /\ Cardinality(new) <= TopSlowLimit
          /\ \A x \in list \cup {entry} : x \in new \/ ClosedTo(new, x.ms)
          /\ \A m \in Nat : ClosedTo(list, m) => ClosedTo(new, m)
      <3> HIDE DEF entry, list
      <3> QED BY <2>1, <2>2, <2>3, InsertKeeps
    <2>5. topSlow'[w] = new /\ \A v \in Workers \ {w} : topSlow'[v] = topSlow[v]
      BY <2>1 DEF SlowKept
    <2>6. topSlow' \in [Workers -> SUBSET [idx : Queries, ms : Nat]]
      BY <2>1, <2>2, <2>4 DEF SlowKept
    <2>7. \A v \in Workers : IsFiniteSet(topSlow'[v]) /\ Cardinality(topSlow'[v]) <= TopSlowLimit
      BY <2>4, <2>5 DEF SlowKept
    <2>8. ASSUME NEW v \in Workers, NEW e \in topSlow'[v]
          PROVE  \E i \in SlowOnes' : e = Entry(i)'
      <3>1. CASE e = entry
        BY <1>1, <1>5, <3>1
      <3>2. CASE e # entry
        <4>1. e \in topSlow[v]
          BY <2>4, <2>5, <2>8, <3>2
        <4>2. PICK i \in SlowOnes : e = Entry(i)
          BY <4>1 DEF SlowKept
        <4>3. i \in SlowOnes' /\ Entry(i)' = Entry(i)
          BY <1>1, <1>3, <1>5
        <4> QED BY <4>2, <4>3
      <3> QED BY <3>1, <3>2
    <2>9. ASSUME NEW i \in SlowOnes'
          PROVE  \E v \in Workers : Entry(i)' \in topSlow'[v] \/ ClosedTo(topSlow'[v], latencies'[i])
      <3>1. CASE i = k
        <4>1. entry \in new \/ ClosedTo(new, ms)
          BY <2>4
        <4> QED BY <1>1, <2>5, <3>1, <4>1
      <3>2. CASE i # k
        <4>1. i \in SlowOnes /\ i \in Answered /\ latencies[i] \in Nat
          BY <1>1, <1>2, <1>3, <1>5, <3>2 DEF Answered
        <4>2. Entry(i)' = Entry(i) /\ latencies'[i] = latencies[i] /\ Entry(i).ms = latencies[i]
          BY <1>1, <4>1 DEF Entry
        <4>3. PICK v \in Workers : Entry(i) \in topSlow[v] \/ ClosedTo(topSlow[v], latencies[i])
          BY <4>1 DEF SlowKept
        <4>4. CASE v = w
          BY <2>4, <2>5, <4>1, <4>2, <4>3, <4>4
        <4>5. CASE v # w
          BY <2>5, <4>2, <4>3, <4>5
        <4> QED BY <4>4, <4>5
      <3> QED BY <3>1, <3>2
    <2> QED BY <2>6, <2>7, <2>8, <2>9 DEF SlowKept
  <1> QED BY <1>4, <1>5

LEMMA AnswerKeepsSamples ==
  ASSUME PhaseInv, SamplesKept, NEW w \in Workers, NEW ms \in Latencies, NEW failed \in BOOLEAN,
         Answer(w, ms, failed)
  PROVE  SamplesKept'
  <1>1. PICK k \in Queries : k = job[w] /\ Answered' = Answered \cup {k}
    BY AnswerIsNew
  <1>2. samples' = [samples EXCEPT ![w] = IF k \in sampleIndices THEN @ \cup {k} ELSE @]
    BY <1>1 DEF Answer
  <1>3. samples \in [Workers -> SUBSET Queries]
    BY DEF SamplesKept
  <1>4. samples' \in [Workers -> SUBSET Queries]
    BY <1>2, <1>3
  <1>5. samples'[w] = (IF k \in sampleIndices THEN samples[w] \cup {k} ELSE samples[w])
        /\ \A v \in Workers \ {w} : samples'[v] = samples[v]
    BY <1>2, <1>3
  <1>6. UNION {samples'[v] : v \in Workers} =
          (UNION {samples[v] : v \in Workers}) \cup (sampleIndices \cap {k})
    BY <1>1, <1>5
  <1>7. UNION {samples'[v] : v \in Workers} = sampleIndices \cap Answered'
    BY <1>1, <1>6 DEF SamplesKept
  <1>8. sampleIndices' = sampleIndices
    BY DEF sampleIndices
  <1> QED BY <1>4, <1>7, <1>8 DEF SamplesKept

LEMMA AnswerCountsFailures ==
  ASSUME PhaseInv, FailuresCounted, NEW w \in Workers, NEW ms \in Latencies,
         NEW failed \in BOOLEAN, Answer(w, ms, failed)
  PROVE  FailuresCounted'
  <1>1. PICK k \in Queries \ Answered : k = job[w] /\ Answered' = Answered \cup {k}
    BY AnswerIsNew
  <1>2. /\ errors' = [errors EXCEPT ![w] = IF failed THEN @ + 1 ELSE @]
        /\ failures' = IF failed THEN failures \cup {k} ELSE failures
    BY <1>1 DEF Answer, counted_errors
  <1>3. /\ errors \in [Workers -> Nat] /\ failures \in SUBSET Answered
        /\ Sums(errors, Workers)[Workers] = Cardinality(failures)
    BY DEF FailuresCounted
  <1>4. IsFiniteSet(failures) /\ k \notin failures
    <2>1. IsFiniteSet(Queries)
      BY NumQueriesAssumption, FS_Interval DEF Queries
    <2>2. failures \in SUBSET Queries
      BY <1>3 DEF Answered
    <2> QED BY <1>3, <2>1, <2>2, FS_Subset
  <1>5. CASE ~failed
    BY <1>1, <1>2, <1>3, <1>5 DEF FailuresCounted
  <1>6. CASE failed
    <2>1. errors' \in [Workers -> Nat] /\ failures' \in SUBSET Answered'
      BY <1>1, <1>2, <1>3, <1>6
    <2>2. errors'[w] = errors[w] + 1 /\ \A v \in Workers \ {w} : errors'[v] = errors[v]
      BY <1>2, <1>3, <1>6
    <2>3. Sums(errors', Workers)[Workers] = Sums(errors, Workers)[Workers] + 1
      BY <1>3, <2>1, <2>2, SumsGrow, WorkersAssumption
    <2>4. Cardinality(failures') = Cardinality(failures) + 1
      BY <1>2, <1>4, <1>6, FS_AddElement
    <2> QED BY <1>3, <2>1, <2>3, <2>4 DEF FailuresCounted
  <1> QED BY <1>5, <1>6

LEMMA ReportStep == PhaseInv /\ ReportInv /\ [Next]_vars => ReportInv'
  <1> SUFFICES ASSUME PhaseInv, ReportInv, [Next]_vars PROVE ReportInv'
    OBVIOUS
  <1>1. ASSUME UNCHANGED <<topSlow, samples, errors, failures, lookups, latencies, report>>
        PROVE  ReportInv'
    BY <1>1 DEF ReportInv, SlowKept, SamplesKept, FailuresCounted, MergedReport, SlowOnes,
                Answered, Entry, sampleIndices
  <1>2. CASE Feed \/ CloseChannel \/ (\E w \in Workers : Take(w) \/ Exit(w)) \/ UNCHANGED vars
    <2>1. UNCHANGED <<topSlow, samples, errors, failures, lookups, latencies, report>>
      BY <1>2 DEF Feed, CloseChannel, Take, Exit, vars
    <2> QED BY <1>1, <2>1
  <1>3. ASSUME NEW w \in Workers, NEW ms \in Latencies, NEW failed \in BOOLEAN,
               Answer(w, ms, failed)
        PROVE  ReportInv'
    <2>1. SlowKept' /\ SamplesKept' /\ FailuresCounted'
      BY <1>3, AnswerKeepsSlow, AnswerKeepsSamples, AnswerCountsFailures DEF ReportInv
    <2>2. ~report.done /\ report' = report
      BY <1>3, AnswerIsNew DEF Answer
    <2>3. MergedReport'
      BY <2>2 DEF MergedReport
    <2> QED BY <2>1, <2>3 DEF ReportInv
  <1>4. CASE Merge
    <2>1. UNCHANGED <<topSlow, samples, errors, failures, lookups, latencies>>
      BY <1>4 DEF Merge
    <2>2. SlowKept' /\ SamplesKept' /\ FailuresCounted'
      BY <2>1 DEF ReportInv, SlowKept, SamplesKept, FailuresCounted, SlowOnes,
                  Answered, Entry, sampleIndices
    <2>3. PICK cut \in Truncated(UNION {topSlow[w] : w \in Workers}) :
            report' = [done |-> TRUE, topSlow |-> cut,
                       samples |-> UNION {samples[w] : w \in Workers},
                       numErrors |-> merged_errors]
      BY <1>4 DEF Merge
    <2>4. merged_errors = Sums(errors, Workers)[Workers]
      BY SumIsSums DEF merged_errors
    <2>5. MergedReport'
      BY <2>1, <2>3, <2>4 DEF MergedReport
    <2> QED BY <2>2, <2>5 DEF ReportInv
  <1> QED BY <1>2, <1>3, <1>4 DEF Next

\* The sampled rows lie among the queries.
LEMMA SamplesAreQueries == sampleIndices \subseteq Queries
  <1> SUFFICES ASSUME NEW i \in 0..SamplePoints-1
               PROVE  Round(i * (NumQueries - 1), SamplePoints - 1) \in 0..NumQueries-1
    BY DEF sampleIndices, Queries
  <1>1. PICK n \in Nat, b \in Nat \ {0} :
          n = NumQueries - 1 /\ b = SamplePoints - 1 /\ i \in 0..b
    BY NumQueriesAssumption, SamplePointsAssumption
  <1>2. (2 * (i * n) + b) \div (2 * b) \in 0..n
    BY <1>1, RoundedWithin
  <1> QED BY <1>1, <1>2 DEF Round

\* When the report is made, every query has been answered.
LEMMA AllAnswered ==
  ASSUME PhaseInv, report.done
  PROVE  Answered = Queries
  <1>1. \A w \in Workers : job[w] = Ended
    BY DEF PhaseInv, EndInOrder, AllEnded
  <1>2. fed = NumQueries /\ indices = <<>>
    BY <1>1, WorkersAssumption DEF PhaseInv, EndInOrder
  <1>3. taken = NumQueries
    BY <1>2, NumQueriesAssumption DEF taken
  <1>4. ASSUME NEW i \in Queries PROVE lookups[i] # 0
    <2>1. i < taken
      BY <1>3, NumQueriesAssumption DEF Queries
    <2>2. ~BeingDone(i)
      BY <1>1, QueryIndices DEF BeingDone
    <2> QED BY <2>1, <2>2 DEF PhaseInv, Progress, Done
  <1> QED BY <1>4 DEF Answered

\* What the report says of the whole phase is true for any workers, queries and
\* latencies: its slowest queries are the slowest there were, although every
\* worker had cut its own list, its errors are the lookups that failed, and its
\* rows those that were to be sampled (insertTopSlow and the merge at the end
\* of runQueryPhase).
THEOREM ReportIsOfAllLookups == Spec => []ReportTellsAll
  <1>1. ASSUME PhaseInv, ReportInv PROVE ReportTellsAll
    <2> SUFFICES ASSUME report.done PROVE TopSlowIsGlobal /\ ReportCountsFailures
      BY DEF ReportTellsAll, TopSlowIsGlobal, ReportCountsFailures
    <2>1. Answered = Queries
      BY <1>1, AllAnswered
    <2>2. TopSlowIsGlobal
      <3> DEFINE slow == {i \in Queries : latencies[i] >= Gate}
      <3>1. slow = SlowOnes /\ slow \in SUBSET Queries
        BY <2>1 DEF SlowOnes
      <3>2. latencies \in [Queries -> Nat]
        BY <1>1 DEF PhaseInv, PhaseTypes
      <3>3. /\ topSlow \in [Workers -> SUBSET [idx : Queries, ms : Nat]]
            /\ \A w \in Workers : IsFiniteSet(topSlow[w])
            /\ AreOfSlow(topSlow, slow, latencies)
        <4> HIDE DEF slow
        <4> QED BY <1>1, <3>1 DEF ReportInv, SlowKept, Entry, AreOfSlow
      <3>4. report.topSlow \in Truncated(UNION {topSlow[w] : w \in Workers})
        BY <1>1 DEF ReportInv, MergedReport
      <3>5. AreSlowest({e.idx : e \in report.topSlow}, slow, latencies)
        <4> HIDE DEF slow
        <4> QED BY <3>1, <3>2, <3>3, <3>4, CutIsSlowest
      <3> QED BY <3>5 DEF TopSlowIsGlobal, AreSlowest
    <2>3. ReportCountsFailures
      BY <1>1, <2>1, SamplesAreQueries
      DEF ReportInv, SamplesKept, FailuresCounted, MergedReport, ReportCountsFailures
    <2> QED BY <2>2, <2>3
  <1> QED BY <1>1, PhaseInit, PhaseStep, ReportInit, ReportStep, PTL DEF Spec

-----------------------------------------------------------------------------
(* Totals of a list of sizes *)

\* The recursion behind Total.
TotalStep(seq, g) ==
  [s \in SUBSET DOMAIN seq |-> IF s = {} THEN 0 ELSE g[s \ {Max(s)}] + seq[Max(s)]]

LEMMA SumRuns ==
  ASSUME NEW seq \in Seq(Nat)
  PROVE  \E r \in [0..Len(seq) -> Nat] :
           /\ r[0] = 0 /\ \A k \in 1..Len(seq) : r[k] = r[k-1] + seq[k]
           /\ FoldLeft(LAMBDA sum, s : sum + s, 0, seq) = r[Len(seq)]
  <1> DEFINE n == Len(seq)
             op == [z \in Nat \X Nat |-> z[2] + z[1]]
             c == CHOOSE g : g = TotalStep(seq, g)
             r == [k \in 0..n |-> c[1..k]]
  <1>1. n \in Nat /\ DOMAIN seq = 1..n /\ \A k \in 1..n : seq[k] \in Nat
    OBVIOUS
  <1>2. \E g : g = TotalStep(seq, g)
    <2>1. \A x \in Nat, a \in Nat : op[<<x, a>>] \in Nat /\ op[<<x, a>>] = a + x
      OBVIOUS
    <2> HIDE DEF op
    <2>2. PICK g : IsFoldLeft(g, op, 0, seq, Nat)
      <3>1. \A x \in Nat, a \in Nat : op[<<x, a>>] \in Nat
        BY <2>1
      <3>2. 0 \in Nat
        OBVIOUS
      <3> HIDE DEF n, c, r
      <3> QED BY <3>1, <3>2, FoldLeftExists
    <2>3. ASSUME NEW s \in SUBSET DOMAIN seq
          PROVE  g[s] = TotalStep(seq, g)[s]
      <3>1. CASE s = {}
        BY <2>2, <3>1 DEF IsFoldLeft, FoldStep, TotalStep
      <3>2. CASE s # {}
        <4>1. Max(s) \in s /\ seq[Max(s)] \in Nat /\ g[s \ {Max(s)}] \in Nat
          BY <1>1, <2>2, <3>2, MaxPosition DEF IsFoldLeft
        <4>2. op[<<seq[Max(s)], g[s \ {Max(s)}]>>] = g[s \ {Max(s)}] + seq[Max(s)]
          BY <2>1, <4>1
        <4> QED BY <2>2, <3>2, <4>2 DEF IsFoldLeft, FoldStep, TotalStep
      <3> QED BY <3>1, <3>2
    <2>4. g = TotalStep(seq, g)
      BY <2>2, <2>3 DEF IsFoldLeft, FoldStep, TotalStep
    <2> QED BY <2>4
  <1>3. c = TotalStep(seq, c)
    <2> HIDE DEF TotalStep
    <2> QED BY <1>2
  <1>4. FoldLeft(LAMBDA sum, s : sum + s, 0, seq) = c[DOMAIN seq]
    BY DEF FoldLeft, MapThenFoldSet, TotalStep
  <1> HIDE DEF c
  <1>5. r[0] = 0
    <2>1. (1..0) = {} /\ {} \in SUBSET DOMAIN seq
      OBVIOUS
    <2>2. c[{}] = 0
      BY <1>3, <2>1 DEF TotalStep
    <2> QED BY <1>1, <2>1, <2>2
  <1>6. ASSUME NEW k \in 1..n PROVE r[k] = r[k-1] + seq[k]
    <2>1. /\ (1..k) \in SUBSET DOMAIN seq /\ (1..k) # {} /\ Max(1..k) = k
          /\ (1..k) \ {k} = 1..k-1 /\ k - 1 \in 0..n
      BY <1>1, FirstPositions
    <2>2. c[1..k] = c[1..k-1] + seq[k]
      BY <1>3, <2>1 DEF TotalStep
    <2>3. r[k] = c[1..k] /\ r[k-1] = c[1..k-1]
      BY <1>1, <2>1
    <2> HIDE DEF r
    <2> QED BY <2>2, <2>3
  <1>7. \A k \in 0..n : r[k] \in Nat
    <2> DEFINE Good == {k \in 0..n : r[k] \in Nat}
    <2> HIDE DEF r
    <2>1. ASSUME NEW k \in 0..n-1, k \in Good PROVE k + 1 \in Good
      <3>1. k + 1 \in 1..n /\ k + 1 \in 0..n /\ (k + 1) - 1 = k
        BY <1>1
      <3>2. r[k+1] = r[k] + seq[k+1]
        BY <1>6, <3>1
      <3> QED BY <1>1, <2>1, <3>1, <3>2
    <2>2. 0 \in Good
      BY <1>1, <1>5
    <2>3. 0..n \subseteq Good
      <3> HIDE DEF Good
      <3> QED BY <1>1, <2>1, <2>2, StepByStep
    <2> QED BY <2>3
  <1>8. r \in [0..n -> Nat]
    BY <1>7
  <1>9. r[n] = c[DOMAIN seq]
    BY <1>1
  <1> HIDE DEF r
  <1> QED BY <1>4, <1>5, <1>6, <1>8, <1>9

\* The totals of a list of sizes.
LEMMA TotalsAre ==
  ASSUME NEW seq \in Seq(Nat)
  PROVE  /\ Total(seq, 0) = 0
         /\ \A k \in 0..Len(seq) : Total(seq, k) \in Nat
         /\ \A k \in 1..Len(seq) : Total(seq, k) = Total(seq, k - 1) + seq[k]
  <1>1. PICK r \in [0..Len(seq) -> Nat] : r[0] = 0 /\ \A k \in 1..Len(seq) : r[k] = r[k-1] + seq[k]
    BY SumRuns
  <1>2. Len(seq) \in Nat
    OBVIOUS
  <1>3. ASSUME NEW m \in 0..Len(seq) PROVE Total(seq, m) = r[m]
    <2> DEFINE front == SubSeq(seq, 1, m)
    <2>1. front \in Seq(Nat) /\ Len(front) = m /\ \A k \in 1..m : front[k] = seq[k]
      BY <1>2
    <2>2. PICK q \in [0..m -> Nat] :
             /\ q[0] = 0 /\ \A k \in 1..m : q[k] = q[k-1] + front[k]
             /\ FoldLeft(LAMBDA sum, s : sum + s, 0, front) = q[m]
      <3> HIDE DEF front
      <3> QED BY <2>1, SumRuns
    <2> DEFINE Good == {k \in 0..m : q[k] = r[k]}
    <2>3. ASSUME NEW k \in 0..m-1, k \in Good PROVE k + 1 \in Good
      <3>1. k + 1 \in 1..m /\ k + 1 \in 1..Len(seq) /\ k + 1 \in 0..m /\ (k + 1) - 1 = k
        BY <1>2
      <3>2. q[k+1] = q[k] + seq[k+1]
        <4> HIDE DEF front
        <4> QED BY <2>1, <2>2, <3>1
      <3>3. r[k+1] = r[k] + seq[k+1]
        BY <1>1, <3>1
      <3> QED BY <2>3, <3>1, <3>2, <3>3
    <2>4. 0 \in Good
      <3>1. q[0] = r[0]
        <4> HIDE DEF front
        <4> QED BY <1>1, <2>2
      <3>2. 0 \in 0..m
        BY <1>2
      <3> QED BY <3>1, <3>2
    <2>5. 0..m \subseteq Good
      <3>1. m \in Nat
        BY <1>2
      <3> HIDE DEF Good
      <3> QED BY <2>3, <2>4, <3>1, StepByStep
    <2>6. q[m] = r[m]
      BY <1>2, <2>5
    <2> HIDE DEF Good
    <2> QED BY <2>2, <2>6 DEF Total
  <1>4. ASSUME NEW k \in 1..Len(seq) PROVE Total(seq, k) = Total(seq, k - 1) + seq[k]
    <2>1. k \in 0..Len(seq) /\ k - 1 \in 0..Len(seq)
      BY <1>2
    <2> QED BY <1>1, <1>3, <2>1
  <1> QED BY <1>1, <1>2, <1>3, <1>4

\* With sizes of one or more, they rise.
LEMMA TotalsRise ==
  ASSUME NEW seq \in Seq(Nat \ {0})
  PROVE  \A j, k \in 0..Len(seq) : j < k => Total(seq, j) < Total(seq, k)
  <1> DEFINE n == Len(seq)
             Good == {k \in 0..n : \A j \in 0..n : j < k => Total(seq, j) < Total(seq, k)}
  <1>1. n \in Nat /\ seq \in Seq(Nat) /\ \A k \in 1..n : seq[k] \in Nat \ {0}
    OBVIOUS
  <1>2. /\ \A k \in 0..n : Total(seq, k) \in Nat
        /\ \A k \in 1..n : Total(seq, k) = Total(seq, k - 1) + seq[k]
    BY <1>1, TotalsAre
  <1>3. ASSUME NEW k \in 0..n-1, k \in Good PROVE k + 1 \in Good
    <2>1. k \in 0..n /\ k + 1 \in 1..n /\ k + 1 \in 0..n /\ (k + 1) - 1 = k
      BY <1>1
    <2>2. Total(seq, k + 1) = Total(seq, k) + seq[k+1] /\ seq[k+1] \in Nat \ {0}
      BY <1>1, <1>2, <2>1
    <2>3. Total(seq, k) < Total(seq, k + 1)
      BY <1>2, <2>1, <2>2
    <2>4. ASSUME NEW j \in 0..n, j < k + 1 PROVE Total(seq, j) < Total(seq, k + 1)
      <3>1. CASE j = k
        BY <2>3, <3>1
      <3>2. CASE j < k
        <4>1. Total(seq, j) < Total(seq, k)
          BY <1>3, <3>2
        <4> QED BY <1>2, <2>1, <2>3, <4>1
      <3> QED BY <1>1, <2>1, <2>4, <3>1, <3>2
    <2> QED BY <2>1, <2>4
  <1>4. 0 \in Good
    BY <1>1
  <1>5. 0..n \subseteq Good
    <2> HIDE DEF Good
    <2> QED BY <1>1, <1>3, <1>4, StepByStep
  <1> QED BY <1>5

-----------------------------------------------------------------------------
(* Keys and rules *)

\* What BuildLayout draws for the command line a, and the key of rule i under it.
drawn_for(a) == Drawn[a.tiers][LAYOUT_SEED]

KeyIn(drawn, i) == Cardinality({k \in DOMAIN drawn : Total(drawn, k) <= i})

\* A layout is the drawn sizes cut off at the number of rules: the key of a rule
\* does not depend on how many rules there are.
LEMMA KeysDoNotMove ==
  ASSUME NEW drawn \in Seq(Nat \ {0}), NEW n \in Nat \ {0}, Total(drawn, Len(drawn)) >= n,
         layout = build_key_sizes(n, drawn), NEW i \in 0..n-1
  PROVE  key_for_rule(i) = KeyIn(drawn, i)
  <1> DEFINE L == Len(drawn)
             Enough(k) == Total(drawn, k) >= n /\ Total(drawn, k - 1) < n
             last == CHOOSE k \in DOMAIN drawn : Enough(k)
  <1>1. L \in Nat /\ DOMAIN drawn = 1..L /\ drawn \in Seq(Nat) /\ \A k \in 1..L : drawn[k] \in Nat
    OBVIOUS
  <1>2. /\ Total(drawn, 0) = 0
        /\ \A k \in 0..L : Total(drawn, k) \in Nat
        /\ \A k \in 1..L : Total(drawn, k) = Total(drawn, k - 1) + drawn[k]
        /\ \A j, k \in 0..L : j < k => Total(drawn, j) < Total(drawn, k)
    BY <1>1, TotalsAre, TotalsRise
  <1>3. last \in 1..L /\ Enough(last)
    <2> DEFINE Reach == {k \in 0..L : Total(drawn, k) >= n}
    <2>1. Reach \subseteq Nat /\ L \in Reach
      BY <1>1
    <2>2. PICK k \in Reach : \A m \in Reach : k <= m
      <3> HIDE DEF Reach
      <3> QED BY <2>1, LeastNat
    <2>3. k # 0
      BY <1>2, <2>2
    <2>4. k \in 1..L /\ k - 1 \in 0..L /\ k - 1 \notin Reach
      <3>1. k \in 1..L /\ k - 1 \in 0..L
        BY <1>1, <2>2, <2>3
      <3>2. ~ (k <= k - 1)
        BY <3>1
      <3> HIDE DEF Reach
      <3> QED BY <2>2, <3>1, <3>2
    <2>5. Enough(k)
      BY <1>2, <2>2, <2>4
    <2>6. \E m \in DOMAIN drawn : Enough(m)
      BY <1>1, <2>4, <2>5
    <2> HIDE DEF Enough
    <2> QED BY <1>1, <2>6
  <1>4. layout = [k \in 1..last |-> Smaller(drawn[k], n - Total(drawn, k - 1))]
    BY DEF build_key_sizes
  <1> HIDE DEF last
  <1>5. \A k \in 1..last : k \in 1..L /\ k - 1 \in 0..L /\ k \in 0..L /\ last \in 0..L /\ last \in Nat
    BY <1>1, <1>3
  <1>6. \A k \in 0..last : k < last => Total(drawn, k) < n
    <2> TAKE k \in 0..last
    <2> HAVE k < last
    <2>1. k \in 0..L /\ last - 1 \in 0..L /\ (k < last - 1 \/ k = last - 1)
      BY <1>1, <1>3
    <2>2. PICK a \in Nat, b \in Nat : a = Total(drawn, last - 1) /\ b = Total(drawn, k)
      BY <1>2, <2>1
    <2>3. a < n
      BY <1>3, <2>2
    <2>4. k = last - 1 => a = b
      BY <2>2
    <2>5. k < last - 1 => b < a
      BY <1>2, <2>1, <2>2
    <2> QED BY <2>1, <2>2, <2>3, <2>4, <2>5
  <1>7. \A k \in 1..last : layout[k] = IF k < last THEN drawn[k] ELSE n - Total(drawn, k - 1)
    <2> TAKE k \in 1..last
    <2>1. PICK t \in Nat, d \in Nat : /\ t = Total(drawn, k - 1) /\ d = drawn[k]
                                      /\ Total(drawn, k) = t + d
      BY <1>1, <1>2, <1>5
    <2>2. layout[k] = IF d < n - t THEN d ELSE n - t
      BY <1>4, <2>1 DEF Smaller
    <2>3. CASE k < last
      <3>1. t + d < n
        BY <1>6, <2>1, <2>3
      <3> QED BY <2>1, <2>2, <2>3, <3>1
    <2>4. CASE k = last
      <3>1. t + d >= n
        BY <1>3, <2>1, <2>4
      <3> QED BY <2>1, <2>2, <2>4, <3>1
    <2>5. k < last \/ k = last
      BY <1>5
    <2> QED BY <2>3, <2>4, <2>5
  <1>8. layout \in Seq(Nat) /\ Len(layout) = last
    <2>1. \A k \in 1..last : layout[k] \in Nat
      <3> TAKE k \in 1..last
      <3>1. k - 1 \in 0..last /\ k - 1 < last
        BY <1>5
      <3>2. Total(drawn, k - 1) \in Nat /\ Total(drawn, k - 1) < n /\ drawn[k] \in Nat
        BY <1>1, <1>2, <1>5, <1>6, <3>1
      <3> QED BY <1>7, <3>2
    <2>2. DOMAIN layout = 1..last /\ layout = [k \in 1..last |-> layout[k]] /\ last \in Nat
      BY <1>4, <1>3
    <2>3. layout \in [1..last -> Nat]
      BY <2>1, <2>2
    <2> QED BY <2>2, <2>3
  <1>9. \A k \in 0..last : Total(layout, k) = IF k < last THEN Total(drawn, k) ELSE n
    <2> DEFINE T(k) == IF k < last THEN Total(drawn, k) ELSE n
               Good == {k \in 0..last : Total(layout, k) = T(k)}
    <2>1. /\ Total(layout, 0) = 0
          /\ \A k \in 1..last : Total(layout, k) = Total(layout, k - 1) + layout[k]
      BY <1>8, TotalsAre
    <2>2. 0 \in Good
      BY <1>2, <1>3, <2>1
    <2>3. ASSUME NEW k \in 0..last-1, k \in Good PROVE k + 1 \in Good
      <3>1. k + 1 \in 1..last /\ k + 1 \in 0..last /\ k \in 0..L /\ (k + 1) - 1 = k /\ k < last
            /\ k + 1 \in 1..L
        BY <1>3
      <3>2. Total(layout, k) = Total(drawn, k)
        BY <2>3, <3>1
      <3>3. PICK t \in Nat : t = Total(drawn, k)
        BY <1>2, <3>1
      <3>4. Total(layout, k + 1) = t + layout[k+1]
        BY <2>1, <3>1, <3>2, <3>3
      <3>5. layout[k+1] = IF k + 1 < last THEN drawn[k+1] ELSE n - t
        BY <1>7, <3>1, <3>3
      <3>6. Total(drawn, k + 1) = t + drawn[k+1]
        BY <1>2, <3>1, <3>3
      <3>7. Total(layout, k + 1) = T(k + 1)
        BY <3>3, <3>4, <3>5, <3>6
      <3> QED BY <3>1, <3>7
    <2>4. 0..last \subseteq Good
      <3>1. last \in Nat
        BY <1>3
      <3> HIDE DEF Good
      <3> QED BY <2>2, <2>3, <3>1, StepByStep
    <2> QED BY <2>4
  <1>10. {k \in DOMAIN layout : Total(layout, k) <= i} = {k \in DOMAIN drawn : Total(drawn, k) <= i}
    <2>1. DOMAIN layout = 1..last
      BY <1>8
    <2>2. ASSUME NEW k \in 1..last, Total(layout, k) <= i
          PROVE  k \in DOMAIN drawn /\ Total(drawn, k) <= i
      <3>1. k \in 0..last
        OBVIOUS
      <3> QED BY <1>1, <1>5, <1>9, <2>2, <3>1
    <2>3. ASSUME NEW k \in 1..L, Total(drawn, k) <= i
          PROVE  k \in 1..last /\ Total(layout, k) <= i
      <3>1. Total(drawn, last) >= n /\ last \in 0..L /\ k \in 0..L
        BY <1>3
      <3>2. PICK a \in Nat, b \in Nat : a = Total(drawn, last) /\ b = Total(drawn, k)
        BY <1>2, <3>1
      <3>3. a >= n /\ b <= i /\ i < n
        BY <2>3, <3>1, <3>2
      <3>4. last # k
        BY <3>2, <3>3
      <3>5. ~ (last < k)
        <4>1. last < k => a < b
          BY <1>2, <3>1, <3>2
        <4> QED BY <3>3, <4>1
      <3>6. ~ (last <= k)
        BY <1>1, <1>3, <3>4, <3>5
      <3>7. k < last /\ k \in 1..last /\ k \in 0..last
        BY <1>3, <3>6
      <3> QED BY <1>9, <2>3, <3>7
    <2> QED BY <1>1, <2>1, <2>2, <2>3
  <1> QED BY <1>10 DEF key_for_rule, KeyIn

-----------------------------------------------------------------------------
(* Batches and lines *)

LEMMA PartsJoin ==
  ASSUME NEW B, NEW list \in Seq(B), NEW a \in Nat, NEW c \in Nat, a <= c, c <= Len(list)
  PROVE  /\ SubSeq(list, 1, a) \o SubSeq(list, a + 1, c) = SubSeq(list, 1, c)
         /\ SubSeq(list, 1, a) \in Seq(B) /\ SubSeq(list, a + 1, c) \in Seq(B)
  <1> DEFINE x == SubSeq(list, 1, a)
             y == SubSeq(list, a + 1, c)
             z == SubSeq(list, 1, c)
  <1>1. x \in Seq(B) /\ Len(x) = a /\ \A k \in 1..a : x[k] = list[k]
    OBVIOUS
  <1>2. y \in Seq(B) /\ Len(y) = c - a /\ \A k \in 1..c-a : y[k] = list[a+k]
    <2>1. y \in Seq(B)
      OBVIOUS
    <2>2. Len(y) = c - a
      OBVIOUS
    <2>3. \A k \in 1..c-a : y[k] = list[a+k]
      OBVIOUS
    <2> QED BY <2>1, <2>2, <2>3
  <1>3. z \in Seq(B) /\ Len(z) = c /\ \A k \in 1..c : z[k] = list[k]
    OBVIOUS
  <1> HIDE DEF x, y, z
  <1>4. x \o y \in Seq(B) /\ Len(x \o y) = c
    <2>1. x \o y \in Seq(B)
      BY <1>1, <1>2
    <2>2. Len(x \o y) = Len(x) + Len(y)
      <3>1. x \in Seq(B) /\ y \in Seq(B)
        BY <1>1, <1>2
      <3> QED BY <3>1
    <2> QED BY <1>1, <1>2, <2>1, <2>2
  <1>5. \A k \in 1..c : (x \o y)[k] = z[k]
    <2> TAKE k \in 1..c
    <2>1. CASE k <= a
      BY <1>1, <1>2, <1>3, <2>1
    <2>2. CASE k > a
      <3>1. k - a \in 1..c-a /\ a + (k - a) = k
        BY <2>2
      <3>2. (x \o y)[k] = y[k - a]
        BY <1>1, <1>2, <2>2, <3>1
      <3>3. y[k - a] = list[a + (k - a)]
        BY <1>2, <3>1
      <3> QED BY <1>3, <3>1, <3>2, <3>3
    <2>3. k <= a \/ k > a
      OBVIOUS
    <2> QED BY <2>1, <2>2, <2>3
  <1>6. x \o y = z
    BY <1>3, <1>4, <1>5
  <1> QED BY <1>1, <1>2, <1>6 DEF x, y, z

\* How many slices there are, and that each begins within the list.
LEMMA SliceBounds ==
  ASSUME NEW n \in Nat, NEW size \in Nat \ {0}, NEW m, m = (n + size - 1) \div size
  PROVE  /\ m \in Nat /\ n <= m * size
         /\ \A b \in 1..m : /\ (b - 1) * size \in Nat /\ (b - 1) * size < n
                            /\ b * size = (b - 1) * size + size
  <1>1. PICK a \in Nat : a = n + size - 1
    OBVIOUS
  <1>2. PICK r \in Nat : m \in Nat /\ r < size /\ a = size * m + r
    <2>1. (a % size) \in 0..size-1 /\ (a \div size) \in Int /\ a = size * (a \div size) + (a % size)
      BY ModBounds
    <2>2. a \div size \in Nat
      OBVIOUS
    <2> QED BY <1>1, <2>1, <2>2
  <1>3. PICK p \in Nat : p = size * m /\ p = m * size
    BY <1>2
  <1>4. n = p + r - size + 1
    BY <1>1, <1>2, <1>3
  <1>5. n <= p
    BY <1>2, <1>4
  <1>6. ASSUME NEW b \in 1..m
        PROVE  (b - 1) * size \in Nat /\ (b - 1) * size < n /\ b * size = (b - 1) * size + size
    <2>1. b \in Nat /\ b - 1 \in Nat /\ m - b \in Nat
      BY <1>2
    <2>2. PICK c \in Nat : c = (b - 1) * size
      BY <2>1
    <2>2a. PICK d \in Nat : d = (m - b) * size
      BY <2>1
    <2>3. b * size = c + size
      BY <2>1, <2>2
    <2>4. p = c + size + d
      <3>1. m * size = ((b - 1) + 1 + (m - b)) * size
        BY <1>2, <2>1
      <3>2. ((b - 1) + 1 + (m - b)) * size = (b - 1) * size + size + (m - b) * size
        BY <1>2, <2>1
      <3> QED BY <1>3, <2>2, <2>2a, <3>1, <3>2
    <2> QED BY <1>2, <1>4, <2>2, <2>2a, <2>3, <2>4
  <1> QED BY <1>2, <1>3, <1>5, <1>6

\* Cut into slices and put together again a list is what it was.
LEMMA SlicesJoin ==
  ASSUME NEW B, NEW list \in Seq(B), NEW size \in Nat \ {0}
  PROVE  FlattenSeq(Slices(list, size)) = list
  <1> DEFINE n == Len(list)
             m == (n + size - 1) \div size
             s == Slices(list, size)
             End(b) == Smaller(b * size, n)
             joined == [b \in 1..m |-> SubSeq(list, 1, End(b))]
  <1>1. n \in Nat
    OBVIOUS
  <1>2. /\ m \in Nat /\ n <= m * size
        /\ \A b \in 1..m : /\ (b - 1) * size \in Nat /\ (b - 1) * size < n
                           /\ b * size = (b - 1) * size + size
    BY <1>1, SliceBounds
  <1> HIDE DEF m
  <1>3. s = [b \in 1..m |-> SubSeq(list, (b - 1) * size + 1, End(b))]
    BY DEF Slices, m
  <1>4. ASSUME NEW b \in 1..m
        PROVE  /\ End(b) \in Nat /\ (b - 1) * size <= End(b) /\ End(b) <= n
               /\ s[b] = SubSeq(list, (b - 1) * size + 1, End(b)) /\ s[b] \in Seq(B)
    <2>1. PICK p \in Nat : p = (b - 1) * size /\ p < n /\ b * size = p + size
      BY <1>2
    <2>2. End(b) \in Nat /\ p <= End(b) /\ End(b) <= n
      BY <1>1, <2>1 DEF Smaller
    <2>3. s[b] = SubSeq(list, p + 1, End(b))
      BY <1>3, <2>1
    <2>4. SubSeq(list, p + 1, End(b)) \in Seq(B)
      <3> HIDE DEF End
      <3> QED BY <2>2, PartsJoin
    <2> QED BY <2>1, <2>2, <2>3, <2>4
  <1>5. s \in Seq(Seq(B)) /\ Len(s) = m
    <2>1. s \in [1..m -> Seq(B)]
      BY <1>3, <1>4
    <2> QED BY <1>2, <2>1
  <1>6. CASE m = 0
    <2>1. n = 0
      BY <1>1, <1>2, <1>6
    <2>2. Len(s) = 0 /\ s = << >> /\ list = << >>
      <3>1. s \in Seq(Seq(B)) /\ Len(s) = 0
        BY <1>5, <1>6
      <3> HIDE DEF s
      <3> QED BY <2>1, <3>1
    <2> HIDE DEF s
    <2>3. FlattenSeq(s) = list
      BY <2>2 DEF FlattenSeq
    <2> QED BY <2>3 DEF s
  <1>7. CASE m # 0
    <2>1. 1 \in 1..m /\ m \in 1..m /\ n <= m * size
      BY <1>2, <1>7
    <2>2. joined[1] = s[1]
      <3>1. s[1] = SubSeq(list, (1 - 1) * size + 1, End(1)) /\ joined[1] = SubSeq(list, 1, End(1))
        BY <1>4, <2>1
      <3>2. (1 - 1) * size + 1 = 1
        OBVIOUS
      <3> HIDE DEF s, joined, End
      <3> QED BY <3>1, <3>2
    <2>3. ASSUME NEW b \in 1..m-1 PROVE joined[b+1] = joined[b] \o s[b+1]
      <3>1. b \in 1..m /\ b + 1 \in 1..m /\ (b + 1) - 1 = b
        BY <1>2
      <3>2. PICK p \in Nat : p = b * size /\ p < n
        BY <1>2, <3>1
      <3>3. End(b) = p
        BY <1>1, <3>2 DEF Smaller
      <3>4. PICK e \in Nat : e = End(b + 1) /\ p <= e /\ e <= n
        BY <1>4, <3>1, <3>2
      <3>5. s[b+1] = SubSeq(list, p + 1, e)
        BY <1>4, <3>1, <3>2, <3>4
      <3>6. joined[b+1] = SubSeq(list, 1, e) /\ joined[b] = SubSeq(list, 1, p)
        BY <3>1, <3>3, <3>4
      <3>7. SubSeq(list, 1, p) \o SubSeq(list, p + 1, e) = SubSeq(list, 1, e)
        BY <3>4, PartsJoin
      <3> HIDE DEF s, joined, End
      <3> QED BY <3>5, <3>6, <3>7
    <2>4. joined[m] = list
      <3>1. End(m) = n
        <4>1. PICK p \in Nat : p = m * size /\ n <= p
          BY <1>2, <2>1
        <4> QED BY <1>1, <4>1 DEF Smaller
      <3>2. joined[m] = SubSeq(list, 1, n)
        BY <2>1, <3>1
      <3> HIDE DEF joined
      <3> QED BY <3>2
    <2> HIDE DEF s, joined
    <2>5. FlattenSeq(s) = joined[Len(s)]
      <3>1. Len(s) > 0 /\ s \in Seq(Seq(B))
        BY <1>2, <1>5, <1>7
      <3>2. \A b \in 1..Len(s)-1 : joined[b+1] = joined[b] \o s[b+1]
        BY <1>5, <2>3
      <3>3. (CHOOSE g : g = FlattenStep(s, g))[Len(s)] = joined[Len(s)]
        BY <2>2, <3>1, <3>2, FlattenIs
      <3>4. FlattenSeq(s) = (CHOOSE g : g = FlattenStep(s, g))[Len(s)]
        BY <3>1 DEF FlattenSeq, FlattenStep
      <3> QED BY <3>3, <3>4
    <2> QED BY <1>5, <2>4, <2>5 DEF s
  <1> QED BY <1>6, <1>7

-----------------------------------------------------------------------------
(* Reading the query file *)

\* The loop of read_queries_from_file, and the recursion of its fold.
ReadLine(r, line) ==
  IF Len(r.batch) + 1 >= args.query_file_batch_size
  THEN [queries |-> r.queries \o Append(r.batch, line), batch |-> <<>>]
  ELSE [r EXCEPT !.batch = Append(@, line)]

NothingRead == [queries |-> <<>>, batch |-> <<>>]

ReadStep(lines, g) ==
  [s \in SUBSET DOMAIN lines |->
     IF s = {} THEN NothingRead ELSE ReadLine(g[s \ {Max(s)}], lines[Max(s)])]

\* Of each line read one more is there.
LEMMA ReadLineAdds ==
  ASSUME NEW B, NEW r \in [queries : Seq(B), batch : Seq(B)], NEW line \in B
  PROVE  /\ ReadLine(r, line) \in [queries : Seq(B), batch : Seq(B)]
         /\ AllOf(ReadLine(r, line)) = Append(AllOf(r), line)
  <1> DEFINE q == r.queries
             b == r.batch
  <1>1. q \in Seq(B) /\ b \in Seq(B) /\ r = [queries |-> q, batch |-> b]
    OBVIOUS
  <1> HIDE DEF q, b
  <1>2. /\ Append(b, line) \in Seq(B) /\ q \o b \in Seq(B) /\ q \o Append(b, line) \in Seq(B)
        /\ << >> \in Seq(B)
    BY <1>1
  <1>3. q \o Append(b, line) = Append(q \o b, line)
    BY <1>1
  <1>4. CASE Len(b) + 1 >= args.query_file_batch_size
    <2>1. ReadLine(r, line) = [queries |-> q \o Append(b, line), batch |-> << >>]
      BY <1>1, <1>4 DEF ReadLine
    <2>2. (q \o Append(b, line)) \o << >> = q \o Append(b, line)
      BY <1>2
    <2>3. ReadLine(r, line) \in [queries : Seq(B), batch : Seq(B)]
      BY <1>2, <2>1
    <2>4. AllOf(ReadLine(r, line)) = (q \o Append(b, line)) \o << >>
      <3>1. PICK v : v = ReadLine(r, line)
        OBVIOUS
      <3>2. v.queries = q \o Append(b, line) /\ v.batch = << >>
        BY <2>1, <3>1
      <3>3. AllOf(v) = v.queries \o v.batch
        BY DEF AllOf
      <3> QED BY <3>1, <3>2, <3>3
    <2>5. AllOf(r) = q \o b
      BY DEF AllOf, q, b
    <2> QED BY <1>3, <2>2, <2>3, <2>4, <2>5
  <1>5. CASE ~ (Len(b) + 1 >= args.query_file_batch_size)
    <2>1. ReadLine(r, line) = [queries |-> q, batch |-> Append(b, line)]
      BY <1>1, <1>5 DEF ReadLine
    <2>3. ReadLine(r, line) \in [queries : Seq(B), batch : Seq(B)]
      BY <1>1, <1>2, <2>1
    <2>4. AllOf(ReadLine(r, line)) = q \o Append(b, line)
      <3>1. PICK v : v = ReadLine(r, line)
        OBVIOUS
      <3>2. v.queries = q /\ v.batch = Append(b, line)
        BY <2>1, <3>1
      <3>3. AllOf(v) = v.queries \o v.batch
        BY DEF AllOf
      <3> QED BY <3>1, <3>2, <3>3
    <2>5. AllOf(r) = q \o b
      BY DEF AllOf, q, b
    <2> QED BY <1>3, <2>3, <2>4, <2>5
  <1> QED BY <1>4, <1>5

\* All lines are read, in their order.
LEMMA AllLinesAreRead ==
  ASSUME NEW B, NEW lines \in Seq(B)
  PROVE  AllOf(read_queries_from_file(lines)) = lines
  <1> DEFINE n == Len(lines)
             A == [queries : Seq(B), batch : Seq(B)]
             op == [z \in B \X A |-> ReadLine(z[2], z[1])]
             c == CHOOSE g : g = ReadStep(lines, g)
             Good == {k \in 0..n : c[1..k] \in A /\ AllOf(c[1..k]) = SubSeq(lines, 1, k)}
  <1>1. n \in Nat /\ DOMAIN lines = 1..n /\ \A k \in 1..n : lines[k] \in B
    OBVIOUS
  <1>2. NothingRead \in A
    BY DEF NothingRead
  <1>3. \E g : g = ReadStep(lines, g)
    <2>1. \A x \in B, a \in A : op[<<x, a>>] = ReadLine(a, x) /\ ReadLine(a, x) \in A
      BY ReadLineAdds
    <2>2. \A x \in B, a \in A : op[<<x, a>>] \in A
      BY <2>1
    <2> HIDE DEF op, A, n, c
    <2>3. PICK g : IsFoldLeft(g, op, NothingRead, lines, A)
      BY <1>2, <2>2, FoldLeftExists
    <2>4. ASSUME NEW s \in SUBSET DOMAIN lines
          PROVE  g[s] = ReadStep(lines, g)[s]
      <3>1. CASE s = {}
        BY <2>3, <3>1 DEF IsFoldLeft, FoldStep, ReadStep
      <3>2. CASE s # {}
        <4>1. Max(s) \in s /\ lines[Max(s)] \in B /\ g[s \ {Max(s)}] \in A
          BY <1>1, <2>3, <3>2, MaxPosition DEF IsFoldLeft
        <4>2. op[<<lines[Max(s)], g[s \ {Max(s)}]>>] = ReadLine(g[s \ {Max(s)}], lines[Max(s)])
          BY <2>1, <4>1
        <4> QED BY <2>3, <3>2, <4>2 DEF IsFoldLeft, FoldStep, ReadStep
      <3> QED BY <3>1, <3>2
    <2>5. g = ReadStep(lines, g)
      BY <2>3, <2>4 DEF IsFoldLeft, FoldStep, ReadStep
    <2> QED BY <2>5
  <1>4. c = ReadStep(lines, c)
    <2> HIDE DEF ReadStep
    <2> QED BY <1>3
  <1>5. read_queries_from_file(lines) = c[DOMAIN lines]
    BY DEF read_queries_from_file, FoldLeft, MapThenFoldSet, ReadStep, NothingRead, ReadLine
  <1> HIDE DEF c
  <1>6. 0 \in Good
    <2>1. (1..0) = {} /\ {} \in SUBSET DOMAIN lines
      OBVIOUS
    <2>2. c[{}] = NothingRead
      BY <1>4, <2>1 DEF ReadStep
    <2>3. AllOf(NothingRead) = SubSeq(lines, 1, 0)
      BY DEF AllOf, NothingRead
    <2>4. c[1..0] \in A /\ AllOf(c[1..0]) = SubSeq(lines, 1, 0)
      <3> HIDE DEF A
      <3> QED BY <1>2, <2>1, <2>2, <2>3
    <2>5. 0 \in 0..n
      BY <1>1
    <2> HIDE DEF A
    <2> QED BY <2>4, <2>5
  <1>7. ASSUME NEW k \in 0..n-1, k \in Good PROVE k + 1 \in Good
    <2>1. k \in Nat /\ k + 1 \in 1..n /\ k + 1 \in 0..n /\ (k + 1) - 1 = k
      BY <1>1
    <2>2. /\ (1..k+1) \in SUBSET DOMAIN lines /\ (1..k+1) # {} /\ Max(1..k+1) = k + 1
          /\ (1..k+1) \ {k+1} = 1..k
      BY <1>1, <2>1, FirstPositions
    <2>3. c[1..k+1] = ReadLine(c[1..k], lines[k+1])
      BY <1>4, <2>2 DEF ReadStep
    <2>4. /\ ReadLine(c[1..k], lines[k+1]) \in A
          /\ AllOf(ReadLine(c[1..k], lines[k+1])) = Append(AllOf(c[1..k]), lines[k+1])
      <3>1. PICK x \in B : x = lines[k+1]
        BY <1>1, <2>1
      <3>2. PICK e \in A : e = c[1..k]
        BY <1>7
      <3>3. ReadLine(e, x) \in A /\ AllOf(ReadLine(e, x)) = Append(AllOf(e), x)
        BY ReadLineAdds
      <3> HIDE DEF A
      <3> QED BY <3>1, <3>2, <3>3
    <2>5. Append(SubSeq(lines, 1, k), lines[k+1]) = SubSeq(lines, 1, k + 1)
      BY <1>1, <2>1
    <2> HIDE DEF A
    <2> QED BY <1>7, <2>1, <2>3, <2>4, <2>5
  <1>8. 0..n \subseteq Good
    <2> HIDE DEF Good
    <2> QED BY <1>1, <1>6, <1>7, StepByStep
  <1>9. AllOf(c[1..n]) = SubSeq(lines, 1, n)
    <2>1. n \in Good
      <3>1. n \in 0..n
        BY <1>1
      <3> HIDE DEF Good, n
      <3> QED BY <1>8, <3>1
    <2> QED BY <2>1
  <1>10. SubSeq(lines, 1, n) = lines
    OBVIOUS
  <1> QED BY <1>1, <1>5, <1>9, <1>10

-----------------------------------------------------------------------------
(* Runs: the load *)

LEMMA IndexSlice ==
  ASSUME NEW n \in Nat, NEW lo \in Nat, NEW hi \in Nat, lo <= hi, hi <= n
  PROVE  ToSet(SubSeq([j \in 1..n |-> j - 1], lo + 1, hi)) = lo..hi-1
  <1> DEFINE I == [j \in 1..n |-> j - 1]
             s == SubSeq(I, lo + 1, hi)
  <1>1. I \in Seq(Nat) /\ Len(I) = n
    <2>1. I \in [1..n -> Nat]
      OBVIOUS
    <2> QED BY <2>1
  <1>2. Len(s) = hi - lo /\ \A k \in 1..hi-lo : s[k] = I[lo + k]
    <2> HIDE DEF I
    <2>1. Len(s) = hi - lo
      BY <1>1
    <2>2. \A k \in 1..hi-lo : s[k] = I[lo + k]
      BY <1>1
    <2> QED BY <2>1, <2>2
  <1>3. DOMAIN s = 1..hi-lo
    <2>1. s \in Seq(Nat)
      <3> HIDE DEF I
      <3> QED BY <1>1, PartsJoin
    <2> HIDE DEF s
    <2> QED BY <1>2, <2>1
  <1>4. \A k \in 1..hi-lo : s[k] = lo + k - 1
    <2> TAKE k \in 1..hi-lo
    <2>1. lo + k \in 1..n
      OBVIOUS
    <2>2. I[lo + k] = lo + k - 1
      BY <2>1
    <2> HIDE DEF s, I
    <2> QED BY <1>2, <2>2
  <1> HIDE DEF s, I
  <1>5. ASSUME NEW x \in lo..hi-1 PROVE x \in ToSet(s)
    <2>1. x - lo + 1 \in 1..hi-lo /\ lo + (x - lo + 1) - 1 = x
      OBVIOUS
    <2>2. s[x - lo + 1] = x
      BY <1>4, <2>1
    <2> QED BY <1>3, <2>1, <2>2 DEF ToSet
  <1>6. ASSUME NEW x \in ToSet(s) PROVE x \in lo..hi-1
    <2>1. PICK k \in 1..hi-lo : x = s[k]
      BY <1>3 DEF ToSet
    <2>2. x = lo + k - 1
      BY <1>4, <2>1
    <2> QED BY <2>2
  <1>7. ToSet(s) = lo..hi-1
    BY <1>5, <1>6
  <1> QED BY <1>7 DEF s, I

\* The rules up to the m-th.
RulesTo(a, m) == {<<KeyIn(drawn_for(a), i), i>> : i \in 0..m-1}

\* Batch by batch the load comes to all of the rules.
LEMMA BatchIs ==
  ASSUME args \in Arguments, layout = build_key_sizes(args.num_rules, drawn_for(args)),
         NEW size, size = args.write_batch_size, NEW b \in Nat
  PROVE  LET batches == Slices(Indices, size)
         IN  /\ Len(batches) \in Nat
             /\ b < Len(batches) =>
                  RulesTo(args, Smaller((b + 1) * size, args.num_rules)) =
                    RulesTo(args, Smaller(b * size, args.num_rules)) \cup
                      {rule_for_index(i) : i \in ToSet(batches[b + 1])}
             /\ b = Len(batches) => Smaller(b * size, args.num_rules) = args.num_rules
  <1> DEFINE n == args.num_rules
             m == (n + size - 1) \div size
             batches == Slices(Indices, size)
             drawn == drawn_for(args)
  <1>1. n \in Nat \ {0} /\ size \in Nat \ {0}
    BY SessionAssumption
  <1>2. drawn \in Seq(Nat \ {0}) /\ Total(drawn, Len(drawn)) >= n
    BY DrawnAssumption DEF drawn_for
  <1>3. \A i \in 0..n-1 : rule_for_index(i) = <<KeyIn(drawn, i), i>>
    <2> HIDE DEF n, drawn
    <2> QED BY <1>1, <1>2, KeysDoNotMove DEF rule_for_index, n, drawn
  <1>4. Indices = [j \in 1..n |-> j - 1] /\ Len(Indices) = n
    <2>1. Indices \in [1..n -> Nat]
      BY <1>1 DEF Indices
    <2>2. Len(Indices) = n
      BY <1>1, <2>1
    <2> QED BY <2>2 DEF Indices
  <1>5. /\ m \in Nat /\ n <= m * size
        /\ \A c \in 1..m : /\ (c - 1) * size \in Nat /\ (c - 1) * size < n
                           /\ c * size = (c - 1) * size + size
    <2>1. n \in Nat
      BY <1>1
    <2> HIDE DEF n
    <2> QED BY <1>1, <2>1, SliceBounds
  <1>6. batches = [c \in 1..m |-> SubSeq(Indices, (c - 1) * size + 1, Smaller(c * size, n))]
    BY <1>4 DEF Slices
  <1> HIDE DEF m, batches, n, drawn
  <1>7. Len(batches) = m
    BY <1>5, <1>6
  <1>8. ASSUME b < m
        PROVE  RulesTo(args, Smaller((b + 1) * size, n)) =
                 RulesTo(args, Smaller(b * size, n)) \cup
                   {rule_for_index(i) : i \in ToSet(batches[b + 1])}
    <2>1. b + 1 \in 1..m /\ (b + 1) - 1 = b
      BY <1>5, <1>8
    <2>2. PICK p \in Nat : p = b * size /\ p < n /\ (b + 1) * size = p + size
      BY <1>5, <2>1
    <2>3. PICK e \in Nat : e = Smaller(p + size, n) /\ p <= e /\ e <= n
      BY <1>1, <2>2 DEF Smaller
    <2>4. batches[b + 1] = SubSeq(Indices, p + 1, e)
      BY <1>6, <2>1, <2>2, <2>3
    <2>5. ToSet(batches[b + 1]) = p..e-1
      <3>1. n \in Nat
        BY <1>1
      <3>2. ToSet(SubSeq([j \in 1..n |-> j - 1], p + 1, e)) = p..e-1
        BY <2>2, <2>3, <3>1, IndexSlice
      <3> QED BY <1>4, <2>4, <3>2
    <2>6. Smaller(b * size, n) = p /\ Smaller((b + 1) * size, n) = e
      BY <1>1, <2>2, <2>3 DEF Smaller
    <2>7. {rule_for_index(i) : i \in p..e-1} = {<<KeyIn(drawn, i), i>> : i \in p..e-1}
      <3>1. \A i \in p..e-1 : i \in 0..n-1
        BY <1>1, <2>3
      <3>2. \A i \in p..e-1 : rule_for_index(i) = <<KeyIn(drawn, i), i>>
        BY <1>3, <3>1
      <3> QED BY <3>2
    <2>8. 0..e-1 = (0..p-1) \cup (p..e-1)
      BY <2>3
    <2>9. RulesTo(args, e) = RulesTo(args, p) \cup {<<KeyIn(drawn, i), i>> : i \in p..e-1}
      BY <2>8 DEF RulesTo, drawn
    <2> QED BY <2>5, <2>6, <2>7, <2>9
  <1>9. ASSUME b = m PROVE Smaller(b * size, n) = n
    <2>1. PICK p \in Nat : p = b * size
      BY <1>1
    <2>2. Smaller(b * size, n) = n
      BY <1>1, <1>5, <1>9, <2>1 DEF Smaller
    <2> QED BY <2>2
  <1>10. /\ Len(batches) \in Nat
         /\ b < Len(batches) =>
              RulesTo(args, Smaller((b + 1) * size, n)) =
                RulesTo(args, Smaller(b * size, n)) \cup
                  {rule_for_index(i) : i \in ToSet(batches[b + 1])}
         /\ b = Len(batches) => Smaller(b * size, n) = n
    BY <1>5, <1>7, <1>8, <1>9
  <1> QED BY <1>10 DEF batches, n

-----------------------------------------------------------------------------
(* Runs: the invariant *)

RulesOf(a) == RulesTo(a, a.num_rules)

\* The arguments of the run that made the queries.
made_by == IF args.query_source = "reuse" THEN staged ELSE args

Askable(a) == RulesOf(a) \cup {MissQuery}

\* As many queries as were asked for, of the rules of the run that made them,
\* and as many hits when they are new.
GoodQueries ==
  /\ queries \in Seq(Askable(made_by)) /\ Len(queries) = args.num_queries
  /\ args.query_source # "reuse" =>
       Cardinality({j \in DOMAIN queries : queries[j] # MissQuery}) = num_hits

\* The runs behind the name space and the file.
Origins ==
  /\ doing # "exited" => /\ args \in Arguments
                         /\ args.query_source = "reuse" => staged # Nothing
  /\ loaded # Nothing => loaded \in Arguments /\ rules = RulesOf(loaded)
  /\ staged # Nothing => staged \in Arguments /\ query_file \in Seq(Askable(staged))

\* The layout while it is needed, and how far the load has come.
Loading ==
  /\ \/ doing \in {"flush", "write"}
     \/ doing = "queries" /\ args.query_source # "reuse"
     => layout = build_key_sizes(args.num_rules, drawn_for(args))
  /\ doing = "write" =>
       /\ loaded = Nothing
       /\ batch_idx \in 0..Len(Slices(Indices, args.write_batch_size))
       /\ rules = RulesTo(args, Smaller(batch_idx * args.write_batch_size, args.num_rules))
  /\ doing \in {"open", "layout", "flush"} => batch_idx = 0

Querying ==
  /\ doing \in {"stage", "read back"} => args.query_source # "reuse"
  /\ doing \in {"stage", "ask", "reported"} => GoodQueries
  /\ doing = "read back" => query_file = queries /\ GoodQueries
  /\ doing = "reported" =>
       answers = [j \in DOMAIN queries |-> IF queries[j] \in rules THEN "hit" ELSE "MISS"]

SessionInv == Origins /\ Loading /\ Querying

LEMMA SessionStart == SessionInit => SessionInv
  <1> SUFFICES ASSUME SessionInit PROVE SessionInv
    OBVIOUS
  <1>1. Origins
    BY DEF SessionInit, Origins
  <1>2. Loading /\ Querying
    BY DEF SessionInit, Loading, Querying
  <1> QED BY <1>1, <1>2 DEF SessionInv

\* Rules and file stand as they are.
LEMMA OriginsStand ==
  ASSUME SessionInv, UNCHANGED <<args, rules, query_file, loaded, staged>>,
         doing' # "exited" => doing # "exited"
  PROVE  Origins'
  BY DEF SessionInv, Origins, RulesOf, RulesTo, Askable

LEMMA GoodQueriesStand ==
  ASSUME GoodQueries, UNCHANGED <<args, queries>>,
         args.query_source = "reuse" => UNCHANGED staged
  PROVE  GoodQueries'
  <1>1. made_by' = made_by
    BY DEF made_by
  <1>2. num_hits' = num_hits
    BY DEF num_hits
  <1>3. Askable(made_by)' = Askable(made_by)
    BY <1>1 DEF Askable, RulesOf, RulesTo
  <1> QED BY <1>1, <1>2, <1>3 DEF GoodQueries

\* The stages before there are queries.
LEMMA EarlyStages ==
  ASSUME SessionInv, Start \/ OpenStore \/ BuildLayout \/ FlushDb
  PROVE  SessionInv'
  <1>1. CASE Start
    <2>1. args' \in Arguments /\ (args'.query_source = "reuse" => staged' # Nothing)
      BY <1>1 DEF Start
    <2>2. Origins'
      BY <1>1, <2>1 DEF Start, SessionInv, Origins, RulesOf, RulesTo, Askable
    <2>3. Loading' /\ Querying'
      BY <1>1 DEF Start, Loading, Querying
    <2> QED BY <2>2, <2>3 DEF SessionInv
  <1>2. CASE OpenStore
    <2>1. Origins'
      <3>1. UNCHANGED <<args, rules, query_file, loaded, staged>> /\ doing # "exited"
        BY <1>2 DEF OpenStore
      <3> QED BY <3>1, OriginsStand
    <2>2. doing = "open" /\ doing' \in {"layout", "exited"} /\ batch_idx' = batch_idx
      BY <1>2 DEF OpenStore
    <2>3. Loading' /\ Querying'
      BY <2>2 DEF SessionInv, Loading, Querying
    <2> QED BY <2>1, <2>3 DEF SessionInv
  <1>3. CASE BuildLayout
    <2>1. Origins'
      <3>1. UNCHANGED <<args, rules, query_file, loaded, staged>> /\ doing # "exited"
        BY <1>3 DEF BuildLayout
      <3> QED BY <3>1, OriginsStand
    <2>2. /\ doing = "layout" /\ batch_idx' = batch_idx /\ args' = args
          /\ doing' = IF args.no_flush THEN "queries" ELSE "flush"
      BY <1>3 DEF BuildLayout
    <2>3. ~args.no_flush \/ args.query_source # "reuse"
            => layout' = build_key_sizes(args.num_rules, drawn_for(args))
      BY <1>3 DEF BuildLayout, drawn_for, layout_seed
    <2>4. doing' = "flush" => ~args.no_flush
      BY <2>2
    <2>5. build_key_sizes(args'.num_rules, drawn_for(args')) =
             build_key_sizes(args.num_rules, drawn_for(args))
      BY <2>2
    <2>6. doing' \in {"queries", "flush"}
      BY <2>2
    <2>7. Loading'
      BY <2>2, <2>3, <2>4, <2>5, <2>6 DEF SessionInv, Loading
    <2>8. Querying'
      BY <2>6 DEF Querying
    <2> QED BY <2>1, <2>7, <2>8 DEF SessionInv
  <1>4. CASE FlushDb
    <2>1. /\ doing = "flush" /\ doing' = "write" /\ rules' = {} /\ loaded' = Nothing
          /\ UNCHANGED <<args, layout, batch_idx, query_file, staged>>
      BY <1>4 DEF FlushDb
    <2>2. Origins'
      BY <2>1 DEF SessionInv, Origins, RulesOf, RulesTo, Askable
    <2>3. args \in Arguments /\ batch_idx = 0
          /\ layout = build_key_sizes(args.num_rules, drawn_for(args))
      BY <2>1 DEF SessionInv, Origins, Loading
    <2>4. Len(Slices(Indices, args.write_batch_size)) \in Nat
      BY <2>3, BatchIs
    <2>5. Len(Slices(Indices, args.write_batch_size))' = Len(Slices(Indices, args.write_batch_size))
      BY <2>1 DEF Slices, Indices
    <2>6. RulesTo(args, Smaller(batch_idx * args.write_batch_size, args.num_rules)) = {}
      <3>1. args.num_rules \in Nat \ {0} /\ args.write_batch_size \in Nat \ {0}
        BY <2>3, SessionAssumption
      <3>2. Smaller(batch_idx * args.write_batch_size, args.num_rules) = 0
        BY <2>3, <3>1 DEF Smaller
      <3> QED BY <3>2 DEF RulesTo
    <2>7. Loading'
      BY <2>1, <2>3, <2>4, <2>5, <2>6 DEF Loading, RulesTo
    <2>8. Querying'
      BY <2>1 DEF Querying
    <2> QED BY <2>2, <2>7, <2>8 DEF SessionInv
  <1> QED BY <1>1, <1>2, <1>3, <1>4

\* The load.
LEMMA LoadStage ==
  ASSUME SessionInv, WriteBatches
  PROVE  SessionInv'
  <1> DEFINE size == args.write_batch_size
             batches == Slices(Indices, size)
  <1>1. /\ doing = "write" /\ args \in Arguments /\ loaded = Nothing
        /\ layout = build_key_sizes(args.num_rules, drawn_for(args))
        /\ batch_idx \in 0..Len(batches)
        /\ rules = RulesTo(args, Smaller(batch_idx * size, args.num_rules))
    BY DEF SessionInv, Origins, Loading, WriteBatches
  <1>2. UNCHANGED <<args, layout, query_file, staged, queries>>
    BY DEF WriteBatches
  <1>3. Len(batches) \in Nat
    BY <1>1, BatchIs
  <1>4. batch_idx \in Nat
    BY <1>1, <1>3
  <1>5. /\ batch_idx < Len(batches) =>
             RulesTo(args, Smaller((batch_idx + 1) * size, args.num_rules)) =
               RulesTo(args, Smaller(batch_idx * size, args.num_rules)) \cup
                 {rule_for_index(i) : i \in ToSet(batches[batch_idx + 1])}
        /\ batch_idx = Len(batches) => Smaller(batch_idx * size, args.num_rules) = args.num_rules
    BY <1>1, <1>4, BatchIs
  <1>6. CASE batch_idx < Len(batches)
    <2>1. /\ rules' = rules \cup {rule_for_index(i) : i \in ToSet(batches[batch_idx + 1])}
          /\ batch_idx' = batch_idx + 1 /\ UNCHANGED <<doing, loaded>>
      BY <1>6 DEF WriteBatches
    <2>2. rules' = RulesTo(args, Smaller((batch_idx + 1) * size, args.num_rules))
      BY <1>1, <1>5, <1>6, <2>1
    <2>3. batch_idx' \in 0..Len(batches)
      BY <1>3, <1>4, <1>6, <2>1
    <2>4. Len(Slices(Indices, args.write_batch_size))' = Len(batches)
      BY <1>2 DEF Slices, Indices
    <2>5. Origins'
      BY <1>1, <1>2, <2>1 DEF SessionInv, Origins, RulesOf, RulesTo, Askable
    <2>6. Loading'
      <3> HIDE DEF batches
      <3> QED BY <1>1, <1>2, <2>1, <2>2, <2>3, <2>4 DEF Loading, RulesTo
    <2>7. Querying'
      BY <1>1, <2>1 DEF Querying
    <2> QED BY <2>5, <2>6, <2>7 DEF SessionInv
  <1>7. CASE ~ (batch_idx < Len(batches))
    <2>1. doing' = "queries" /\ loaded' = args /\ UNCHANGED <<rules, batch_idx>>
      BY <1>7 DEF WriteBatches
    <2>2. batch_idx = Len(batches)
      BY <1>1, <1>3, <1>7
    <2>3. rules = RulesOf(args)
      BY <1>1, <1>5, <2>2 DEF RulesOf
    <2>4. Origins'
      BY <1>1, <1>2, <2>1, <2>3 DEF SessionInv, Origins, RulesOf, RulesTo, Askable
    <2>5. Loading'
      BY <1>1, <1>2, <2>1 DEF Loading
    <2>6. Querying'
      BY <2>1 DEF Querying
    <2> QED BY <2>4, <2>5, <2>6 DEF SessionInv
  <1> QED BY <1>6, <1>7

\* The queries, from memory or from the file.
LEMMA QueryStages ==
  ASSUME SessionInv, Reuse \/ BuildQueries \/ Stage \/ ReadBack
  PROVE  SessionInv'
  <1>0. doing # "exited" => args \in Arguments
    BY DEF SessionInv, Origins
  <1>1. CASE Reuse
    <2>1. /\ doing = "queries" /\ args.query_source = "reuse"
          /\ UNCHANGED <<args, layout, rules, query_file, loaded, staged>>
      BY <1>1 DEF Reuse
    <2>2. doing' \in {"exited", "ask"}
      BY <1>1 DEF Reuse
    <2>3. Origins'
      BY <2>1, OriginsStand
    <2>4. Loading'
      BY <2>2 DEF Loading
    <2>5. Querying'
      <3>1. SUFFICES ASSUME doing' = "ask" PROVE GoodQueries'
        BY <2>2 DEF Querying
      <3>2. PICK n \in Nat : n = args.num_queries
        BY <1>0, <2>1, SessionAssumption
      <3>3. staged # Nothing /\ query_file \in Seq(Askable(staged))
        BY <2>1 DEF SessionInv, Origins
      <3>4. AllOf(read_queries_from_file(query_file)) = query_file
        BY <3>3, AllLinesAreRead
      <3>5. n <= Len(query_file) /\ queries' = SubSeq(query_file, 1, n)
        <4>1. ~ (Len(query_file) < n) /\ queries' = SubSeq(query_file, 1, n)
          <5>1. CASE Len(query_file) < n
            <6>1. doing' = "exited"
              BY <1>1, <3>2, <3>4, <5>1 DEF Reuse
            <6> QED BY <3>1, <6>1
          <5>2. CASE ~ (Len(query_file) < n)
            <6>1. queries' = SubSeq(query_file, 1, n)
              BY <1>1, <3>2, <3>4, <5>2 DEF Reuse
            <6> QED BY <5>2, <6>1
          <5> QED BY <5>1, <5>2
        <4>2. Len(query_file) \in Nat
          BY <3>3
        <4> QED BY <3>2, <4>1, <4>2
      <3>6. SubSeq(query_file, 1, n) \in Seq(Askable(staged)) /\ Len(SubSeq(query_file, 1, n)) = n
        BY <3>2, <3>3, <3>5
      <3>7. Askable(made_by)' = Askable(staged) /\ args' = args
        BY <2>1 DEF made_by, Askable, RulesOf, RulesTo
      <3> QED BY <2>1, <3>2, <3>5, <3>6, <3>7 DEF GoodQueries
    <2> QED BY <2>3, <2>4, <2>5 DEF SessionInv
  <1>2. CASE BuildQueries
    <2>1. /\ doing = "queries" /\ args.query_source # "reuse"
          /\ UNCHANGED <<args, layout, rules, query_file, loaded, staged>>
          /\ queries' \in built_queries
      BY <1>2 DEF BuildQueries
    <2>2. doing' \in {"stage", "ask"}
      BY <1>2 DEF BuildQueries
    <2>3. Origins'
      BY <2>1, OriginsStand
    <2>4. Loading'
      BY <2>2 DEF Loading
    <2>5. args \in Arguments /\ layout = build_key_sizes(args.num_rules, drawn_for(args))
      BY <1>0, <2>1 DEF SessionInv, Loading
    <2>6. PICK n \in Nat \ {0}, m \in Nat \ {0} : n = args.num_queries /\ m = args.num_rules
      BY <2>5, SessionAssumption
    <2>7. {matching_query_for_index(i) : i \in 0..m-1} = RulesOf(args)
      <3>1. drawn_for(args) \in Seq(Nat \ {0}) /\ Total(drawn_for(args), Len(drawn_for(args))) >= m
        BY <2>5, <2>6, DrawnAssumption DEF drawn_for
      <3>2. \A i \in 0..m-1 : key_for_rule(i) = KeyIn(drawn_for(args), i)
        BY <2>5, <2>6, <3>1, KeysDoNotMove
      <3> QED BY <2>6, <3>2 DEF matching_query_for_index, RulesOf, RulesTo
    <2>8. /\ queries' \in [1..n -> Askable(args)]
          /\ Cardinality({j \in DOMAIN queries' : queries'[j] # MissQuery}) = num_hits
      BY <2>1, <2>6, <2>7 DEF built_queries, Askable
    <2>9. queries' \in Seq(Askable(args)) /\ Len(queries') = n
      BY <2>8
    <2>10. made_by' = args /\ args' = args
      BY <2>1 DEF made_by
    <2>11. num_hits' = num_hits
      BY <2>1 DEF num_hits
    <2>12. Askable(made_by)' = Askable(args)
      BY <2>10 DEF Askable, RulesOf, RulesTo
    <2>13. GoodQueries'
      BY <2>6, <2>8, <2>9, <2>10, <2>11, <2>12 DEF GoodQueries
    <2>14. Querying'
      BY <2>1, <2>2, <2>13 DEF Querying
    <2> QED BY <2>3, <2>4, <2>14 DEF SessionInv
  <1>3. CASE Stage
    <2>1. /\ doing = "stage" /\ doing' = "read back" /\ staged' = args
          /\ query_file' = FlattenSeq(Slices(queries, args.query_file_batch_size))
          /\ UNCHANGED <<args, rules, queries, loaded>>
      BY <1>3 DEF Stage, write_queries_to_file
    <2>2. args.query_source # "reuse" /\ GoodQueries /\ made_by = args /\ args \in Arguments
      BY <1>0, <2>1 DEF SessionInv, Querying, made_by
    <2>3. queries \in Seq(Askable(args))
      BY <2>2 DEF GoodQueries
    <2>4. query_file' = queries
      <3>1. args.query_file_batch_size \in Nat \ {0}
        BY <2>2, SessionAssumption
      <3> QED BY <2>1, <2>3, <3>1, SlicesJoin
    <2>5. Askable(args') = Askable(args)
      BY <2>1 DEF Askable, RulesOf, RulesTo
    <2>6. Origins'
      <3>1. loaded' # Nothing => loaded' \in Arguments /\ rules' = RulesOf(loaded')
        BY <2>1 DEF SessionInv, Origins, RulesOf, RulesTo
      <3>2. staged' \in Arguments /\ query_file' \in Seq(Askable(staged'))
        BY <2>1, <2>2, <2>3, <2>4, <2>5
      <3>3. Askable(staged)' = Askable(staged') /\ RulesOf(loaded)' = RulesOf(loaded')
        BY DEF Askable, RulesOf, RulesTo
      <3> QED BY <2>1, <2>2, <3>1, <3>2, <3>3 DEF Origins
    <2>7. Loading'
      BY <2>1 DEF Loading
    <2>8. GoodQueries'
      BY <2>1, <2>2, GoodQueriesStand
    <2>9. Querying'
      BY <2>1, <2>2, <2>4, <2>8 DEF Querying
    <2> QED BY <2>6, <2>7, <2>9 DEF SessionInv
  <1>4. CASE ReadBack
    <2>1. /\ doing = "read back" /\ doing' = "ask"
          /\ queries' = AllOf(read_queries_from_file(query_file))
          /\ UNCHANGED <<args, rules, query_file, loaded, staged>>
      BY <1>4 DEF ReadBack
    <2>2. args.query_source # "reuse" /\ query_file = queries /\ GoodQueries
      BY <2>1 DEF SessionInv, Querying
    <2>3. queries' = queries
      BY <2>1, <2>2, AllLinesAreRead DEF GoodQueries
    <2>4. Origins'
      BY <2>1, OriginsStand
    <2>5. Loading'
      BY <2>1 DEF Loading
    <2>6. GoodQueries'
      BY <2>1, <2>2, <2>3, GoodQueriesStand
    <2>7. Querying'
      BY <2>1, <2>6 DEF Querying
    <2> QED BY <2>4, <2>5, <2>7 DEF SessionInv
  <1> QED BY <1>1, <1>2, <1>3, <1>4

\* Asking, the end of a run, and what happens between runs.
LEMMA LateStages ==
  ASSUME SessionInv, Ask \/ EndRun \/ GoBenchmarkRan \/ UNCHANGED sessionVars
  PROVE  SessionInv'
  <1>1. CASE Ask
    <2>1. /\ doing = "ask" /\ doing' = "reported"
          /\ answers' = [j \in DOMAIN queries |-> IF queries[j] \in rules THEN "hit" ELSE "MISS"]
          /\ UNCHANGED <<args, rules, queries, query_file, loaded, staged>>
      BY <1>1 DEF Ask
    <2>2. Origins'
      BY <2>1, OriginsStand
    <2>3. Loading'
      BY <2>1 DEF Loading
    <2>4. GoodQueries'
      <3>1. GoodQueries
        BY <2>1 DEF SessionInv, Querying
      <3> QED BY <2>1, <3>1, GoodQueriesStand
    <2>5. Querying'
      BY <2>1, <2>4 DEF Querying
    <2> QED BY <2>2, <2>3, <2>5 DEF SessionInv
  <1>2. CASE EndRun
    <2>1. doing # "exited" /\ doing' = "exited" /\ UNCHANGED <<args, rules, loaded>>
      BY <1>2 DEF EndRun
    <2>2. Loading' /\ Querying'
      BY <2>1 DEF Loading, Querying
    <2>3. Origins'
      <3>1. CASE UNCHANGED <<query_file, staged>>
        BY <2>1, <3>1, OriginsStand
      <3>2. CASE ~ UNCHANGED <<query_file, staged>>
        <4>1. PICK b \in 0..Len(Slices(queries, args.query_file_batch_size))-1 :
                 query_file' = SubSeq(queries, 1, b * args.query_file_batch_size)
          BY <1>2, <3>2 DEF EndRun
        <4>2. doing = "stage" /\ staged' = args
          BY <1>2, <3>2 DEF EndRun
        <4>3. args \in Arguments /\ queries \in Seq(Askable(args))
          BY <4>2 DEF SessionInv, Origins, Querying, GoodQueries, made_by
        <4>4. PICK size \in Nat \ {0} : size = args.query_file_batch_size
          BY <4>3, SessionAssumption
        <4>5. PICK n \in Nat : n = Len(queries)
          BY <4>3
        <4>6. PICK m \in Nat : /\ m = (n + size - 1) \div size
                               /\ \A c \in 1..m : (c - 1) * size \in Nat /\ (c - 1) * size < n
          BY <4>5, SliceBounds
        <4>7. Len(Slices(queries, size)) = m
          BY <4>5, <4>6 DEF Slices
        <4>8. b + 1 \in 1..m /\ (b + 1) - 1 = b
          BY <4>4, <4>6, <4>7
        <4>9. PICK e \in Nat : e = b * size /\ e < n
          BY <4>6, <4>8
        <4>10. SubSeq(queries, 1, e) \in Seq(Askable(args))
          BY <4>3, <4>5, <4>9
        <4>11. query_file' \in Seq(Askable(args))
          BY <4>1, <4>4, <4>9, <4>10
        <4>12. Askable(staged)' = Askable(args) /\ RulesOf(loaded)' = RulesOf(loaded)
          BY <2>1, <4>2 DEF Askable, RulesOf, RulesTo
        <4> QED BY <2>1, <4>2, <4>3, <4>11, <4>12 DEF SessionInv, Origins
      <3> QED BY <3>1, <3>2
    <2> QED BY <2>2, <2>3 DEF SessionInv
  <1>3. CASE GoBenchmarkRan
    <2>1. doing = "exited" /\ doing' = "exited" /\ loaded' = Nothing
          /\ UNCHANGED <<args, query_file, staged>>
      BY <1>3 DEF GoBenchmarkRan
    <2>2. Loading' /\ Querying'
      BY <2>1 DEF Loading, Querying
    <2>3. Origins'
      BY <2>1 DEF SessionInv, Origins, Askable, RulesOf, RulesTo
    <2> QED BY <2>2, <2>3 DEF SessionInv
  <1>4. CASE UNCHANGED sessionVars
    <2>1. UNCHANGED <<args, doing, layout, rules, batch_idx, queries, query_file, answers,
                      loaded, staged>>
      BY <1>4 DEF sessionVars
    <2>2. Origins'
      BY <2>1, OriginsStand
    <2>3. Loading'
      BY <2>1 DEF SessionInv, Loading, RulesTo, Slices, Indices
    <2>4. GoodQueries => GoodQueries'
      BY <2>1, GoodQueriesStand
    <2>5. Querying'
      BY <2>1, <2>4 DEF SessionInv, Querying
    <2> QED BY <2>2, <2>3, <2>5 DEF SessionInv
  <1> QED BY <1>1, <1>2, <1>3, <1>4

LEMMA SessionInvariant == SessionSpec => []SessionInv
  <1>1. SessionInv /\ [SessionNext]_sessionVars => SessionInv'
    <2> SUFFICES ASSUME SessionInv, [SessionNext]_sessionVars PROVE SessionInv'
      OBVIOUS
    <2>1. \/ Start \/ OpenStore \/ BuildLayout \/ FlushDb \/ WriteBatches
          \/ Reuse \/ BuildQueries \/ Stage \/ ReadBack
          \/ Ask \/ EndRun \/ GoBenchmarkRan \/ UNCHANGED sessionVars
      BY DEF SessionNext
    <2> QED BY <2>1, EarlyStages, LoadStage, QueryStages, LateStages
  <1> QED BY SessionStart, <1>1, PTL DEF SessionSpec

\* A run of benchmark.py that reports has asked --num-queries queries, whether they
\* come from memory, through the file in batches, or from the file of an earlier run,
\* even of one that was interrupted while it wrote.
THEOREM AskedAsMany == SessionSpec => []AsksWhatIsAskedFor
  <1>1. SessionInv => AsksWhatIsAskedFor
    <2> SUFFICES ASSUME SessionInv, doing = "reported" PROVE Len(answers) = args.num_queries
      BY DEF AsksWhatIsAskedFor
    <2>1. /\ queries \in Seq(Askable(made_by)) /\ Len(queries) = args.num_queries
          /\ answers = [j \in DOMAIN queries |-> IF queries[j] \in rules THEN "hit" ELSE "MISS"]
      BY DEF SessionInv, Querying, GoodQueries
    <2>2. answers \in [1..Len(queries) -> {"hit", "MISS"}] /\ Len(queries) \in Nat
      BY <2>1
    <2>3. answers \in Seq({"hit", "MISS"}) /\ Len(answers) = Len(queries)
      BY <2>2
    <2> QED BY <2>1, <2>3
  <1> QED BY <1>1, SessionInvariant, PTL

\* The queries of a rerun, under whatever seed, source and number of rules up to the
\* loaded one, find the rules that an earlier run has loaded under the same tiers.
THEOREM RerunsHit == SessionSpec => []RerunQueriesHit
  <1>1. SessionInv => RerunQueriesHit
    <2> SUFFICES ASSUME SessionInv, doing = "reported", loaded # Nothing,
                        made_by.tiers = loaded.tiers, made_by.num_rules <= loaded.num_rules
                 PROVE  /\ \A j \in DOMAIN queries : answers[j] = "MISS" <=> queries[j] = MissQuery
                        /\ args.query_source # "reuse" =>
                             Cardinality({j \in DOMAIN queries : queries[j] # MissQuery}) = num_hits
      BY DEF RerunQueriesHit, made_by
    <2>1. /\ queries \in Seq(Askable(made_by))
          /\ args.query_source # "reuse" =>
               Cardinality({j \in DOMAIN queries : queries[j] # MissQuery}) = num_hits
          /\ answers = [j \in DOMAIN queries |-> IF queries[j] \in rules THEN "hit" ELSE "MISS"]
      BY DEF SessionInv, Querying, GoodQueries
    <2>2. rules = RulesOf(loaded) /\ loaded \in Arguments /\ made_by \in Arguments
      BY DEF SessionInv, Origins, made_by
    <2>3. RulesOf(made_by) \subseteq RulesOf(loaded)
      <3>1. PICK n \in Nat, m \in Nat : n = made_by.num_rules /\ m = loaded.num_rules /\ n <= m
        BY <2>2, SessionAssumption
      <3>2. 0..n-1 \subseteq 0..m-1
        BY <3>1
      <3>3. drawn_for(made_by) = drawn_for(loaded)
        BY DEF drawn_for
      <3> QED BY <3>1, <3>2, <3>3 DEF RulesOf, RulesTo
    <2>4. MissQuery \notin rules
      BY <2>2 DEF MissQuery, RulesOf, RulesTo
    <2>5. ASSUME NEW j \in DOMAIN queries
          PROVE  answers[j] = "MISS" <=> queries[j] = MissQuery
      <3>1. queries[j] \in Askable(made_by)
        BY <2>1
      <3>2. queries[j] = MissQuery \/ queries[j] \in rules
        BY <2>2, <2>3, <3>1 DEF Askable
      <3>3. answers[j] = IF queries[j] \in rules THEN "hit" ELSE "MISS"
        BY <2>1
      <3> QED BY <2>4, <3>2, <3>3
    <2> QED BY <2>1, <2>5
  <1> QED BY <1>1, SessionInvariant, PTL

-----------------------------------------------------------------------------
(* The workload: tiers and keys *)

RunningStep(s, f) == [j \in 0..Len(s) |-> IF j = 0 THEN 0 ELSE f[j-1] + s[j]]

\* f holds the totals of the first 0, 1, ... n of s.
TotalsUpTo(n, s, f) ==
  /\ f \in [0..n -> Nat]
  /\ f[0] = 0
  /\ \A j \in 0..n-1 : f[j+1] = f[j] + s[j+1]

\* There are such totals.
LEMMA TotalsExist ==
  ASSUME NEW s \in Seq(Nat)
  PROVE  \E f : TotalsUpTo(Len(s), s, f)
  <1> DEFINE S == {n \in 0..Len(s) : \E f : TotalsUpTo(n, s, f)}
  <1>1. Len(s) \in Nat /\ \A j \in 0..Len(s)-1 : j + 1 \in 1..Len(s) /\ s[j+1] \in Nat
    OBVIOUS
  <1>2. 0 \in S
    <2>1. TotalsUpTo(0, s, [j \in 0..0 |-> 0])
      BY DEF TotalsUpTo
    <2> QED BY <1>1, <2>1
  <1>3. ASSUME NEW n \in 0..Len(s)-1, n \in S PROVE n + 1 \in S
    <2>1. PICK f : TotalsUpTo(n, s, f)
      BY <1>3
    <2> DEFINE g == [j \in 0..n+1 |-> IF j <= n THEN f[j] ELSE f[n] + s[n+1]]
    <2>2. n \in Nat /\ s[n+1] \in Nat /\ n + 1 \in 0..Len(s)
      BY <1>1
    <2>3. f \in [0..n -> Nat] /\ f[n] \in Nat /\ f[0] = 0
      BY <2>1, <2>2 DEF TotalsUpTo
    <2>4. g \in [0..n+1 -> Nat]
      BY <2>2, <2>3
    <2>5. g[0] = 0 /\ g[n+1] = f[n] + s[n+1] /\ \A j \in 0..n : g[j] = f[j]
      BY <2>2, <2>3
    <2> HIDE DEF g
    <2>6. ASSUME NEW j \in 0..(n+1)-1 PROVE g[j+1] = g[j] + s[j+1]
      <3>1. CASE j = n
        BY <2>2, <2>5, <3>1
      <3>2. CASE j # n
        <4>1. j \in 0..n-1 /\ j \in 0..n /\ j + 1 \in 0..n
          BY <2>2, <3>2
        <4> QED BY <2>1, <2>5, <4>1 DEF TotalsUpTo
      <3> QED BY <3>1, <3>2
    <2> QED BY <2>2, <2>4, <2>5, <2>6 DEF TotalsUpTo
  <1>4. 0..Len(s) \subseteq S
    <2> HIDE DEF S
    <2> QED BY <1>1, <1>2, <1>3, StepByStep
  <1> QED BY <1>1, <1>4

\* The two ways to write the recursion.
LEMMA RunningIsTotals ==
  ASSUME NEW s \in Seq(Nat), NEW f
  PROVE  f = RunningStep(s, f) <=> TotalsUpTo(Len(s), s, f)
  <1> DEFINE n == Len(s)
  <1>1. n \in Nat /\ \A j \in 0..n-1 : j + 1 \in 1..n /\ s[j+1] \in Nat
    OBVIOUS
  <1>2. ASSUME f = RunningStep(s, f) PROVE TotalsUpTo(n, s, f)
    <2>1. f[0] = 0 /\ \A j \in 1..n : f[j] = f[j-1] + s[j]
      BY <1>1, <1>2 DEF RunningStep
    <2>2. \A j \in 0..n-1 : f[j+1] = f[j] + s[j+1]
      <3> SUFFICES ASSUME NEW j \in 0..n-1 PROVE f[j+1] = f[j] + s[j+1]
        OBVIOUS
      <3>1. j + 1 \in 1..n /\ (j + 1) - 1 = j
        BY <1>1
      <3>2. f[j+1] = f[(j+1)-1] + s[j+1]
        BY <2>1, <3>1
      <3> QED BY <3>1, <3>2
    <2> DEFINE S == {j \in 0..n : f[j] \in Nat}
    <2>3. 0 \in S /\ \A j \in 0..n-1 : j \in S => j + 1 \in S
      BY <1>1, <2>1, <2>2
    <2>4. 0..n \subseteq S
      <3> HIDE DEF S
      <3> QED BY <1>1, <2>3, StepByStep
    <2>5. f = [j \in 0..n |-> f[j]]
      BY <1>2 DEF RunningStep
    <2>6. f \in [0..n -> Nat]
      BY <2>4, <2>5
    <2> QED BY <2>1, <2>2, <2>6 DEF TotalsUpTo
  <1>3. ASSUME TotalsUpTo(n, s, f) PROVE f = RunningStep(s, f)
    <2>1. ASSUME NEW j \in 0..n PROVE f[j] = IF j = 0 THEN 0 ELSE f[j-1] + s[j]
      <3>1. CASE j = 0
        BY <1>3, <3>1 DEF TotalsUpTo
      <3>2. CASE j # 0
        <4>1. j - 1 \in 0..n-1 /\ (j - 1) + 1 = j
          BY <1>1, <3>2
        <4> QED BY <1>3, <3>2, <4>1 DEF TotalsUpTo
      <3> QED BY <3>1, <3>2
    <2>2. f = [j \in 0..n |-> f[j]]
      BY <1>3 DEF TotalsUpTo
    <2> QED BY <2>1, <2>2 DEF RunningStep
  <1> QED BY <1>2, <1>3

LEMMA PrefixIs ==
  ASSUME sizes \in Seq(Nat)
  PROVE  TotalsUpTo(Len(sizes), sizes, prefix)
  <1>1. \E f : f = RunningStep(sizes, f)
    BY TotalsExist, RunningIsTotals
  <1>2. prefix = CHOOSE f : f = RunningStep(sizes, f)
    BY Zenon DEF prefix, RunningStep
  <1>3. prefix = RunningStep(sizes, prefix)
    BY <1>1, <1>2
  <1> QED BY <1>3, RunningIsTotals

\* Totals of what two sequences begin with alike.
LEMMA TotalsAgree ==
  ASSUME NEW n \in Nat, NEW m \in Nat, n <= m, NEW s, NEW u, \A j \in 1..n : s[j] = u[j],
         NEW f, TotalsUpTo(n, s, f), NEW g, TotalsUpTo(m, u, g)
  PROVE  \A j \in 0..n : f[j] = g[j]
  <1> DEFINE S == {j \in 0..n : f[j] = g[j]}
  <1>1. 0 \in S
    BY DEF TotalsUpTo
  <1>2. ASSUME NEW j \in 0..n-1, j \in S PROVE j + 1 \in S
    <2>1. j \in 0..m-1 /\ j + 1 \in 1..n /\ j + 1 \in 0..n
      OBVIOUS
    <2>2. f[j+1] = f[j] + s[j+1] /\ g[j+1] = g[j] + u[j+1]
      BY <2>1 DEF TotalsUpTo
    <2> QED BY <1>2, <2>1, <2>2
  <1>3. 0..n \subseteq S
    <2> HIDE DEF S
    <2> QED BY <1>1, <1>2, StepByStep
  <1> QED BY <1>3

\* Sizes are positive, so the totals rise.
LEMMA PrefixRises ==
  ASSUME NEW n \in Nat, NEW s, \A j \in 1..n : s[j] \in Nat \ {0}, NEW f, TotalsUpTo(n, s, f)
  PROVE  /\ \A j \in 0..n : j <= f[j]
         /\ \A k \in 0..n, j \in 0..n : j <= k => f[j] <= f[k]
  <1>1. ASSUME NEW j \in 0..n-1 PROVE f[j] \in Nat /\ f[j+1] \in Nat /\ f[j] < f[j+1]
    <2>1. j \in 0..n /\ j + 1 \in 0..n /\ j + 1 \in 1..n
      OBVIOUS
    <2>2. f[j] \in Nat /\ f[j+1] \in Nat /\ s[j+1] \in Nat \ {0} /\ f[j+1] = f[j] + s[j+1]
      BY <2>1 DEF TotalsUpTo
    <2> QED BY <2>2
  <1>2. \A j \in 0..n : j <= f[j]
    <2> DEFINE S == {j \in 0..n : j <= f[j]}
    <2>1. 0 \in S /\ \A j \in 0..n-1 : j \in S => j + 1 \in S
      BY <1>1 DEF TotalsUpTo
    <2>2. 0..n \subseteq S
      <3> HIDE DEF S
      <3> QED BY <2>1, StepByStep
    <2> QED BY <2>2
  <1>3. ASSUME NEW k \in 0..n PROVE \A j \in 0..n : j <= k => f[j] <= f[k]
    <2> DEFINE S == {l \in 0..n : \A j \in 0..n : j <= l => f[j] <= f[l]}
    <2>1. 0 \in S
      BY DEF TotalsUpTo
    <2>2. ASSUME NEW l \in 0..n-1, l \in S PROVE l + 1 \in S
      <3>1. ASSUME NEW j \in 0..n, j <= l + 1 PROVE f[j] <= f[l+1]
        <4>1. f[j] \in Nat /\ f[l] \in Nat /\ f[l+1] \in Nat /\ f[l] < f[l+1]
          BY <1>1 DEF TotalsUpTo
        <4>2. CASE j <= l
          BY <2>2, <4>1, <4>2
        <4>3. CASE j = l + 1
          BY <4>1, <4>3
        <4> QED BY <3>1, <4>2, <4>3
      <3> QED BY <3>1
    <2>3. 0..n \subseteq S
      <3> HIDE DEF S
      <3> QED BY <2>1, <2>2, StepByStep
    <2> QED BY <2>3
  <1> QED BY <1>2, <1>3

\* A rule's key is the one whose running totals lie around its index.
LEMMA KeyPlace ==
  ASSUME sizes \in Seq(Nat \ {0}), NEW i \in Nat, i < prefix[Len(sizes)]
  PROVE  /\ KeyForRule(i) \in 0..Len(sizes)-1
         /\ KeyForRule(i) <= i
         /\ i - prefix[KeyForRule(i)] \in 0..sizes[KeyForRule(i) + 1] - 1
  <1> DEFINE n == Len(sizes)
             A == {k \in 0..n-1 : i < prefix[k+1]}
  <1>1. n \in Nat /\ \A j \in 1..n : sizes[j] \in Nat \ {0}
    OBVIOUS
  <1>2. TotalsUpTo(n, sizes, prefix)
    <2>1. sizes \in Seq(Nat)
      OBVIOUS
    <2> QED BY <2>1, PrefixIs
  <1>3. /\ \A j \in 0..n : j <= prefix[j]
        /\ \A k \in 0..n, j \in 0..n : j <= k => prefix[j] <= prefix[k]
    BY <1>1, <1>2, PrefixRises
  <1>4. \A j \in 0..n : prefix[j] \in Nat
    BY <1>2 DEF TotalsUpTo
  <1>5. prefix[0] = 0 /\ \A j \in 0..n-1 : prefix[j+1] = prefix[j] + sizes[j+1]
    BY <1>2 DEF TotalsUpTo
  <1> HIDE DEF n
  <1>6. A \subseteq Nat /\ A # {}
    <2>1. n # 0 /\ i < prefix[n]
      BY <1>1, <1>5 DEF n
    <2>2. n - 1 \in 0..n-1 /\ (n - 1) + 1 = n
      BY <1>1, <2>1
    <2>3. n - 1 \in A
      BY <2>1, <2>2
    <2>4. A \subseteq Nat
      BY <1>1
    <2> HIDE DEF A
    <2> QED BY <2>3, <2>4
  <1>7. PICK k \in A : \A l \in A : k <= l
    <2> HIDE DEF A
    <2> QED BY <1>6, LeastNat
  <1>8. k \in 0..n-1 /\ k \in 0..n /\ k + 1 \in 0..n /\ i < prefix[k+1]
    BY <1>1, <1>7
  <1>9. prefix[k] <= i
    <2>1. CASE k = 0
      BY <1>5, <2>1
    <2>2. CASE k # 0
      <3>1. k - 1 \in 0..n-1 /\ (k - 1) + 1 = k
        BY <1>1, <1>8, <2>2
      <3>2. k - 1 \notin A
        BY <1>7, <1>8
      <3> QED BY <1>4, <1>8, <3>1, <3>2
    <2> QED BY <2>1, <2>2
  <1>10. {j \in 1..n : prefix[j] <= i} = 1..k
    <2>1. ASSUME NEW j \in 1..n PROVE prefix[j] <= i <=> j <= k
      <3>1. j \in 0..n /\ prefix[j] \in Nat /\ prefix[k] \in Nat /\ prefix[k+1] \in Nat
        BY <1>1, <1>4, <1>8
      <3>2. CASE j <= k
        <4>1. prefix[j] <= prefix[k]
          BY <1>3, <1>8, <3>1, <3>2
        <4> QED BY <1>9, <3>1, <3>2, <4>1
      <3>3. CASE ~(j <= k)
        <4>1. k + 1 <= j
          BY <1>1, <1>8, <3>3
        <4>2. prefix[k+1] <= prefix[j]
          BY <1>3, <1>8, <3>1, <4>1
        <4> QED BY <1>8, <3>1, <3>3, <4>2
      <3> QED BY <3>2, <3>3
    <2>2. \A j : j \in 1..k <=> j \in 1..n /\ j <= k
      BY <1>1, <1>8
    <2> QED BY <2>1, <2>2
  <1>11. KeyForRule(i) = k
    <2>1. KeyForRule(i) = Cardinality({j \in 1..n : prefix[j] <= i})
      BY DEF KeyForRule, n
    <2>2. k \in Nat
      BY <1>8
    <2> QED BY <1>10, <2>1, <2>2, UpToHas
  <1>12. k <= prefix[k] /\ prefix[k] \in Nat /\ prefix[k+1] = prefix[k] + sizes[k+1]
         /\ sizes[k+1] \in Nat
    <2>1. k + 1 \in 1..n
      BY <1>1, <1>8
    <2> QED BY <1>1, <1>3, <1>4, <1>5, <1>8, <2>1
  <1>13. k <= i /\ i - prefix[k] \in 0..sizes[k+1]-1
    BY <1>8, <1>9, <1>12
  <1> QED BY <1>8, <1>11, <1>13 DEF n

-----------------------------------------------------------------------------
(* The workload: the layout *)

Laid == phase \in {"layout", "write", "failed", "query"}
Writes == phase \in {"write", "failed", "query"}

\* Once the arguments are accepted the keys drawn so far fit the apex rules,
\* and from the first write on they hold all of them.
LayoutInv ==
  /\ tiers \in TierSpecs
  /\ phase \in {"args", "rejected"} \/ Laid
  /\ phase = "args" => sizes = <<>>
  /\ Laid => /\ validateRuleMixRates(rates) /\ parseDepthTiers(tiers)
             /\ sizes \in Seq(Nat \ {0})
             /\ prefix[Len(sizes)] <= mix.apex
  /\ Writes => prefix[Len(sizes)] = mix.apex

\* The cells of a rule and what is in them.
CellsOfRule(j) ==
  cells(NumBuckets, ruleForIndex(j).fqdn1, ruleForIndex(j).port, ruleForIndex(j).fqdn2)
ValueOfRule(j) == [scope |-> "B", id |-> Name("rule:", j)]

\* The data base holds the rules of the batches so far, and those alone.
LoadInv ==
  /\ phase \in {"args", "layout"} => batchIdx = 0 /\ totalRules = 0 /\ DOMAIN db = {}
  /\ Writes =>
       /\ batchIdx \in 0..numBatches
       /\ totalRules = Minimum(batchIdx * BatchSize, NumRules)
       /\ \A x \in DOMAIN db : \E j \in 0..totalRules-1 :
            x \in CellsOfRule(j) /\ db[x] = ValueOfRule(j)
       /\ \A j \in 0..totalRules-1 : CellsOfRule(j) \subseteq DOMAIN db
  /\ phase = "query" => batchIdx = numBatches

\* Both shares round up and still leave no more than the rules.
LEMMA MixIs ==
  ASSUME validateRuleMixRates(rates)
  PROVE  /\ mix.global \in Nat /\ mix.tld \in Nat /\ mix.apex \in Nat
         /\ mix.global + mix.tld + mix.apex = NumRules
  <1>1. ASSUME NEW r \in 0..100 PROVE Share(r) \in Nat
    <2> DEFINE a == 2 * NumRules * r + 100
    <2>1. a \in Nat
      <3>1. NumRules * r \in Nat
        BY WorkloadAssumption
      <3>2. 2 * NumRules * r = 2 * (NumRules * r)
        BY WorkloadAssumption
      <3> QED BY <3>1, <3>2
    <2> HIDE DEF a
    <2>2. (a \div 200) \in Int /\ a = 200 * (a \div 200) + (a % 200) /\ (a % 200) \in 0..199
      BY <2>1, ModBounds
    <2>3. a \div 200 >= 0
      BY <2>1, <2>2
    <2> QED BY <2>2, <2>3 DEF Share, a
  <1> DEFINE g == Share(rates[1])
             t == Share(rates[2])
  <1>2. g \in Nat /\ t \in Nat
    BY <1>1 DEF validateRuleMixRates
  <1>3. /\ mix.global = Minimum(g, NumRules)
        /\ mix.tld = Minimum(t, NumRules - mix.global)
        /\ mix.apex = NumRules - mix.global - mix.tld
    BY DEF mix, partitionRuleCounts
  <1> HIDE DEF g, t
  <1>4. mix.global \in Nat /\ mix.global <= NumRules
    BY <1>2, <1>3, WorkloadAssumption DEF Minimum
  <1>5. mix.tld \in Nat /\ mix.tld <= NumRules - mix.global
    BY <1>2, <1>3, <1>4, WorkloadAssumption DEF Minimum
  <1> QED BY <1>3, <1>4, <1>5, WorkloadAssumption

\* What is unchanged with its variables.
LEMMA SameLayout ==
  ASSUME sizes' = sizes, rates' = rates
  PROVE  /\ prefix' = prefix /\ mix' = mix
         /\ \A j : ruleForIndex(j)' = ruleForIndex(j)
  <1>1. prefix' = prefix
    BY Zenon DEF prefix
  <1>2. mix' = mix
    BY DEF mix
  <1>3. \A i : KeyForRule(i)' = KeyForRule(i)
    BY <1>1 DEF KeyForRule
  <1>4. \A i : Tier(i)' = Tier(i)
    BY <1>2 DEF Tier
  <1>5. \A i : portOf(i)' = portOf(i)
    BY <1>3, <1>4, Zenon DEF portOf
  <1>6. \A i : ruleForIndex(i)' = ruleForIndex(i)
    BY <1>3, <1>4, <1>5, Zenon DEF ruleForIndex
  <1> QED BY <1>1, <1>2, <1>6

\* A key more adds its size to the total.
LEMMA OneKeyMore ==
  ASSUME sizes \in Seq(Nat), NEW v \in Nat, sizes' = Append(sizes, v)
  PROVE  prefix'[Len(sizes')] = prefix[Len(sizes)] + v
  <1>1. PICK s, u, f, g, n :
          s = sizes /\ u = sizes' /\ f = prefix /\ g = prefix' /\ n = Len(s)
    OBVIOUS
  <1>a. n \in Nat
    BY <1>1
  <1>2. /\ u \in Seq(Nat) /\ Len(u) = n + 1 /\ u[n+1] = v
        /\ \A j \in 1..n : s[j] = u[j]
    BY <1>1, <1>a
  <1>3. TotalsUpTo(n, s, f)
    BY <1>1, PrefixIs
  <1>4. TotalsUpTo(n + 1, u, g)
    <2>1. \E h : h = RunningStep(u, h)
      BY <1>2, TotalsExist, RunningIsTotals
    <2>2. prefix' = CHOOSE h : h = RunningStep(sizes', h)
      BY Zenon DEF prefix, RunningStep
    <2>3. g = RunningStep(u, g)
      BY <1>1, <2>1, <2>2
    <2>4. TotalsUpTo(Len(u), u, g)
      BY <1>2, <2>3, RunningIsTotals
    <2> QED BY <1>2, <2>4
  <1>5. f[n] = g[n]
    <2>1. \A j \in 0..n : f[j] = g[j]
      <3>1. n \in Nat /\ n + 1 \in Nat /\ n <= n + 1
        BY <1>a
      <3>2. \A j \in 1..n : s[j] = u[j]
        BY <1>2
      <3> QED BY ONLY <3>1, <3>2, <1>3, <1>4, TotalsAgree
    <2> QED BY <1>a, <2>1
  <1>6. g[n+1] = g[n] + u[n+1]
    BY <1>a, <1>4 DEF TotalsUpTo
  <1> QED BY <1>1, <1>2, <1>5, <1>6

\* A key more, trimmed to the apex rules that are left.
LEMMA DrawKeyFits ==
  ASSUME LayoutInv, DrawKey
  PROVE  LayoutInv'
  <1> DEFINE n == Len(sizes)
  <1>1. /\ phase = "layout" /\ phase' = "layout" /\ tiers' = tiers /\ rates' = rates
        /\ prefix[n] < mix.apex
    BY DEF DrawKey
  <1>2. PICK t \in DOMAIN tiers :
          \E size \in tiers[t].lo..tiers[t].hi : sizes' = Append(sizes, trimmed(size))
    BY DEF DrawKey
  <1>a. PICK size \in tiers[t].lo..tiers[t].hi : sizes' = Append(sizes, trimmed(size))
    BY <1>2
  <1>3. /\ validateRuleMixRates(rates) /\ parseDepthTiers(tiers) /\ tiers \in TierSpecs
        /\ sizes \in Seq(Nat \ {0}) /\ n \in Nat /\ sizes \in Seq(Nat)
    BY <1>1 DEF LayoutInv, Laid
  <1>4. size \in Nat \ {0}
    <2>1. tiers[t].lo \in Int /\ tiers[t].hi \in Int
      <3>1. \A R : tiers \in Seq(R) => tiers[t] \in R
        OBVIOUS
      <3>2. tiers \in Seq([pct : Int, lo : Int, hi : Int])
        BY <1>3, TierSpecsAssumption
      <3>3. tiers[t] \in [pct : Int, lo : Int, hi : Int]
        BY <3>1, <3>2
      <3> QED BY <3>3
    <2>2. tiers[t].lo >= 1
      BY <1>3 DEF parseDepthTiers
    <2> QED BY <1>a, <2>1, <2>2
  <1>5. TotalsUpTo(n, sizes, prefix) /\ prefix[n] \in Nat
    <2>1. TotalsUpTo(n, sizes, prefix)
      BY <1>3, PrefixIs
    <2> QED BY <1>3, <2>1 DEF TotalsUpTo
  <1>6. mix.apex \in Nat
    BY <1>3, MixIs
  <1> DEFINE last == trimmed(size)
  <1>7. last \in Nat \ {0} /\ prefix[n] + last <= mix.apex
    BY <1>1, <1>4, <1>5, <1>6 DEF trimmed, Minimum
  <1>8. sizes' = Append(sizes, last)
    BY <1>a
  <1> HIDE DEF last
  <1>9. /\ sizes' \in Seq(Nat \ {0}) /\ sizes' \in Seq(Nat) /\ Len(sizes') = n + 1
        /\ sizes'[n+1] = last /\ \A j \in 1..n : sizes'[j] = sizes[j]
    BY <1>3, <1>7, <1>8
  <1>13. prefix'[Len(sizes')] <= mix.apex
    <2>1. prefix'[Len(sizes')] = prefix[n] + last
      BY <1>3, <1>7, <1>8, OneKeyMore
    <2> QED BY <1>7, <2>1
  <1>14. mix' = mix
    BY <1>1 DEF mix
  <1> QED BY <1>1, <1>3, <1>9, <1>13, <1>14 DEF LayoutInv, Laid, Writes, validateRuleMixRates

LEMMA LayoutInit == WorkloadInit => LayoutInv
  BY DEF WorkloadInit, LayoutInv, Laid, Writes

LEMMA LayoutStep == LayoutInv /\ [WorkloadNext]_workloadVars => LayoutInv'
  <1> SUFFICES ASSUME LayoutInv, [WorkloadNext]_workloadVars PROVE LayoutInv'
    OBVIOUS
  <1>1. CASE Validate
    <2>1. /\ phase = "args" /\ sizes = <<>> /\ sizes' = sizes /\ rates' = rates /\ tiers' = tiers
          /\ phase' \in {"layout", "rejected"}
      BY <1>1 DEF Validate, LayoutInv
    <2>2. CASE phase' = "rejected"
      BY <2>1, <2>2 DEF LayoutInv, Laid, Writes
    <2>3. CASE phase' = "layout"
      <3>1. validateRuleMixRates(rates) /\ parseDepthTiers(tiers)
        BY <1>1, <2>3 DEF Validate
      <3>2. prefix' = prefix /\ mix' = mix
        BY <2>1, SameLayout
      <3>3. <<>> \in Seq(Nat) /\ <<>> \in Seq(Nat \ {0}) /\ Len(<<>>) = 0
        OBVIOUS
      <3>4. prefix[0] = 0
        BY <2>1, <3>3, PrefixIs DEF TotalsUpTo
      <3>5. prefix[Len(sizes)] <= mix.apex
        BY <2>1, <3>1, <3>3, <3>4, MixIs
      <3> QED BY <2>1, <2>3, <3>1, <3>2, <3>3, <3>5
              DEF LayoutInv, Laid, Writes, validateRuleMixRates
    <2> QED BY <2>1, <2>2, <2>3
  <1>2. CASE DrawKey
    BY <1>2, DrawKeyFits
  <1>3. CASE StartWriting
    <2>1. /\ phase = "layout" /\ phase' = "write" /\ sizes' = sizes /\ rates' = rates
          /\ tiers' = tiers /\ prefix[Len(sizes)] >= mix.apex
      BY <1>3 DEF StartWriting
    <2>2. prefix' = prefix /\ mix' = mix
      BY <2>1, SameLayout
    <2>3. prefix[Len(sizes)] = mix.apex
      <3>1. sizes \in Seq(Nat) /\ Len(sizes) \in 0..Len(sizes) /\ validateRuleMixRates(rates)
        BY <2>1 DEF LayoutInv, Laid
      <3>2. prefix[Len(sizes)] \in Nat
        BY <3>1, PrefixIs DEF TotalsUpTo
      <3>3. mix.apex \in Nat /\ prefix[Len(sizes)] <= mix.apex
        BY <2>1, <3>1, MixIs DEF LayoutInv, Laid
      <3> QED BY <2>1, <3>2, <3>3
    <2> QED BY <2>1, <2>2, <2>3 DEF LayoutInv, Laid, Writes, validateRuleMixRates
  <1>4. CASE WriteBatch \/ WriteFails \/ EndWriting \/ UNCHANGED workloadVars
    <2>1. /\ sizes' = sizes /\ rates' = rates /\ tiers' = tiers
          /\ phase' = phase \/ (phase = "write" /\ phase' \in {"failed", "query"})
      BY <1>4 DEF WriteBatch, WriteFails, EndWriting, workloadVars
    <2>2. prefix' = prefix /\ mix' = mix
      BY <2>1, SameLayout
    <2> QED BY <2>1, <2>2 DEF LayoutInv, Laid, Writes, validateRuleMixRates
  <1> QED BY <1>1, <1>2, <1>3, <1>4 DEF WorkloadNext

\* Tiers and keys share out the rules.
LEMMA LayoutIsWhole ==
  ASSUME LayoutInv PROVE LayoutPartitionsRules
  <1> SUFFICES ASSUME phase \in {"write", "query"}
               PROVE  /\ mix.global >= 0 /\ mix.tld >= 0 /\ mix.apex >= 0
                      /\ mix.global + mix.tld + mix.apex = NumRules
                      /\ prefix[Len(sizes)] = mix.apex
                      /\ \A i \in 0..mix.apex-1 :
                           /\ KeyForRule(i) \in 0..Len(sizes)-1
                           /\ i - prefix[KeyForRule(i)] \in 0..sizes[KeyForRule(i)+1]-1
    BY DEF LayoutPartitionsRules
  <1>1. /\ validateRuleMixRates(rates) /\ sizes \in Seq(Nat \ {0})
        /\ prefix[Len(sizes)] = mix.apex
    BY DEF LayoutInv, Laid, Writes
  <1>2. /\ mix.global \in Nat /\ mix.tld \in Nat /\ mix.apex \in Nat
        /\ mix.global + mix.tld + mix.apex = NumRules
    BY <1>1, MixIs
  <1>3. ASSUME NEW i \in 0..mix.apex-1
        PROVE  /\ KeyForRule(i) \in 0..Len(sizes)-1
               /\ i - prefix[KeyForRule(i)] \in 0..sizes[KeyForRule(i)+1]-1
    <2>1. i \in Nat /\ i < prefix[Len(sizes)]
      BY <1>1, <1>2
    <2> QED BY <1>1, <2>1, KeyPlace
  <1> QED BY <1>1, <1>2, <1>3

-----------------------------------------------------------------------------
(* The workload: the batches *)

\* The number of batches is that of all full ones, and one for the rest.
LEMMA BatchesCover ==
  /\ numBatches \in Nat /\ numBatches * BatchSize >= NumRules
  /\ \A b \in Nat : b < numBatches =>
       /\ b * BatchSize \in Nat /\ b * BatchSize < NumRules
       /\ (b + 1) * BatchSize = b * BatchSize + BatchSize
  <1> DEFINE a == NumRules + BatchSize - 1
             q == numBatches
             B == BatchSize
  <1>1. B \in Nat \ {0} /\ NumRules \in Nat \ {0} /\ a \in Nat /\ a = NumRules + B - 1
    BY WorkloadAssumption
  <1>2. q \in Int /\ a = B * q + (a % B) /\ (a % B) \in 0..B-1
    BY <1>1, ModBounds DEF numBatches
  <1> HIDE DEF a, q, B
  <1>3. PICK p \in Int : p = B * q
    BY <1>1, <1>2
  <1>4. p >= NumRules
    BY <1>1, <1>2, <1>3
  <1>5. q \in Nat
    <2>1. SUFFICES ASSUME q < 0 PROVE FALSE
      BY <1>2
    <2>2. B * q < 0
      BY <1>1, <1>2, <2>1
    <2> QED BY <1>1, <1>3, <1>4, <2>2
  <1>6. q * B = p
    BY <1>1, <1>2, <1>3
  <1>7. ASSUME NEW b \in Nat, b < q
        PROVE  b * B \in Nat /\ b * B < NumRules /\ (b + 1) * B = b * B + B
    <2>1. PICK d \in Nat : q = b + 1 + d
      <3>1. q - b - 1 \in Nat /\ q = b + 1 + (q - b - 1)
        BY <1>5, <1>7
      <3> QED BY <3>1
    <2>2. b * B \in Nat /\ d * B \in Nat
      BY <1>1
    <2>3. q * B = b * B + B + d * B /\ (b + 1) * B = b * B + B
      BY <1>1, <2>1
    <2>4. b * B + B <= p
      BY <1>1, <1>6, <2>2, <2>3
    <2>5. p <= NumRules + B - 1
      BY <1>1, <1>2, <1>3
    <2> QED BY <1>1, <1>3, <2>2, <2>3, <2>4, <2>5
  <1> QED BY <1>4, <1>5, <1>6, <1>7 DEF q, B

\* What every rule has of its own.
LEMMA RuleIs ==
  ASSUME NEW j
  PROVE  /\ ruleForIndex(j).fqdn2 = Wild(<<Name("dest", j), "example", "com">>)
         /\ ruleForIndex(j).scope = "B" /\ ruleForIndex(j).id = Name("rule:", j)
         /\ ruleForIndex(j).port = portOf(j)
  BY DEF ruleForIndex

\* The field of a cell is the rule's other name.
LEMMA CellField ==
  ASSUME NEW n, NEW p, NEW port, NEW f, NEW x \in cells(n, p, port, f)
  PROVE  /\ x[2] = f
         /\ \E i \in DOMAIN keys_for_pattern(n, p, port) : x = <<keys_for_pattern(n, p, port)[i], f>>
  BY DEF cells

\* No two rules share a cell.
LEMMA CellsApart ==
  ASSUME NEW i \in 0..NumRules-1, NEW j \in 0..NumRules-1,
         NEW x \in CellsOfRule(i), x \in CellsOfRule(j)
  PROVE  i = j
  <1>1. x[2] = Wild(<<Name("dest", i), "example", "com">>)
    BY CellField, RuleIs DEF CellsOfRule
  <1>2. x[2] = Wild(<<Name("dest", j), "example", "com">>)
    BY CellField, RuleIs DEF CellsOfRule
  <1>3. <<Name("dest", i), "example", "com">> = <<Name("dest", j), "example", "com">>
    BY <1>1, <1>2 DEF Wild
  <1>4. Name("dest", i) = Name("dest", j)
    BY <1>3
  <1> QED BY <1>4, NamesAssumption

\* What a batch of m rules leaves in the data base.
Adds(d, n, m, rs) ==
  LET c(q) == cells(n, rs[q].fqdn1, rs[q].port, rs[q].fqdn2)
      e == hset_all(d, n, rs)
  IN  /\ DOMAIN e = DOMAIN d \cup UNION {c(q) : q \in 1..m}
      /\ \A x \in DOMAIN e :
           \/ x \in DOMAIN d /\ e[x] = d[x]
           \/ \E q \in 1..m : x \in c(q) /\ e[x] = [scope |-> rs[q].scope, id |-> rs[q].id]

\* A batch adds its rules' cells.
LEMMA BatchAdds ==
  ASSUME NEW d, NEW n, NEW m \in Nat, NEW rs, DOMAIN rs = 1..m
  PROVE  Adds(d, n, m, rs)
  <1> DEFINE c(q) == cells(n, rs[q].fqdn1, rs[q].port, rs[q].fqdn2)
             e == hset_all(d, n, rs)
             writers(x) == {q \in 1..m : x \in c(q)}
             W == UNION {c(q) : q \in 1..m}
             value(r) == [scope |-> r.scope, id |-> r.id]
  <1>1. e = [x \in DOMAIN d \cup W |-> IF x \in W THEN value(rs[Max(writers(x))]) ELSE d[x]]
    BY DEF hset_all
  <1>2. ASSUME NEW x \in W PROVE Max(writers(x)) \in 1..m /\ x \in c(Max(writers(x)))
    <2>1. writers(x) \subseteq 1..m /\ writers(x) # {}
      BY <1>2
    <2> DEFINE S == writers(x)
    <2> HIDE DEF writers
    <2>2. Max(S) \in S
      BY <2>1, MaxPosition
    <2> QED BY <2>2 DEF writers
  <1>3. DOMAIN e = DOMAIN d \cup W
    <2> HIDE DEF e, W, value, writers
    <2> QED BY <1>1
  <1>4. ASSUME NEW x \in DOMAIN e
        PROVE  \/ x \in DOMAIN d /\ e[x] = d[x]
               \/ \E q \in 1..m : x \in c(q) /\ e[x] = value(rs[q])
    <2>1. e[x] = IF x \in W THEN value(rs[Max(writers(x))]) ELSE d[x]
      <3> HIDE DEF e, W, value, writers
      <3> QED BY <1>1, <1>3, <1>4
    <2> HIDE DEF e, W, value, writers, c
    <2> QED BY <1>2, <1>3, <1>4, <2>1
  <1> QED BY <1>3, <1>4 DEF Adds

\* One batch more is in the data base.
LEMMA WriteBatchLoads ==
  ASSUME LoadInv, WriteBatch
  PROVE  LoadInv'
  <1> DEFINE lo == batchIdx * BatchSize
             hi == Minimum((batchIdx + 1) * BatchSize, NumRules)
             m == hi - lo
             rs == [q \in 1..m |-> ruleForIndex(lo + q - 1)]
  <1>1. /\ phase = "write" /\ phase' = phase /\ sizes' = sizes /\ rates' = rates
        /\ batchIdx' = batchIdx + 1 /\ batchIdx < numBatches
        /\ db' = hset_all(db, NumBuckets, rs)
        /\ totalRules' = totalRules + Len(rs)
    BY DEF WriteBatch, batch
  <1>2. /\ batchIdx \in Nat /\ totalRules = Minimum(lo, NumRules)
        /\ \A x \in DOMAIN db : \E j \in 0..totalRules-1 :
             x \in CellsOfRule(j) /\ db[x] = ValueOfRule(j)
        /\ \A j \in 0..totalRules-1 : CellsOfRule(j) \subseteq DOMAIN db
    BY <1>1, BatchesCover DEF LoadInv, Writes
  <1>3. /\ lo \in Nat /\ lo < NumRules /\ (batchIdx + 1) * BatchSize = lo + BatchSize
        /\ NumRules \in Nat /\ BatchSize \in Nat \ {0}
    BY <1>1, <1>2, BatchesCover, WorkloadAssumption
  <1>4. totalRules = lo
    BY <1>2, <1>3 DEF Minimum
  <1>5. hi \in Nat /\ lo < hi /\ hi <= NumRules /\ m \in Nat
    BY <1>3 DEF Minimum
  <1>6. Len(rs) = m /\ DOMAIN rs = 1..m
    <2> HIDE DEF m
    <2> QED BY <1>5
  <1>7. totalRules' = hi
    <2> HIDE DEF rs, lo, hi
    <2> QED BY <1>1, <1>3, <1>4, <1>5, <1>6
  <1>8. \A j : CellsOfRule(j)' = CellsOfRule(j) /\ ValueOfRule(j)' = ValueOfRule(j)
    BY <1>1, SameLayout DEF CellsOfRule, ValueOfRule
  <1>9. \A q \in 1..m :
          /\ cells(NumBuckets, rs[q].fqdn1, rs[q].port, rs[q].fqdn2) = CellsOfRule(lo + q - 1)
          /\ [scope |-> rs[q].scope, id |-> rs[q].id] = ValueOfRule(lo + q - 1)
    <2> HIDE DEF m, lo
    <2> QED BY RuleIs DEF CellsOfRule, ValueOfRule
  <1> HIDE DEF rs
  <1>10. /\ DOMAIN db' = DOMAIN db \cup UNION {CellsOfRule(lo + q - 1) : q \in 1..m}
         /\ \A x \in DOMAIN db' :
              \/ x \in DOMAIN db /\ db'[x] = db[x]
              \/ \E q \in 1..m : x \in CellsOfRule(lo + q - 1) /\ db'[x] = ValueOfRule(lo + q - 1)
    <2> HIDE DEF m, lo, hi
    <2>1. Adds(db, NumBuckets, m, rs)
      BY <1>5, <1>6, BatchAdds
    <2>2. UNION {cells(NumBuckets, rs[q].fqdn1, rs[q].port, rs[q].fqdn2) : q \in 1..m}
          = UNION {CellsOfRule(lo + q - 1) : q \in 1..m}
      BY <1>9
    <2>3. /\ DOMAIN db' = DOMAIN db \cup
               UNION {cells(NumBuckets, rs[q].fqdn1, rs[q].port, rs[q].fqdn2) : q \in 1..m}
          /\ \A x \in DOMAIN db' :
               \/ x \in DOMAIN db /\ db'[x] = db[x]
               \/ \E q \in 1..m :
                    /\ x \in cells(NumBuckets, rs[q].fqdn1, rs[q].port, rs[q].fqdn2)
                    /\ db'[x] = [scope |-> rs[q].scope, id |-> rs[q].id]
      BY <1>1, <2>1, Zenon DEF Adds
    <2>4. ASSUME NEW x \in DOMAIN db'
          PROVE  \/ x \in DOMAIN db /\ db'[x] = db[x]
                 \/ \E q \in 1..m :
                      x \in CellsOfRule(lo + q - 1) /\ db'[x] = ValueOfRule(lo + q - 1)
      BY <1>9, <2>3, <2>4, Zenon
    <2> QED BY <2>2, <2>3, <2>4
  <1>11. ASSUME NEW q \in 1..m PROVE lo + q - 1 \in 0..hi-1
    BY <1>3, <1>5
  <1>12. ASSUME NEW x \in DOMAIN db'
         PROVE  \E j \in 0..totalRules'-1 : x \in CellsOfRule(j)' /\ db'[x] = ValueOfRule(j)'
    <2>1. CASE x \in DOMAIN db /\ db'[x] = db[x]
      <3>1. PICK j \in 0..lo-1 : x \in CellsOfRule(j) /\ db[x] = ValueOfRule(j)
        BY <1>2, <1>4, <2>1
      <3>2. j \in 0..hi-1
        BY <1>3, <1>5
      <3> HIDE DEF lo, hi, m
      <3> QED BY <1>7, <1>8, <2>1, <3>1, <3>2
    <2>2. CASE \E q \in 1..m : x \in CellsOfRule(lo + q - 1) /\ db'[x] = ValueOfRule(lo + q - 1)
      <3>1. PICK q \in 1..m : x \in CellsOfRule(lo + q - 1) /\ db'[x] = ValueOfRule(lo + q - 1)
        BY <2>2
      <3>2. PICK j : j = lo + q - 1
        OBVIOUS
      <3>3. j \in 0..hi-1
        BY <1>11, <3>2
      <3> HIDE DEF lo, hi, m
      <3> QED BY <1>7, <1>8, <3>1, <3>2, <3>3
    <2> QED BY <1>10, <1>12, <2>1, <2>2
  <1>13. ASSUME NEW j \in 0..totalRules'-1 PROVE CellsOfRule(j)' \subseteq DOMAIN db'
    <2>1. j \in 0..hi-1
      BY <1>7
    <2>2. CASE j < lo
      <3>1. j \in 0..totalRules-1
        BY <1>3, <1>4, <1>5, <2>1, <2>2
      <3> QED BY <1>2, <1>8, <1>10, <3>1
    <2>3. CASE ~(j < lo)
      <3>1. PICK q : q = j - lo + 1
        OBVIOUS
      <3>2. q \in 1..m /\ lo + q - 1 = j
        BY <1>3, <1>5, <2>1, <2>3, <3>1
      <3> HIDE DEF lo, hi, m
      <3>3. CellsOfRule(j) \subseteq DOMAIN db'
        BY <1>10, <3>2
      <3> QED BY <1>8, <3>3
    <2> QED BY <2>2, <2>3
  <1>14. numBatches' = numBatches /\ batchIdx' \in 0..numBatches
    BY <1>1, <1>2, BatchesCover DEF numBatches
  <1>15. totalRules' = Minimum(batchIdx' * BatchSize, NumRules)
    BY <1>1, <1>7
  <1> QED BY <1>1, <1>12, <1>13, <1>14, <1>15 DEF LoadInv, Writes, Minimum

LEMMA LoadInit == WorkloadInit => LoadInv
  BY DEF WorkloadInit, LoadInv, Writes

LEMMA LoadStep == LayoutInv /\ LoadInv /\ [WorkloadNext]_workloadVars => LoadInv'
  <1> SUFFICES ASSUME LayoutInv, LoadInv, [WorkloadNext]_workloadVars PROVE LoadInv'
    OBVIOUS
  <1>1. CASE Validate \/ DrawKey
    <2>1. /\ phase \in {"args", "layout"} /\ phase' \in {"layout", "rejected"}
          /\ batchIdx' = batchIdx /\ totalRules' = totalRules /\ db' = db
      BY <1>1 DEF Validate, DrawKey
    <2> QED BY <2>1 DEF LoadInv, Writes
  <1>2. CASE StartWriting
    <2>1. /\ phase = "layout" /\ phase' = "write"
          /\ batchIdx' = batchIdx /\ totalRules' = totalRules /\ db' = db
      BY <1>2 DEF StartWriting
    <2>2. batchIdx' = 0 /\ totalRules' = 0 /\ DOMAIN db' = {}
      BY <2>1 DEF LoadInv
    <2>3. 0 \in 0..numBatches' /\ 0 * BatchSize = 0 /\ Minimum(0, NumRules) = 0
      BY BatchesCover, WorkloadAssumption DEF numBatches, Minimum
    <2>4. 0..0-1 = {}
      OBVIOUS
    <2> QED BY <2>1, <2>2, <2>3, <2>4 DEF LoadInv, Writes, Minimum
  <1>3. CASE WriteBatch
    BY <1>3, WriteBatchLoads
  <1>4. CASE WriteFails \/ EndWriting \/ UNCHANGED workloadVars
    <2>1. /\ sizes' = sizes /\ rates' = rates /\ batchIdx' = batchIdx
          /\ totalRules' = totalRules /\ db' = db
          /\ \/ phase' = phase
             \/ phase = "write" /\ phase' = "failed"
             \/ phase = "write" /\ phase' = "query" /\ batchIdx = numBatches
      BY <1>4 DEF WriteFails, EndWriting, workloadVars
    <2>2. \A j : CellsOfRule(j)' = CellsOfRule(j) /\ ValueOfRule(j)' = ValueOfRule(j)
      BY <2>1, SameLayout DEF CellsOfRule, ValueOfRule
    <2>3. numBatches' = numBatches
      BY DEF numBatches
    <2> QED BY <2>1, <2>2, <2>3 DEF LoadInv, Writes, Minimum
  <1> QED BY <1>1, <1>2, <1>3, <1>4 DEF WorkloadNext

\* Every rule is there, in its cells, and nothing else.
Loaded ==
  /\ \A j \in 0..NumRules-1 : \A x \in CellsOfRule(j) : x \in DOMAIN db /\ db[x] = ValueOfRule(j)
  /\ \A x \in DOMAIN db : \E j \in 0..NumRules-1 : x \in CellsOfRule(j)

LEMMA AllAreLoaded ==
  ASSUME LoadInv, phase = "query"
  PROVE  totalRules = NumRules /\ Loaded
  <1>1. totalRules = NumRules
    BY BatchesCover, WorkloadAssumption DEF LoadInv, Writes, Minimum
  <1>2. ASSUME NEW j \in 0..NumRules-1, NEW x \in CellsOfRule(j)
        PROVE  x \in DOMAIN db /\ db[x] = ValueOfRule(j)
    <2>1. x \in DOMAIN db
      BY <1>1, <1>2 DEF LoadInv, Writes
    <2>2. PICK i \in 0..NumRules-1 : x \in CellsOfRule(i) /\ db[x] = ValueOfRule(i)
      BY <1>1, <2>1 DEF LoadInv, Writes
    <2>3. i = j
      BY <2>2, CellsApart
    <2> QED BY <2>1, <2>2, <2>3
  <1>3. ASSUME NEW x \in DOMAIN db PROVE \E j \in 0..NumRules-1 : x \in CellsOfRule(j)
    BY <1>1 DEF LoadInv, Writes
  <1> QED BY <1>1, <1>2, <1>3 DEF Loaded

-----------------------------------------------------------------------------
(* The workload: one lookup *)

\* What the data base has for a pair of candidates.
FoundAt(f1, port, f2, mode, p) ==
  found(db, NumBuckets, candidates(f1, mode, NumBuckets)[p[1]], port,
        field_candidates(f2, mode)[p[2]])

Pairs(f1, f2, mode) ==
  (DOMAIN candidates(f1, mode, NumBuckets)) \X (DOMAIN field_candidates(f2, mode))

MatchAt(f1, port, f2, mode, p) ==
  Match(FoundAt(f1, port, f2, mode, p), candidates(f1, mode, NumBuckets)[p[1]],
        field_candidates(f2, mode)[p[2]], port)

Accepted(raw1, port, raw2) ==
  normalize_fqdn(raw1) # InvalidFqdn /\ normalize_fqdn(raw2) # InvalidFqdn /\ valid_port(port)

\* A rule for either depth is never filtered.
LEMMA BothDepthsPass == \A exact, deep : ~blocked(exact, deep, "B")
  BY DEF blocked

LEMMA OnlyHitIsFirst ==
  ASSUME NEW p, p[2] \in Nat
  PROVE  FirstHit({p}) = p
  BY DEF FirstHit, Before

\* Where one pair alone has a rule, of any depth, both lookups answer with it.
LEMMA OneHit ==
  ASSUME NEW raw1, NEW port, NEW raw2, Accepted(raw1, port, raw2), NEW mode,
         NEW f1, f1 = normalize_fqdn(raw1), NEW f2, f2 = normalize_fqdn(raw2),
         NEW p \in Pairs(f1, f2, mode), p[2] \in Nat,
         FoundAt(f1, port, f2, mode, p) # NoRule,
         FoundAt(f1, port, f2, mode, p).scope = "B",
         \A q \in Pairs(f1, f2, mode) : q # p => FoundAt(f1, port, f2, mode, q) = NoRule
  PROVE  /\ LuaLookup(db, NumBuckets, raw1, port, raw2, mode) = MatchAt(f1, port, f2, mode, p)
         /\ NoScriptLookup(db, NumBuckets, raw1, port, raw2, mode) = MatchAt(f1, port, f2, mode, p)
  <1> DEFINE n == NumBuckets
             g1 == normalize_fqdn(raw1)
             g2 == normalize_fqdn(raw2)
             a == candidates(g1, mode, n)
             b == field_candidates(g2, mode)
             F(q) == found(db, n, a[q[1]], port, b[q[2]])
             M == Match(F(p), a[p[1]], b[p[2]], port)
             vals == [q \in (DOMAIN a) \X (DOMAIN b) |-> found(db, n, a[q[1]], port, b[q[2]])]
             hits == {q \in DOMAIN vals :
                        /\ vals[q] # NoRule
                        /\ ~blocked(a[q[1]].rank = 0 /\ b[q[2]].rank = 0,
                                    a[q[1]].needs_multi \/ b[q[2]].needs_multi, vals[q].scope)}
             h == FirstHit(hits)
             groups == {{i \in DOMAIN a : a[i].tag = a[j].tag} : j \in DOMAIN a}
             replies == {LuaGroup(db, n, a, group, port, field_candidates(g2, mode)) :
                           group \in groups} \ {Miss}
             best == CHOOSE m \in replies : \A o \in replies : o # m => more_specific(m, o)
  <1>1. /\ p \in (DOMAIN a) \X (DOMAIN b) /\ F(p) # NoRule /\ F(p).scope = "B"
        /\ \A q \in (DOMAIN a) \X (DOMAIN b) : q # p => F(q) = NoRule
        /\ MatchAt(f1, port, f2, mode, p) = M
    BY DEF Pairs, FoundAt, MatchAt
  <1>2. \A exact, deep : ~blocked(exact, deep, F(p).scope)
    BY <1>1, BothDepthsPass
  <1>3. M # Miss
    <2>1. M.reply = "match" /\ Miss.reply = "miss"
      BY DEF Match, Miss
    <2> QED BY <2>1
  <1>4. p = <<p[1], p[2]>> /\ p[1] \in DOMAIN a /\ p[2] \in DOMAIN b
    <2>1. \A A, B : p \in A \X B => p = <<p[1], p[2]>> /\ p[1] \in A /\ p[2] \in B
      OBVIOUS
    <2> HIDE DEF a, b
    <2> QED BY <1>1, <2>1
  <1>5. NoScriptLookup(db, n, raw1, port, raw2, mode)
        = IF hits = {} THEN Miss ELSE Match(vals[h], a[h[1]], b[h[2]], port)
    BY DEF NoScriptLookup, Accepted
  <1>6. LuaLookup(db, n, raw1, port, raw2, mode) = IF replies = {} THEN Miss ELSE best
    BY DEF LuaLookup, Accepted
  <1>7. replies = {LuaGroup(db, n, a, group, port, b) : group \in groups} \ {Miss}
    OBVIOUS
  <1> HIDE DEF replies, best
  <1>8. hits = {p}
    <2> HIDE DEF a, b
    <2> QED BY <1>1, <1>2
  <1>9. h = p /\ vals[p] = F(p)
    <2>1. h = p
      <3> HIDE DEF hits
      <3> QED BY <1>8, OnlyHitIsFirst
    <2>2. vals[p] = F(p)
      <3> HIDE DEF a, b
      <3> QED BY <1>1
    <2> QED BY <2>1, <2>2
  <1>10. NoScriptLookup(db, n, raw1, port, raw2, mode) = M
    <2> HIDE DEF hits, vals, h, a, b
    <2> QED BY <1>5, <1>8, <1>9
  <1> HIDE DEF hits, vals, h
  \* One group's script returns the hit if its row is in the group.
  <1>11. ASSUME NEW G \in SUBSET (DOMAIN a)
         PROVE  LuaGroup(db, n, a, G, port, b) = IF p[1] \in G THEN M ELSE Miss
    <2> DEFINE H == {q \in G \X DOMAIN b :
                       LET v == found(db, n, a[q[1]], port, b[q[2]])
                       IN  /\ v # NoRule
                           /\ ~blocked(a[q[1]].rank = 0 /\ q[2] = 1,
                                       a[q[1]].needs_multi \/ b[q[2]].needs_multi, v.scope)}
    <2>1. LuaGroup(db, n, a, G, port, b)
          = IF H = {} THEN Miss
            ELSE LET q == FirstHit(H)
                 IN  Match(found(db, n, a[q[1]], port, b[q[2]]), a[q[1]], b[q[2]], port)
      <3> HIDE DEF a, b
      <3> QED BY DEF LuaGroup
    <2>2. H = IF p[1] \in G THEN {p} ELSE {}
      <3>1. \A q \in G \X DOMAIN b : q \in (DOMAIN a) \X (DOMAIN b) /\ q[1] \in G
        <4> HIDE DEF a, b
        <4> QED OBVIOUS
      <3>2. p[1] \in G => p \in G \X DOMAIN b
        <4> HIDE DEF a, b
        <4> QED BY <1>4
      <3>3. \A q \in H : q = p
        <4> HIDE DEF a, b
        <4> QED BY <1>1, <3>1
      <3>4. p[1] \in G => p \in H
        <4> HIDE DEF a, b
        <4> QED BY <1>1, <1>2, <3>2
      <3>5. H \subseteq G \X DOMAIN b
        OBVIOUS
      <3> HIDE DEF H, a, b
      <3> QED BY <3>1, <3>3, <3>4, <3>5
    <2> HIDE DEF H, a, b
    <2>3. CASE p[1] \in G
      <3>1. FirstHit(H) = p /\ H # {}
        BY <2>2, <2>3, OnlyHitIsFirst
      <3> QED BY <2>1, <2>3, <3>1
    <2>4. CASE p[1] \notin G
      BY <2>1, <2>2, <2>4
    <2> QED BY <2>3, <2>4
  <1>12. replies = {M}
    <2>1. \A G \in groups : G \in SUBSET (DOMAIN a)
      OBVIOUS
    <2>2. \E G \in groups : p[1] \in G
      <3>1. p[1] \in {i \in DOMAIN a : a[i].tag = a[p[1]].tag}
        <4> HIDE DEF a
        <4> QED BY <1>4
      <3> HIDE DEF a
      <3> QED BY <1>4, <3>1
    <2> HIDE DEF groups, a, b, M
    <2> QED BY <1>3, <1>7, <1>11, <2>1, <2>2
  <1>13. best = M
    <2> HIDE DEF M
    <2> QED BY <1>12 DEF best
  <1>14. LuaLookup(db, n, raw1, port, raw2, mode) = M
    <2> HIDE DEF M, a, b
    <2> QED BY <1>6, <1>12, <1>13
  <1> QED BY <1>1, <1>10, <1>14

\* Where no pair has a rule, both miss.
LEMMA NoHit ==
  ASSUME NEW raw1, NEW port, NEW raw2, Accepted(raw1, port, raw2), NEW mode,
         NEW f1, f1 = normalize_fqdn(raw1), NEW f2, f2 = normalize_fqdn(raw2),
         \A q \in Pairs(f1, f2, mode) : FoundAt(f1, port, f2, mode, q) = NoRule
  PROVE  /\ LuaLookup(db, NumBuckets, raw1, port, raw2, mode) = Miss
         /\ NoScriptLookup(db, NumBuckets, raw1, port, raw2, mode) = Miss
  <1> DEFINE n == NumBuckets
             g1 == normalize_fqdn(raw1)
             g2 == normalize_fqdn(raw2)
             a == candidates(g1, mode, n)
             b == field_candidates(g2, mode)
             vals == [q \in (DOMAIN a) \X (DOMAIN b) |-> found(db, n, a[q[1]], port, b[q[2]])]
             hits == {q \in DOMAIN vals :
                        /\ vals[q] # NoRule
                        /\ ~blocked(a[q[1]].rank = 0 /\ b[q[2]].rank = 0,
                                    a[q[1]].needs_multi \/ b[q[2]].needs_multi, vals[q].scope)}
             h == FirstHit(hits)
             groups == {{i \in DOMAIN a : a[i].tag = a[j].tag} : j \in DOMAIN a}
             replies == {LuaGroup(db, n, a, group, port, field_candidates(g2, mode)) :
                           group \in groups} \ {Miss}
             best == CHOOSE m \in replies : \A o \in replies : o # m => more_specific(m, o)
  <1>1. \A q \in (DOMAIN a) \X (DOMAIN b) : found(db, n, a[q[1]], port, b[q[2]]) = NoRule
    BY DEF Pairs, FoundAt
  <1>2. NoScriptLookup(db, n, raw1, port, raw2, mode)
        = IF hits = {} THEN Miss ELSE Match(vals[h], a[h[1]], b[h[2]], port)
    BY DEF NoScriptLookup, Accepted
  <1>3. LuaLookup(db, n, raw1, port, raw2, mode) = IF replies = {} THEN Miss ELSE best
    BY DEF LuaLookup, Accepted
  <1>4. replies = {LuaGroup(db, n, a, group, port, b) : group \in groups} \ {Miss}
    OBVIOUS
  <1> HIDE DEF replies, best
  <1>5. hits = {}
    <2> HIDE DEF a, b
    <2> QED BY <1>1
  <1>6. ASSUME NEW G \in SUBSET (DOMAIN a)
        PROVE  LuaGroup(db, n, a, G, port, b) = Miss
    <2> DEFINE H == {q \in G \X DOMAIN b :
                       LET v == found(db, n, a[q[1]], port, b[q[2]])
                       IN  /\ v # NoRule
                           /\ ~blocked(a[q[1]].rank = 0 /\ q[2] = 1,
                                       a[q[1]].needs_multi \/ b[q[2]].needs_multi, v.scope)}
    <2>1. LuaGroup(db, n, a, G, port, b)
          = IF H = {} THEN Miss
            ELSE LET q == FirstHit(H)
                 IN  Match(found(db, n, a[q[1]], port, b[q[2]]), a[q[1]], b[q[2]], port)
      <3> HIDE DEF a, b
      <3> QED BY DEF LuaGroup
    <2>2. H = {}
      <3>1. \A q \in G \X DOMAIN b : q \in (DOMAIN a) \X (DOMAIN b)
        <4> HIDE DEF a, b
        <4> QED OBVIOUS
      <3> HIDE DEF a, b
      <3> QED BY <1>1, <3>1
    <2> HIDE DEF H, a, b
    <2> QED BY <2>1, <2>2
  <1>7. replies = {}
    <2>1. \A G \in groups : G \in SUBSET (DOMAIN a)
      OBVIOUS
    <2> HIDE DEF groups, a, b
    <2> QED BY <1>4, <1>6, <2>1
  <1> HIDE DEF hits, vals, h, a, b
  <1> QED BY <1>2, <1>3, <1>5, <1>7

-----------------------------------------------------------------------------
(* The workload: names asked for *)

\* A name of two labels or more.
IsAskable(f) == \E S : f \in Seq(S) /\ Len(f) >= 2

\* A lower-case name is asked for as it is.
LEMMA NormalIs ==
  ASSUME NEW f, IsAskable(f), Len(f) <= MaxLabels,
         \A i \in DOMAIN f : Lower[f[i]] = f[i] /\ f[i] \notin {EmptyLabel, AnyLabel}
  PROVE  normalize_fqdn(Raw(f)) = f /\ f # InvalidFqdn
  <1> DEFINE n == Len(f)
             kept == {i \in DOMAIN f : f[i] # EmptyLabel}
             top == CHOOSE i \in kept : \A j \in kept : j <= i
             name == [i \in DOMAIN f |-> Lower[f[i]]]
  <1>1. PICK S : f \in Seq(S) /\ n \in Nat /\ n >= 2 /\ DOMAIN f = 1..n
    <2>1. PICK S : f \in Seq(S) /\ Len(f) >= 2
      BY DEF IsAskable
    <2> QED BY <2>1
  <1>2. kept = 1..n
    BY <1>1
  <1>3. top = n
    <2> HIDE DEF kept, n
    <2>1. n \in 1..n /\ \A j \in 1..n : j <= n
      BY <1>1
    <2>2. ASSUME NEW i \in 1..n, \A j \in 1..n : j <= i PROVE i = n
      <3>1. n <= i /\ i <= n /\ i \in Nat
        BY <1>1, <2>1, <2>2
      <3> QED BY <1>1, <3>1
    <2> QED BY <1>2, <2>1, <2>2
  <1>4. StripTrailingDots(f) = f
    <2>1. StripTrailingDots(f) = IF kept = {} THEN <<EmptyLabel>> ELSE SubSeq(f, 1, top)
      BY DEF StripTrailingDots
    <2>2. SubSeq(f, 1, n) = f
      BY <1>1
    <2>3. kept # {}
      BY <1>1, <1>2
    <2> HIDE DEF kept, top, n
    <2> QED BY <1>3, <2>1, <2>2, <2>3
  <1>5. name = f
    <2>1. f = [i \in DOMAIN f |-> f[i]]
      BY <1>1
    <2> QED BY <2>1
  <1>6. f \notin {<<EmptyLabel>>, <<AnyLabel>>} /\ f # <<>>
    <2>1. \A x : Len(<<x>>) = 1
      OBVIOUS
    <2>2. Len(<<>>) = 0
      OBVIOUS
    <2> QED BY <1>1, <2>1, <2>2
  <1>7. Raw(f).padded = FALSE /\ Raw(f).labels = f
    BY DEF Raw
  <1>8. normalize_fqdn(Raw(f)) =
          IF \/ ~Raw(f).padded /\ Raw(f).labels \in {<<EmptyLabel>>, <<AnyLabel>>}
             \/ \E i \in DOMAIN name : name[i] \in {EmptyLabel, AnyLabel}
             \/ Len(name) > MaxLabels
          THEN InvalidFqdn
          ELSE name
    <2>1. StripTrailingDots(Raw(f).labels) = f
      BY <1>4, <1>7
    <2> HIDE DEF name
    <2> QED BY <2>1, Zenon DEF normalize_fqdn, name
  <1>9. ~(n > MaxLabels)
    BY <1>1, MaxLabelsAssumption DEF GLOBAL_RANK
  <1> HIDE DEF name
  <1> QED BY <1>5, <1>6, <1>7, <1>8, <1>9 DEF InvalidFqdn

\* What is asked for is asked for as it is, and hashes to a bucket.
LEMMA AskedAs ==
  ASSUME NEW f \in askedFqdn1 \cup askedFqdn2, IsAskable(f)
  PROVE  /\ normalize_fqdn(Raw(f)) = f /\ f # InvalidFqdn
         /\ f \in askedFqdn1 => bucket_index_of(f, NumBuckets) \in 0..NumBuckets-1
  <1>1. normalize_fqdn(Raw(f)) = f /\ f # InvalidFqdn
    BY NormalIs, NamesAssumption
  <1>2. ASSUME f \in askedFqdn1 PROVE bucket_index_of(f, NumBuckets) \in 0..NumBuckets-1
    <2>1. PICK c \in Nat : c = Crc32[f]
      BY <1>2, NamesAssumption
    <2>2. c \in Int /\ NumBuckets \in Nat \ {0}
      BY WorkloadAssumption
    <2>3. c % NumBuckets \in 0..NumBuckets-1
      BY <2>2, ModBounds
    <2> QED BY <2>1, <2>2, <2>3 DEF bucket_index_of
  <1> QED BY <1>1, <1>2

\* Lists with the same entries are equal.
LEMMA SameEntries ==
  ASSUME NEW S, NEW s \in Seq(S), NEW t \in Seq(S), Len(s) = Len(t),
         \A i \in 1..Len(s) : s[i] = t[i]
  PROVE  s = t
  <1>1. s = [i \in 1..Len(s) |-> s[i]] /\ t = [i \in 1..Len(t) |-> t[i]]
    OBVIOUS
  <1>2. [i \in 1..Len(s) |-> s[i]] = [i \in 1..Len(t) |-> t[i]]
    OBVIOUS
  <1> QED BY <1>1, <1>2

\* The names asked for have two to five labels.
LEMMA TwoLabels ==
  ASSUME NEW a, NEW b
  PROVE  IsAskable(<<a, b>>) /\ Len(<<a, b>>) = 2
  <1> DEFINE S == {a, b}
  <1>1. <<a, b>> \in Seq(S) /\ Len(<<a, b>>) = 2
    OBVIOUS
  <1> HIDE DEF S
  <1> QED BY <1>1 DEF IsAskable

LEMMA ThreeLabels ==
  ASSUME NEW a, NEW b, NEW c
  PROVE  IsAskable(<<a, b, c>>) /\ Len(<<a, b, c>>) = 3
  <1> DEFINE S == {a, b, c}
  <1>1. <<a, b, c>> \in Seq(S) /\ Len(<<a, b, c>>) = 3
    OBVIOUS
  <1> HIDE DEF S
  <1> QED BY <1>1 DEF IsAskable

LEMMA FourLabels ==
  ASSUME NEW a, NEW b, NEW c, NEW d
  PROVE  IsAskable(<<a, b, c, d>>) /\ Len(<<a, b, c, d>>) = 4
  <1> DEFINE S == {a, b, c, d}
  <1>1. <<a, b, c, d>> \in Seq(S) /\ Len(<<a, b, c, d>>) = 4
    OBVIOUS
  <1> HIDE DEF S
  <1> QED BY <1>1 DEF IsAskable

LEMMA FiveLabels ==
  ASSUME NEW a, NEW b, NEW c, NEW d, NEW e
  PROVE  IsAskable(<<a, b, c, d, e>>) /\ Len(<<a, b, c, d, e>>) = 5
  <1> DEFINE S == {a, b, c, d, e}
  <1>1. <<a, b, c, d, e>> \in Seq(S) /\ Len(<<a, b, c, d, e>>) = 5
    OBVIOUS
  <1> HIDE DEF S
  <1> QED BY <1>1 DEF IsAskable

\* A label in front of four.
LEMMA OneInFront ==
  ASSUME NEW a, NEW b, NEW c, NEW d, NEW e
  PROVE  <<a>> \o <<b, c, d, e>> = <<a, b, c, d, e>>
  <1> DEFINE S == {a, b, c, d, e}
             s == <<a>> \o <<b, c, d, e>>
             t == <<a, b, c, d, e>>
  <1>1. <<a>> \in Seq(S) /\ <<b, c, d, e>> \in Seq(S) /\ t \in Seq(S)
    OBVIOUS
  <1>2. s \in Seq(S)
    <2> HIDE DEF S
    <2> QED BY <1>1
  <1>3. Len(<<a>>) = 1 /\ Len(<<b, c, d, e>>) = 4 /\ Len(t) = 5
    OBVIOUS
  <1>4. Len(s) = 5
    <2> HIDE DEF S
    <2> QED BY <1>1, <1>3
  <1>5. s[1] = a
    <2> HIDE DEF S
    <2> QED BY <1>1, <1>3
  <1>6. \A i \in 2..5 : s[i] = <<b, c, d, e>>[i-1]
    <2> HIDE DEF S
    <2> QED BY <1>1, <1>3
  <1>7. s[2] = b /\ s[3] = c /\ s[4] = d /\ s[5] = e
    <2>1. /\ <<b, c, d, e>>[2-1] = b /\ <<b, c, d, e>>[3-1] = c
          /\ <<b, c, d, e>>[4-1] = d /\ <<b, c, d, e>>[5-1] = e
      OBVIOUS
    <2> HIDE DEF s
    <2> QED BY <1>6, <2>1
  <1>8. t[1] = a /\ t[2] = b /\ t[3] = c /\ t[4] = d /\ t[5] = e
    OBVIOUS
  <1>9. \A i \in 1..5 : i = 1 \/ i = 2 \/ i = 3 \/ i = 4 \/ i = 5
    OBVIOUS
  <1>10. \A i \in 1..Len(s) : s[i] = t[i]
    <2> HIDE DEF s, t
    <2> QED BY <1>4, <1>5, <1>7, <1>8, <1>9
  <1> HIDE DEF s, t, S
  <1>11. Len(s) = Len(t)
    BY <1>3, <1>4 DEF t
  <1>12. s = t
    BY ONLY <1>1, <1>2, <1>10, <1>11, SameEntries
  <1> QED BY <1>12 DEF s, t

\* What is left behind a first label.
LEMMA BehindFirst ==
  ASSUME NEW S, NEW f \in Seq(S), NEW g \in Seq(S), Len(f) = Len(g) + 1,
         \A i \in 1..Len(g) : f[i+1] = g[i]
  PROVE  SubSeq(f, 2, Len(f)) = g
  <1> DEFINE n == Len(f)
             s == SubSeq(f, 2, n)
  <1>1. n \in Nat /\ Len(g) \in Nat /\ n = Len(g) + 1
    OBVIOUS
  <1>2. s \in Seq(S) /\ Len(s) = Len(g)
    BY <1>1
  <1>3. \A i \in 1..Len(s) : s[i] = g[i]
    <2> SUFFICES ASSUME NEW i \in 1..Len(g) PROVE s[i] = g[i]
      BY <1>2
    <2>1. s[i] = f[i+1]
      BY <1>1
    <2> QED BY <2>1
  <1> HIDE DEF s
  <1>4. s = g
    BY ONLY <1>2, <1>3, SameEntries, g \in Seq(S)
  <1> QED BY <1>4 DEF s

LEMMA LastOfTwo ==
  ASSUME NEW a, NEW b
  PROVE  SubSeq(<<a, b>>, 2, 2) = <<b>>
  <1> DEFINE S == {a, b}
             f == <<a, b>>
             g == <<b>>
  <1>1. f \in Seq(S) /\ g \in Seq(S) /\ Len(f) = 2 /\ Len(g) = 1
    OBVIOUS
  <1>2. f[1+1] = g[1]
    OBVIOUS
  <1>3. \A i \in 1..1 : i = 1
    OBVIOUS
  <1> HIDE DEF f, g, S
  <1>4. SubSeq(f, 2, 2) = g
    BY <1>1, <1>2, <1>3, BehindFirst
  <1> QED BY <1>4 DEF f, g

LEMMA LastOfFour ==
  ASSUME NEW a, NEW b, NEW c, NEW d
  PROVE  SubSeq(<<a, b, c, d>>, 2, 4) = <<b, c, d>>
  <1> DEFINE S == {a, b, c, d}
             f == <<a, b, c, d>>
             g == <<b, c, d>>
  <1>1. f \in Seq(S) /\ g \in Seq(S) /\ Len(f) = 4 /\ Len(g) = 3
    OBVIOUS
  <1>2. f[1+1] = g[1] /\ f[2+1] = g[2] /\ f[3+1] = g[3]
    OBVIOUS
  <1>3. \A i \in 1..3 : i = 1 \/ i = 2 \/ i = 3
    OBVIOUS
  <1> HIDE DEF f, g, S
  <1>4. SubSeq(f, 2, 4) = g
    BY <1>1, <1>2, <1>3, BehindFirst
  <1> QED BY <1>4 DEF f, g

LEMMA LastOfFive ==
  ASSUME NEW a, NEW b, NEW c, NEW d, NEW e
  PROVE  SubSeq(<<a, b, c, d, e>>, 2, 5) = <<b, c, d, e>>
  <1> DEFINE S == {a, b, c, d, e}
             f == <<a, b, c, d, e>>
             g == <<b, c, d, e>>
  <1>1. f \in Seq(S) /\ g \in Seq(S) /\ Len(f) = 5 /\ Len(g) = 4
    OBVIOUS
  <1>2. f[1+1] = g[1] /\ f[2+1] = g[2] /\ f[3+1] = g[3] /\ f[4+1] = g[4]
    OBVIOUS
  <1>3. \A i \in 1..4 : i = 1 \/ i = 2 \/ i = 3 \/ i = 4
    OBVIOUS
  <1> HIDE DEF f, g, S
  <1>4. SubSeq(f, 2, 5) = g
    BY <1>1, <1>2, <1>3, BehindFirst
  <1> QED BY <1>4 DEF f, g

\* The second candidate leaves one label open, and no other does; the last is
\* the bare star, and no other is.
LEMMA CandidatesOfName ==
  ASSUME NEW f, IsAskable(f), NEW mode, NEW b, b = field_candidates(f, mode)
  PROVE  /\ 2 \in DOMAIN b /\ b[2].pattern = Wild(SubSeq(f, 2, Len(f)))
         /\ \A g : \A i \in DOMAIN b : b[i].pattern = Wild(g) /\ Len(g) = Len(f) - 1 => i = 2
         /\ \A g : \A i \in DOMAIN b : b[i].pattern = Wild(g) => Len(g) <= Len(f) - 1
         /\ \E k \in DOMAIN b : \A i \in DOMAIN b : b[i].pattern = Star <=> i = k
         /\ DOMAIN b \subseteq Nat
  <1> DEFINE n == Len(f)
             last == deepest(n, mode) + 2
  <1>1. PICK S : f \in Seq(S) /\ n \in Nat /\ n >= 2
    <2>1. PICK S : f \in Seq(S) /\ Len(f) >= 2
      BY DEF IsAskable
    <2> QED BY <2>1
  <1>2. last \in Nat /\ last >= 3 /\ last <= n + 1
    BY <1>1 DEF deepest
  <1>3. DOMAIN b = 1..last
    BY DEF field_candidates
  <1>4. \A i \in 1..last : b[i].pattern = CASE i = 1 -> Exact(f)
                                            [] i = last -> Star
                                            [] OTHER -> Wild(SubSeq(f, i, n))
    BY DEF field_candidates
  <1>5. \A g : Exact(g) # Star /\ Wild(g) # Star /\ \A h : Exact(h) # Wild(g)
    BY DEF Exact, Wild, Star
  <1>6. \A i \in 2..n : Len(SubSeq(f, i, n)) = n - i + 1
    BY <1>1
  <1> HIDE DEF last, n
  <1>7. b[1].pattern = Exact(f) /\ b[last].pattern = Star /\ 1 \in 1..last /\ last \in 1..last
    BY <1>2, <1>4
  <1>8. \A i \in 1..last : i # 1 /\ i # last => i \in 2..n /\ b[i].pattern = Wild(SubSeq(f, i, n))
    BY <1>1, <1>2, <1>4
  <1>9. b[2].pattern = Wild(SubSeq(f, 2, n)) /\ 2 \in 1..last
    BY <1>2, <1>8
  <1>10. ASSUME NEW g, NEW i \in 1..last, b[i].pattern = Wild(g)
         PROVE  Len(g) <= n - 1 /\ (Len(g) = n - 1 => i = 2)
    <2>1. i # 1 /\ i # last
      BY <1>5, <1>7, <1>10
    <2>2. i \in 2..n /\ Wild(SubSeq(f, i, n)) = Wild(g)
      BY <1>8, <1>10, <2>1
    <2>3. SubSeq(f, i, n) = g
      BY <2>2 DEF Wild
    <2>4. Len(g) = n - i + 1
      BY <1>6, <2>2, <2>3
    <2> QED BY <1>1, <2>2, <2>4
  <1>11. \A i \in 1..last : b[i].pattern = Star <=> i = last
    BY <1>5, <1>7, <1>8
  <1>12. 1..last \subseteq Nat
    BY <1>2
  <1>13. \E k \in DOMAIN b : \A i \in DOMAIN b : b[i].pattern = Star <=> i = k
    BY <1>3, <1>7, <1>11
  <1>14. /\ \A g : \A i \in DOMAIN b : b[i].pattern = Wild(g) /\ Len(g) = n - 1 => i = 2
         /\ \A g : \A i \in DOMAIN b : b[i].pattern = Wild(g) => Len(g) <= n - 1
    BY <1>3, <1>10, Zenon
  <1>15. 2 \in DOMAIN b /\ DOMAIN b \subseteq Nat
    BY <1>3, <1>9, <1>12
  <1> QED BY <1>9, <1>13, <1>14, <1>15 DEF n

\* The pattern leaves the name's first label open, or everything.
Opens(pattern, f) == pattern = Star \/ pattern = Wild(SubSeq(f, 2, Len(f)))

LEMMA OneCandidate ==
  ASSUME NEW f, IsAskable(f), NEW pattern, Opens(pattern, f), NEW mode
  PROVE  \E k \in DOMAIN field_candidates(f, mode) : \A i \in DOMAIN field_candidates(f, mode) :
           field_candidates(f, mode)[i].pattern = pattern <=> i = k
  <1>1. PICK b : b = field_candidates(f, mode)
    OBVIOUS
  <1>2. CASE pattern = Star
    BY <1>1, <1>2, CandidatesOfName
  <1>3. CASE pattern = Wild(SubSeq(f, 2, Len(f)))
    <2>1. Len(SubSeq(f, 2, Len(f))) = Len(f) - 1
      <3>1. PICK S : f \in Seq(S) /\ Len(f) >= 2
        BY DEF IsAskable
      <3> QED BY <3>1
    <2>2. /\ 2 \in DOMAIN b /\ b[2].pattern = pattern
          /\ \A i \in DOMAIN b : b[i].pattern = pattern => i = 2
      BY <1>1, <1>3, <2>1, CandidatesOfName
    <2> QED BY <1>1, <2>2
  <1> QED BY <1>2, <1>3 DEF Opens

-----------------------------------------------------------------------------
(* The workload: what a query finds *)

\* A key names its pattern.
LEMMA KeyNames ==
  ASSUME NEW n, NEW tag, NEW i, NEW pattern, NEW port, NEW x, x = key(n, tag, i, pattern, port)
  PROVE  x[Len(x) - 1] = pattern
  <1>1. CASE x = <<Token[n][i], tag, i, pattern, port>>
    BY <1>1
  <1>2. CASE x = <<tag, pattern, port>>
    BY <1>2
  <1> QED BY <1>1, <1>2 DEF key

\* The rule of a cell has the key's pattern.
LEMMA CellNames ==
  ASSUME NEW n, NEW tag, NEW i, NEW pattern, NEW port, NEW field,
         NEW rulePattern, NEW rulePort, NEW ruleField,
         <<key(n, tag, i, pattern, port), field>> \in cells(n, rulePattern, rulePort, ruleField)
  PROVE  rulePattern = pattern /\ ruleField = field
  <1>1. PICK x : x = key(n, tag, i, pattern, port)
    OBVIOUS
  <1>2. PICK j \in DOMAIN keys_for_pattern(n, rulePattern, rulePort) :
          <<x, field>> = <<keys_for_pattern(n, rulePattern, rulePort)[j], ruleField>>
    BY <1>1 DEF cells
  <1>3. \E t, b : x = key(n, t, b, rulePattern, rulePort)
    BY <1>2 DEF keys_for_pattern
  <1>4. x = keys_for_pattern(n, rulePattern, rulePort)[j] /\ field = ruleField
    BY <1>2
  <1>5. x[Len(x) - 1] = pattern
    BY <1>1, KeyNames
  <1>6. x[Len(x) - 1] = rulePattern
    BY <1>3, KeyNames
  <1> QED BY <1>4, <1>5, <1>6

\* The key a query reads is one the rule was written under.
LEMMA ReadKeyIsWritten ==
  ASSUME NEW n \in Nat \ {0}, NEW b \in 0..n-1, NEW p, NEW port, NEW f2
  PROVE  <<key(n, hash_tag(p), b, p, port), f2>> \in cells(n, p, port, f2)
  <1> DEFINE tag == hash_tag(p)
             keys == keys_for_pattern(n, p, port)
  <1>1. CASE is_bucketed_tag(tag) /\ n > 1
    <2>1. keys = [i \in 1..n |-> key(n, tag, i - 1, p, port)]
      BY <1>1 DEF keys_for_pattern
    <2>2. b + 1 \in DOMAIN keys /\ keys[b + 1] = key(n, tag, b, p, port)
      <3>1. b + 1 \in 1..n /\ (b + 1) - 1 = b
        OBVIOUS
      <3> HIDE DEF keys
      <3> QED BY <2>1, <3>1
    <2> HIDE DEF keys
    <2> QED BY <2>2 DEF cells, keys
  <1>2. CASE ~(is_bucketed_tag(tag) /\ n > 1)
    <2>1. keys = <<key(n, tag, 0, p, port)>> /\ key(n, tag, 0, p, port) = key(n, tag, b, p, port)
      BY <1>2 DEF keys_for_pattern, key
    <2>2. 1 \in DOMAIN keys /\ keys[1] = key(n, tag, b, p, port)
      BY <2>1
    <2> HIDE DEF keys
    <2> QED BY <2>2 DEF cells, keys
  <1> QED BY <1>1, <1>2

\* The field a pair of candidates is looked for in.
FieldAt(f1, port, f2, mode, p) ==
  LET pattern == field_candidates(f1, mode)[p[1]].pattern
  IN  <<key(NumBuckets, hash_tag(pattern), bucket_index_of(f1, NumBuckets), pattern, port),
        field_candidates(f2, mode)[p[2]].pattern>>

LEMMA FoundInField ==
  ASSUME NEW f1, NEW port, NEW f2, NEW mode, NEW p \in Pairs(f1, f2, mode)
  PROVE  /\ p[1] \in DOMAIN field_candidates(f1, mode) /\ p[2] \in DOMAIN field_candidates(f2, mode)
         /\ p = <<p[1], p[2]>>
         /\ FoundAt(f1, port, f2, mode, p) =
              IF FieldAt(f1, port, f2, mode, p) \in DOMAIN db
              THEN db[FieldAt(f1, port, f2, mode, p)] ELSE NoRule
  <1> DEFINE fields == field_candidates(f1, mode)
             b == field_candidates(f2, mode)
             a == candidates(f1, mode, NumBuckets)
  <1>1. DOMAIN a = DOMAIN fields
    BY DEF candidates
  <1>2. p[1] \in DOMAIN fields /\ p[2] \in DOMAIN b /\ p = <<p[1], p[2]>>
    <2>1. \A A, B : p \in A \X B => p = <<p[1], p[2]>> /\ p[1] \in A /\ p[2] \in B
      OBVIOUS
    <2>2. p \in (DOMAIN a) \X (DOMAIN b)
      BY DEF Pairs
    <2> HIDE DEF a, b, fields
    <2> QED BY <1>1, <2>1, <2>2
  <1>3. a[p[1]] = candidate(fields[p[1]], bucket_index_of(f1, NumBuckets))
    <2> HIDE DEF fields
    <2> QED BY <1>2 DEF candidates, fields
  <1>4. /\ a[p[1]].tag = hash_tag(fields[p[1]].pattern)
        /\ a[p[1]].pattern = fields[p[1]].pattern
        /\ a[p[1]].bucket_index = bucket_index_of(f1, NumBuckets)
    <2> HIDE DEF a, fields
    <2> QED BY <1>3 DEF candidate
  <1>5. FoundAt(f1, port, f2, mode, p) =
          hget(db, key(NumBuckets, a[p[1]].tag, a[p[1]].bucket_index, a[p[1]].pattern, port),
               b[p[2]].pattern)
    BY DEF FoundAt, found
  <1> HIDE DEF a, b, fields
  <1>6. <<key(NumBuckets, a[p[1]].tag, a[p[1]].bucket_index, a[p[1]].pattern, port),
          b[p[2]].pattern>> = FieldAt(f1, port, f2, mode, p)
    BY <1>4 DEF FieldAt, fields, b
  <1> QED BY <1>2, <1>5, <1>6 DEF hget, fields, b

\* The pair of candidates is rule j's two patterns.
PairOfRule(f1, f2, mode, p, j) ==
  /\ field_candidates(f1, mode)[p[1]].pattern = ruleForIndex(j).fqdn1
  /\ field_candidates(f2, mode)[p[2]].pattern = Wild(<<Name("dest", j), "example", "com">>)

\* A pair that finds anything is a loaded rule's.
LEMMA FoundIsRule ==
  ASSUME Loaded, NEW f1, NEW port, NEW f2, NEW mode, NEW p \in Pairs(f1, f2, mode),
         FoundAt(f1, port, f2, mode, p) # NoRule
  PROVE  \E j \in 0..NumRules-1 : PairOfRule(f1, f2, mode, p, j)
  <1>1. FieldAt(f1, port, f2, mode, p) \in DOMAIN db
    BY FoundInField
  <1>2. PICK j \in 0..NumRules-1 : FieldAt(f1, port, f2, mode, p) \in CellsOfRule(j)
    BY <1>1 DEF Loaded
  <1>3. /\ ruleForIndex(j).fqdn1 = field_candidates(f1, mode)[p[1]].pattern
        /\ ruleForIndex(j).fqdn2 = field_candidates(f2, mode)[p[2]].pattern
    BY <1>2, CellNames DEF CellsOfRule, FieldAt
  <1> QED BY <1>3, RuleIs DEF PairOfRule

\* A query of a rule's own names finds that rule under one pair, and nothing
\* under any other.
LEMMA HitAtRule ==
  ASSUME Loaded, NEW i \in 0..NumRules-1, NEW f1, IsAskable(f1),
         Opens(ruleForIndex(i).fqdn1, f1), bucket_index_of(f1, NumBuckets) \in 0..NumBuckets-1,
         NEW f2, f2 = <<"probe", Name("dest", i), "example", "com">>, NEW mode
  PROVE  \E p \in Pairs(f1, f2, mode) :
           /\ p[2] \in Nat
           /\ FoundAt(f1, portOf(i), f2, mode, p) = ValueOfRule(i)
           /\ \A q \in Pairs(f1, f2, mode) :
                q # p => FoundAt(f1, portOf(i), f2, mode, q) = NoRule
  <1> DEFINE a == field_candidates(f1, mode)
             b == field_candidates(f2, mode)
             dest(j) == <<Name("dest", j), "example", "com">>
  <1>1. PICK k \in DOMAIN a : \A j \in DOMAIN a : a[j].pattern = ruleForIndex(i).fqdn1 <=> j = k
    BY OneCandidate
  <1>2. IsAskable(f2) /\ Len(f2) = 4 /\ SubSeq(f2, 2, Len(f2)) = dest(i)
    BY FourLabels, LastOfFour
  <1>3. /\ 2 \in DOMAIN b /\ b[2].pattern = Wild(dest(i))
        /\ \A g : \A j \in DOMAIN b : b[j].pattern = Wild(g) /\ Len(g) = 3 => j = 2
    <2>1. /\ 2 \in DOMAIN b /\ b[2].pattern = Wild(SubSeq(f2, 2, Len(f2)))
          /\ \A g : \A j \in DOMAIN b : b[j].pattern = Wild(g) /\ Len(g) = Len(f2) - 1 => j = 2
      <3>1. b = field_candidates(f2, mode)
        OBVIOUS
      <3> HIDE DEF b
      <3> QED BY ONLY <1>2, <3>1, CandidatesOfName
    <2>2. Len(f2) - 1 = 3
      BY <1>2
    <2> HIDE DEF b, dest
    <2> QED BY <1>2, <2>1, <2>2
  <1>4. <<k, 2>> \in Pairs(f1, f2, mode)
    BY <1>1, <1>3 DEF Pairs, candidates
  <1> DEFINE p == <<k, 2>>
  <1>5. p[1] = k /\ p[2] = 2
    OBVIOUS
  <1>6. FieldAt(f1, portOf(i), f2, mode, p) \in CellsOfRule(i)
    <2>1. FieldAt(f1, portOf(i), f2, mode, p) =
            <<key(NumBuckets, hash_tag(ruleForIndex(i).fqdn1), bucket_index_of(f1, NumBuckets),
                  ruleForIndex(i).fqdn1, portOf(i)), ruleForIndex(i).fqdn2>>
      <3>1. a[k].pattern = ruleForIndex(i).fqdn1
        BY <1>1
      <3>2. b[2].pattern = ruleForIndex(i).fqdn2
        BY <1>3, RuleIs
      <3> HIDE DEF p
      <3> QED BY <1>5, <3>1, <3>2 DEF FieldAt
    <2>2. ruleForIndex(i).port = portOf(i) /\ NumBuckets \in Nat \ {0}
      BY RuleIs, WorkloadAssumption
    <2> QED BY <2>1, <2>2, ReadKeyIsWritten DEF CellsOfRule
  <1>7. FoundAt(f1, portOf(i), f2, mode, p) = ValueOfRule(i)
    BY <1>4, <1>6, FoundInField DEF Loaded
  <1>8. ASSUME NEW q \in Pairs(f1, f2, mode), FoundAt(f1, portOf(i), f2, mode, q) # NoRule
        PROVE  q = p
    <2>a. PICK j \in 0..NumRules-1 : PairOfRule(f1, f2, mode, q, j)
      BY <1>8, FoundIsRule
    <2>1. a[q[1]].pattern = ruleForIndex(j).fqdn1 /\ b[q[2]].pattern = Wild(dest(j))
      BY <2>a DEF PairOfRule
    <2>2. q[1] \in DOMAIN a /\ q[2] \in DOMAIN b /\ q = <<q[1], q[2]>>
      BY <1>8, FoundInField
    <2>3. Len(dest(j)) = 3
      OBVIOUS
    <2>4. q[2] = 2
      <3> HIDE DEF dest, b
      <3> QED BY <1>3, <2>1, <2>2, <2>3
    <2>5. dest(j) = dest(i)
      <3> HIDE DEF dest, b
      <3> QED BY <1>3, <2>1, <2>4 DEF Wild
    <2>6. j = i
      <3>1. Name("dest", j) = Name("dest", i)
        BY <2>5
      <3> QED BY <3>1, NamesAssumption
    <2>7. q[1] = k
      BY <1>1, <2>1, <2>2, <2>6
    <2> QED BY <2>2, <2>4, <2>7
  <1>9. p[2] \in Nat
    OBVIOUS
  <1> HIDE DEF p
  <1> QED BY <1>4, <1>7, <1>8, <1>9 DEF p

\* A name of two labels finds nothing: every rule's second name has three.
LEMMA ShortNameMisses ==
  ASSUME Loaded, NEW f1, NEW port, NEW f2, IsAskable(f2), Len(f2) = 2, NEW mode,
         NEW p \in Pairs(f1, f2, mode)
  PROVE  FoundAt(f1, port, f2, mode, p) = NoRule
  <1> SUFFICES ASSUME FoundAt(f1, port, f2, mode, p) # NoRule PROVE FALSE
    OBVIOUS
  <1>1. PICK j \in 0..NumRules-1 : PairOfRule(f1, f2, mode, p, j)
    BY FoundIsRule
  <1>2. PICK g : g = <<Name("dest", j), "example", "com">>
    OBVIOUS
  <1>3. Len(g) = 3
    BY <1>2
  <1>4. Len(g) <= Len(f2) - 1
    <2>1. p[2] \in DOMAIN field_candidates(f2, mode)
      BY FoundInField
    <2>2. field_candidates(f2, mode)[p[2]].pattern = Wild(g)
      BY <1>1, <1>2 DEF PairOfRule
    <2> QED BY <2>1, <2>2, CandidatesOfName
  <1> QED BY <1>3, <1>4

-----------------------------------------------------------------------------
(* The workload: rules and their queries *)

\* A rule's place in its tier.
LEMMA TierIs ==
  ASSUME LayoutInv, phase = "query", NEW i \in 0..NumRules-1
  PROVE  \/ Tier(i) = [tier |-> "global", index |-> i]
         \/ \E j \in 0..NumRules-1 : Tier(i) = [tier |-> "tld", index |-> j]
         \/ \E j \in Nat : /\ Tier(i) = [tier |-> "apex", index |-> j]
                           /\ KeyForRule(j) \in 0..NumRules-1
  <1>1. /\ validateRuleMixRates(rates) /\ sizes \in Seq(Nat \ {0})
        /\ prefix[Len(sizes)] = mix.apex
    BY DEF LayoutInv, Laid, Writes
  <1>2. /\ mix.global \in Nat /\ mix.tld \in Nat /\ mix.apex \in Nat
        /\ mix.global + mix.tld + mix.apex = NumRules /\ NumRules \in Nat
    BY <1>1, MixIs, WorkloadAssumption
  <1>3. CASE i < mix.global
    BY <1>3 DEF Tier
  <1>4. CASE ~(i < mix.global) /\ i < mix.global + mix.tld
    <2>1. i - mix.global \in 0..NumRules-1
      BY <1>2, <1>4
    <2>2. Tier(i) = [tier |-> "tld", index |-> i - mix.global]
      BY <1>4 DEF Tier
    <2> QED BY <2>1, <2>2
  <1>5. CASE ~(i < mix.global) /\ ~(i < mix.global + mix.tld)
    <2>1. PICK j : j = i - mix.global - mix.tld
      OBVIOUS
    <2>2. j \in Nat /\ j <= NumRules - 1 /\ j < mix.apex
      BY <1>2, <1>5, <2>1
    <2>3. Tier(i) = [tier |-> "apex", index |-> j]
      BY <1>5, <2>1 DEF Tier
    <2>4. KeyForRule(j) \in 0..Len(sizes)-1 /\ KeyForRule(j) <= j
      BY <1>1, <2>2, KeyPlace
    <2>5. Len(sizes) \in Nat
      BY <1>1
    <2>6. KeyForRule(j) \in 0..NumRules-1
      BY <1>2, <2>2, <2>4, <2>5
    <2> QED BY <2>2, <2>3, <2>6
  <1> QED BY <1>3, <1>4, <1>5

LEMMA PortsAreValid ==
  ASSUME LayoutInv, phase = "query", NEW i \in 0..NumRules-1
  PROVE  valid_port(portOf(i))
  <1>1. \A x \in Int : benchPorts[(x % 3) + 1] \in {443, 8443, 80}
    <2> SUFFICES ASSUME NEW x \in Int PROVE benchPorts[(x % 3) + 1] \in {443, 8443, 80}
      OBVIOUS
    <2>1. PICK r \in 0..2 : r = x % 3
      BY ModBounds
    <2>2. r + 1 = 1 \/ r + 1 = 2 \/ r + 1 = 3
      OBVIOUS
    <2>3. benchPorts[1] = 443 /\ benchPorts[2] = 8443 /\ benchPorts[3] = 80
      BY DEF benchPorts
    <2> QED BY <2>1, <2>2, <2>3
  <1>2. portOf(i) \in {443, 8443, 80}
    <2>1. CASE Tier(i).tier # "apex"
      BY <1>1, <2>1 DEF portOf
    <2>2. CASE Tier(i).tier = "apex"
      <3>1. PICK j \in Nat : Tier(i) = [tier |-> "apex", index |-> j]
                             /\ KeyForRule(j) \in 0..NumRules-1
        BY <2>2, TierIs
      <3>2. portOf(i) = keyPort(KeyForRule(j))
        BY <3>1 DEF portOf
      <3>3. KeyForRule(j) \in Int
        BY <3>1
      <3> QED BY <1>1, <3>2, <3>3 DEF keyPort
    <2> QED BY <2>1, <2>2
  <1> QED BY <1>2 DEF valid_port

\* The query made for a rule asks for a name the rule leaves open.
LEMMA QueryNames ==
  ASSUME LayoutInv, phase = "query", NEW i \in 0..NumRules-1
  PROVE  \E f1 \in askedFqdn1 :
           /\ matchingQueryForIndex(i).fqdn1 = Raw(f1)
           /\ IsAskable(f1) /\ Opens(ruleForIndex(i).fqdn1, f1)
  <1>1. CASE Tier(i) = [tier |-> "global", index |-> i]
    <2> DEFINE f1 == <<Name("probe", i), "global-bench", "invalid">>
    <2>1. Tier(i).tier = "global"
      BY <1>1
    <2>2. matchingQueryForIndex(i).fqdn1 = Raw(f1) /\ ruleForIndex(i).fqdn1 = Star
      BY <2>1 DEF matchingQueryForIndex, ruleForIndex
    <2>3. f1 \in askedFqdn1
      BY DEF askedFqdn1
    <2>4. IsAskable(f1)
      BY ThreeLabels
    <2> HIDE DEF f1
    <2> QED BY <2>2, <2>3, <2>4 DEF Opens
  <1>2. ASSUME NEW j \in 0..NumRules-1, Tier(i) = [tier |-> "tld", index |-> j]
        PROVE  \E f1 \in askedFqdn1 :
                 /\ matchingQueryForIndex(i).fqdn1 = Raw(f1)
                 /\ IsAskable(f1) /\ Opens(ruleForIndex(i).fqdn1, f1)
    <2> DEFINE f1 == <<Name("probe", i), syntheticTld(j)>>
    <2>1. Tier(i).tier = "tld" /\ Tier(i).index = j
      BY <1>2
    <2>2. matchingQueryForIndex(i).fqdn1 = Raw(f1)
      BY <2>1 DEF matchingQueryForIndex
    <2>3. ruleForIndex(i).fqdn1 = Wild(<<syntheticTld(j)>>)
      BY <2>1 DEF ruleForIndex
    <2>4. f1 \in askedFqdn1
      BY DEF askedFqdn1
    <2>5. IsAskable(f1) /\ SubSeq(f1, 2, Len(f1)) = <<syntheticTld(j)>>
      BY TwoLabels, LastOfTwo
    <2> HIDE DEF f1
    <2> QED BY <2>2, <2>3, <2>4, <2>5 DEF Opens
  <1>3. ASSUME NEW j \in Nat, Tier(i) = [tier |-> "apex", index |-> j],
               KeyForRule(j) \in 0..NumRules-1
        PROVE  \E f1 \in askedFqdn1 :
                 /\ matchingQueryForIndex(i).fqdn1 = Raw(f1)
                 /\ IsAskable(f1) /\ Opens(ruleForIndex(i).fqdn1, f1)
    <2>1. PICK k \in 0..NumRules-1 : k = KeyForRule(j)
      BY <1>3
    <2> DEFINE f1 == <<"probe">> \o keyLabels(k)
    <2>2. Tier(i).tier = "apex" /\ Tier(i).index = j
      BY <1>3
    <2>3. matchingQueryForIndex(i).fqdn1 = Raw(f1)
      BY <2>1, <2>2 DEF matchingQueryForIndex
    <2>4. ruleForIndex(i).fqdn1 = Wild(keyLabels(k))
      BY <2>1, <2>2 DEF ruleForIndex
    <2>5. f1 \in askedFqdn1
      BY DEF askedFqdn1
    <2>6. PICK b, c, d, e : keyLabels(k) = <<b, c, d, e>>
      BY DEF keyLabels
    <2>7. f1 = <<"probe", b, c, d, e>>
      BY <2>6, OneInFront
    <2> HIDE DEF f1
    <2>8. IsAskable(f1) /\ SubSeq(f1, 2, Len(f1)) = keyLabels(k)
      BY <2>6, <2>7, FiveLabels, LastOfFive
    <2> QED BY <2>3, <2>4, <2>5, <2>8 DEF Opens
  <1> QED BY <1>1, <1>2, <1>3, TierIs

\* A loaded rule is what its query is answered with.
LEMMA RuleIsHit ==
  ASSUME LayoutInv, phase = "query", Loaded, NEW i \in 0..NumRules-1, NEW mode,
         NEW m \in Answers(matchingQueryForIndex(i), mode)
  PROVE  m.reply = "match" /\ m.rule_id = Name("rule:", i)
  <1> DEFINE q == matchingQueryForIndex(i)
             f2 == <<"probe", Name("dest", i), "example", "com">>
             port == portOf(i)
             n == NumBuckets
  <1>1. PICK f1 \in askedFqdn1 :
          q.fqdn1 = Raw(f1) /\ IsAskable(f1) /\ Opens(ruleForIndex(i).fqdn1, f1)
    BY QueryNames
  <1>2. q.fqdn2 = Raw(f2) /\ q.port = port
    BY DEF matchingQueryForIndex
  <1>3. f2 \in askedFqdn2
    BY DEF askedFqdn2
  <1>4. IsAskable(f2)
    BY FourLabels
  <1> HIDE DEF q, f2, port, n
  <1>5. /\ normalize_fqdn(Raw(f1)) = f1 /\ f1 # InvalidFqdn
        /\ bucket_index_of(f1, NumBuckets) \in 0..NumBuckets-1
    BY <1>1, AskedAs
  <1>6. normalize_fqdn(Raw(f2)) = f2 /\ f2 # InvalidFqdn
    BY <1>3, <1>4, AskedAs
  <1>7. valid_port(port)
    BY PortsAreValid DEF port
  <1>8. Accepted(Raw(f1), port, Raw(f2))
    BY <1>5, <1>6, <1>7 DEF Accepted
  <1>9. PICK p \in Pairs(f1, f2, mode) :
          /\ p[2] \in Nat
          /\ FoundAt(f1, port, f2, mode, p) = ValueOfRule(i)
          /\ \A o \in Pairs(f1, f2, mode) :
               o # p => FoundAt(f1, port, f2, mode, o) = NoRule
    BY <1>1, <1>5, HitAtRule DEF f2, port
  <1>10. ValueOfRule(i) # NoRule /\ ValueOfRule(i).scope = "B" /\ ValueOfRule(i).id = Name("rule:", i)
    BY DEF ValueOfRule, NoRule
  <1>11. /\ LuaLookup(db, NumBuckets, Raw(f1), port, Raw(f2), mode) = MatchAt(f1, port, f2, mode, p)
         /\ NoScriptLookup(db, NumBuckets, Raw(f1), port, Raw(f2), mode) = MatchAt(f1, port, f2, mode, p)
    BY <1>5, <1>6, <1>8, <1>9, <1>10, OneHit
  <1>12. m = MatchAt(f1, port, f2, mode, p)
    BY <1>1, <1>2, <1>11 DEF Answers, q
  <1> QED BY <1>9, <1>10, <1>12 DEF MatchAt, Match

\* A miss query is answered by none.
LEMMA NoneIsHit ==
  ASSUME Loaded, NEW k \in 0..2, NEW mode
  PROVE  Answers(missQuery(k, k + 1), mode) = {Miss}
  <1> DEFINE q == missQuery(k, k + 1)
             f1 == <<Name("nomatch", k), Name("junk", k + 1), "invalid">>
             f2 == <<Name("nomatch", k), "invalid">>
  <1>1. q.fqdn1 = Raw(f1) /\ q.fqdn2 = Raw(f2) /\ q.port = 443
    BY DEF missQuery
  <1>2. f1 \in askedFqdn1 /\ f2 \in askedFqdn2
    BY DEF askedFqdn1, askedFqdn2
  <1>3. IsAskable(f1) /\ IsAskable(f2) /\ Len(f2) = 2
    BY TwoLabels, ThreeLabels
  <1> HIDE DEF q, f1, f2
  <1>4. normalize_fqdn(Raw(f1)) = f1 /\ f1 # InvalidFqdn
    BY <1>2, <1>3, AskedAs
  <1>5. normalize_fqdn(Raw(f2)) = f2 /\ f2 # InvalidFqdn
    BY <1>2, <1>3, AskedAs
  <1>6. Accepted(Raw(f1), 443, Raw(f2))
    BY <1>4, <1>5 DEF Accepted, valid_port
  <1>7. \A p \in Pairs(f1, f2, mode) : FoundAt(f1, 443, f2, mode, p) = NoRule
    BY <1>3, ShortNameMisses
  <1>8. /\ LuaLookup(db, NumBuckets, Raw(f1), 443, Raw(f2), mode) = Miss
        /\ NoScriptLookup(db, NumBuckets, Raw(f1), 443, Raw(f2), mode) = Miss
    BY <1>4, <1>5, <1>6, <1>7, NoHit
  <1> QED BY <1>1, <1>8 DEF Answers, q

\* Once the write phase is over every matching query is answered with the rule
\* it was made for, by both kinds of store and in both modes, and a miss query
\* by none: go-benchmark's layout.go, rulemix.go and main.go with the lookups
\* of router.go and store.go.
THEOREM LoadedRulesHit == WorkloadSpec => []LoadedRulesAreHit
  <1> DEFINE IInv == LayoutInv /\ LoadInv
  <1>1. WorkloadInit => IInv
    BY LayoutInit, LoadInit
  <1>2. IInv /\ [WorkloadNext]_workloadVars => IInv'
    BY LayoutStep, LoadStep
  <1>3. IInv => LoadedRulesAreHit
    <2> SUFFICES ASSUME LayoutInv, LoadInv PROVE LoadedRulesAreHit
      OBVIOUS
    <2>1. LayoutPartitionsRules
      BY LayoutIsWhole
    <2>2. ASSUME phase = "query"
          PROVE  totalRules = NumRules /\ Loaded
      BY <2>2, AllAreLoaded
    <2>3. ASSUME phase = "query", NEW mode \in {SINGLE_LEVEL, MULTI_LEVEL}
          PROVE  /\ \A i \in 0..NumRules-1 :
                      \A m \in Answers(matchingQueryForIndex(i), mode) :
                        m.reply = "match" /\ m.rule_id = Name("rule:", i)
                 /\ \A n \in 0..2 : Answers(missQuery(n, n + 1), mode) = {Miss}
      <3>1. Loaded
        BY <2>2, <2>3
      <3>2. ASSUME NEW i \in 0..NumRules-1, NEW m \in Answers(matchingQueryForIndex(i), mode)
            PROVE  m.reply = "match" /\ m.rule_id = Name("rule:", i)
        BY <2>3, <3>1, RuleIsHit
      <3>3. ASSUME NEW n \in 0..2 PROVE Answers(missQuery(n, n + 1), mode) = {Miss}
        BY <3>1, NoneIsHit
      <3> QED BY <3>2, <3>3
    <2> QED BY <2>1, <2>2, <2>3 DEF LoadedRulesAreHit
  <1> QED BY <1>1, <1>2, <1>3, PTL DEF WorkloadSpec
=============================================================================
