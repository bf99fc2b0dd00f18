---------------------------- MODULE ThreadPinning ----------------------------
(***************************************************************************)
(* diagnose_thread_pinning.py: open a batch of connections, all at once    *)
(* behind a barrier ("burst") or one after the other ("stagger"), from one *)
(* shared connection pool or from a client each, and tell from two         *)
(* snapshots of CLIENT LIST on how many server threads they landed.        *)
(***************************************************************************)
EXTENDS Integers, FiniteSets, FiniteSetsExt

CONSTANTS
  NumConnections,   \* --num-connections
  NumTrials,        \* --trials
  ServerThreads,    \* the server's proactor threads
  MaxForeign        \* connections of other programs (bound)

ASSUME PinningAssumption ==
  /\ NumConnections \in Nat \ {0} /\ NumTrials \in Nat \ {0}
  /\ ServerThreads \in Nat \ {0} /\ MaxForeign \in Nat

VARIABLES
  pool_mode,      \* "independent" or "shared"
  timing,         \* "burst" or "stagger"
  even,           \* (external) whether the server hands its threads out in turn
                  \* or gives all connections to one
  has_tid,        \* (external) CLIENT LIST has the field tid
  stage,          \* where the trial is
  trial,          \* the trial, from 1
  task,           \* task[i]: how far the i-th connect of the trial has come
  idle,           \* idle connections of the shared client's pool
  held,           \* connections the trial has checked out, or its clients hold
  clients,        \* what CLIENT LIST would show: connection id -> thread
  next_id,        \* the server's next connection id
  before,         \* ids of the first snapshot
  foreign,        \* history: foreign connections opened so far
  result          \* the CaseResult, and its verdict

pinningVars == <<pool_mode, timing, even, has_tid, stage, trial, task, idle, held,
                 clients, next_id, before, foreign, result>>

Tasks == 1..NumConnections

NoResult == [new |-> 0, tids |-> {}, verdict |-> "none"]

PinningInit ==
  /\ pool_mode \in {"independent", "shared"}
  /\ timing \in {"burst", "stagger"}
  /\ even \in BOOLEAN /\ has_tid \in BOOLEAN
  /\ stage = "before" /\ trial = 1
  /\ task = [i \in Tasks |-> "queued"]
  /\ idle = {} /\ held = {}
  /\ clients = [c \in {0} |-> 0]     \* the observer's own connection
  /\ next_id = 1
  /\ before = {} /\ foreign = 0
  /\ result = NoResult

Minimum2(a, b) == IF a < b THEN a ELSE b

\* (external) The thread the server gives to a connection.
ThreadOf(id) == IF even THEN id % ServerThreads ELSE 0

With(f, x, y) == [z \in DOMAIN f \cup {x} |-> IF z = x THEN y ELSE f[z]]

-----------------------------------------------------------------------------
SnapshotBefore == DOMAIN clients

Snapshot ==
  /\ stage = "before"
  /\ before' = SnapshotBefore
  /\ task' = [i \in Tasks |-> "queued"]
  /\ stage' = "open"
  /\ UNCHANGED <<pool_mode, timing, even, has_tid, trial, idle, held, clients,
                 next_id, foreign, result>>

\* The executor has a thread for every task of a burst.
max_workers == NumConnections

Started == {i \in Tasks : task[i] # "queued"}

\* The executor starts a task, or the loop of a stagger comes to it.
Start(i) ==
  /\ stage = "open" /\ task[i] = "queued"
  /\ \A j \in Tasks : j < i => task[j] # "queued"
  /\ IF timing = "burst" THEN Cardinality({j \in Started : task[j] # "done"}) < max_workers
     ELSE \A j \in Started : task[j] = "done"
  /\ task' = [task EXCEPT ![i] = IF timing = "burst" THEN "barrier" ELSE "connect"]
  /\ UNCHANGED <<pool_mode, timing, even, has_tid, stage, trial, idle, held, clients,
                 next_id, before, foreign, result>>

\* The last task to arrive breaks the barrier.
PassBarrier ==
  /\ stage = "open"
  /\ \A i \in Tasks : task[i] = "barrier"
  /\ task' = [i \in Tasks |-> "connect"]
  /\ UNCHANGED <<pool_mode, timing, even, has_tid, stage, trial, idle, held, clients,
                 next_id, before, foreign, result>>

\* PING on a connection: an idle one of the client's pool, or a new one.
Acquire(i, id, reuse) ==
  /\ stage = "open" /\ task[i] = "connect"
  /\ IF reuse THEN id \in idle /\ clients' = clients /\ next_id' = next_id
     ELSE /\ idle = {} /\ id = next_id /\ next_id' = next_id + 1
          /\ clients' = With(clients, id, ThreadOf(id))

\* A checked-out connection is not given back; an independent client gives its
\* connection back to a pool of which it is the only user.
Connect(i) ==
  \E id \in idle \cup {next_id} :
    /\ Acquire(i, id, id \in idle)
    /\ held' = held \cup {id}
    /\ idle' = idle \ {id}
    /\ task' = [task EXCEPT ![i] = "done"]
    /\ UNCHANGED <<pool_mode, timing, even, has_tid, stage, trial, before, foreign, result>>

\* An exception of one task ends the script, when the executor has waited for
\* the others.
ConnectFails(i) ==
  /\ stage = "open" /\ task[i] = "connect"
  /\ stage' = "crashed"
  /\ UNCHANGED <<pool_mode, timing, even, has_tid, trial, task, idle, held, clients,
                 next_id, before, foreign, result>>

M_verdict_for_four(new, tids) ==
  IF tids = {} THEN "no tid" ELSE IF Cardinality(tids) = 1 THEN "PINNED"
  ELSE IF Cardinality(tids) < 4 THEN "PARTIALLY SPREAD" ELSE "SPREAD"

verdict_for(new, tids) ==
  CASE new = 0 -> "no new connections"
    [] new > 0 /\ tids = {} -> "no tid"
    [] Cardinality(tids) = 1 -> "PINNED"
    [] Cardinality(tids) > 1 /\ Cardinality(tids) < Minimum2(NumConnections, 4) -> "PARTIALLY SPREAD"
    [] OTHER -> "SPREAD"

\* The second snapshot and what differs.
Report ==
  LET new_ids == DOMAIN clients \ before
      tids == IF has_tid THEN {clients[id] : id \in new_ids} ELSE {}
  IN  /\ stage = "open"
      /\ \A i \in Tasks : task[i] = "done"
      /\ result' = [new |-> Cardinality(new_ids), tids |-> tids,
                    verdict |-> verdict_for(Cardinality(new_ids), tids)]
      /\ stage' = "close"
      /\ UNCHANGED <<pool_mode, timing, even, has_tid, trial, task, idle, held, clients,
                     next_id, before, foreign>>

\* The clients are closed; the next trial may take its first snapshot before
\* the server has noticed.
CloseAll ==
  /\ stage = "close"
  /\ held' = {} /\ idle' = {}
  /\ trial' = trial + 1
  /\ stage' = IF trial < NumTrials THEN "before" ELSE "done"
  /\ UNCHANGED <<pool_mode, timing, even, has_tid, task, clients, next_id, before,
                 foreign, result>>

\* (external) The server drops the connections that were closed, and other
\* programs open and close theirs.
Reap ==
  /\ DOMAIN clients # held \cup idle \cup {0}
  /\ clients' = [id \in held \cup idle \cup {0} |-> clients[id]]
  /\ UNCHANGED <<pool_mode, timing, even, has_tid, stage, trial, task, idle, held,
                 next_id, before, foreign, result>>

ForeignConnect ==
  /\ foreign < MaxForeign /\ stage \in {"before", "open"}
  /\ foreign' = foreign + 1
  /\ next_id' = next_id + 1
  /\ clients' = With(clients, next_id, ThreadOf(next_id))
  /\ UNCHANGED <<pool_mode, timing, even, has_tid, stage, trial, task, idle, held,
                 before, result>>

PinningNext ==
  \/ Snapshot \/ PassBarrier \/ Report \/ CloseAll
  \/ \E i \in Tasks : Start(i) \/ Connect(i) \/ ConnectFails(i)
  \/ Reap \/ ForeignConnect

-----------------------------------------------------------------------------
(* Properties *)

\* "each thread borrows a connection from the pool, uses it, and the pool
\* creates a new one if none are idle": as the trial keeps what it borrowed
\* until the second snapshot, that snapshot shows exactly NumConnections new
\* ids, none of them left over from the trial before; what other programs open
\* meanwhile is all that can be counted besides.
TrialCountsItsConnections ==
  stage = "close" =>
    /\ Cardinality(held) = NumConnections
    /\ result.new \in NumConnections .. NumConnections + foreign

\* Burst or stagger, one pool or many: the trial counts its own connections, a
\* server that piles them onto one thread is called pinned, and one that hands
\* its threads out in turn is called spread if it has as many threads as the
\* verdict asks for.
VerdictFitsServer ==
  /\ TrialCountsItsConnections
  /\ (stage = "close" /\ has_tid /\ foreign = 0 /\ NumConnections > 1) =>
       /\ result.verdict = "PINNED" <=> ~even \/ ServerThreads = 1
       /\ even /\ ServerThreads >= Minimum2(NumConnections, 4) => result.verdict = "SPREAD"
=============================================================================
