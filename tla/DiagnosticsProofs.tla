--------------------------- MODULE DiagnosticsProofs --------------------------
(***************************************************************************)
(* The scripts beside the benchmark, for any number of connections,        *)
(* threads, trials, operations and buckets, any checksum, and any disk:    *)
(* what the diagnoses count is their own, the slow queries are set against *)
(* the readings of their time, and the golden file replays.                *)
(***************************************************************************)
EXTENDS MCDiagnostics, SetLemmas

-----------------------------------------------------------------------------
(* Thread pinning: the invariant *)

\* The connects of the trial that have been made.
Connected == {i \in Tasks : task[i] = "done"}

NewIds == DOMAIN clients \ before

PinTypes ==
  /\ stage \in {"before", "open", "close", "done", "crashed"}
  /\ task \in [Tasks -> {"queued", "barrier", "connect", "done"}]
  /\ next_id \in Nat \ {0} /\ foreign \in Nat
  /\ even \in BOOLEAN

\* The pool never has an idle connection, as the trial keeps what it gets.
PinIds ==
  /\ idle = {}
  /\ held \subseteq 1..next_id-1 /\ held \subseteq DOMAIN clients
  /\ 0 \in DOMAIN clients /\ DOMAIN clients \subseteq 0..next_id-1
  /\ \A id \in DOMAIN clients : id # 0 => clients[id] = ThreadOf(id)

\* One connection for every connect, and what is new besides is foreign; without
\* foreign ones the ids of the trial are the server's last.
PinOpen ==
  stage = "open" =>
    /\ before \subseteq 0..next_id-1 /\ 0 \in before /\ held \cap before = {}
    /\ Cardinality(held) = Cardinality(Connected)
    /\ Cardinality(NewIds \ held) <= foreign
    /\ foreign = 0 => \A id \in held : id..next_id-1 \subseteq held

PinInv ==
  PinTypes /\ PinIds /\ PinOpen /\ (stage = "before" => held = {}) /\ VerdictFitsServer

-----------------------------------------------------------------------------

LEMMA TasksAreFinite ==
  /\ IsFiniteSet(Tasks) /\ Cardinality(Tasks) = NumConnections
  /\ IsFiniteSet(Connected)
  <1>1. IsFiniteSet(Tasks) /\ Cardinality(Tasks) = NumConnections
    BY FS_Interval, PinningAssumption DEF Tasks
  <1>2. Connected \in SUBSET Tasks
    BY DEF Connected
  <1> QED BY <1>1, <1>2, FS_Subset

LEMMA IdsAreFinite ==
  ASSUME PinTypes, PinIds
  PROVE  /\ IsFiniteSet(held) /\ Cardinality(held) \in Nat
         /\ IsFiniteSet(NewIds \ held) /\ Cardinality(NewIds \ held) \in Nat
  <1>1. IsFiniteSet(0..next_id-1)
    BY FS_Interval DEF PinTypes
  <1>2. held \in SUBSET (0..next_id-1) /\ NewIds \ held \in SUBSET (0..next_id-1)
    BY DEF PinIds, NewIds
  <1> QED BY <1>1, <1>2, FS_Subset, FS_CardinalityType

LEMMA PinInitInv == PinningInit => PinInv
  <1> SUFFICES ASSUME PinningInit PROVE PinInv
    OBVIOUS
  <1>1. /\ stage = "before" /\ idle = {} /\ held = {} /\ next_id = 1 /\ foreign = 0
        /\ task = [i \in Tasks |-> "queued"] /\ DOMAIN clients = {0} /\ even \in BOOLEAN
    BY DEF PinningInit
  <1>2. PinTypes
    <2>1. even \in BOOLEAN
      BY <1>1, Zenon
    <2>2. task \in [Tasks -> {"queued", "barrier", "connect", "done"}]
      BY <1>1
    <2> QED BY <1>1, <2>1, <2>2 DEF PinTypes
  <1>3. PinIds
    BY <1>1 DEF PinIds
  <1> QED BY <1>1, <1>2, <1>3 DEF PinInv, PinOpen, VerdictFitsServer, TrialCountsItsConnections

LEMMA SnapshotKeepsInv ==
  ASSUME PinInv, Snapshot
  PROVE  PinInv'
  <1>1. /\ stage = "before" /\ held = {} /\ stage' = "open" /\ before' = DOMAIN clients
        /\ task' = [i \in Tasks |-> "queued"]
        /\ UNCHANGED <<even, idle, held, clients, next_id, foreign, result>>
    BY DEF Snapshot, SnapshotBefore, PinInv
  <1>2. PinTypes' /\ PinIds'
    BY <1>1 DEF PinInv, PinTypes, PinIds, ThreadOf
  <1>3. Connected' = {} /\ (NewIds \ held)' = {}
    BY <1>1 DEF Connected, NewIds
  <1>4. PinOpen'
    BY <1>1, <1>3, FS_EmptySet DEF PinInv, PinTypes, PinIds, PinOpen
  <1> QED BY <1>1, <1>2, <1>4 DEF PinInv, VerdictFitsServer, TrialCountsItsConnections

\* Steps towards the connects.
LEMMA WaitingKeepsInv ==
  ASSUME PinInv, NEW i \in Tasks, Start(i) \/ PassBarrier
  PROVE  PinInv'
  <1>1. /\ stage = "open" /\ task' \in [Tasks -> {"queued", "barrier", "connect", "done"}]
        /\ \A j \in Tasks : task'[j] = "done" <=> task[j] = "done"
        /\ UNCHANGED <<even, stage, idle, held, clients, next_id, before, foreign, result>>
    <2>1. task \in [Tasks -> {"queued", "barrier", "connect", "done"}]
      BY DEF PinInv, PinTypes
    <2>2. CASE Start(i)
      BY <2>1, <2>2 DEF Start
    <2>3. CASE PassBarrier
      BY <2>1, <2>3 DEF PassBarrier
    <2> QED BY <2>2, <2>3
  <1>2. PinTypes' /\ PinIds'
    BY <1>1 DEF PinInv, PinTypes, PinIds, ThreadOf
  <1>3. Connected' = Connected /\ NewIds' = NewIds
    BY <1>1 DEF Connected, NewIds
  <1>4. PinOpen'
    BY <1>1, <1>3 DEF PinInv, PinOpen
  <1> QED BY <1>1, <1>2, <1>4 DEF PinInv, VerdictFitsServer, TrialCountsItsConnections

LEMMA ConnectKeepsInv ==
  ASSUME PinInv, NEW i \in Tasks, Connect(i)
  PROVE  PinInv'
  <1>1. /\ stage = "open" /\ task[i] = "connect" /\ next_id' = next_id + 1
        /\ clients' = With(clients, next_id, ThreadOf(next_id))
        /\ held' = held \cup {next_id} /\ idle' = {}
        /\ task' = [task EXCEPT ![i] = "done"]
        /\ UNCHANGED <<even, stage, before, foreign, result>>
    BY DEF Connect, Acquire, PinInv, PinIds
  <1>2. /\ DOMAIN clients' = DOMAIN clients \cup {next_id}
        /\ \A id \in DOMAIN clients' :
             clients'[id] = IF id = next_id THEN ThreadOf(next_id) ELSE clients[id]
        /\ \A id : ThreadOf(id)' = ThreadOf(id)
    BY <1>1 DEF With, ThreadOf
  <1>3. PinTypes'
    BY <1>1 DEF PinInv, PinTypes
  <1>4. PinIds'
    BY <1>1, <1>2 DEF PinInv, PinTypes, PinIds
  <1>5. PinOpen'
    <2>1. next_id \notin held /\ next_id \notin before /\ 0..next_id-1 \subseteq 0..next_id'-1
      BY <1>1 DEF PinInv, PinTypes, PinIds, PinOpen
    <2>2. Connected' = Connected \cup {i} /\ i \notin Connected
      BY <1>1 DEF PinInv, PinTypes, Connected
    <2>3. Cardinality(held') = Cardinality(Connected')
      <3>1. IsFiniteSet(held) /\ IsFiniteSet(Connected) /\ Cardinality(held) = Cardinality(Connected)
        BY <1>1, TasksAreFinite, IdsAreFinite DEF PinInv, PinOpen
      <3>2. Cardinality(held \cup {next_id}) = Cardinality(held) + 1
        BY <2>1, <3>1, FS_AddElement
      <3>3. Cardinality(Connected \cup {i}) = Cardinality(Connected) + 1
        BY <2>2, <3>1, FS_AddElement
      <3> QED BY <1>1, <2>2, <3>1, <3>2, <3>3
    <2>4. (NewIds \ held)' = NewIds \ held
      BY <1>1, <1>2 DEF NewIds, PinInv, PinTypes, PinIds
    <2>5. foreign = 0 => \A id \in held' : id..next_id'-1 \subseteq held'
      <3> SUFFICES ASSUME foreign = 0, NEW id \in held', NEW k \in id..next_id'-1
                   PROVE  k \in held'
        OBVIOUS
      <3>1. CASE id = next_id
        BY <1>1, <3>1 DEF PinInv, PinTypes
      <3>2. CASE id \in held
        BY <1>1, <3>2 DEF PinInv, PinTypes, PinIds, PinOpen
      <3> QED BY <1>1, <3>1, <3>2
    <2> QED BY <1>1, <2>1, <2>3, <2>4, <2>5 DEF PinInv, PinOpen
  <1> QED BY <1>1, <1>3, <1>4, <1>5 DEF PinInv, VerdictFitsServer, TrialCountsItsConnections

LEMMA ForeignKeepsInv ==
  ASSUME PinInv, ForeignConnect
  PROVE  PinInv'
  <1>1. /\ stage \in {"before", "open"} /\ foreign' = foreign + 1 /\ next_id' = next_id + 1
        /\ clients' = With(clients, next_id, ThreadOf(next_id))
        /\ UNCHANGED <<even, stage, task, idle, held, before, result>>
    BY DEF ForeignConnect
  <1>2. /\ DOMAIN clients' = DOMAIN clients \cup {next_id}
        /\ \A id \in DOMAIN clients' :
             clients'[id] = IF id = next_id THEN ThreadOf(next_id) ELSE clients[id]
        /\ \A id : ThreadOf(id)' = ThreadOf(id)
    BY <1>1 DEF With, ThreadOf
  <1>3. PinTypes'
    BY <1>1 DEF PinInv, PinTypes
  <1>4. PinIds'
    BY <1>1, <1>2 DEF PinInv, PinTypes, PinIds
  <1>5. PinOpen'
    <2> SUFFICES ASSUME stage = "open" PROVE PinOpen'
      BY <1>1 DEF PinOpen
    <2>1. foreign' # 0 /\ 0..next_id-1 \subseteq 0..next_id'-1
      BY <1>1 DEF PinInv, PinTypes
    <2>2. Connected' = Connected
      BY <1>1 DEF Connected
    <2>3. (NewIds \ held)' \subseteq (NewIds \ held) \cup {next_id}
      BY <1>1, <1>2 DEF NewIds
    <2>4. /\ Cardinality((NewIds \ held)') \in Nat /\ Cardinality(NewIds \ held) \in Nat
          /\ Cardinality((NewIds \ held)') <= Cardinality(NewIds \ held) + 1
      <3> DEFINE S == NewIds \ held
                 T == (NewIds \ held)'
      <3>1. IsFiniteSet(S) /\ T \subseteq S \cup {next_id}
        BY <2>3, IdsAreFinite DEF PinInv
      <3> HIDE DEF S, T
      <3>2. /\ Cardinality(T) \in Nat /\ Cardinality(S) \in Nat
            /\ Cardinality(T) <= Cardinality(S) + 1
        BY <3>1, AtMostOneMore
      <3> QED BY <3>2 DEF S, T
    <2> QED BY <1>1, <2>1, <2>2, <2>4 DEF PinInv, PinTypes, PinOpen
  <1> QED BY <1>1, <1>3, <1>4, <1>5 DEF PinInv, VerdictFitsServer, TrialCountsItsConnections

LEMMA ReapKeepsInv ==
  ASSUME PinInv, Reap
  PROVE  PinInv'
  <1>1. /\ clients' = [id \in held \cup {0} |-> clients[id]]
        /\ UNCHANGED <<even, has_tid, stage, task, idle, held, next_id, before, foreign, result>>
    BY DEF Reap, PinInv, PinIds
  <1>2. PinTypes' /\ PinIds'
    BY <1>1 DEF PinInv, PinTypes, PinIds, ThreadOf
  <1>3. PinOpen'
    <2> SUFFICES ASSUME stage = "open" PROVE PinOpen'
      BY <1>1 DEF PinOpen
    <2>1. Connected' = Connected /\ (NewIds \ held)' = {}
      BY <1>1 DEF Connected, NewIds, PinInv, PinOpen
    <2>2. Cardinality((NewIds \ held)') = 0
      BY <2>1, FS_EmptySet
    <2> QED BY <1>1, <2>1, <2>2 DEF PinInv, PinTypes, PinOpen
  <1> QED BY <1>1, <1>2, <1>3 DEF PinInv, VerdictFitsServer, TrialCountsItsConnections

LEMMA LeavingKeepsInv ==
  ASSUME PinInv, NEW i \in Tasks, ConnectFails(i) \/ CloseAll
  PROVE  PinInv'
  <1>1. /\ stage' \in {"crashed", "before", "done"}
        /\ UNCHANGED <<even, task, clients, next_id, before, foreign, result>>
        /\ idle' = {} /\ held' \subseteq held /\ (stage' = "before" => held' = {})
    BY DEF ConnectFails, CloseAll, PinInv, PinIds
  <1>2. PinTypes' /\ PinIds'
    BY <1>1 DEF PinInv, PinTypes, PinIds, ThreadOf
  <1> QED BY <1>1, <1>2 DEF PinInv, PinOpen, VerdictFitsServer, TrialCountsItsConnections

\* With connections of its own only, the ids of the trial are the last ones.
LEMMA LastIdsAreHeld ==
  ASSUME PinInv, stage = "open", foreign = 0, Cardinality(held) = NumConnections,
         NEW k \in 1..NumConnections
  PROVE  next_id - k \in held
  <1>1. SUFFICES ASSUME next_id - k \notin held PROVE FALSE
    OBVIOUS
  <1>2. held \subseteq next_id-k+1..next_id-1
    BY <1>1 DEF PinInv, PinTypes, PinIds, PinOpen
  <1>3. PICK a \in Int, b \in Int : a = next_id - k + 1 /\ b = next_id - 1
    BY DEF PinInv, PinTypes
  <1>4. IsFiniteSet(a..b) /\ Cardinality(a..b) = IF a > b THEN 0 ELSE b - a + 1
    BY FS_Interval
  <1>5. Cardinality(held) <= Cardinality(a..b)
    BY <1>2, <1>3, <1>4, FS_Subset
  <1>6. Cardinality(a..b) = k - 1
    BY <1>3, <1>4 DEF PinInv, PinTypes
  <1> QED BY <1>5, <1>6, PinningAssumption

\* The threads of the last m ids, m no more than the server has, are m.
LEMMA ThreadsInTurn ==
  ASSUME NEW T, IsFiniteSet(T), even, NEW last \in Int, NEW m \in Nat, m <= ServerThreads,
         \A k \in 1..m : ThreadOf(last - k) \in T
  PROVE  m <= Cardinality(T)
  <1> DEFINE f == [k \in 1..m |-> ThreadOf(last - k)]
  <1>1. f \in [1..m -> T]
    OBVIOUS
  <1>2. ASSUME NEW j \in 1..m, NEW k \in 1..m, j < k PROVE f[j] # f[k]
    <2>1. PICK a \in Int, b \in Int : a = last - k /\ b = last - j
      OBVIOUS
    <2>2. a < b /\ b < a + ServerThreads
      BY <1>2, <2>1, PinningAssumption
    <2>3. a % ServerThreads # b % ServerThreads
      BY <2>2, NearResiduesDiffer, PinningAssumption
    <2> QED BY <2>1, <2>3 DEF ThreadOf
  <1>3. f \in Injection(1..m, T)
    <2> HIDE DEF f
    <2>1. \A j, k \in 1..m : f[j] = f[k] => j = k
      BY <1>2
    <2> QED BY <1>1, <2>1 DEF Injection, IsInjective
  <1>4. Cardinality(1..m) <= Cardinality(T)
    <2> HIDE DEF f
    <2> QED BY <1>3, FS_Injection
  <1>5. Cardinality(1..m) = m /\ Cardinality(T) \in Nat
    BY FS_Interval, FS_CardinalityType
  <1> QED BY <1>4, <1>5

LEMMA ThreadsExist == \A id \in Int : ThreadOf(id) \in 0..ServerThreads-1
  BY PinningAssumption, ModBounds DEF ThreadOf

LEMMA VerdictOf ==
  ASSUME NEW new \in Nat, new > 0, NEW T, T # {}, Cardinality(T) \in Nat
  PROVE  verdict_for(new, T) =
           IF Cardinality(T) = 1 THEN "PINNED"
           ELSE IF Cardinality(T) > 1 /\ Cardinality(T) < Minimum2(NumConnections, 4)
                THEN "PARTIALLY SPREAD" ELSE "SPREAD"
  <1>1. new # 0
    OBVIOUS
  <1>2. CASE Cardinality(T) = 1
    <2>1. ~(Cardinality(T) > 1)
      BY <1>2
    <2> QED BY <1>1, <1>2, <2>1, Zenon DEF verdict_for
  <1>3. CASE Cardinality(T) # 1
    BY <1>1, <1>3, Zenon DEF verdict_for
  <1> QED BY <1>2, <1>3

LEMMA ReportKeepsInv ==
  ASSUME PinInv, Report
  PROVE  PinInv'
  <1> DEFINE tids == IF has_tid THEN {clients[id] : id \in NewIds} ELSE {}
             new == Cardinality(NewIds)
  <1>1. /\ stage = "open" /\ stage' = "close" /\ \A i \in Tasks : task[i] = "done"
        /\ result' = [new |-> new, tids |-> tids, verdict |-> verdict_for(new, tids)]
        /\ UNCHANGED <<even, has_tid, task, idle, held, clients, next_id, before, foreign>>
    BY DEF Report, NewIds
  <1>2. PinTypes' /\ PinIds' /\ PinOpen'
    BY <1>1 DEF PinInv, PinTypes, PinIds, PinOpen, ThreadOf
  <1>3. Cardinality(held) = NumConnections /\ IsFiniteSet(held)
    <2>1. Connected = Tasks
      BY <1>1 DEF Connected
    <2> QED BY <1>1, <2>1, TasksAreFinite, IdsAreFinite DEF PinInv, PinOpen
  <1>4. /\ IsFiniteSet(NewIds \ held) /\ Cardinality(NewIds \ held) \in 0..foreign
    BY <1>1, IdsAreFinite DEF PinInv, PinTypes, PinOpen
  <1>5. /\ NewIds = held \cup (NewIds \ held)
        /\ new = NumConnections + Cardinality(NewIds \ held)
    <2> DEFINE rest == NewIds \ held
    <2>1. NewIds = held \cup rest /\ held \cap rest = {}
      BY <1>1 DEF NewIds, PinInv, PinIds, PinOpen
    <2>2. Cardinality(held \cap rest) = 0
      BY <2>1, FS_EmptySet
    <2>5. IsFiniteSet(rest) /\ Cardinality(rest) \in Nat
      BY <1>4 DEF PinInv, PinTypes
    <2> HIDE DEF rest
    <2>3. Cardinality(held \cup rest) =
            Cardinality(held) + Cardinality(rest) - Cardinality(held \cap rest)
      BY <1>3, <2>5, FS_Union
    <2>4. new = NumConnections + Cardinality(rest)
      BY <1>3, <2>5, <2>1, <2>2, <2>3, PinningAssumption
    <2> QED BY <2>1, <2>4 DEF rest
  <1>6. new \in NumConnections .. NumConnections + foreign
    BY <1>4, <1>5, PinningAssumption DEF PinInv, PinTypes
  <1>7. ASSUME has_tid, foreign = 0, NumConnections > 1
        PROVE  LET said == verdict_for(new, tids)
               IN  /\ said = "PINNED" <=> ~even \/ ServerThreads = 1
                   /\ even /\ ServerThreads >= Minimum2(NumConnections, 4) => said = "SPREAD"
    <2>1. NewIds = held
      <3>1. Cardinality(NewIds \ held) = 0
        BY <1>4, <1>7
      <3>2. NewIds \ held = {}
        BY <1>4, <3>1, FS_EmptySet
      <3> QED BY <1>5, <3>2
    <2>2. held \subseteq Nat \ {0} /\ tids = {ThreadOf(id) : id \in held}
      BY <1>7, <2>1 DEF PinInv, PinTypes, PinIds
    <2>3. tids \subseteq 0..ServerThreads-1 /\ IsFiniteSet(tids) /\ Cardinality(tids) \in Nat
      <3>1. tids \subseteq 0..ServerThreads-1
        <4>1. \A id \in held : ThreadOf(id) \in 0..ServerThreads-1
          BY <2>2, ThreadsExist
        <4> QED BY <2>2, <4>1
      <3> HIDE DEF tids
      <3>2. IsFiniteSet(tids)
        <4>1. IsFiniteSet(0..ServerThreads-1)
          BY FS_Interval, PinningAssumption
        <4> QED BY <3>1, <4>1, FS_Subset
      <3> QED BY <3>1, <3>2, FS_CardinalityType
    <2>4. \A k \in 1..NumConnections : ThreadOf(next_id - k) \in tids
      BY <1>1, <1>3, <1>7, <2>2, LastIdsAreHeld
    <2>5. new = NumConnections /\ new > 0 /\ tids # {}
      BY <1>3, <1>7, <2>1, <2>4, PinningAssumption
    <2>6. ASSUME ~even \/ ServerThreads = 1 PROVE Cardinality(tids) = 1
      <3>1. \A t \in tids : t = 0
        <4>1. \A id \in Int : ThreadOf(id) = 0
          BY <2>6, ModBounds DEF ThreadOf
        <4> QED BY <2>2, <4>1
      <3> HIDE DEF tids
      <3>2. tids = {0}
        BY <2>5, <3>1
      <3> QED BY <3>2, FS_Singleton
    <2>7. ASSUME even, NEW m \in Nat, m <= NumConnections, m <= ServerThreads
          PROVE  m <= Cardinality(tids)
      <3> HIDE DEF tids
      <3>0. next_id \in Int /\ \A k \in 1..m : k \in 1..NumConnections
        BY <2>7, PinningAssumption DEF PinInv, PinTypes
      <3>1. next_id \in Int /\ \A k \in 1..m : ThreadOf(next_id - k) \in tids
        BY <2>4, <3>0
      <3> QED BY <2>3, <2>7, <3>1, ThreadsInTurn
    <2> HIDE DEF tids, new
    <2>8. ASSUME even, ServerThreads # 1 PROVE Cardinality(tids) >= 2
      BY <1>7, <2>7, <2>8, PinningAssumption
    <2>9. even \in BOOLEAN
      BY DEF PinInv, PinTypes
    <2>10. verdict_for(new, tids) =
             IF Cardinality(tids) = 1 THEN "PINNED"
             ELSE IF Cardinality(tids) > 1 /\ Cardinality(tids) < Minimum2(NumConnections, 4)
                  THEN "PARTIALLY SPREAD" ELSE "SPREAD"
      <3>1. new \in Nat /\ new > 0 /\ tids # {} /\ Cardinality(tids) \in Nat
        BY <2>3, <2>5, PinningAssumption
      <3> QED BY <3>1, VerdictOf
    <2>11. verdict_for(new, tids) = "PINNED" <=> Cardinality(tids) = 1
      BY <2>10
    <2>12. Cardinality(tids) = 1 <=> ~even \/ ServerThreads = 1
      BY <2>3, <2>6, <2>8
    <2>13. even /\ ServerThreads >= Minimum2(NumConnections, 4)
             => verdict_for(new, tids) = "SPREAD"
      <3> SUFFICES ASSUME even, ServerThreads >= Minimum2(NumConnections, 4)
                   PROVE  verdict_for(new, tids) = "SPREAD"
        OBVIOUS
      <3>1. /\ Minimum2(NumConnections, 4) \in Nat /\ Minimum2(NumConnections, 4) >= 2
            /\ Minimum2(NumConnections, 4) <= NumConnections
        BY <1>7, PinningAssumption DEF Minimum2
      <3>2. Minimum2(NumConnections, 4) <= Cardinality(tids)
        BY <2>7, <3>1, PinningAssumption
      <3>3. Cardinality(tids) # 1 /\ ~(Cardinality(tids) < Minimum2(NumConnections, 4))
        BY <2>3, <3>1, <3>2
      <3> QED BY <2>10, <3>3
    <2> QED BY <2>11, <2>12, <2>13
  <1>8. VerdictFitsServer'
    <2> HIDE DEF tids, new
    <2>1. result'.new = new /\ result'.verdict = verdict_for(new, tids)
      BY <1>1
    <2>2. Minimum2(NumConnections, 4)' = Minimum2(NumConnections, 4)
      BY DEF Minimum2
    <2> QED BY <1>1, <1>3, <1>6, <1>7, <2>1 DEF VerdictFitsServer, TrialCountsItsConnections
  <1> QED BY <1>1, <1>2, <1>8 DEF PinInv

\* Every step of the script keeps the invariant.
LEMMA PinningKeepsInv ==
  ASSUME PinInv, PinningNext
  PROVE  PinInv'
  <1>1. PICK i \in Tasks : TRUE
    BY PinningAssumption DEF Tasks
  <1> QED BY <1>1, SnapshotKeepsInv, WaitingKeepsInv, ConnectKeepsInv, LeavingKeepsInv,
             ReportKeepsInv, ReapKeepsInv, ForeignKeepsInv DEF PinningNext

LEMMA PinStutter ==
  ASSUME PinInv, UNCHANGED pinningVars
  PROVE  PinInv'
  BY DEF PinInv, PinTypes, PinIds, PinOpen, VerdictFitsServer, TrialCountsItsConnections,
         pinningVars, Connected, NewIds, ThreadOf

-----------------------------------------------------------------------------
(* Hotspot load: the invariant *)

\* The threads the server has had.
ServerIds == 0..CpuThreads+started-1

HotTypes ==
  /\ phases \in {<<"concentrated", "distributed">>, <<"distributed">>, <<"router">>}
  /\ pipeline_size \in Nat \ {0}
  /\ n \in [LoadThreads -> Nat] /\ counts \in [LoadThreads -> Nat]
  /\ started \in 0..MaxStarted
  /\ CpuIds \subseteq DOMAIN ticks /\ DOMAIN ticks \subseteq ServerIds
  /\ ticks \in [DOMAIN ticks -> Nat]
  /\ spent \in [Tids -> Nat]

\* What was executed is what the threads have gone through, and a thread that has
\* ended has said so.
HotCounts ==
  /\ step_of = "load" => /\ executed = Sums(n, LoadThreads)[LoadThreads]
                         /\ \A w \in ended : counts[w] = n[w]
  /\ step_of = "after" => total_ops = executed

\* A reading has its threads before it or behind it, and the workers are among
\* them; a thread that has not started has spent nothing.
HotReadings ==
  /\ step_of \in {"before", "after"} =>
       /\ listed \subseteq ServerIds /\ DOMAIN read \subseteq ServerIds
       /\ read \in [DOMAIN read -> Nat]
       /\ CpuIds \subseteq listed \cup DOMAIN read /\ listed \cap DOMAIN read = {}
  /\ step_of \in {"load", "after"} =>
       DOMAIN before_ticks \subseteq ServerIds /\ before_ticks \in [DOMAIN before_ticks -> Nat]
  /\ step_of \in {"before", "load"} => \A t \in Tids \ ServerIds : spent[t] = 0

\* The ticks at the first reading; a thread that came later had none.
FirstTicks(t) ==
  IF step_of # "before" THEN Reading(t) ELSE IF t \in DOMAIN read THEN read[t] ELSE 0

\* A thread between its readings has what it had at the first and what it has spent
\* since; one that was read for the last time was read with that.
HotSpent ==
  /\ \A t \in DOMAIN ticks :
       InPhase(t) /\ (step_of = "before" => t \notin listed) => ticks[t] = FirstTicks(t) + spent[t]
  /\ step_of = "after" => \A t \in DOMAIN read : read[t] = FirstTicks(t) + spent[t]

HotInv == HotTypes /\ HotCounts /\ HotReadings /\ HotSpent /\ ReportIsThisPhase

-----------------------------------------------------------------------------

LEMMA LoadThreadsFinite == IsFiniteSet(LoadThreads)
  BY FS_Interval, HotspotAssumption DEF LoadThreads

LEMMA ServerIdsAreTids == HotTypes => ServerIds \subseteq Tids /\ CpuIds \subseteq Tids
  BY HotspotAssumption DEF HotTypes, ServerIds, Tids, CpuIds

LEMMA HotInitInv == HotspotInit => HotInv
  <1> SUFFICES ASSUME HotspotInit PROVE HotInv
    OBVIOUS
  <1>1. step_of \in {"setup", "sample"}
    BY DEF HotspotInit
  <1>2. pipeline_size \in Nat \ {0}
    <2>1. pipeline_size = 1 \/ pipeline_size \in PipelineSizes
      BY DEF HotspotInit
    <2>2. \A size \in PipelineSizes : size \in Nat \ {0}
      BY HotspotAssumption
    <2>3. CASE pipeline_size = 1
      BY <2>3
    <2>4. CASE pipeline_size \in PipelineSizes
      BY <2>2, <2>4
    <2> QED BY <2>1, <2>3, <2>4
  <1>3. /\ phases \in {<<"concentrated", "distributed">>, <<"distributed">>, <<"router">>}
        /\ n = [w \in LoadThreads |-> 0] /\ counts = [w \in LoadThreads |-> 0]
        /\ ticks = [t \in CpuIds |-> 1] /\ spent = [t \in Tids |-> 0] /\ started = 0
    BY DEF HotspotInit
  <1>4. started \in 0..MaxStarted /\ ServerIds = CpuIds
    BY <1>3, HotspotAssumption DEF ServerIds, CpuIds
  <1>5. HotTypes
    BY <1>2, <1>3, <1>4 DEF HotTypes
  <1> QED BY <1>1, <1>5 DEF HotInv, HotCounts, HotReadings, HotSpent, InPhase, ReportIsThisPhase

-----------------------------------------------------------------------------
(* Hotspot load: the server's threads *)

LEMMA SpendKeepsInv == ASSUME HotInv, NEW t \in DOMAIN ticks, Spend(t) PROVE HotInv'
  <1>1. /\ ticks' = [ticks EXCEPT ![t] = @ + 1]
        /\ spent' = IF InPhase(t) THEN [spent EXCEPT ![t] = @ + 1] ELSE spent
        /\ UNCHANGED <<phases, pipeline_size, step_of, n, counts, ended, executed, started,
                       listed, read, before_ticks, total_ops, deltas>>
    BY DEF Spend, setting, load, reading, reported
  <1>2. t \in ServerIds /\ t \in Tids /\ DOMAIN ticks' = DOMAIN ticks /\ ticks[t] \in Nat
    BY <1>1, ServerIdsAreTids DEF HotInv, HotTypes
  <1>3. ticks'[t] = ticks[t] + 1 /\ \A u \in DOMAIN ticks \ {t} : ticks'[u] = ticks[u]
    BY <1>1, <1>2 DEF HotInv, HotTypes
  <1>4. \A u \in Tids : spent'[u] = IF u = t /\ InPhase(t) THEN spent[u] + 1 ELSE spent[u]
    BY <1>1 DEF HotInv, HotTypes
  <1>5. HotTypes'
    <2>1. spent' \in [Tids -> Nat]
      <3>1. CASE InPhase(t)
        <4>1. spent' = [spent EXCEPT ![t] = @ + 1] /\ spent \in [Tids -> Nat]
          BY <1>1, <3>1 DEF HotInv, HotTypes
        <4>2. spent[t] + 1 \in Nat
          BY <1>2, <4>1
        <4> QED BY <4>1, <4>2
      <3>2. CASE ~InPhase(t)
        BY <1>1, <3>2 DEF HotInv, HotTypes
      <3> QED BY <3>1, <3>2
    <2>2. ticks' \in [DOMAIN ticks -> Nat]
      BY <1>1 DEF HotInv, HotTypes
    <2> QED BY <1>1, <1>2, <2>1, <2>2 DEF HotInv, HotTypes, ServerIds
  <1>6. HotCounts'
    BY <1>1 DEF HotInv, HotCounts
  <1>7. HotReadings'
    BY <1>1, <1>2, <1>4 DEF HotInv, HotReadings, ServerIds
  <1>8. /\ \A u : InPhase(u)' = InPhase(u) /\ FirstTicks(u)' = FirstTicks(u)
    BY <1>1 DEF InPhase, FirstTicks, Reading
  <1>9. ASSUME NEW u \in DOMAIN ticks', InPhase(u)', step_of' = "before" => u \notin listed'
        PROVE  ticks'[u] = FirstTicks(u)' + spent'[u]
    <2>1. u \in DOMAIN ticks /\ u \in Tids /\ ticks[u] = FirstTicks(u) + spent[u] /\ InPhase(u)
      BY <1>1, <1>2, <1>8, <1>9, ServerIdsAreTids DEF HotInv, HotTypes, HotSpent
    <2>2. FirstTicks(u) \in Nat /\ spent[u] \in Nat
      BY <2>1 DEF HotInv, HotTypes, HotReadings, FirstTicks, Reading, InPhase
    <2> QED BY <1>3, <1>4, <1>8, <2>1, <2>2
  <1>10. ASSUME step_of' = "after", NEW u \in DOMAIN read'
         PROVE  read'[u] = FirstTicks(u)' + spent'[u]
    <2>1. /\ u \in DOMAIN read /\ u \in Tids /\ read[u] = FirstTicks(u) + spent[u] /\ u \notin listed
      BY <1>1, <1>10, ServerIdsAreTids DEF HotInv, HotReadings, HotSpent
    <2>2. ~InPhase(u)
      BY <1>1, <1>10, <2>1 DEF InPhase
    <2> QED BY <1>1, <1>4, <1>8, <2>1, <2>2
  <1>11. HotSpent'
    BY <1>9, <1>10 DEF HotSpent
  <1>12. step_of = "report" => spent' = spent
    BY <1>1 DEF InPhase
  <1>13. ReportIsThisPhase'
    BY <1>1, <1>12 DEF HotInv, ReportIsThisPhase
  <1> QED BY <1>5, <1>6, <1>7, <1>11, <1>13 DEF HotInv

LEMMA ThreadStartsKeepsInv == ASSUME HotInv, ThreadStarts PROVE HotInv'
  <1> DEFINE t == CpuThreads + started
  <1>1. /\ started < MaxStarted /\ started' = started + 1
        /\ ticks' = [u \in DOMAIN ticks \cup {t} |-> IF u = t THEN 0 ELSE ticks[u]]
        /\ UNCHANGED <<phases, pipeline_size, step_of, n, counts, ended, executed,
                       listed, read, before_ticks, spent, total_ops, deltas>>
    BY DEF ThreadStarts, setting, load, reading, reported, WithThread
  <1>2. /\ started \in Nat /\ started' \in 0..MaxStarted
        /\ t \in Tids /\ t \notin ServerIds /\ ServerIds' = ServerIds \cup {t}
    <2>1. started \in Nat /\ started' \in 0..MaxStarted
      BY <1>1, HotspotAssumption DEF HotInv, HotTypes
    <2>2. t \in Tids /\ t \notin ServerIds
      BY <1>1, <2>1, HotspotAssumption DEF ServerIds, Tids
    <2>3. ServerIds' = ServerIds \cup {t}
      <3>1. CpuThreads + started' - 1 = CpuThreads + started
        BY <1>1, <2>1, HotspotAssumption
      <3>2. ServerIds' = 0..CpuThreads+started
        BY <3>1 DEF ServerIds
      <3>3. CpuThreads + started \in Nat
        BY <2>1, HotspotAssumption
      <3>4. PICK k \in Nat : k = CpuThreads + started
        BY <3>3
      <3>5. 0..k = 0..k-1 \cup {k}
        OBVIOUS
      <3>6. ServerIds' = 0..k /\ t = k
        BY <3>2, <3>4
      <3>7. ServerIds = 0..k-1
        BY <2>1, <3>4, HotspotAssumption DEF ServerIds
      <3> HIDE DEF t
      <3> QED BY <3>5, <3>6, <3>7
    <2> QED BY <2>1, <2>2, <2>3
  <1> HIDE DEF t
  <1>3. HotTypes'
    <2>1. /\ CpuIds \subseteq DOMAIN ticks' /\ DOMAIN ticks' \subseteq ServerIds'
      BY <1>1, <1>2 DEF HotInv, HotTypes
    <2>2. ticks' \in [DOMAIN ticks' -> Nat]
      BY <1>1 DEF HotInv, HotTypes
    <2> QED BY <1>1, <1>2, <2>1, <2>2 DEF HotInv, HotTypes
  <1>4. HotCounts'
    BY <1>1 DEF HotInv, HotCounts
  <1>5. HotReadings'
    BY <1>1, <1>2 DEF HotInv, HotReadings
  <1>6. \A u : InPhase(u)' = InPhase(u) /\ FirstTicks(u)' = FirstTicks(u)
    BY <1>1 DEF InPhase, FirstTicks, Reading
  <1>7. ASSUME NEW u \in DOMAIN ticks', InPhase(u)', step_of' = "before" => u \notin listed'
        PROVE  ticks'[u] = FirstTicks(u)' + spent'[u]
    <2>1. CASE u = t
      <3>1. ticks'[u] = 0
        BY <1>1, <2>1
      <3>2. step_of \in {"before", "load"}
        BY <1>1, <1>2, <1>6, <1>7, <2>1 DEF HotInv, HotReadings, InPhase
      <3>3. spent[u] = 0 /\ FirstTicks(u) = 0
        BY <1>2, <2>1, <3>2 DEF HotInv, HotReadings, FirstTicks, Reading
      <3> QED BY <1>1, <1>6, <3>1, <3>3
    <2>2. CASE u # t
      BY <1>1, <1>6, <1>7, <2>2 DEF HotInv, HotSpent
    <2> QED BY <2>1, <2>2
  <1>8. HotSpent'
    BY <1>1, <1>6, <1>7 DEF HotInv, HotSpent
  <1> QED BY <1>1, <1>3, <1>4, <1>5, <1>8 DEF HotInv, ReportIsThisPhase

LEMMA ThreadEndsKeepsInv == ASSUME HotInv, NEW t, ThreadEnds(t) PROVE HotInv'
  <1>1. /\ t \notin CpuIds /\ ticks' = [u \in DOMAIN ticks \ {t} |-> ticks[u]]
        /\ UNCHANGED <<phases, pipeline_size, step_of, n, counts, ended, executed, started,
                       listed, read, before_ticks, spent, total_ops, deltas>>
    BY DEF ThreadEnds, setting, load, reading, reported
  <1>2. HotTypes'
    <2>1. /\ CpuIds \subseteq DOMAIN ticks' /\ DOMAIN ticks' \subseteq ServerIds'
      BY <1>1 DEF HotInv, HotTypes, ServerIds
    <2>2. ticks' \in [DOMAIN ticks' -> Nat]
      BY <1>1 DEF HotInv, HotTypes
    <2> QED BY <1>1, <2>1, <2>2 DEF HotInv, HotTypes
  <1>3. HotCounts'
    BY <1>1 DEF HotInv, HotCounts
  <1>4. HotReadings'
    BY <1>1 DEF HotInv, HotReadings, ServerIds
  <1>5. \A u : InPhase(u)' = InPhase(u) /\ FirstTicks(u)' = FirstTicks(u)
    BY <1>1 DEF InPhase, FirstTicks, Reading
  <1>6. HotSpent'
    BY <1>1, <1>5 DEF HotInv, HotSpent
  <1> QED BY <1>1, <1>2, <1>3, <1>4, <1>6 DEF HotInv, ReportIsThisPhase

-----------------------------------------------------------------------------
(* Hotspot load: the readings *)

LEMMA ListThreadsKeepsInv == ASSUME HotInv, ListThreads PROVE HotInv'
  <1>1. /\ step_of' = "before" /\ listed' = DOMAIN ticks /\ DOMAIN read' = {}
        /\ spent' = [t \in Tids |-> 0]
        /\ UNCHANGED <<phases, pipeline_size, n, counts, ended, executed, ticks, started,
                       before_ticks, total_ops, deltas>>
    BY DEF ListThreads, setting, load, reported, Empty
  <1>2. HotTypes'
    BY <1>1 DEF HotInv, HotTypes, ServerIds
  <1>3. HotReadings'
    <2>1. read' \in [DOMAIN read' -> Nat]
      BY DEF ListThreads, Empty
    <2> QED BY <1>1, <2>1 DEF HotInv, HotTypes, HotReadings, ServerIds
  <1> QED BY <1>1, <1>2, <1>3 DEF HotInv, HotCounts, HotSpent, ReportIsThisPhase

LEMMA ReadThreadKeepsInv == ASSUME HotInv, NEW t \in listed, ReadThread(t) PROVE HotInv'
  <1>1. /\ step_of \in {"before", "after"} /\ listed' = listed \ {t}
        /\ read' = IF t \in DOMAIN ticks
                   THEN [u \in DOMAIN read \cup {t} |-> IF u = t THEN ticks[t] ELSE read[u]]
                   ELSE read
        /\ spent' = IF step_of = "before" THEN [spent EXCEPT ![t] = 0] ELSE spent
        /\ UNCHANGED <<phases, pipeline_size, step_of, n, counts, ended, executed, ticks, started,
                       before_ticks, total_ops, deltas>>
    BY DEF ReadThread, setting, load, reported, WithThread
  <1>2. t \in ServerIds /\ t \in Tids /\ t \notin DOMAIN read
    BY <1>1, ServerIdsAreTids DEF HotInv, HotReadings
  <1>3. \A u \in Tids : spent'[u] = IF u = t /\ step_of = "before" THEN 0 ELSE spent[u]
    BY <1>1 DEF HotInv, HotTypes
  <1>4. HotTypes'
    <2>1. spent' \in [Tids -> Nat]
      BY <1>1 DEF HotInv, HotTypes
    <2> QED BY <1>1, <2>1 DEF HotInv, HotTypes, ServerIds
  <1>5. HotCounts'
    BY <1>1 DEF HotInv, HotCounts
  <1>6. HotReadings'
    <2>1. /\ listed' \subseteq ServerIds' /\ DOMAIN read' \subseteq ServerIds'
          /\ CpuIds \subseteq listed' \cup DOMAIN read' /\ listed' \cap DOMAIN read' = {}
      BY <1>1, <1>2 DEF HotInv, HotTypes, HotReadings, ServerIds
    <2>2. read' \in [DOMAIN read' -> Nat]
      <3>1. CASE t \in DOMAIN ticks
        BY <1>1, <3>1 DEF HotInv, HotTypes, HotReadings
      <3>2. CASE t \notin DOMAIN ticks
        BY <1>1, <3>2 DEF HotInv, HotReadings
      <3> QED BY <3>1, <3>2
    <2>3. \A u \in Tids \ ServerIds' : spent'[u] = spent[u]
      BY <1>1, <1>2, <1>3 DEF ServerIds
    <2> QED BY <1>1, <2>1, <2>2, <2>3 DEF HotInv, HotReadings, ServerIds
  <1>7. ASSUME NEW u \in DOMAIN ticks', InPhase(u)', step_of' = "before" => u \notin listed'
        PROVE  ticks'[u] = FirstTicks(u)' + spent'[u]
    <2>1. u \in DOMAIN ticks /\ u \in Tids /\ ticks[u] \in Nat /\ spent[u] \in Nat
      BY <1>1, <1>7, ServerIdsAreTids DEF HotInv, HotTypes
    <2>2. CASE step_of = "before" /\ u = t
      <3>1. spent'[u] = 0 /\ FirstTicks(u)' = ticks[u]
        BY <1>1, <1>3, <2>1, <2>2 DEF FirstTicks
      <3> QED BY <1>1, <2>1, <3>1
    <2>3. CASE step_of = "before" /\ u # t
      <3>1. FirstTicks(u)' = FirstTicks(u) /\ spent'[u] = spent[u] /\ u \notin listed /\ InPhase(u)
        BY <1>1, <1>3, <1>7, <2>1, <2>3 DEF FirstTicks, InPhase
      <3> QED BY <1>1, <2>1, <2>3, <3>1 DEF HotInv, HotSpent
    <2>4. CASE step_of = "after"
      <3>1. FirstTicks(u)' = FirstTicks(u) /\ spent'[u] = spent[u] /\ InPhase(u)
        BY <1>1, <1>7, <2>4 DEF FirstTicks, Reading, InPhase
      <3> QED BY <1>1, <2>1, <2>4, <3>1 DEF HotInv, HotSpent
    <2> QED BY <1>1, <2>2, <2>3, <2>4
  <1>8. ASSUME step_of' = "after", NEW u \in DOMAIN read'
        PROVE  read'[u] = FirstTicks(u)' + spent'[u]
    <2>1. FirstTicks(u)' = FirstTicks(u) /\ spent' = spent /\ step_of = "after"
      BY <1>1, <1>8 DEF FirstTicks, Reading
    <2>2. CASE u = t
      <3>1. t \in DOMAIN ticks /\ read'[u] = ticks[u] /\ InPhase(u)
        BY <1>1, <1>2, <1>8, <2>1, <2>2 DEF InPhase
      <3> QED BY <2>1, <2>2, <3>1 DEF HotInv, HotSpent
    <2>3. CASE u # t
      <3>1. u \in DOMAIN read /\ read'[u] = read[u]
        BY <1>1, <1>8, <2>3
      <3> QED BY <2>1, <3>1 DEF HotInv, HotSpent
    <2> QED BY <2>2, <2>3
  <1>9. HotSpent'
    BY <1>7, <1>8 DEF HotSpent
  <1> QED BY <1>1, <1>4, <1>5, <1>6, <1>9 DEF HotInv, ReportIsThisPhase

LEMMA StartLoadKeepsInv == ASSUME HotInv, StartLoad PROVE HotInv'
  <1>1. /\ step_of = "before" /\ listed = {} /\ step_of' = "load" /\ before_ticks' = read
        /\ n' = [w \in LoadThreads |-> 0] /\ counts' = [w \in LoadThreads |-> 0]
        /\ ended' = {} /\ executed' = 0
        /\ UNCHANGED <<phases, pipeline_size, ticks, started, listed, read, spent>>
    BY DEF StartLoad, setting, FirstReading
  <1>2. HotTypes'
    BY <1>1 DEF HotInv, HotTypes, ServerIds
  <1>3. Sums(n', LoadThreads)[LoadThreads] = 0
    BY <1>1, LoadThreadsFinite, SumsOfZero
  <1>4. HotCounts'
    BY <1>1, <1>3 DEF HotCounts
  <1>5. HotReadings'
    BY <1>1 DEF HotInv, HotReadings, ServerIds
  <1>6. HotSpent'
    <2> SUFFICES ASSUME NEW t \in DOMAIN ticks'
                 PROVE  ticks'[t] = FirstTicks(t)' + spent'[t]
      BY <1>1 DEF HotSpent
    <2>1. FirstTicks(t)' = FirstTicks(t) /\ InPhase(t) /\ t \notin listed /\ t \in DOMAIN ticks
      BY <1>1 DEF FirstTicks, Reading, InPhase
    <2> QED BY <1>1, <2>1 DEF HotInv, HotSpent
  <1> QED BY <1>1, <1>2, <1>4, <1>5, <1>6 DEF HotInv, ReportIsThisPhase

LEMMA EndLoadKeepsInv == ASSUME HotInv, EndLoad PROVE HotInv'
  <1>1. /\ step_of = "load" /\ step_of' = "after" /\ ended = LoadThreads
        /\ total_ops' = MapThenSumSet(LAMBDA w : counts[w], LoadThreads)
        /\ listed' = DOMAIN ticks /\ DOMAIN read' = {}
        /\ UNCHANGED <<phases, pipeline_size, n, counts, ended, executed, ticks, started,
                       before_ticks, spent>>
    BY DEF EndLoad, setting, load, Empty
  <1>2. HotTypes'
    BY <1>1 DEF HotInv, HotTypes, ServerIds
  <1>3. total_ops' = executed'
    <2>1. counts = n
      BY <1>1 DEF HotInv, HotTypes, HotCounts
    <2>2. total_ops' = Sums(counts, LoadThreads)[LoadThreads]
      BY <1>1, SumIsSums
    <2> QED BY <1>1, <2>1, <2>2 DEF HotInv, HotCounts
  <1>4. HotReadings'
    <2>1. read' \in [DOMAIN read' -> Nat]
      BY DEF EndLoad, Empty
    <2> QED BY <1>1, <2>1 DEF HotInv, HotTypes, HotReadings, ServerIds
  <1>5. HotSpent'
    <2>1. \A t \in DOMAIN ticks : ticks[t] = FirstTicks(t) + spent[t]
      BY <1>1 DEF HotInv, HotSpent, InPhase
    <2>2. \A t : FirstTicks(t)' = FirstTicks(t)
      BY <1>1 DEF FirstTicks, Reading
    <2> QED BY <1>1, <2>1, <2>2 DEF HotSpent
  <1> QED BY <1>1, <1>2, <1>3, <1>4, <1>5 DEF HotInv, HotCounts, ReportIsThisPhase

LEMMA PrintReportKeepsInv == ASSUME HotInv, PrintReport PROVE HotInv'
  <1>1. /\ step_of = "after" /\ listed = {} /\ step_of' = "report"
        /\ deltas' = [t \in {u \in DOMAIN read : read[u] > Reading(u)} |-> read[t] - Reading(t)]
        /\ UNCHANGED <<phases, pipeline_size, n, counts, ended, executed, ticks, started,
                       listed, read, before_ticks, spent, total_ops>>
    BY DEF PrintReport, setting, load, reading
  <1>2. HotTypes'
    BY <1>1 DEF HotInv, HotTypes, ServerIds
  <1>3. ASSUME NEW t \in CpuIds \cup DOMAIN read
        PROVE  IF t \in DOMAIN deltas' THEN deltas'[t] = spent[t] ELSE spent[t] = 0
    <2>1. t \in DOMAIN read /\ t \in Tids /\ read[t] = Reading(t) + spent[t]
      BY <1>1, ServerIdsAreTids DEF HotInv, HotReadings, HotSpent, FirstTicks
    <2>2. Reading(t) \in Nat /\ spent[t] \in Nat
      BY <1>1, <2>1 DEF HotInv, HotTypes, HotReadings, Reading
    <2>3. /\ t \in DOMAIN deltas' <=> read[t] > Reading(t)
          /\ t \in DOMAIN deltas' => deltas'[t] = read[t] - Reading(t)
      BY <1>1, <2>1
    <2> QED BY <2>1, <2>2, <2>3
  <1>4. ReportIsThisPhase'
    BY <1>1, <1>3 DEF HotInv, HotCounts, ReportIsThisPhase
  <1> QED BY <1>1, <1>2, <1>4 DEF HotInv, HotCounts, HotReadings, HotSpent, InPhase

-----------------------------------------------------------------------------
(* Hotspot load: the load threads, and all steps *)

LEMMA TurnKeepsInv == ASSUME HotInv, NEW w \in LoadThreads, Turn(w) PROVE HotInv'
  <1>1. /\ step_of = "load" /\ w \notin ended
        /\ executed' = executed + pipeline_size /\ n' = [n EXCEPT ![w] = @ + pipeline_size]
        /\ UNCHANGED <<phases, pipeline_size, step_of, counts, ended, ticks, started, listed, read,
                       before_ticks, spent>>
    BY DEF Turn, setting, reading
  <1>2. HotTypes'
    BY <1>1 DEF HotInv, HotTypes, ServerIds
  <1>3. executed' = Sums(n', LoadThreads)[LoadThreads]
    <2>1. /\ n \in [LoadThreads -> Nat] /\ n' \in [LoadThreads -> Nat] /\ pipeline_size \in Nat
          /\ n'[w] = n[w] + pipeline_size /\ \A x \in LoadThreads \ {w} : n'[x] = n[x]
      BY <1>1, <1>2 DEF HotInv, HotTypes
    <2>2. Sums(n', LoadThreads)[LoadThreads] = Sums(n, LoadThreads)[LoadThreads] + pipeline_size
      BY <2>1, LoadThreadsFinite, SumsGrow
    <2> QED BY <1>1, <2>2 DEF HotInv, HotCounts
  <1>4. \A x \in ended : counts[x] = n'[x]
    <2> SUFFICES ASSUME NEW x \in ended PROVE counts[x] = n'[x]
      OBVIOUS
    <2>1. n'[x] = n[x]
      BY <1>1 DEF HotInv, HotTypes
    <2> QED BY <1>1, <2>1 DEF HotInv, HotCounts
  <1>5. HotCounts'
    BY <1>1, <1>3, <1>4 DEF HotCounts
  <1>6. HotReadings' /\ HotSpent'
    BY <1>1 DEF HotInv, HotReadings, HotSpent, ServerIds, InPhase, FirstTicks, Reading
  <1> QED BY <1>1, <1>2, <1>5, <1>6 DEF HotInv, ReportIsThisPhase

LEMMA EndThreadKeepsInv == ASSUME HotInv, NEW w \in LoadThreads, EndThread(w) PROVE HotInv'
  <1>1. /\ step_of = "load" /\ counts' = [counts EXCEPT ![w] = n[w]] /\ ended' = ended \cup {w}
        /\ UNCHANGED <<phases, pipeline_size, step_of, n, executed, ticks, started, listed, read,
                       before_ticks, spent>>
    BY DEF EndThread, setting, reading, counted
  <1>2. HotTypes'
    BY <1>1 DEF HotInv, HotTypes, ServerIds
  <1>3. HotCounts'
    BY <1>1 DEF HotInv, HotTypes, HotCounts
  <1>4. HotReadings' /\ HotSpent'
    BY <1>1 DEF HotInv, HotReadings, HotSpent, ServerIds, InPhase, FirstTicks, Reading
  <1> QED BY <1>1, <1>2, <1>3, <1>4 DEF HotInv, ReportIsThisPhase

LEMMA NextPhaseKeepsInv == ASSUME HotInv, NextPhase PROVE HotInv'
  <1>1. /\ phases' = IF Len(phases) > 1 THEN Tail(phases) ELSE phases
        /\ step_of' \in {"sample", "end"}
        /\ UNCHANGED <<pipeline_size, n, counts, ticks, started, spent>>
    BY DEF NextPhase, load, reading
  <1>2. phases' \in {<<"concentrated", "distributed">>, <<"distributed">>, <<"router">>}
    <2>1. CASE phases = <<"concentrated", "distributed">>
      <3>1. Tail(phases) = <<"distributed">>
        BY <2>1
      <3> QED BY <1>1, <2>1, <3>1
    <2>2. CASE phases \in {<<"distributed">>, <<"router">>}
      <3>1. Len(phases) = 1
        BY <2>2
      <3> QED BY <1>1, <2>2, <3>1
    <2> QED BY <2>1, <2>2 DEF HotInv, HotTypes
  <1>3. HotTypes'
    BY <1>1, <1>2 DEF HotInv, HotTypes, ServerIds
  <1> QED BY <1>1, <1>3 DEF HotInv, HotCounts, HotReadings, HotSpent, InPhase, ReportIsThisPhase

\* Nothing is held of a script that is being set up, or has ended, or crashed.
LEMMA OutsideKeepsInv ==
  ASSUME HotInv, SetUp \/ (\E w \in LoadThreads : TurnFails(w))
  PROVE  HotInv'
  <1>1. /\ step_of' \in {"sample", "crashed"}
        /\ UNCHANGED <<phases, pipeline_size, n, counts, ticks, started, spent>>
    BY DEF SetUp, TurnFails, setting, load
  <1>2. HotTypes'
    BY <1>1 DEF HotInv, HotTypes, ServerIds
  <1> QED BY <1>1, <1>2 DEF HotInv, HotCounts, HotReadings, HotSpent, InPhase, ReportIsThisPhase

LEMMA HotStutter ==
  ASSUME HotInv,
         UNCHANGED <<phases, pipeline_size, step_of, n, counts, ended, executed, ticks, started,
                     listed, read, before_ticks, spent, total_ops, deltas>>
  PROVE  HotInv'
  <1>1. HotTypes' /\ HotCounts' /\ ReportIsThisPhase'
    BY DEF HotInv, HotTypes, HotCounts, ReportIsThisPhase, ServerIds
  <1>2. HotReadings' /\ HotSpent'
    BY DEF HotInv, HotReadings, HotSpent, ServerIds, InPhase, FirstTicks, Reading
  <1> QED BY <1>1, <1>2 DEF HotInv

LEMMA HotspotKeepsInv == ASSUME HotInv, HotspotNext \/ UNCHANGED hotspotVars PROVE HotInv'
  <1>1. CASE SetUp \/ (\E w \in LoadThreads : TurnFails(w))
    BY <1>1, OutsideKeepsInv
  <1>2. CASE Expired \/ UNCHANGED hotspotVars
    BY <1>2, HotStutter DEF Expired, setting, reading, reported, hotspotVars
  <1>3. CASE ListThreads \/ StartLoad \/ EndLoad \/ PrintReport \/ NextPhase
    BY <1>3, ListThreadsKeepsInv, StartLoadKeepsInv, EndLoadKeepsInv, PrintReportKeepsInv,
       NextPhaseKeepsInv
  <1>4. CASE \E w \in LoadThreads : Turn(w) \/ EndThread(w)
    BY <1>4, TurnKeepsInv, EndThreadKeepsInv
  <1>5. CASE \E t \in listed : ReadThread(t)
    BY <1>5, ReadThreadKeepsInv
  <1>6. CASE ThreadStarts \/ (\E t \in DOMAIN ticks : Spend(t) \/ ThreadEnds(t))
    BY <1>6, SpendKeepsInv, ThreadStartsKeepsInv, ThreadEndsKeepsInv
  <1> QED BY <1>1, <1>2, <1>3, <1>4, <1>5, <1>6 DEF HotspotNext

-----------------------------------------------------------------------------
(* Cross-check: the invariant *)

Namespaces == {"xpy", "xgo"}

\* What a namespace holds, and has recorded, once the rules are loaded.
Loaded(buckets) == hset_all(NoRules, buckets, RULES)

CountFor(buckets) ==
  IF \E i \in DOMAIN RULES : Len(keys_for_pattern(buckets, RULES[i].fqdn1, RULES[i].port)) > 1
  THEN buckets ELSE 0

IsLoaded(ns, buckets) == stored[ns] = Loaded(buckets) /\ recorded[ns] = CountFor(buckets)

\* Where the Python side is before its file is written, and where the Go side is.
Stages(ns) ==
  {<<"wipe", ns, "tagged">>, <<"wipe", ns, "replicas">>, <<"open", ns>>, <<"load", ns>>,
   <<"ask", ns>>}

CrossShapes ==
  /\ at \in {<<"idle">>, <<"write">>} \cup Stages("xpy") \cup Stages("xgo")
  /\ stored = [ns \in Namespaces |-> stored[ns]]
  /\ recorded = [ns \in Namespaces |-> recorded[ns]]

\* How far the wipe and the load of a namespace have come.
CrossProgress ==
  \A ns \in Namespaces :
    /\ at = <<"wipe", ns, "replicas">> =>
         recorded[ns] = 0 /\ \A x \in DOMAIN stored[ns] : Len(x[1]) # 3
    /\ at \in {<<"open", ns>>, <<"load", ns>>} => recorded[ns] = 0 /\ stored[ns] = NoRules
    /\ at = <<"ask", ns>> => IsLoaded(ns, num_buckets)

PythonSide ==
  /\ at \in Stages("xpy") \cup {<<"write">>} => ~current /\ outcome = "none"
  /\ at = <<"write">> =>
       IsLoaded("xpy", num_buckets) /\ expected = Answers(Loaded(num_buckets), num_buckets, QUERIES)

GoSide ==
  /\ at \in Stages("xgo") => num_buckets = golden.num_buckets
  /\ current =>
       /\ IsLoaded("xpy", golden.num_buckets)
       /\ golden.expected = Answers(Loaded(golden.num_buckets), golden.num_buckets, QUERIES)

CrossInv ==
  CrossShapes /\ CrossProgress /\ PythonSide /\ GoSide /\ current \in BOOLEAN /\ GoldenReplays

-----------------------------------------------------------------------------

LEMMA CrossInitInv == CrosscheckInit => CrossInv
  <1> SUFFICES ASSUME CrosscheckInit PROVE CrossInv
    OBVIOUS
  <1>1. /\ stored = [ns \in Namespaces |-> NoRules] /\ recorded = [ns \in Namespaces |-> 0]
        /\ at = <<"idle">> /\ current = FALSE /\ outcome = "none"
    BY DEF CrosscheckInit, Namespaces
  <1>2. CrossShapes
    BY <1>1 DEF CrossShapes
  <1>3. CrossProgress /\ PythonSide /\ GoSide
    BY <1>1 DEF CrossProgress, PythonSide, GoSide, Stages
  <1> QED BY <1>1, <1>2, <1>3 DEF CrossInv, GoldenReplays

LEMMA StartKeepsInv == ASSUME CrossInv, StartPython \/ StartGo PROVE CrossInv'
  <1>1. CASE StartPython
    <2>1. /\ at' = <<"wipe", "xpy", "tagged">> /\ current' = FALSE /\ outcome' = "none"
          /\ UNCHANGED <<stored, recorded, expected, golden>>
      BY <1>1 DEF StartPython
    <2>2. CrossShapes'
      BY <2>1 DEF CrossInv, CrossShapes, Stages
    <2>3. CrossProgress' /\ PythonSide' /\ GoSide'
      BY <2>1 DEF CrossProgress, PythonSide, GoSide, Stages
    <2> QED BY <2>1, <2>2, <2>3 DEF CrossInv, GoldenReplays
  <1>2. CASE StartGo
    <2>1. /\ at' = <<"wipe", "xgo", "tagged">> /\ num_buckets' = golden.num_buckets
          /\ outcome' = "none" /\ UNCHANGED <<stored, recorded, expected, golden, current>>
      BY <1>2 DEF StartGo
    <2>2. CrossShapes'
      BY <2>1 DEF CrossInv, CrossShapes, Stages
    <2>3. CrossProgress' /\ PythonSide'
      BY <2>1 DEF CrossProgress, PythonSide, Stages
    <2>4. GoSide'
      BY <2>1 DEF CrossInv, GoSide, IsLoaded
    <2> QED BY <2>1, <2>2, <2>3, <2>4 DEF CrossInv, GoldenReplays
  <1> QED BY <1>1, <1>2

LEMMA WipeKeepsInv ==
  ASSUME CrossInv, NEW ns \in Namespaces, NEW shape \in {"tagged", "replicas"}, Wipe(ns, shape)
  PROVE  CrossInv'
  <1> DEFINE kept == DOMAIN stored[ns] \ Found(shape, ns)
  <1>1. /\ at = <<"wipe", ns, shape>>
        /\ stored' = [stored EXCEPT ![ns] = Restrict(stored[ns], kept)]
        /\ recorded' = [recorded EXCEPT ![ns] = IF shape = "tagged" THEN 0 ELSE recorded[ns]]
        /\ at' = IF shape = "tagged" THEN <<"wipe", ns, "replicas">> ELSE <<"open", ns>>
        /\ UNCHANGED <<num_buckets, expected, golden, current, outcome>>
    BY DEF Wipe, ForgetsCount
  <1>2. /\ stored'[ns] = Restrict(stored[ns], kept) /\ recorded'[ns] = 0
        /\ \A m \in Namespaces : m # ns => stored'[m] = stored[m] /\ recorded'[m] = recorded[m]
    BY <1>1 DEF CrossInv, CrossShapes, CrossProgress
  <1>3. CrossShapes'
    <2>1. at' \in Stages(ns)
      BY <1>1 DEF Stages
    <2>2. /\ stored' = [m \in Namespaces |-> stored'[m]]
          /\ recorded' = [m \in Namespaces |-> recorded'[m]]
      BY <1>1 DEF CrossInv, CrossShapes
    <2> QED BY <2>1, <2>2 DEF CrossShapes, Namespaces
  <1>4. CrossProgress'
    <2>1. CASE shape = "tagged"
      <3>1. \A x \in DOMAIN stored'[ns] : Len(x[1]) # 3
        BY <1>2, <2>1 DEF Restrict, Found
      <3> QED BY <1>1, <1>2, <2>1, <3>1 DEF CrossProgress, IsLoaded
    <2>2. CASE shape = "replicas"
      <3>1. kept = {}
        BY <1>1, <2>2 DEF CrossInv, CrossProgress, Found
      <3>2. stored'[ns] = NoRules
        BY <1>2, <3>1 DEF Restrict, NoRules
      <3> QED BY <1>1, <1>2, <2>2, <3>2 DEF CrossProgress, IsLoaded
    <2> QED BY <2>1, <2>2
  <1>5. at \in Stages(ns) /\ at' \in Stages(ns) /\ at' # <<"write">>
    BY <1>1 DEF Stages
  <1>6. PythonSide'
    <2>1. ns = "xpy" \/ at' \notin Stages("xpy")
      BY <1>1 DEF Stages, Namespaces
    <2> QED BY <1>1, <1>5, <2>1 DEF CrossInv, PythonSide
  <1>7. GoSide'
    <2>1. ns = "xgo" \/ at' \notin Stages("xgo")
      BY <1>1 DEF Stages, Namespaces
    <2>2. current => ns # "xpy"
      BY <1>5 DEF CrossInv, PythonSide
    <2>3. current => IsLoaded("xpy", golden.num_buckets)'
      BY <1>1, <1>2, <2>2 DEF CrossInv, GoSide, IsLoaded, Namespaces, Loaded, CountFor
    <2> QED BY <1>1, <1>5, <2>1, <2>3 DEF CrossInv, GoSide
  <1> QED BY <1>1, <1>3, <1>4, <1>6, <1>7 DEF CrossInv, GoldenReplays

LEMMA OpenKeepsInv ==
  ASSUME CrossInv, NEW ns \in Namespaces, OpenStore(ns)
  PROVE  CrossInv'
  <1>1. /\ at = <<"open", ns>> /\ at' = <<"load", ns>> /\ outcome' = outcome
        /\ UNCHANGED <<stored, recorded, num_buckets, expected, golden, current>>
    BY DEF OpenStore, CrossInv, CrossProgress
  <1>2. CrossShapes'
    BY <1>1 DEF CrossInv, CrossShapes, Stages, Namespaces
  <1>3. CrossProgress'
    BY <1>1 DEF CrossInv, CrossProgress
  <1>4. PythonSide' /\ GoSide'
    <2>1. /\ \A m \in Namespaces : at' \in Stages(m) => at \in Stages(m)
          /\ at' # <<"write">>
      BY <1>1 DEF Stages, Namespaces
    <2> QED BY <1>1, <2>1 DEF CrossInv, PythonSide, GoSide, IsLoaded, Namespaces
  <1> QED BY <1>1, <1>2, <1>3, <1>4 DEF CrossInv, GoldenReplays

LEMMA LoadKeepsInv ==
  ASSUME CrossInv, NEW ns \in Namespaces, LoadRules(ns)
  PROVE  CrossInv'
  <1>1. /\ at = <<"load", ns>> /\ at' = <<"ask", ns>>
        /\ stored' = [stored EXCEPT ![ns] = Loaded(num_buckets)]
        /\ recorded' = [recorded EXCEPT ![ns] = CountFor(num_buckets)]
        /\ UNCHANGED <<num_buckets, expected, golden, current, outcome>>
    BY DEF LoadRules, CrossInv, CrossShapes, CrossProgress, Loaded, CountFor
  <1>2. /\ stored'[ns] = Loaded(num_buckets) /\ recorded'[ns] = CountFor(num_buckets)
        /\ \A m \in Namespaces : m # ns => stored'[m] = stored[m] /\ recorded'[m] = recorded[m]
    BY <1>1 DEF CrossInv, CrossShapes
  <1>3. CrossShapes'
    <2>1. at' \in Stages(ns)
      BY <1>1 DEF Stages
    <2>2. /\ stored' = [m \in Namespaces |-> stored'[m]]
          /\ recorded' = [m \in Namespaces |-> recorded'[m]]
      BY <1>1 DEF CrossInv, CrossShapes
    <2> QED BY <2>1, <2>2 DEF CrossShapes, Namespaces
  <1>4. CrossProgress'
    BY <1>1, <1>2 DEF CrossProgress, IsLoaded, Loaded, CountFor
  <1>5. PythonSide' /\ GoSide'
    <2>1. /\ \A m \in Namespaces : at' \in Stages(m) => at \in Stages(m) /\ m = ns
          /\ at \in Stages(ns) /\ at' # <<"write">>
      BY <1>1 DEF Stages, Namespaces
    <2>2. current => ns # "xpy"
      BY <2>1 DEF CrossInv, PythonSide
    <2>3. current => IsLoaded("xpy", golden.num_buckets)'
      BY <1>1, <1>2, <2>2 DEF CrossInv, GoSide, IsLoaded, Namespaces, Loaded, CountFor
    <2> QED BY <1>1, <2>1, <2>3 DEF CrossInv, PythonSide, GoSide, Namespaces
  <1> QED BY <1>1, <1>3, <1>4, <1>5 DEF CrossInv, GoldenReplays

LEMMA FileKeepsInv == ASSUME CrossInv, AskPython \/ WriteFile PROVE CrossInv'
  <1>1. CASE AskPython
    <2>1. /\ at = <<"ask", "xpy">> /\ at' = <<"write">>
          /\ expected' = Answers(stored["xpy"], num_buckets, QUERIES)
          /\ UNCHANGED <<stored, recorded, num_buckets, golden, current, outcome>>
      BY <1>1 DEF AskPython
    <2>2. IsLoaded("xpy", num_buckets) /\ at \in Stages("xpy")
      BY <2>1 DEF CrossInv, CrossProgress, Stages, Namespaces
    <2>3. CrossShapes'
      BY <2>1 DEF CrossInv, CrossShapes
    <2>4. CrossProgress'
      BY <2>1 DEF CrossProgress
    <2>5. PythonSide'
      BY <2>1, <2>2 DEF CrossInv, PythonSide, IsLoaded
    <2>6. GoSide'
      <3>1. at' \notin Stages("xgo")
        BY <2>1 DEF Stages
      <3> QED BY <2>1, <3>1 DEF CrossInv, GoSide, IsLoaded
    <2> QED BY <2>1, <2>3, <2>4, <2>5, <2>6 DEF CrossInv, GoldenReplays
  <1>2. CASE WriteFile
    <2>1. /\ at = <<"write">> /\ at' = <<"idle">> /\ current' = TRUE
          /\ golden' = [num_buckets |-> num_buckets, expected |-> expected]
          /\ UNCHANGED <<stored, recorded, num_buckets, expected, outcome>>
      BY <1>2 DEF WriteFile
    <2>2. /\ IsLoaded("xpy", num_buckets) /\ outcome = "none"
          /\ expected = Answers(Loaded(num_buckets), num_buckets, QUERIES)
      BY <2>1 DEF CrossInv, PythonSide
    <2>3. CrossShapes'
      BY <2>1 DEF CrossInv, CrossShapes
    <2>4. CrossProgress' /\ PythonSide'
      BY <2>1 DEF CrossProgress, PythonSide, Stages
    <2>5. GoSide'
      BY <2>1, <2>2 DEF GoSide, IsLoaded, Stages
    <2> QED BY <2>1, <2>2, <2>3, <2>4, <2>5 DEF CrossInv, GoldenReplays
  <1> QED BY <1>1, <1>2

\* The Go side finds the keys, the count and the answers of the current file.
LEMMA ReplayKeepsInv == ASSUME CrossInv, Replay PROVE CrossInv'
  <1> DEFINE buckets == golden.num_buckets
  <1>1. /\ at = <<"ask", "xgo">> /\ at' = <<"idle">>
        /\ outcome' \in {"keys differ", "answers differ", "pass"}
        /\ UNCHANGED <<num_buckets, expected, golden, current>>
        /\ \/ UNCHANGED <<stored, recorded>>
           \/ /\ stored' = [stored EXCEPT !["xgo"] = NoRules]
              /\ recorded' = [recorded EXCEPT !["xgo"] = 0]
    BY DEF Replay
  <1>2. IsLoaded("xgo", num_buckets) /\ num_buckets = buckets
    BY <1>1 DEF CrossInv, CrossProgress, GoSide, Stages, Namespaces
  <1>3. ASSUME current PROVE outcome' = "pass"
    <2>1. /\ \A ns \in Namespaces : stored[ns] = Loaded(buckets) /\ recorded[ns] = CountFor(buckets)
          /\ golden.expected = Answers(Loaded(buckets), buckets, QUERIES)
      BY <1>2, <1>3 DEF CrossInv, GoSide, IsLoaded, Namespaces
    <2>2. KeysOfNamespace("xpy") = KeysOfNamespace("xgo")
      BY <2>1 DEF KeysOfNamespace, Namespaces
    <2>3. \A ns \in Namespaces : Answers(stored[ns], num_buckets, QUERIES) = golden.expected
      BY <1>2, <2>1
    <2>4. recorded["xpy"] = recorded["xgo"]
      BY <2>1 DEF Namespaces
    <2> QED BY <2>2, <2>3, <2>4 DEF Replay, Namespaces
  <1>4. CrossShapes'
    BY <1>1 DEF CrossInv, CrossShapes, Namespaces
  <1>5. CrossProgress' /\ PythonSide'
    BY <1>1 DEF CrossProgress, PythonSide, Stages
  <1>6. GoSide'
    <2>1. stored'["xpy"] = stored["xpy"] /\ recorded'["xpy"] = recorded["xpy"]
      BY <1>1 DEF CrossInv, CrossShapes, Namespaces
    <2> QED BY <1>1, <2>1 DEF CrossInv, GoSide, IsLoaded, Stages
  <1> QED BY <1>1, <1>3, <1>4, <1>5, <1>6 DEF CrossInv, GoldenReplays

LEMMA CrosscheckKeepsInv == ASSUME CrossInv, CrosscheckNext PROVE CrossInv'
  <1>1. CASE Interrupted
    <2>1. /\ at' = <<"idle">>
          /\ UNCHANGED <<stored, recorded, num_buckets, expected, golden, current, outcome>>
      BY <1>1 DEF Interrupted
    <2> QED BY <2>1 DEF CrossInv, CrossShapes, CrossProgress, PythonSide, GoSide, IsLoaded,
                        GoldenReplays, Stages
  <1> QED BY <1>1, StartKeepsInv, WipeKeepsInv, OpenKeepsInv, LoadKeepsInv, FileKeepsInv,
             ReplayKeepsInv DEF CrosscheckNext, Namespaces

LEMMA CrossStutter == ASSUME CrossInv, UNCHANGED crosscheckVars PROVE CrossInv'
  BY DEF CrossInv, CrossShapes, CrossProgress, PythonSide, GoSide, IsLoaded, GoldenReplays,
         crosscheckVars

-----------------------------------------------------------------------------
(* Disk and slow queries: the invariant *)

Lines ==
  [kind : {"timestamp", "avg-cpu:", "numbers", "blank", "Device", "section", "row",
           "top-slow", "keys:"},
   value : Int \cup Waits]

Readings == [at : Int \cup Waits, iowait : Int \cup Waits, util : Int \cup Waits]

\* What parse_iostat knows after the lines read so far.
Parses == [mode : {"none", "avg-cpu:", "Device"}, samples : Seq(Readings)]

NoSamples == [mode |-> "none", samples |-> <<>>]

Parsed(log) == FoldLeft(IostatLine, NoSamples, log)

\* The samples of the first num reports.
Reports(num) ==
  [k \in 1..num |-> [at |-> Interval * (k-1), iowait |-> Told(k), util |-> Told(k)]]

\* The sample of a report after j of its lines.
Partial(when, told, j) ==
  [at |-> when, iowait |-> IF j >= 3 THEN told ELSE 0, util |-> IF j >= 6 THEN told ELSE -1]

\* What p knows after j lines of a report that follows the samples of R.
KnowsAfter(p, R, when, told, j) ==
  /\ p.samples = IF j = 0 THEN R ELSE Append(R, Partial(when, told, j))
  /\ j = 2 => p.mode = "avg-cpu:"
  /\ j = 5 => p.mode = "Device"

\* What is read of the log as it is: the reports before the one it comes to,
\* and the lines of that one.
LogRead ==
  KnowsAfter(Parsed(iostat_log), Reports(report - 1), Interval * (report - 1), Told(report), written)

DiskTypes ==
  /\ run \in {"benchmark", "terminate", "correlate", "nothing", "report", "raised"}
  /\ disk \in Seq(Waits)
  /\ now \in Nat /\ Interval * Len(disk) <= now /\ now < Interval * Len(disk) + Interval
  /\ iostat_log \in Seq(Lines)
  /\ report \in 1..Len(disk)+2 /\ written \in 0..6
  /\ report > Len(disk) + 1 => written = 0
  /\ asked \in Seq(Nat)

\* Only a line that was due is torn, and only at the end.
LineTorn ==
  /\ run \in {"benchmark", "terminate"} => torn = Blank
  /\ torn # Blank => report <= Len(disk) + 1 /\ torn \in Pieces(Due)

\* What iostat's log reads as with the line it was stopped in.
AllRead == Parsed(Append(iostat_log, torn)).samples

\* What the parsers are given, and what they have made of it.
BothParsed ==
  /\ run # "benchmark" => bench_log \in Printed(asked)
  /\ run \in {"nothing", "report", "raised"} => slow_queries = asked /\ samples = dropFirst(AllRead)
  /\ run = "report" => samples # <<>> /\ \A i \in DOMAIN samples : samples[i].at # NoZone

DiskInv == DiskTypes /\ LogRead /\ LineTorn /\ BothParsed

-----------------------------------------------------------------------------
(* Reading a log line by line *)

\* The recursions behind the two parsers.
IostatStep(log, g) ==
  [s \in SUBSET DOMAIN log |->
     IF s = {} THEN NoSamples ELSE IostatLine(g[s \ {Max(s)}], log[Max(s)])]

\* A line of a log keeps what is known well-formed.
LEMMA IostatLineType ==
  ASSUME NEW p \in Parses, NEW line \in Lines
  PROVE  IostatLine(p, line) \in Parses
  <1>1. /\ p.mode \in {"none", "avg-cpu:", "Device"} /\ p.samples \in Seq(Readings)
        /\ p = [mode |-> p.mode, samples |-> p.samples]
    BY DEF Parses
  <1>2. line.value \in Int \cup Waits
    BY DEF Lines
  <1>3. CASE line.kind = "timestamp"
    <2>1. [at |-> line.value, iowait |-> 0, util |-> -1] \in Readings
      BY <1>2 DEF Readings
    <2>2. Append(p.samples, [at |-> line.value, iowait |-> 0, util |-> -1]) \in Seq(Readings)
      BY <1>1, <2>1
    <2> QED BY <1>3, <2>2 DEF IostatLine, Parses
  <1>4. CASE line.kind # "timestamp" /\ (line.kind = "blank" \/ p.samples = <<>>)
    BY <1>4 DEF IostatLine
  <1>5. CASE line.kind \notin {"timestamp", "blank"} /\ p.samples # <<>>
    <2>1. PICK num \in Nat \ {0} : num = Len(p.samples)
      BY <1>1, <1>5
    <2>2. p.samples[num] \in Readings
      BY <1>1, <2>1
    <2>3. WithLast(p.samples, "iowait", line.value) \in Seq(Readings)
      <3>1. [p.samples[num] EXCEPT !["iowait"] = line.value] \in Readings
        BY <1>2, <2>2 DEF Readings
      <3>2. [p.samples EXCEPT ![num] = [p.samples[num] EXCEPT !["iowait"] = line.value]] \in Seq(Readings)
        BY <1>1, <2>1, <3>1
      <3> QED BY <2>1, <3>2 DEF WithLast
    <2>4. WithLast(p.samples, "util", line.value) \in Seq(Readings)
      <3>1. [p.samples[num] EXCEPT !["util"] = line.value] \in Readings
        BY <1>2, <2>2 DEF Readings
      <3>2. [p.samples EXCEPT ![num] = [p.samples[num] EXCEPT !["util"] = line.value]] \in Seq(Readings)
        BY <1>1, <2>1, <3>1
      <3> QED BY <2>1, <3>2 DEF WithLast
    <2>5. CASE line.kind \in {"avg-cpu:", "Device"}
      BY <1>1, <1>5, <2>5 DEF IostatLine, Parses
    <2>6. CASE line.kind \notin {"avg-cpu:", "Device"} /\ p.mode = "avg-cpu:"
      BY <1>1, <1>5, <2>3, <2>6 DEF IostatLine, Parses
    <2>7. CASE line.kind \notin {"avg-cpu:", "Device"} /\ p.mode = "Device"
      BY <1>1, <1>5, <2>4, <2>7 DEF IostatLine, Parses
    <2>8. CASE line.kind \notin {"avg-cpu:", "Device"} /\ p.mode = "none"
      BY <1>1, <1>5, <2>8 DEF IostatLine
    <2> QED BY <1>1, <2>5, <2>6, <2>7, <2>8
  <1> QED BY <1>3, <1>4, <1>5

LEMMA IostatRuns ==
  ASSUME NEW log \in Seq(Lines)
  PROVE  \E r \in [0..Len(log) -> Parses] :
           /\ r[0] = NoSamples
           /\ \A k \in 1..Len(log) : r[k] = IostatLine(r[k-1], log[k])
           /\ Parsed(log) = r[Len(log)]
  <1> DEFINE op == [z \in Lines \X Parses |-> IostatLine(z[2], z[1])]
             c == CHOOSE g : g = IostatStep(log, g)
  <1>1. \A i \in DOMAIN log : log[i] \in Lines
    OBVIOUS
  <1>2. NoSamples \in Parses
    BY DEF NoSamples, Parses
  <1>3. \A x \in Lines, a \in Parses :
          op[<<x, a>>] = IostatLine(a, x) /\ op[<<x, a>>] \in Parses
    BY IostatLineType
  <1> HIDE DEF op
  <1>4. \E g : g = IostatStep(log, g)
    <2>1. PICK g : IsFoldLeft(g, op, NoSamples, log, Parses)
      <3>1. \A x \in Lines, a \in Parses : op[<<x, a>>] \in Parses
        BY <1>3
      <3> HIDE DEF c
      <3> QED BY <1>2, <3>1, FoldLeftExists
    <2>2. ASSUME NEW s \in SUBSET DOMAIN log
          PROVE  g[s] = IostatStep(log, g)[s]
      <3>1. CASE s = {}
        BY <2>1, <3>1 DEF IsFoldLeft, FoldStep, IostatStep
      <3>2. CASE s # {}
        <4>1. Max(s) \in s
          <5>1. DOMAIN log = 1..Len(log) /\ Len(log) \in Nat
            OBVIOUS
          <5> QED BY <3>2, <5>1, MaxPosition
        <4>2. log[Max(s)] \in Lines /\ g[s \ {Max(s)}] \in Parses
          BY <1>1, <2>1, <4>1 DEF IsFoldLeft
        <4>3. op[<<log[Max(s)], g[s \ {Max(s)}]>>] = IostatLine(g[s \ {Max(s)}], log[Max(s)])
          BY <1>3, <4>2
        <4> QED BY <2>1, <3>2, <4>3 DEF IsFoldLeft, FoldStep, IostatStep
      <3> QED BY <3>1, <3>2
    <2>3. g = IostatStep(log, g)
      BY <2>1, <2>2 DEF IsFoldLeft, FoldStep, IostatStep
    <2> QED BY <2>3
  <1>5. c = IostatStep(log, c)
    <2> HIDE DEF IostatStep
    <2> QED BY <1>4
  <1>6. Parsed(log) = c[DOMAIN log]
    BY DEF Parsed, FoldLeft, MapThenFoldSet, IostatStep
  <1> HIDE DEF c
  <1>7. c[{}] = NoSamples
    BY <1>5 DEF IostatStep
  <1>8. ASSUME NEW s \in SUBSET DOMAIN log, s # {}, c[s \ {Max(s)}] \in Parses
        PROVE  c[s] = op[<<log[Max(s)], c[s \ {Max(s)}]>>]
    <2>1. Max(s) \in s
      <3>1. DOMAIN log = 1..Len(log) /\ Len(log) \in Nat
        OBVIOUS
      <3> QED BY <1>8, <3>1, MaxPosition
    <2>2. log[Max(s)] \in Lines
      BY <1>1, <2>1
    <2>3. c[s] = IostatLine(c[s \ {Max(s)}], log[Max(s)])
      BY <1>5, <1>8 DEF IostatStep
    <2> QED BY <1>3, <1>8, <2>2, <2>3
  <1>9. PICK r : IsRun(r, op, NoSamples, log, Parses, c[DOMAIN log])
    <2>1. \A x \in Lines, a \in Parses : op[<<x, a>>] \in Parses
      BY <1>3
    <2>2. \A s \in SUBSET DOMAIN log :
            s # {} /\ c[s \ {Max(s)}] \in Parses =>
              c[s] = op[<<log[Max(s)], c[s \ {Max(s)}]>>]
      BY <1>8
    <2> HIDE DEF Parses, Lines, NoSamples
    <2> QED BY <1>2, <1>7, <2>1, <2>2, FoldLeftRun
  <1>10. ASSUME NEW k \in 1..Len(log) PROVE r[k] = IostatLine(r[k-1], log[k])
    <2>1. k - 1 \in 0..Len(log) /\ log[k] \in Lines
      BY <1>1
    <2> QED BY <1>3, <1>9, <2>1 DEF IsRun
  <1> QED BY <1>6, <1>9, <1>10 DEF IsRun

\* What is known after one more line.
LEMMA NextLine ==
  ASSUME NEW log \in Seq(Lines), NEW line \in Lines
  PROVE  Parsed(log) \in Parses /\ Parsed(Append(log, line)) = IostatLine(Parsed(log), line)
  <1> DEFINE num == Len(log)
             more == Append(log, line)
  <1>1. num \in Nat /\ more \in Seq(Lines) /\ Len(more) = num + 1 /\ more[num+1] = line
        /\ \A k \in 1..num : more[k] = log[k]
    OBVIOUS
  <1>2. PICK r \in [0..num -> Parses] :
          /\ r[0] = NoSamples /\ \A k \in 1..num : r[k] = IostatLine(r[k-1], log[k])
          /\ Parsed(log) = r[num]
    BY IostatRuns
  <1> HIDE DEF more
  <1>3. PICK q \in [0..Len(more) -> Parses] :
          /\ q[0] = NoSamples /\ \A k \in 1..Len(more) : q[k] = IostatLine(q[k-1], more[k])
          /\ Parsed(more) = q[Len(more)]
    BY <1>1, IostatRuns
  <1> DEFINE Good == {k \in 0..num : q[k] = r[k]}
  <1> HIDE DEF num
  <1>4. ASSUME NEW k \in 0..num-1, k \in Good PROVE k + 1 \in Good
    <2>1. k + 1 \in 1..num /\ k + 1 \in 1..Len(more) /\ (k + 1) - 1 = k /\ k + 1 \in 0..num
      BY <1>1
    <2>2. r[k+1] = IostatLine(r[k], log[k+1]) /\ q[k+1] = IostatLine(q[k], more[k+1])
      BY <1>2, <1>3, <2>1
    <2> QED BY <1>1, <1>4, <2>1, <2>2
  <1>5. num \in Good
    <2>1. 0 \in Good
      BY <1>1, <1>2, <1>3
    <2>2. 0..num \subseteq Good
      <3> HIDE DEF Good
      <3> QED BY <1>1, <1>4, <2>1, StepByStep
    <2>3. num \in 0..num
      BY <1>1
    <2> HIDE DEF Good
    <2> QED BY <2>2, <2>3
  <1>6. q[num+1] = IostatLine(q[num], line)
    <2>1. num + 1 \in 1..Len(more) /\ (num + 1) - 1 = num
      BY <1>1
    <2> QED BY <1>1, <1>3, <2>1
  <1>7. r[num] \in Parses /\ q[num] = r[num]
    BY <1>1, <1>2, <1>5
  <1> QED BY <1>1, <1>2, <1>3, <1>6, <1>7 DEF more

LEMMA NoLines == Parsed(<<>>) = NoSamples
  <1>1. <<>> \in Seq(Lines) /\ Len(<<>>) = 0
    OBVIOUS
  <1> QED BY <1>1, IostatRuns

-----------------------------------------------------------------------------
(* The steps of iostat *)

\* The last sample is changed, the earlier ones are not.
LEMMA LastChanged ==
  ASSUME NEW R \in Seq(Readings), NEW x \in Readings, NEW v \in Int \cup Waits
  PROVE  /\ WithLast(Append(R, x), "iowait", v) = Append(R, [x EXCEPT !.iowait = v])
         /\ WithLast(Append(R, x), "util", v) = Append(R, [x EXCEPT !.util = v])
  <1> DEFINE num == Len(R) + 1
  <1>1. ASSUME NEW y \in Readings
        PROVE  [Append(R, x) EXCEPT ![num] = y] = Append(R, y)
    <2> DEFINE a == Append(R, x)
               e == [a EXCEPT ![num] = y]
    <2>0. /\ a \in Seq(Readings) /\ Len(a) = num /\ num \in Nat /\ num \in 1..num
          /\ \A k \in 1..Len(R) : a[k] = R[k] /\ k \in 1..num /\ k # num
      OBVIOUS
    <2>1. e \in Seq(Readings) /\ Len(e) = num /\ e[num] = y /\ \A k \in 1..Len(R) : e[k] = R[k]
      <3> HIDE DEF a, num
      <3> QED BY <2>0
    <2>2. /\ Append(R, y) \in Seq(Readings) /\ Len(Append(R, y)) = num /\ Append(R, y)[num] = y
          /\ \A k \in 1..Len(R) : Append(R, y)[k] = R[k]
      OBVIOUS
    <2>3. e = Append(R, y)
      <3>1. \A k \in 1..num : e[k] = Append(R, y)[k]
        <4>1. \A k \in 1..num : k \in 1..Len(R) \/ k = num
          OBVIOUS
        <4> HIDE DEF e, num
        <4> QED BY <2>1, <2>2, <4>1
      <3> HIDE DEF e, num
      <3> QED BY <2>0, <2>1, <2>2, <3>1
    <2> QED BY <2>3
  <1>2. Len(Append(R, x)) = num /\ Append(R, x)[num] = x
    OBVIOUS
  <1>3. [x EXCEPT !.iowait = v] \in Readings /\ [x EXCEPT !.util = v] \in Readings
    BY DEF Readings
  <1> HIDE DEF num
  <1> QED BY <1>1, <1>2, <1>3 DEF WithLast

\* The seven lines of a report.
LEMMA LinesOfReport ==
  ASSUME NEW when \in Int, NEW told \in Int \cup Waits
  PROVE  ReportLines(when, told) \in Seq(Lines) /\ Len(ReportLines(when, told)) = 7
  BY DEF ReportLines, Line, Lines, Blank

\* One line more of a report is read.
LEMMA ReportRead ==
  ASSUME NEW R \in Seq(Readings), NEW when \in Int, NEW told \in Int \cup Waits, NEW j \in 0..6,
         NEW p \in Parses, KnowsAfter(p, R, when, told, j)
  PROVE  KnowsAfter(IostatLine(p, ReportLines(when, told)[j+1]), R, when, told, j + 1)
  <1>0. PICK q : q = IostatLine(p, ReportLines(when, told)[j+1])
    OBVIOUS
  <1> SUFFICES /\ q.samples = Append(R, Partial(when, told, j + 1))
               /\ j + 1 = 2 => q.mode = "avg-cpu:"
               /\ j + 1 = 5 => q.mode = "Device"
    <2>1. j + 1 # 0
      OBVIOUS
    <2>2. KnowsAfter(q, R, when, told, j + 1)
      BY <2>1 DEF KnowsAfter
    <2> QED BY <1>0, <2>2
  <1> USE <1>0 DEF KnowsAfter
  <1>1. /\ p = [mode |-> p.mode, samples |-> p.samples] /\ p.samples \in Seq(Readings)
    BY DEF Parses
  <1>2. \A k \in 0..7 : Partial(when, told, k) \in Readings
    BY DEF Partial, Readings
  <1>3. \A x \in Readings : Append(R, x) # <<>>
    OBVIOUS
  <1>4. j > 0 => p.samples # <<>>
    BY <1>2, <1>3
  <1>5. CASE j = 0
    <2>1. ReportLines(when, told)[j+1] = Line("timestamp", when)
      BY <1>5 DEF ReportLines
    <2>2. Partial(when, told, 1) = [at |-> when, iowait |-> 0, util |-> -1]
      BY DEF Partial
    <2> QED BY <1>5, <2>1, <2>2 DEF IostatLine, Line
  <1>6. CASE j = 1
    <2>1. ReportLines(when, told)[j+1] = Line("avg-cpu:", 0)
      BY <1>6 DEF ReportLines
    <2>2. Partial(when, told, 2) = Partial(when, told, 1)
      BY DEF Partial
    <2> QED BY <1>1, <1>4, <1>6, <2>1, <2>2 DEF IostatLine, Line
  <1>7. CASE j = 2
    <2>1. ReportLines(when, told)[j+1] = Line("numbers", told)
      BY <1>7 DEF ReportLines
    <2>2. Partial(when, told, 3) = [Partial(when, told, 2) EXCEPT !.iowait = told]
      BY DEF Partial
    <2>3. WithLast(p.samples, "iowait", told) = Append(R, Partial(when, told, 3))
      <3>1. PICK x \in Readings : x = Partial(when, told, 2)
        BY <1>2
      <3>2. WithLast(Append(R, x), "iowait", told) = Append(R, [x EXCEPT !.iowait = told])
        BY LastChanged
      <3>3. p.samples = Append(R, x)
        BY <1>7, <3>1
      <3> QED BY <2>2, <3>1, <3>2, <3>3
    <2> QED BY <1>4, <1>7, <2>1, <2>3 DEF IostatLine, Line
  <1>8. CASE j = 3
    <2>1. ReportLines(when, told)[j+1] = Line("blank", 0)
      BY <1>8 DEF ReportLines, Blank
    <2>2. Partial(when, told, 4) = Partial(when, told, 3)
      BY DEF Partial
    <2> QED BY <1>8, <2>1, <2>2 DEF IostatLine, Line
  <1>9. CASE j = 4
    <2>1. ReportLines(when, told)[j+1] = Line("Device", 0)
      BY <1>9 DEF ReportLines
    <2>2. Partial(when, told, 5) = Partial(when, told, 4)
      BY DEF Partial
    <2> QED BY <1>1, <1>4, <1>9, <2>1, <2>2 DEF IostatLine, Line
  <1>10. CASE j = 5
    <2>1. ReportLines(when, told)[j+1] = Line("numbers", told)
      BY <1>10 DEF ReportLines
    <2>2. Partial(when, told, 6) = [Partial(when, told, 5) EXCEPT !.util = told]
      BY DEF Partial
    <2>3. WithLast(p.samples, "util", told) = Append(R, Partial(when, told, 6))
      <3>1. PICK x \in Readings : x = Partial(when, told, 5)
        BY <1>2
      <3>2. WithLast(Append(R, x), "util", told) = Append(R, [x EXCEPT !.util = told])
        BY LastChanged
      <3>3. p.samples = Append(R, x)
        BY <1>10, <3>1
      <3> QED BY <2>2, <3>1, <3>2, <3>3
    <2> QED BY <1>1, <1>4, <1>10, <2>1, <2>3 DEF IostatLine, Line
  <1>11. CASE j = 6
    <2>1. ReportLines(when, told)[j+1] = Line("blank", 0)
      BY <1>11 DEF ReportLines, Blank
    <2>2. Partial(when, told, 7) = Partial(when, told, 6)
      BY DEF Partial
    <2> QED BY <1>11, <2>1, <2>2 DEF IostatLine, Line
  <1> QED BY <1>5, <1>6, <1>7, <1>8, <1>9, <1>10, <1>11

\* What the disk was told to be doing.
LEMMA ToldType ==
  ASSUME DiskTypes
  PROVE  /\ Len(disk) \in Nat /\ Interval \in Nat \ {0}
         /\ \A k \in 1..Len(disk)+1 :
              Told(k) \in Nat /\ Told(k) \in Int \cup Waits /\ Interval * (k - 1) \in Nat
         /\ \A num \in 0..Len(disk)+1 : Reports(num) \in Seq(Readings) /\ Len(Reports(num)) = num
  <1>1. Len(disk) \in Nat /\ Interval \in Nat \ {0} /\ \A k \in 1..Len(disk) : disk[k] \in Waits
    BY CorrelationAssumption DEF DiskTypes
  <1>2. ASSUME NEW k \in 1..Len(disk)+1
        PROVE  Told(k) \in Nat /\ Told(k) \in Int \cup Waits /\ Interval * (k - 1) \in Nat
    <2>1. k - 1 \in Nat /\ (k # 1 => k - 1 \in 1..Len(disk))
      BY <1>1
    <2>2. Interval * (k - 1) \in Nat
      <3>1. \A a, b \in Nat : a * b \in Nat
        OBVIOUS
      <3> QED BY <1>1, <2>1, <3>1
    <2>3. Told(k) \in Nat
      BY <1>1, <2>1, CorrelationAssumption DEF Told
    <2>4. Told(k) \in Int \cup Waits
      BY <2>3
    <2> QED BY <2>2, <2>3, <2>4
  <1>3. ASSUME NEW num \in 0..Len(disk)+1
        PROVE  Reports(num) \in Seq(Readings) /\ Len(Reports(num)) = num
    <2>1. num \in Nat /\ \A k \in 1..num : k \in 1..Len(disk)+1
      BY <1>1
    <2>2. \A k \in 1..num :
            [at |-> Interval * (k-1), iowait |-> Told(k), util |-> Told(k)] \in Readings
      BY <1>2, <2>1 DEF Readings
    <2> QED BY <2>1, <2>2 DEF Reports
  <1> QED BY <1>1, <1>2, <1>3

\* The line that is due: of which report, saying what.
LEMMA DueIs ==
  ASSUME DiskTypes, report <= Len(disk) + 1
  PROVE  \E when \in Nat, told \in Nat, j \in 0..6, R \in Seq(Readings), lines \in Seq(Lines) :
           /\ when = Interval * (report - 1) /\ told = Told(report) /\ j = written
           /\ R = Reports(report - 1) /\ Len(R) = report - 1
           /\ lines = ReportLines(when, told) /\ Len(lines) = 7
           /\ Due = lines[j+1] /\ Due \in Lines
  <1>1. report \in 1..Len(disk)+1 /\ report - 1 \in 0..Len(disk)+1
    BY ToldType DEF DiskTypes
  <1>2. PICK when \in Nat, told \in Nat : when = Interval * (report - 1) /\ told = Told(report)
    BY <1>1, ToldType
  <1>3. PICK lines \in Seq(Lines) : lines = ReportLines(when, told) /\ Len(lines) = 7
    <2>1. when \in Int /\ told \in Int \cup Waits
      BY <1>2
    <2> QED BY <2>1, LinesOfReport
  <1>4. PICK j \in 0..6 : j = written
    BY DEF DiskTypes
  <1>5. Due = lines[j+1] /\ Due \in Lines
    <2>1. j + 1 \in 1..Len(lines)
      BY <1>3
    <2>2. lines[j+1] \in Lines
      BY <2>1
    <2> QED BY <1>2, <1>3, <1>4, <2>2 DEF Due
  <1>6. PICK R \in Seq(Readings) : R = Reports(report - 1) /\ Len(R) = report - 1
    BY <1>1, ToldType
  <1> QED BY <1>2, <1>3, <1>4, <1>5, <1>6

\* All lines of a report make one sample more.
LEMMA ReportEnds ==
  ASSUME DiskTypes, NEW k \in 1..Len(disk)+1
  PROVE  Append(Reports(k - 1), Partial(Interval * (k - 1), Told(k), 7)) = Reports(k)
  <1>1. PICK l \in Nat : l = k - 1 /\ k = l + 1 /\ l \in 0..Len(disk)+1 /\ k \in 0..Len(disk)+1
    BY ToldType
  <1>2. /\ Reports(l) \in Seq(Readings) /\ Len(Reports(l)) = l
        /\ Reports(l + 1) \in Seq(Readings) /\ Len(Reports(l + 1)) = l + 1
    BY <1>1, ToldType
  <1>3. \A i \in 1..l : Reports(l + 1)[i] = Reports(l)[i]
    BY DEF Reports
  <1>4. Reports(l + 1)[l+1] = Partial(Interval * (k - 1), Told(k), 7)
    <2>1. l + 1 \in 1..l+1
      BY <1>1
    <2> QED BY <1>1, <2>1 DEF Reports, Partial
  <1>5. Partial(Interval * (k - 1), Told(k), 7) \in Readings
    BY ToldType DEF Partial, Readings
  <1> QED BY <1>1, <1>2, <1>3, <1>4, <1>5

LEMMA WriteGoesOn ==
  ASSUME DiskInv, Write
  PROVE  LogRead' /\ iostat_log' \in Seq(Lines)
  <1>1. DiskTypes /\ LogRead
    BY DEF DiskInv
  <1>2. /\ report <= Len(disk) + 1 /\ iostat_log' = Append(iostat_log, Due) /\ disk' = disk
        /\ IF written = 6 THEN report' = report + 1 /\ written' = 0
                          ELSE written' = written + 1 /\ report' = report
    BY DEF Write
  <1>3. PICK when \in Nat, told \in Nat, j \in 0..6, R \in Seq(Readings), lines \in Seq(Lines) :
           /\ when = Interval * (report - 1) /\ told = Told(report) /\ j = written
           /\ R = Reports(report - 1) /\ Len(R) = report - 1
           /\ lines = ReportLines(when, told) /\ Len(lines) = 7
           /\ Due = lines[j+1] /\ Due \in Lines
    BY <1>1, <1>2, DueIs
  <1>4. PICK line \in Lines : line = Due
    BY <1>3
  <1>5. iostat_log \in Seq(Lines) /\ iostat_log' \in Seq(Lines)
    BY <1>1, <1>2, <1>4 DEF DiskTypes
  <1>6. PICK p \in Parses : p = Parsed(iostat_log)
    BY <1>4, <1>5, NextLine
  <1>7. Parsed(iostat_log') = IostatLine(p, line)
    BY <1>2, <1>4, <1>5, <1>6, NextLine
  <1>8. KnowsAfter(p, R, when, told, j)
    BY <1>1, <1>3, <1>6 DEF LogRead
  <1>9. KnowsAfter(Parsed(iostat_log'), R, when, told, j + 1)
    <2>1. when \in Int /\ told \in Int \cup Waits
      OBVIOUS
    <2>2. KnowsAfter(IostatLine(p, ReportLines(when, told)[j+1]), R, when, told, j + 1)
      BY <1>8, <2>1, ReportRead
    <2> QED BY <1>3, <1>4, <1>7, <2>2
  <1>10. CASE j # 6
    <2>1. /\ (Interval * (report - 1))' = when /\ written' = j + 1
          /\ Told(report)' = told /\ Reports(report - 1)' = R
      BY <1>2, <1>3, <1>10 DEF Told, Reports
    <2> QED BY <1>5, <1>9, <2>1 DEF LogRead
  <1>11. CASE j = 6
    <2>1. PICK k \in 1..Len(disk)+1 : k = report /\ (k + 1) - 1 = k
      BY <1>1, <1>2, ToldType DEF DiskTypes
    <2>2. Parsed(iostat_log').samples = Append(R, Partial(when, told, 7))
      BY <1>9, <1>11 DEF KnowsAfter
    <2>3. Append(R, Partial(when, told, 7)) = Reports(k)
      BY <1>1, <1>3, <2>1, ReportEnds
    <2>4. Reports(report - 1)' = Reports(k) /\ written' = 0
      BY <1>2, <1>3, <1>11, <2>1 DEF Told, Reports
    <2> QED BY <1>5, <2>2, <2>3, <2>4 DEF LogRead, KnowsAfter
  <1> QED BY <1>10, <1>11

-----------------------------------------------------------------------------
(* The rows of the slowest-queries section *)

BenchLines == [kind : {"section", "row", "top-slow", "keys:"}, value : Nat]

\* What parse_top_slow knows after the lines read so far.
RowsFound == [in : BOOLEAN, over : BOOLEAN, out : Seq(Nat)]

NoRows == [in |-> FALSE, over |-> FALSE, out |-> <<>>]

TopSlowStep(log, g) ==
  [s \in SUBSET DOMAIN log |->
     IF s = {} THEN NoRows ELSE TopSlowLine(g[s \ {Max(s)}], log[Max(s)])]

LEMMA TopSlowLineType ==
  ASSUME NEW p \in RowsFound, NEW line \in BenchLines
  PROVE  TopSlowLine(p, line) \in RowsFound
  <1>1. /\ p.in \in BOOLEAN /\ p.over \in BOOLEAN /\ p.out \in Seq(Nat)
        /\ p = [in |-> p.in, over |-> p.over, out |-> p.out] /\ line.value \in Nat
    BY DEF RowsFound, BenchLines
  <1>2. Append(p.out, line.value) \in Seq(Nat)
    BY <1>1
  <1>3. /\ [p EXCEPT !.in = TRUE] \in RowsFound /\ [p EXCEPT !.over = TRUE] \in RowsFound
        /\ [p EXCEPT !.out = Append(p.out, line.value)] \in RowsFound
    BY <1>2 DEF RowsFound
  <1> QED BY <1>3 DEF TopSlowLine

LEMMA TopSlowRuns ==
  ASSUME NEW log \in Seq(BenchLines)
  PROVE  \E r \in [0..Len(log) -> RowsFound] :
           /\ r[0] = NoRows
           /\ \A k \in 1..Len(log) : r[k] = TopSlowLine(r[k-1], log[k])
           /\ FoldLeft(TopSlowLine, NoRows, log) = r[Len(log)]
  <1> DEFINE op == [z \in BenchLines \X RowsFound |-> TopSlowLine(z[2], z[1])]
             c == CHOOSE g : g = TopSlowStep(log, g)
  <1>1. \A i \in DOMAIN log : log[i] \in BenchLines
    OBVIOUS
  <1>2. NoRows \in RowsFound
    BY DEF NoRows, RowsFound
  <1>3. \A x \in BenchLines, a \in RowsFound :
          op[<<x, a>>] = TopSlowLine(a, x) /\ op[<<x, a>>] \in RowsFound
    BY TopSlowLineType
  <1> HIDE DEF op
  <1>4. \E g : g = TopSlowStep(log, g)
    <2>1. PICK g : IsFoldLeft(g, op, NoRows, log, RowsFound)
      <3>1. \A x \in BenchLines, a \in RowsFound : op[<<x, a>>] \in RowsFound
        BY <1>3
      <3> HIDE DEF c
      <3> QED BY <1>2, <3>1, FoldLeftExists
    <2>2. ASSUME NEW s \in SUBSET DOMAIN log
          PROVE  g[s] = TopSlowStep(log, g)[s]
      <3>1. CASE s = {}
        BY <2>1, <3>1 DEF IsFoldLeft, FoldStep, TopSlowStep
      <3>2. CASE s # {}
        <4>1. Max(s) \in s
          <5>1. DOMAIN log = 1..Len(log) /\ Len(log) \in Nat
            OBVIOUS
          <5> QED BY <3>2, <5>1, MaxPosition
        <4>2. log[Max(s)] \in BenchLines /\ g[s \ {Max(s)}] \in RowsFound
          BY <1>1, <2>1, <4>1 DEF IsFoldLeft
        <4>3. op[<<log[Max(s)], g[s \ {Max(s)}]>>] = TopSlowLine(g[s \ {Max(s)}], log[Max(s)])
          BY <1>3, <4>2
        <4> QED BY <2>1, <3>2, <4>3 DEF IsFoldLeft, FoldStep, TopSlowStep
      <3> QED BY <3>1, <3>2
    <2>3. g = TopSlowStep(log, g)
      BY <2>1, <2>2 DEF IsFoldLeft, FoldStep, TopSlowStep
    <2> QED BY <2>3
  <1>5. c = TopSlowStep(log, c)
    <2> HIDE DEF TopSlowStep
    <2> QED BY <1>4
  <1>6. FoldLeft(TopSlowLine, NoRows, log) = c[DOMAIN log]
    BY DEF FoldLeft, MapThenFoldSet, TopSlowStep
  <1> HIDE DEF c
  <1>7. c[{}] = NoRows
    BY <1>5 DEF TopSlowStep
  <1>8. ASSUME NEW s \in SUBSET DOMAIN log, s # {}, c[s \ {Max(s)}] \in RowsFound
        PROVE  c[s] = op[<<log[Max(s)], c[s \ {Max(s)}]>>]
    <2>1. Max(s) \in s
      <3>1. DOMAIN log = 1..Len(log) /\ Len(log) \in Nat
        OBVIOUS
      <3> QED BY <1>8, <3>1, MaxPosition
    <2>2. log[Max(s)] \in BenchLines
      BY <1>1, <2>1
    <2>3. c[s] = TopSlowLine(c[s \ {Max(s)}], log[Max(s)])
      BY <1>5, <1>8 DEF TopSlowStep
    <2> QED BY <1>3, <1>8, <2>2, <2>3
  <1>9. PICK r : IsRun(r, op, NoRows, log, RowsFound, c[DOMAIN log])
    <2>1. \A x \in BenchLines, a \in RowsFound : op[<<x, a>>] \in RowsFound
      BY <1>3
    <2>2. \A s \in SUBSET DOMAIN log :
            s # {} /\ c[s \ {Max(s)}] \in RowsFound =>
              c[s] = op[<<log[Max(s)], c[s \ {Max(s)}]>>]
      BY <1>8
    <2> HIDE DEF RowsFound, BenchLines, NoRows
    <2> QED BY <1>2, <1>7, <2>1, <2>2, FoldLeftRun
  <1>10. ASSUME NEW k \in 1..Len(log) PROVE r[k] = TopSlowLine(r[k-1], log[k])
    <2>1. k - 1 \in 0..Len(log) /\ log[k] \in BenchLines
      BY <1>1
    <2> QED BY <1>3, <1>9, <2>1 DEF IsRun
  <1> QED BY <1>6, <1>9, <1>10 DEF IsRun

\* b goes on after a with x and y.
GoesOn(a, b, x, y) ==
  /\ Len(b) = Len(a) + 2
  /\ \A k \in 1..Len(a) : b[k] = a[k]
  /\ b[Len(a)+1] = x /\ b[Len(a)+2] = y

LEMMA PairAdded ==
  ASSUME NEW S, NEW a \in Seq(S), NEW b \in Seq(S), NEW x \in S, NEW y \in S, GoesOn(a, b, x, y)
  PROVE  b = a \o <<x, y>>
  <1>1. PICK p : p = <<x, y>>
    OBVIOUS
  <1>1a. p \in Seq(S) /\ Len(p) = 2 /\ p[1] = x /\ p[2] = y
    BY <1>1
  <1>2. /\ a \o p \in Seq(S) /\ Len(a \o p) = Len(a) + Len(p)
        /\ \A k \in 1..Len(a) : (a \o p)[k] = a[k]
        /\ \A k \in 1..Len(p) : (a \o p)[Len(a)+k] = p[k]
    <2>1. p \in Seq(S)
      BY <1>1a
    <2>2. \A u, v \in Seq(S) :
            /\ u \o v \in Seq(S) /\ Len(u \o v) = Len(u) + Len(v)
            /\ \A k \in 1..Len(u) : (u \o v)[k] = u[k]
            /\ \A k \in 1..Len(v) : (u \o v)[Len(u)+k] = v[k]
      BY JoinIs
    <2> QED BY <2>1, <2>2, Zenon
  <1>3. PICK l \in Nat : l = Len(a)
    OBVIOUS
  <1>4. GoesOn(a, a \o p, x, y)
    BY <1>1a, <1>2 DEF GoesOn
  <1>5. ASSUME NEW c \in Seq(S), GoesOn(a, c, x, y)
        PROVE  Len(c) = l + 2 /\ \A k \in 1..l+2 : c[k] = IF k <= l THEN a[k] ELSE IF k = l + 1 THEN x ELSE y
    BY <1>3, <1>5 DEF GoesOn
  <1> DEFINE f == [k \in 1..l+2 |-> IF k <= l THEN a[k] ELSE IF k = l + 1 THEN x ELSE y]
  <1>6. PICK num \in Nat : num = l + 2
    OBVIOUS
  <1>7. ASSUME NEW c \in Seq(S), GoesOn(a, c, x, y) PROVE c = f
    <2>1. Len(c) = num /\ \A k \in 1..num : c[k] = f[k]
      BY <1>5, <1>6, <1>7
    <2>2. DOMAIN f = 1..num /\ f = [k \in 1..num |-> f[k]] /\ c = [k \in 1..Len(c) |-> c[k]]
      BY <1>6
    <2> QED BY <2>1, <2>2
  <1> QED BY <1>1, <1>2, <1>4, <1>7

\* Lists with nothing, and with something.
LEMMA EmptyList == \A s \in Seq(Nat) : Len(s) = 0 => s = <<>> /\ DOMAIN s = {}
  OBVIOUS

LEMMA LongerList ==
  ASSUME NEW S, NEW s \in Seq(S), NEW x \in S
  PROVE  Append(s, x) # <<>>
  <1>1. Len(Append(s, x)) = Len(s) + 1 /\ Len(s) \in Nat /\ Len(<<>>) = 0
    OBVIOUS
  <1>2. Len(Append(s, x)) # Len(<<>>)
    BY <1>1
  <1> QED BY ONLY <1>2

\* The rows of the section, each with its line of keys.
LEMMA RowsJoin ==
  ASSUME NEW times \in Seq(Nat), Len(times) > 0,
         NEW rows, rows = FlattenSeq([i \in DOMAIN times |-> <<Line("row", times[i]), Line("keys:", 0)>>])
  PROVE  /\ rows \in Seq(BenchLines) /\ Len(rows) = 2 * Len(times)
         /\ \A i \in 1..Len(times) : rows[2*i-1] = Line("row", times[i]) /\ rows[2*i] = Line("keys:", 0)
  <1> DEFINE num == Len(times)
             pairs == [i \in 1..num |-> <<Line("row", times[i]), Line("keys:", 0)>>]
             upto(m) == [k \in 1..2*m |-> IF k % 2 = 1 THEN Line("row", times[(k + 1) \div 2])
                                                      ELSE Line("keys:", 0)]
             joined == [m \in 1..num |-> upto(m)]
  <1>1. num \in Nat /\ num > 0 /\ DOMAIN times = 1..num /\ \A i \in 1..num : times[i] \in Nat
    OBVIOUS
  <1>2. \A t \in Nat : Line("row", t) \in BenchLines /\ Line("keys:", 0) \in BenchLines
    BY DEF Line, BenchLines
  <1>3. ASSUME NEW m \in 1..num
        PROVE  /\ upto(m) \in Seq(BenchLines) /\ Len(upto(m)) = 2 * m
               /\ \A i \in 1..m : upto(m)[2*i-1] = Line("row", times[i]) /\ upto(m)[2*i] = Line("keys:", 0)
    <2>1. 2 * m \in Nat
      BY <1>1
    <2>2. \A k \in 1..2*m : k % 2 = 1 => (k + 1) \div 2 \in 1..num
      BY <1>1
    <2>3. \A k \in 1..2*m :
            (IF k % 2 = 1 THEN Line("row", times[(k + 1) \div 2]) ELSE Line("keys:", 0)) \in BenchLines
      BY <1>1, <1>2, <2>2
    <2>4. upto(m) \in Seq(BenchLines) /\ Len(upto(m)) = 2 * m
      BY <2>1, <2>3
    <2>5. ASSUME NEW i \in 1..m
          PROVE  upto(m)[2*i-1] = Line("row", times[i]) /\ upto(m)[2*i] = Line("keys:", 0)
      <3>1. 2*i-1 \in 1..2*m /\ 2*i \in 1..2*m /\ (2*i-1) % 2 = 1 /\ (2*i) % 2 = 0
            /\ ((2*i-1) + 1) \div 2 = i
        BY <1>1
      <3> QED BY <3>1
    <2> QED BY <2>4, <2>5
  <1>4. /\ pairs \in Seq(Seq(BenchLines)) /\ Len(pairs) = num
        /\ \A i \in 1..num : /\ pairs[i] \in Seq(BenchLines) /\ Len(pairs[i]) = 2
                           /\ pairs[i][1] = Line("row", times[i]) /\ pairs[i][2] = Line("keys:", 0)
    <2>1. \A i \in 1..num : <<Line("row", times[i]), Line("keys:", 0)>> \in Seq(BenchLines)
      BY <1>1, <1>2
    <2>2. pairs \in Seq(Seq(BenchLines)) /\ Len(pairs) = num
      BY <1>1, <2>1
    <2> QED BY <2>1, <2>2
  <1>5. \A m \in 1..num : joined[m] = upto(m)
    OBVIOUS
  <1> HIDE DEF upto, pairs, joined
  <1>6. ASSUME NEW m \in 1..num-1 PROVE upto(m + 1) = upto(m) \o pairs[m+1]
    <2>1. m \in 1..num /\ m + 1 \in 1..num /\ 2 * m \in Nat /\ 2 * (m + 1) = 2 * m + 2
      BY <1>1
    <2>2. PICK a \in Seq(BenchLines) :
            /\ a = upto(m) /\ Len(a) = 2 * m
            /\ \A i \in 1..m : a[2*i-1] = Line("row", times[i]) /\ a[2*i] = Line("keys:", 0)
      BY <1>3, <2>1
    <2>3. PICK b \in Seq(BenchLines) :
            /\ b = upto(m + 1) /\ Len(b) = 2 * m + 2
            /\ \A i \in 1..m+1 : b[2*i-1] = Line("row", times[i]) /\ b[2*i] = Line("keys:", 0)
      <3>1. Len(upto(m + 1)) = 2 * m + 2
        BY <1>3, <2>1
      <3> QED BY <1>3, <2>1, <3>1
    <2>4. ASSUME NEW k \in 1..2*m PROVE b[k] = a[k]
      <3>1. PICK i \in 1..m : k = 2*i-1 \/ k = 2*i
        <4>1. (k + 1) \div 2 \in 1..m /\ (k = 2*((k + 1) \div 2)-1 \/ k = 2*((k + 1) \div 2))
          OBVIOUS
        <4> QED BY <4>1
      <3>2. i \in 1..m+1
        OBVIOUS
      <3>3. a[2*i-1] = b[2*i-1] /\ a[2*i] = b[2*i]
        BY <2>2, <2>3, <3>2
      <3> QED BY <3>1, <3>3
    <2>5. /\ b[2*m+1] = Line("row", times[m+1]) /\ b[2*m+2] = Line("keys:", 0)
      <3>1. m + 1 \in 1..m+1 /\ 2*(m+1)-1 = 2*m+1 /\ 2*(m+1) = 2*m+2
        OBVIOUS
      <3>2. b[2*(m+1)-1] = Line("row", times[m+1]) /\ b[2*(m+1)] = Line("keys:", 0)
        BY <2>3, <3>1
      <3> QED BY <3>1, <3>2
    <2>6. Line("row", times[m+1]) \in BenchLines /\ Line("keys:", 0) \in BenchLines
      BY <1>1, <1>2, <2>1
    <2>7. b = a \o <<Line("row", times[m+1]), Line("keys:", 0)>>
      <3>1. PICK l \in Nat, x \in BenchLines, y \in BenchLines :
              l = 2 * m /\ x = Line("row", times[m+1]) /\ y = Line("keys:", 0)
        BY <2>1, <2>6
      <3>2. Len(a) = l /\ Len(b) = l + 2 /\ b[l+1] = x /\ b[l+2] = y
        BY <2>2, <2>3, <2>5, <3>1
      <3>3. \A k \in 1..l : b[k] = a[k]
        BY <2>4, <3>1
      <3>4. GoesOn(a, b, x, y)
        BY <3>1, <3>2, <3>3 DEF GoesOn
      <3>5. b = a \o <<x, y>>
        BY <3>4, PairAdded
      <3> QED BY <3>1, <3>5
    <2>8. pairs[m+1] = <<Line("row", times[m+1]), Line("keys:", 0)>>
      BY <2>1 DEF pairs
    <2> QED BY <2>2, <2>3, <2>7, <2>8
  <1>7. joined[1] = pairs[1]
    <2>1. 1 \in 1..num
      BY <1>1
    <2>2. PICK b \in Seq(BenchLines) :
            /\ b = upto(1) /\ Len(b) = 2 /\ b[1] = Line("row", times[1]) /\ b[2] = Line("keys:", 0)
      <3>1. /\ upto(1) \in Seq(BenchLines) /\ Len(upto(1)) = 2 * 1
            /\ upto(1)[2*1-1] = Line("row", times[1]) /\ upto(1)[2*1] = Line("keys:", 0)
        <4>1. 1 \in 1..1
          OBVIOUS
        <4> QED BY <1>3, <2>1, <4>1
      <3>2. 2*1-1 = 1 /\ 2*1 = 2
        OBVIOUS
      <3> QED BY <3>1, <3>2
    <2>3. b = <<Line("row", times[1]), Line("keys:", 0)>>
      BY <2>2
    <2>4. pairs[1] = <<Line("row", times[1]), Line("keys:", 0)>>
      BY <2>1 DEF pairs
    <2> QED BY <1>5, <2>1, <2>2, <2>3, <2>4
  <1>8. \A m \in 1..num-1 : joined[m+1] = joined[m] \o pairs[m+1]
    <2> TAKE m \in 1..num-1
    <2>1. m \in 1..num /\ m + 1 \in 1..num
      BY <1>1
    <2>2. upto(m + 1) = upto(m) \o pairs[m+1]
      BY <1>6
    <2> QED BY <1>5, <2>1, <2>2
  <1>9. (CHOOSE g : g = FlattenStep(pairs, g))[Len(pairs)] = joined[Len(pairs)]
    <2>1. Len(pairs) > 0 /\ \A m \in 1..Len(pairs)-1 : joined[m+1] = joined[m] \o pairs[m+1]
      BY <1>1, <1>4, <1>8
    <2> QED BY <1>4, <1>7, <2>1, FlattenIs
  <1>10. FlattenSeq(pairs) = (CHOOSE g : g = FlattenStep(pairs, g))[Len(pairs)]
    BY <1>1, <1>4 DEF FlattenSeq, FlattenStep
  <1>11. rows = FlattenSeq(pairs)
    BY <1>1 DEF pairs
  <1>12. rows = upto(num)
    <2>1. num \in 1..num
      BY <1>1
    <2> QED BY <1>4, <1>5, <1>9, <1>10, <1>11, <2>1
  <1>13. num \in 1..num
    BY <1>1
  <1> QED BY <1>3, <1>12, <1>13

\* Where the lines of the benchmark stand.
LEMMA SectionIs ==
  ASSUME NEW times \in Seq(Nat), NEW log, log = SectionLines(times), NEW num \in Nat, num = Len(times)
  PROVE  /\ log \in Seq(BenchLines) /\ Len(log) = 2 * num + 5
         /\ log[1] = Line("section", 0) /\ log[2] = Line("row", 0) /\ log[3] = Line("top-slow", 0)
         /\ \A i \in 1..num : log[2*i+2] = Line("row", times[i]) /\ log[2*i+3] = Line("keys:", 0)
         /\ log[2*num+4] = Line("section", 0) /\ log[2*num+5] = Line("row", MaxTime)
  <1>1. PICK rows : rows = FlattenSeq([i \in DOMAIN times |-> <<Line("row", times[i]), Line("keys:", 0)>>])
    OBVIOUS
  <1>2. /\ rows \in Seq(BenchLines) /\ Len(rows) = 2 * num
        /\ \A i \in 1..num : rows[2*i-1] = Line("row", times[i]) /\ rows[2*i] = Line("keys:", 0)
    <2>1. CASE num > 0
      BY <1>1, <2>1, RowsJoin
    <2>2. CASE num = 0
      <3>1. DOMAIN times = {}
        BY <2>2, EmptyList
      <3>2. rows = FlattenSeq(<<>>)
        <4>1. [i \in DOMAIN times |-> <<Line("row", times[i]), Line("keys:", 0)>>] = <<>>
          BY <3>1
        <4> QED BY <1>1, <4>1
      <3>3. rows = <<>>
        <4>1. Len(<<>>) = 0
          OBVIOUS
        <4> QED BY <3>2, <4>1 DEF FlattenSeq
      <3> QED BY <2>2, <3>3
    <2> QED BY <2>1, <2>2
  <1>3. PICK front : front = <<Line("section", 0), Line("row", 0), Line("top-slow", 0)>>
    OBVIOUS
  <1>4. PICK back : back = <<Line("section", 0), Line("row", MaxTime)>>
    OBVIOUS
  <1>5. log = (front \o rows) \o back
    BY <1>1, <1>3, <1>4 DEF SectionLines
  <1>6. \A x \in Nat : /\ Line("section", x) \in BenchLines /\ Line("row", x) \in BenchLines
                       /\ Line("top-slow", x) \in BenchLines
    BY DEF Line, BenchLines
  <1>7. front \in Seq(BenchLines) /\ Len(front) = 3
    BY <1>3, <1>6
  <1>8. back \in Seq(BenchLines) /\ Len(back) = 2
    BY <1>4, <1>6, CorrelationAssumption
  <1>9. \A u, v \in Seq(BenchLines) :
            /\ u \o v \in Seq(BenchLines) /\ Len(u \o v) = Len(u) + Len(v)
            /\ \A k \in 1..Len(u) : (u \o v)[k] = u[k]
            /\ \A k \in 1..Len(v) : (u \o v)[Len(u)+k] = v[k]
    BY JoinIs
  <1>10. PICK most : most = front \o rows
    OBVIOUS
  <1>11. /\ most \in Seq(BenchLines) /\ Len(most) = 2 * num + 3
         /\ \A k \in 1..3 : most[k] = front[k]
         /\ \A k \in 1..2*num : most[k+3] = rows[k]
    <2>1. /\ most \in Seq(BenchLines) /\ Len(most) = Len(front) + Len(rows)
          /\ \A k \in 1..Len(front) : most[k] = front[k]
          /\ \A k \in 1..Len(rows) : most[Len(front)+k] = rows[k]
      BY <1>2, <1>7, <1>9, <1>10, Zenon
    <2>2. \A k \in 1..2*num : 3 + k = k + 3
      OBVIOUS
    <2> QED BY <1>2, <1>7, <2>1, <2>2
  <1>12. /\ log \in Seq(BenchLines) /\ Len(log) = 2 * num + 5
         /\ \A k \in 1..2*num+3 : log[k] = most[k]
         /\ \A k \in 1..2 : log[2*num+3+k] = back[k]
    <2>1. /\ log \in Seq(BenchLines) /\ Len(log) = Len(most) + Len(back)
          /\ \A k \in 1..Len(most) : log[k] = most[k]
          /\ \A k \in 1..Len(back) : log[Len(most)+k] = back[k]
      <3>1. log = most \o back
        BY <1>5, <1>10
      <3>2. most \in Seq(BenchLines)
        BY <1>11
      <3>3. /\ most \o back \in Seq(BenchLines) /\ Len(most \o back) = Len(most) + Len(back)
            /\ \A k \in 1..Len(most) : (most \o back)[k] = most[k]
            /\ \A k \in 1..Len(back) : (most \o back)[Len(most)+k] = back[k]
        BY <1>8, <1>9, <3>2, Zenon
      <3> QED BY ONLY <3>1, <3>3, Zenon
    <2> QED BY <1>8, <1>11, <2>1
  <1>13. ASSUME NEW i \in 1..num
         PROVE  log[2*i+2] = Line("row", times[i]) /\ log[2*i+3] = Line("keys:", 0)
    <2>1. /\ 2*i-1 \in 1..2*num /\ 2*i \in 1..2*num /\ 2*i+2 \in 1..2*num+3 /\ 2*i+3 \in 1..2*num+3
          /\ (2*i-1) + 3 = 2*i+2
      OBVIOUS
    <2>2. log[2*i+2] = most[2*i+2] /\ log[2*i+3] = most[2*i+3]
      BY <1>12, <2>1
    <2>3. most[2*i+2] = rows[2*i-1] /\ most[2*i+3] = rows[2*i]
      BY <1>11, <2>1
    <2> QED BY <1>2, <2>2, <2>3
  <1>14. log[1] = Line("section", 0) /\ log[2] = Line("row", 0) /\ log[3] = Line("top-slow", 0)
    <2>1. 1 \in 1..3 /\ 2 \in 1..3 /\ 3 \in 1..3 /\ 1 \in 1..2*num+3 /\ 2 \in 1..2*num+3 /\ 3 \in 1..2*num+3
      OBVIOUS
    <2>2. log[1] = front[1] /\ log[2] = front[2] /\ log[3] = front[3]
      BY <1>11, <1>12, <2>1
    <2> QED BY <1>3, <2>2
  <1>15. log[2*num+4] = Line("section", 0) /\ log[2*num+5] = Line("row", MaxTime)
    <2>1. 1 \in 1..2 /\ 2 \in 1..2 /\ 2*num+3+1 = 2*num+4 /\ 2*num+3+2 = 2*num+5
      OBVIOUS
    <2>2. log[2*num+4] = back[1] /\ log[2*num+5] = back[2]
      BY <1>12, <2>1
    <2> QED BY <1>4, <2>2
  <1> QED BY <1>12, <1>13, <1>14, <1>15

\* The parser in the section, and after it.
Inside(rows) == [in |-> TRUE, over |-> FALSE, out |-> rows]
Behind(rows) == [in |-> TRUE, over |-> TRUE, out |-> rows]

LEMMA TopSlowSteps ==
  ASSUME NEW rows, NEW v
  PROVE  /\ TopSlowLine(NoRows, Line("section", v)) = NoRows
         /\ TopSlowLine(NoRows, Line("row", v)) = NoRows
         /\ TopSlowLine(NoRows, Line("top-slow", v)) = Inside(<<>>)
         /\ TopSlowLine(Inside(rows), Line("row", v)) = Inside(Append(rows, v))
         /\ TopSlowLine(Inside(rows), Line("keys:", v)) = Inside(rows)
         /\ TopSlowLine(Inside(rows), Line("section", v)) = Behind(rows)
         /\ TopSlowLine(Behind(rows), Line("row", v)) = Behind(rows)
  <1>1. TopSlowLine(NoRows, Line("section", v)) = NoRows
    BY DEF TopSlowLine, Line, NoRows
  <1>2. TopSlowLine(NoRows, Line("row", v)) = NoRows
    BY DEF TopSlowLine, Line, NoRows
  <1>3. TopSlowLine(NoRows, Line("top-slow", v)) = Inside(<<>>)
    BY DEF TopSlowLine, Line, NoRows, Inside
  <1>4. TopSlowLine(Inside(rows), Line("row", v)) = Inside(Append(rows, v))
    BY DEF TopSlowLine, Line, Inside
  <1>5. TopSlowLine(Inside(rows), Line("keys:", v)) = Inside(rows)
    BY DEF TopSlowLine, Line, Inside
  <1>6. TopSlowLine(Inside(rows), Line("section", v)) = Behind(rows)
    BY DEF TopSlowLine, Line, Inside, Behind
  <1>7. TopSlowLine(Behind(rows), Line("row", v)) = Behind(rows)
    BY DEF TopSlowLine, Line, Behind
  <1> QED BY <1>1, <1>2, <1>3, <1>4, <1>5, <1>6, <1>7

\* What the parser knows after k lines of the benchmark.
FoundAfter(times, k) ==
  IF k <= 2 THEN NoRows
  ELSE IF k >= 2 * Len(times) + 4 THEN Behind(times)
  ELSE Inside(SubSeq(times, 1, (k - 2) \div 2))

\* One line more of the section is read.
LEMMA SectionRead ==
  ASSUME NEW times \in Seq(Nat), NEW num \in Nat, num = Len(times),
         NEW log, log = SectionLines(times), NEW k \in 0..2*num+4
  PROVE  TopSlowLine(FoundAfter(times, k), log[k+1]) = FoundAfter(times, k + 1)
  <1>1. /\ log[1] = Line("section", 0) /\ log[2] = Line("row", 0) /\ log[3] = Line("top-slow", 0)
        /\ \A i \in 1..num : log[2*i+2] = Line("row", times[i]) /\ log[2*i+3] = Line("keys:", 0)
        /\ log[2*num+4] = Line("section", 0) /\ log[2*num+5] = Line("row", MaxTime)
    BY SectionIs
  <1>2. \A i \in 0..num : FoundAfter(times, 2*i+3) = Inside(SubSeq(times, 1, i))
    <2> TAKE i \in 0..num
    <2>1. 2*i+3 > 2 /\ 2*i+3 < 2*num+4 /\ ((2*i+3) - 2) \div 2 = i
      OBVIOUS
    <2> QED BY <2>1 DEF FoundAfter
  <1>3. \A i \in 1..num : FoundAfter(times, 2*i+2) = Inside(SubSeq(times, 1, i))
    <2> TAKE i \in 1..num
    <2>1. 2*i+2 > 2 /\ 2*i+2 < 2*num+4 /\ ((2*i+2) - 2) \div 2 = i
      OBVIOUS
    <2> QED BY <2>1 DEF FoundAfter
  <1>4. SubSeq(times, 1, num) = times /\ SubSeq(times, 1, 0) = <<>>
    OBVIOUS
  <1>5. FoundAfter(times, 2*num+4) = Behind(times) /\ FoundAfter(times, 2*num+5) = Behind(times)
    <2>1. 2*num+4 > 2 /\ 2*num+5 > 2 /\ 2*num+5 >= 2*num+4
      OBVIOUS
    <2> QED BY <2>1 DEF FoundAfter
  <1>6. CASE k = 0
    <2>1. FoundAfter(times, 0) = NoRows /\ FoundAfter(times, 1) = NoRows
      BY DEF FoundAfter
    <2>2. k + 1 = 1 /\ log[k+1] = Line("section", 0)
      BY <1>1, <1>6
    <2>3. TopSlowLine(NoRows, Line("section", 0)) = NoRows
      BY TopSlowSteps
    <2> QED BY <1>6, <2>1, <2>2, <2>3
  <1>7. CASE k = 1
    <2>1. FoundAfter(times, 1) = NoRows /\ FoundAfter(times, 2) = NoRows
      BY DEF FoundAfter
    <2>2. k + 1 = 2 /\ log[k+1] = Line("row", 0)
      BY <1>1, <1>7
    <2>3. TopSlowLine(NoRows, Line("row", 0)) = NoRows
      BY TopSlowSteps
    <2> QED BY <1>7, <2>1, <2>2, <2>3
  <1>8. CASE k = 2
    <2>1. FoundAfter(times, 2) = NoRows
      BY DEF FoundAfter
    <2>2. FoundAfter(times, 3) = Inside(<<>>)
      <3>1. 2*0+3 = 3 /\ 0 \in 0..num
        OBVIOUS
      <3> QED BY <1>2, <1>4, <3>1
    <2>3. k + 1 = 3 /\ log[k+1] = Line("top-slow", 0)
      BY <1>1, <1>8
    <2>4. TopSlowLine(NoRows, Line("top-slow", 0)) = Inside(<<>>)
      BY TopSlowSteps
    <2> QED BY <1>8, <2>1, <2>2, <2>3, <2>4
  <1>9. CASE k \in 3..2*num+2
    <2>1. PICK i \in 1..num : k = 2*i+1 \/ k = 2*i+2
      <3>1. (k - 1) \div 2 \in 1..num /\ (k = 2*((k - 1) \div 2)+1 \/ k = 2*((k - 1) \div 2)+2)
        BY <1>9
      <3> QED BY <3>1
    <2>2. CASE k = 2*i+1
      <3>1. PICK h \in 0..num : h = i - 1 /\ i = h + 1 /\ k = 2*h+3 /\ k + 1 = 2*i+2
        BY <2>2
      <3>2. Append(SubSeq(times, 1, h), times[i]) = SubSeq(times, 1, i)
        BY <3>1
      <3>3. FoundAfter(times, k) = Inside(SubSeq(times, 1, h))
        BY <1>2, <3>1
      <3>4. TopSlowLine(Inside(SubSeq(times, 1, h)), Line("row", times[i])) =
              Inside(Append(SubSeq(times, 1, h), times[i]))
        BY TopSlowSteps
      <3>5. FoundAfter(times, k + 1) = Inside(SubSeq(times, 1, i)) /\ log[k+1] = Line("row", times[i])
        BY <1>1, <1>3, <3>1
      <3> QED BY <3>2, <3>3, <3>4, <3>5
    <2>3. CASE k = 2*i+2
      <3>1. k + 1 = 2*i+3 /\ i \in 0..num
        BY <2>3
      <3>2. /\ FoundAfter(times, k) = Inside(SubSeq(times, 1, i))
            /\ FoundAfter(times, k + 1) = Inside(SubSeq(times, 1, i)) /\ log[k+1] = Line("keys:", 0)
        BY <1>1, <1>2, <1>3, <2>3, <3>1
      <3> QED BY <3>2, TopSlowSteps
    <2> QED BY <2>1, <2>2, <2>3
  <1>10. CASE k = 2*num+3
    <2>1. FoundAfter(times, k) = Inside(times)
      <3>1. num \in 0..num
        OBVIOUS
      <3> QED BY <1>2, <1>4, <1>10, <3>1
    <2>2. FoundAfter(times, k + 1) = Behind(times) /\ log[k+1] = Line("section", 0)
      <3>1. k + 1 = 2*num+4
        BY <1>10
      <3> QED BY <1>1, <1>5, <3>1
    <2> QED BY <2>1, <2>2, TopSlowSteps
  <1>11. CASE k = 2*num+4
    <2>1. k + 1 = 2*num+5
      BY <1>11
    <2>2. /\ FoundAfter(times, k) = Behind(times) /\ FoundAfter(times, k + 1) = Behind(times)
          /\ log[k+1] = Line("row", MaxTime)
      BY <1>1, <1>5, <1>11, <2>1
    <2> QED BY <2>2, TopSlowSteps
  <1>12. k = 0 \/ k = 1 \/ k = 2 \/ k \in 3..2*num+2 \/ k = 2*num+3 \/ k = 2*num+4
    OBVIOUS
  <1> QED BY <1>6, <1>7, <1>8, <1>9, <1>10, <1>11, <1>12

\* The rows that are printed are found, and no other, wherever the output stops.
LEMMA SectionParsed ==
  ASSUME NEW times \in Seq(Nat), NEW log \in Printed(times)
  PROVE  parse_top_slow(log) = times
  <1>1. PICK num \in Nat : num = Len(times)
    OBVIOUS
  <1>2. PICK all : all = SectionLines(times)
    OBVIOUS
  <1>3. all \in Seq(BenchLines) /\ Len(all) = 2 * num + 5
    BY <1>1, <1>2, SectionIs
  <1>4. PICK m \in 0..2*num+5 : log = SubSeq(all, 1, m) /\ (num > 0 => m >= 2 * num + 2)
    <2>1. PICK m \in (IF times = <<>> THEN 0 ELSE 2 * Len(times) + 2)..2 * Len(times) + 5 :
            log = SubSeq(SectionLines(times), 1, m)
      BY DEF Printed
    <2>2. times = <<>> => num = 0
      BY <1>1
    <2> QED BY <1>1, <1>2, <2>1, <2>2
  <1>5. log \in Seq(BenchLines) /\ Len(log) = m /\ \A k \in 1..m : log[k] = all[k]
    BY <1>3, <1>4
  <1>6. PICK r \in [0..m -> RowsFound] :
           /\ r[0] = NoRows
           /\ \A k \in 1..m : r[k] = TopSlowLine(r[k-1], log[k])
           /\ FoldLeft(TopSlowLine, NoRows, log) = r[m]
    BY <1>5, TopSlowRuns
  <1> DEFINE Good == {k \in 0..m : r[k] = FoundAfter(times, k)}
  <1>7. ASSUME NEW k \in 0..m-1, k \in Good PROVE k + 1 \in Good
    <2>1. k + 1 \in 1..m /\ (k + 1) - 1 = k /\ k + 1 \in 0..m /\ k \in 0..2*num+4
      OBVIOUS
    <2>2. r[k+1] = TopSlowLine(FoundAfter(times, k), all[k+1])
      BY <1>5, <1>6, <1>7, <2>1
    <2>3. TopSlowLine(FoundAfter(times, k), all[k+1]) = FoundAfter(times, k + 1)
      BY <1>1, <1>2, <2>1, SectionRead
    <2> QED BY <2>1, <2>2, <2>3
  <1>8. r[m] = FoundAfter(times, m)
    <2>1. 0 \in Good
      BY <1>6 DEF FoundAfter
    <2>2. 0..m \subseteq Good
      <3>1. m \in Nat
        OBVIOUS
      <3> HIDE DEF Good
      <3> QED BY <1>7, <2>1, <3>1, StepByStep
    <2>3. m \in Good
      <3>1. m \in 0..m
        OBVIOUS
      <3> HIDE DEF Good
      <3> QED BY <2>2, <3>1
    <2> QED BY <2>3
  <1>9. FoundAfter(times, m).out = times
    <2>1. SubSeq(times, 1, num) = times
      BY <1>1
    <2>2. CASE m <= 2
      <3>1. num = 0
        BY <1>4, <2>2
      <3>2. times = <<>>
        BY <1>1, <3>1, EmptyList
      <3> QED BY <2>2, <3>2 DEF FoundAfter, NoRows
    <2>3. CASE m >= 2 * num + 4
      <3>1. FoundAfter(times, m) = Behind(times)
        BY <1>1, <2>3 DEF FoundAfter
      <3> QED BY <3>1 DEF Behind
    <2>4. CASE m > 2 /\ m < 2 * num + 4
      <3>1. (m - 2) \div 2 = num
        BY <1>4, <2>4
      <3>2. ~(m <= 2) /\ ~(m >= 2 * Len(times) + 4)
        BY <1>1, <2>4
      <3>3. FoundAfter(times, m) = Inside(SubSeq(times, 1, num))
        BY <3>1, <3>2 DEF FoundAfter
      <3> QED BY <2>1, <3>3 DEF Inside
    <2> QED BY <2>2, <2>3, <2>4
  <1>10. parse_top_slow(log) = r[m].out
    BY <1>6 DEF parse_top_slow, NoRows
  <1> QED BY <1>8, <1>9, <1>10

-----------------------------------------------------------------------------
(* The invariant is kept *)

LEMMA LogStands ==
  ASSUME UNCHANGED <<disk, iostat_log, report, written>>, LogRead
  PROVE  LogRead'
  <1>1. PICK d, l, u, v : /\ d = disk /\ l = iostat_log /\ u = report /\ v = written
                          /\ d = disk' /\ l = iostat_log' /\ u = report' /\ v = written'
    OBVIOUS
  <1> QED BY DEF LogRead, KnowsAfter, Partial, Reports, Told, Parsed, NoSamples

\* A line is due as long as the log and the reports stay as they are.
LEMMA DueStands ==
  ASSUME UNCHANGED <<disk, report, written>>
  PROVE  Due' = Due
  BY DEF Due, Told

LEMMA DiskStart == CorrelationInit => DiskInv
  <1> SUFFICES ASSUME CorrelationInit PROVE DiskInv
    OBVIOUS
  <1>1. /\ run = "benchmark" /\ now = 0 /\ disk = <<>> /\ asked = <<>> /\ torn = Blank
        /\ iostat_log = <<Line("numbers", 0), Line("blank", 0)>> /\ report = 1 /\ written = 0
    BY DEF CorrelationInit, Blank
  <1>2. Line("numbers", 0) \in Lines /\ Line("blank", 0) \in Lines
    BY DEF Line, Lines
  <1>3. DiskTypes
    <2>1. iostat_log \in Seq(Lines)
      BY <1>1, <1>2
    <2>2. Interval \in Nat \ {0} /\ Interval * 0 = 0 /\ Len(disk) = 0
      BY <1>1, CorrelationAssumption
    <2> QED BY <1>1, <2>1, <2>2 DEF DiskTypes
  <1>4. LogRead
    <2>1. PICK first : first = <<Line("numbers", 0)>>
      OBVIOUS
    <2>2. /\ first \in Seq(Lines) /\ first = Append(<<>>, Line("numbers", 0))
          /\ iostat_log = Append(first, Line("blank", 0)) /\ <<>> \in Seq(Lines)
      BY <1>1, <1>2, <2>1
    <2>3. Parsed(first) = IostatLine(NoSamples, Line("numbers", 0))
      BY <1>2, <2>2, NextLine, NoLines
    <2>4. Parsed(first) = NoSamples
      BY <2>3 DEF IostatLine, NoSamples, Line
    <2>5. Parsed(iostat_log) = IostatLine(NoSamples, Line("blank", 0))
      BY <1>2, <2>2, <2>4, NextLine
    <2>6. Parsed(iostat_log) = NoSamples
      BY <2>5 DEF IostatLine, NoSamples, Line
    <2>7. Reports(report - 1) = <<>>
      <3>1. report - 1 = 0 /\ Len(disk) = 0 /\ 0 \in 0..Len(disk)+1
        BY <1>1
      <3>2. Reports(0) \in Seq(Readings) /\ Len(Reports(0)) = 0
        BY <1>3, <3>1, ToldType
      <3> QED BY <3>1, <3>2
    <2>8. KnowsAfter(NoSamples, <<>>, Interval * (report - 1), Told(report), 0)
      BY DEF KnowsAfter, NoSamples
    <2> QED BY <1>1, <2>6, <2>7, <2>8 DEF LogRead
  <1>5. BothParsed /\ LineTorn
    BY <1>1 DEF BothParsed, LineTorn
  <1> QED BY <1>3, <1>4, <1>5 DEF DiskInv

\* Time stays in the interval of the latest report, or the next one begins.
LEMMA NextInterval ==
  ASSUME NEW d \in Nat \ {0}, NEW l \in Nat, NEW t \in Nat, d * l <= t, t < d * l + d
  PROVE  IF (t + 1) % d = 0 THEN t + 1 = d * (l + 1) ELSE t + 1 < d * l + d
  <1>1. d * (l + 1) = d * l + d /\ d * l \in Int /\ d * (l + 1) \in Int
    OBVIOUS
  <1>2. CASE (t + 1) % d = 0
    <2>1. PICK q \in Int : t + 1 = d * q
      <3>1. PICK a \in Int : a = t + 1 /\ a % d = 0
        BY <1>2
      <3>2. (a \div d) \in Int /\ a = d * (a \div d) + (a % d)
        BY ModBounds
      <3>3. PICK q \in Int : q = a \div d
        BY <3>2
      <3>4. PICK p \in Int : p = d * q
        OBVIOUS
      <3>5. a = p + 0
        <4>1. a = p + (a % d)
          BY ONLY <3>2, <3>3, <3>4
        <4> QED BY ONLY <3>1, <4>1
      <3> QED BY <3>1, <3>4, <3>5
    <2>2. q <= l + 1
      <3>1. d * q < d * (l + 1) + d
        BY <1>1, <2>1
      <3>2. l + 1 \in Int
        OBVIOUS
      <3> QED BY <3>1, <3>2, MulGap
    <2>3. l + 1 <= q
      <3>1. d * (l + 1) < d * q + d
        BY <1>1, <2>1
      <3>2. l + 1 \in Int
        OBVIOUS
      <3> QED BY <3>1, <3>2, MulGap
    <2>4. q = l + 1
      BY <2>2, <2>3
    <2> QED BY <1>2, <2>1, <2>4
  <1>3. CASE (t + 1) % d # 0
    <2>1. SUFFICES ASSUME t + 1 = d * (l + 1) PROVE FALSE
      BY <1>1, <1>3
    <2>2. (d * (l + 1) + 0) % d = 0
      <3>1. l + 1 \in Int /\ 0 \in 0..d-1
        OBVIOUS
      <3> QED BY <3>1, ModUnique
    <2>3. d * (l + 1) + 0 = d * (l + 1)
      BY <1>1
    <2> QED BY <1>3, <2>1, <2>2, <2>3
  <1> QED BY <1>2, <1>3

LEMMA PassKeepsInv ==
  ASSUME DiskInv, Pass
  PROVE  DiskInv'
  <1>1. /\ run = "benchmark" /\ run' = "benchmark" /\ now' = now + 1
        /\ UNCHANGED <<iostat_log, report, written, torn, bench_log, asked>>
        /\ IF (now + 1) % Interval = 0 THEN \E w \in Waits : disk' = Append(disk, w)
                                       ELSE disk' = disk
    BY DEF Pass
  <1>2. DiskTypes /\ LogRead /\ LineTorn
    BY DEF DiskInv
  <1>3. PICK d \in Nat \ {0}, l \in Nat, t \in Nat :
          d = Interval /\ l = Len(disk) /\ t = now /\ d * l <= t /\ t < d * l + d
    <2>1. Interval \in Nat \ {0} /\ Len(disk) \in Nat /\ now \in Nat
          /\ Interval * Len(disk) <= now /\ now < Interval * Len(disk) + Interval
      BY <1>2, CorrelationAssumption DEF DiskTypes
    <2> QED BY <2>1
  <1>4. IF (t + 1) % d = 0 THEN t + 1 = d * (l + 1) ELSE t + 1 < d * l + d
    BY <1>3, NextInterval
  <1>5. BothParsed'
    BY <1>1 DEF BothParsed
  <1>6. LineTorn'
    <2>1. torn = Blank
      BY <1>1, <1>2 DEF LineTorn
    <2> QED BY <1>1, <2>1 DEF LineTorn, Blank, Line
  <1>7. CASE (now + 1) % Interval # 0
    <2>1. DiskTypes'
      <3>1. UNCHANGED disk /\ t + 1 < d * l + d
        BY <1>1, <1>3, <1>4, <1>7
      <3>2. now' = t + 1 /\ Interval * Len(disk') = d * l /\ d * l \in Int
        BY <1>1, <1>3, <3>1
      <3>3. now' \in Nat /\ Interval * Len(disk') <= now' /\ now' < Interval * Len(disk') + Interval
        BY <1>3, <3>1, <3>2
      <3> QED BY <1>1, <1>2, <3>1, <3>3 DEF DiskTypes
    <2>2. LogRead'
      BY <1>1, <1>2, <1>7, LogStands
    <2> QED BY <1>5, <1>6, <2>1, <2>2 DEF DiskInv
  <1>8. CASE (now + 1) % Interval = 0
    <2>1. PICK w \in Waits : disk' = Append(disk, w)
      BY <1>1, <1>8
    <2>2. now + 1 = d * (l + 1)
      BY <1>3, <1>4, <1>8
    <2>3. /\ disk' \in Seq(Waits) /\ Len(disk') = l + 1
          /\ \A k \in 1..l : disk'[k] = disk[k]
      <3>1. disk \in Seq(Waits)
        BY <1>2 DEF DiskTypes
      <3> QED BY <1>3, <2>1, <3>1
    <2>4. \A k \in 1..l+1 : Told(k)' = Told(k)
      <3> TAKE k \in 1..l+1
      <3>1. k # 1 => k - 1 \in 1..l
        OBVIOUS
      <3> QED BY <2>3, <3>1 DEF Told
    <2>5. PICK u \in 1..l+2, j \in 0..6 : u = report /\ j = written /\ (u > l + 1 => j = 0)
      BY <1>2, <1>3 DEF DiskTypes
    <2>6. Reports(report - 1)' = Reports(report - 1)
      <3>1. \A k \in 1..u-1 : k \in 1..l+1
        OBVIOUS
      <3>2. \A k \in 1..u-1 : Told(k)' = Told(k)
        BY <2>4, <3>1
      <3> QED BY <1>1, <2>5, <3>2 DEF Reports
    <2>7. LogRead'
      <3>1. PICK R, told, p, when : /\ R = Reports(report - 1) /\ told = Told(report)
                                    /\ p = Parsed(iostat_log) /\ when = Interval * (report - 1)
        OBVIOUS
      <3>2. KnowsAfter(p, R, when, told, j)
        BY <1>2, <2>5, <3>1 DEF LogRead
      <3>3. Parsed(iostat_log)' = p /\ (Interval * (report - 1))' = when /\ written' = j
        BY <1>1, <2>5, <3>1
      <3>4. CASE u <= l + 1
        <4>1. u \in 1..l+1
          BY <3>4
        <4>2. Told(u)' = Told(u)
          BY <2>4, <4>1
        <4>3. Told(report)' = told
          BY <1>1, <2>5, <3>1, <4>2
        <4> QED BY <2>6, <3>1, <3>2, <3>3, <4>3 DEF LogRead
      <3>5. CASE u > l + 1
        <4>1. j = 0
          BY <2>5, <3>5
        <4>2. p.samples = R
          BY <3>2, <4>1 DEF KnowsAfter
        <4>3. \A x : KnowsAfter(p, R, when, x, 0)
          BY <4>2 DEF KnowsAfter
        <4>4. KnowsAfter(p, R, when, Told(report)', j)
          BY <4>1, <4>3
        <4> QED BY <2>6, <3>1, <3>3, <4>4 DEF LogRead
      <3> QED BY <3>4, <3>5
    <2>8. DiskTypes'
      <3>1. Interval * Len(disk') = now + 1
        BY <1>3, <2>2, <2>3
      <3>2. Interval * Len(disk') <= now' /\ now' < Interval * Len(disk') + Interval /\ now' \in Nat
        BY <1>1, <1>3, <3>1
      <3>3. report \in 1..(l+1)+2 /\ (report > (l + 1) + 1 => written = 0)
        BY <2>5
      <3> QED BY <1>1, <1>2, <2>3, <3>2, <3>3 DEF DiskTypes
    <2> QED BY <1>5, <1>6, <2>7, <2>8 DEF DiskInv
  <1> QED BY <1>7, <1>8

LEMMA WriteKeepsInv ==
  ASSUME DiskInv, Write
  PROVE  DiskInv'
  <1>1. /\ report <= Len(disk) + 1 /\ run \in {"benchmark", "terminate"}
        /\ IF written = 6 THEN report' = report + 1 /\ written' = 0
                          ELSE written' = written + 1 /\ report' = report
        /\ UNCHANGED <<run, now, disk, torn, bench_log, asked, slow_queries, samples>>
    BY DEF Write
  <1>2. DiskTypes'
    <2>1. PICK l \in Nat, u \in Nat, j \in 0..6 :
            l = Len(disk) /\ u = report /\ j = written /\ 1 <= u /\ u <= l + 1
      <3>1. DiskTypes
        BY DEF DiskInv
      <3>2. Len(disk) \in Nat
        BY <3>1, ToldType
      <3>3. report \in 1..Len(disk)+2 /\ written \in 0..6
        BY <3>1 DEF DiskTypes
      <3>4. report \in Nat /\ 1 <= report /\ report <= Len(disk) + 1 /\ written \in 0..6
        BY <1>1, <3>2, <3>3
      <3> QED BY ONLY <3>2, <3>4
    <2>2. report' \in 1..Len(disk')+2 /\ written' \in 0..6 /\ (report' > Len(disk') + 1 => written' = 0)
      BY <1>1, <2>1
    <2> QED BY <1>1, <2>2, WriteGoesOn DEF DiskInv, DiskTypes
  <1>3. BothParsed'
    BY <1>1 DEF DiskInv, BothParsed
  <1>4. LineTorn'
    <2>1. torn = Blank
      BY <1>1 DEF DiskInv, LineTorn
    <2> QED BY <1>1, <2>1 DEF LineTorn, Blank, Line
  <1> QED BY <1>2, <1>3, <1>4, WriteGoesOn DEF DiskInv

LEMMA EndsKeepInv ==
  ASSUME DiskInv, BenchmarkEnds \/ Terminate
  PROVE  DiskInv'
  <1>1. UNCHANGED <<now, disk, iostat_log, report, written, slow_queries, samples>>
        /\ run' \in {"terminate", "correlate"} /\ run \in {"benchmark", "terminate"}
    BY DEF BenchmarkEnds, Terminate
  <1>2. asked' \in Seq(Nat) /\ bench_log' \in Printed(asked')
    <2>1. CASE BenchmarkEnds
      <3>1. PICK num \in 0..MaxSlow : \E times \in [1..num -> 0..now] : asked' = times
        BY <2>1 DEF BenchmarkEnds
      <3>1a. PICK times \in [1..num -> 0..now] : asked' = times
        BY <3>1
      <3>2. num \in Nat /\ \A i \in 1..num : times[i] \in Nat
        BY CorrelationAssumption DEF DiskInv, DiskTypes
      <3>3. times \in Seq(Nat)
        BY <3>2
      <3> QED BY <2>1, <3>1a, <3>3 DEF BenchmarkEnds
    <2>2. CASE Terminate
      <3>1. UNCHANGED <<bench_log, asked>> /\ run = "terminate"
        BY <2>2 DEF Terminate
      <3>2. asked \in Seq(Nat) /\ bench_log \in Printed(asked)
        BY <3>1 DEF DiskInv, DiskTypes, BothParsed
      <3> QED BY <3>1, <3>2
    <2> QED BY <2>1, <2>2
  <1>3. DiskTypes'
    BY <1>1, <1>2 DEF DiskInv, DiskTypes
  <1>4. BothParsed'
    <2>1. Printed(asked)' = Printed(asked')
      BY DEF Printed, SectionLines, Line
    <2> QED BY <1>1, <1>2, <2>1 DEF BothParsed
  <1>5. LogRead'
    BY <1>1, LogStands DEF DiskInv
  <1>6. LineTorn'
    <2>1. Due' = Due /\ Pieces(Due)' = Pieces(Due)
      BY <1>1, DueStands DEF Pieces, Blank, Line, NoZone
    <2>2. CASE BenchmarkEnds
      <3>1. torn = Blank /\ torn' = torn
        BY <1>1, <2>2 DEF BenchmarkEnds, DiskInv, LineTorn
      <3> QED BY <3>1 DEF LineTorn, Blank, Line
    <2>3. CASE Terminate
      <3>1. /\ run' = "correlate"
            /\ torn' \in IF report <= Len(disk) + 1 THEN Pieces(Due) ELSE {Blank}
        BY <2>3 DEF Terminate
      <3>2. Blank' = Blank
        BY DEF Blank, Line
      <3> QED BY <1>1, <2>1, <3>1, <3>2 DEF LineTorn
    <2> QED BY <2>2, <2>3
  <1> QED BY <1>3, <1>4, <1>5, <1>6 DEF DiskInv

LEMMA CorrelateKeepsInv ==
  ASSUME DiskInv, Correlate
  PROVE  DiskInv'
  <1>1. /\ run = "correlate"
        /\ UNCHANGED <<now, disk, iostat_log, report, written, torn, bench_log, asked>>
        /\ slow_queries' = parse_top_slow(bench_log)
        /\ samples' = parse_iostat(Append(iostat_log, torn))
        /\ run' = CASE slow_queries' = <<>> \/ samples' = <<>> -> "nothing"
                    [] OTHER -> IF \E i \in DOMAIN samples' : samples'[i].at = NoZone
                                THEN "raised" ELSE "report"
    BY DEF Correlate
  <1>2. /\ run' \in {"nothing", "report", "raised"}
        /\ run' = "report" => samples' # <<>> /\ \A i \in DOMAIN samples' : samples'[i].at # NoZone
    BY <1>1
  <1>3. DiskTypes'
    BY <1>1, <1>2 DEF DiskInv, DiskTypes
  <1>4. slow_queries' = asked
    <2>1. asked \in Seq(Nat) /\ bench_log \in Printed(asked)
      BY <1>1 DEF DiskInv, DiskTypes, BothParsed
    <2> QED BY <1>1, <2>1, SectionParsed
  <1>5. samples' = dropFirst(AllRead)
    BY <1>1 DEF parse_iostat, Parsed, NoSamples, AllRead
  <1>6. BothParsed'
    <2>1. AllRead' = AllRead /\ Printed(asked)' = Printed(asked) /\ bench_log \in Printed(asked)
      BY <1>1 DEF AllRead, DiskInv, BothParsed
    <2>2. NoZone' = NoZone
      BY DEF NoZone
    <2> QED BY <1>1, <1>2, <1>4, <1>5, <2>1, <2>2 DEF BothParsed
  <1>7. LogRead'
    BY <1>1, LogStands DEF DiskInv
  <1>8. LineTorn'
    <2>1. Due' = Due /\ Pieces(Due)' = Pieces(Due) /\ Blank' = Blank
      BY <1>1, DueStands DEF Pieces, Blank, Line, NoZone
    <2> QED BY <1>1, <1>2, <2>1 DEF DiskInv, LineTorn
  <1> QED BY <1>3, <1>6, <1>7, <1>8 DEF DiskInv

LEMMA CorrelationKeepsInv == ASSUME DiskInv, CorrelationNext PROVE DiskInv'
  BY PassKeepsInv, WriteKeepsInv, EndsKeepInv, CorrelateKeepsInv DEF CorrelationNext

LEMMA DiskStutter == ASSUME DiskInv, UNCHANGED correlationVars PROVE DiskInv'
  <1>1. UNCHANGED <<run, now, disk, iostat_log, report, written, torn, bench_log, asked,
                    slow_queries, samples>>
    BY DEF correlationVars
  <1>2. DiskTypes'
    BY <1>1 DEF DiskInv, DiskTypes
  <1>3. BothParsed'
    <2>1. AllRead' = AllRead /\ Printed(asked)' = Printed(asked) /\ NoZone' = NoZone
      BY <1>1 DEF AllRead, NoZone
    <2> QED BY <1>1, <2>1 DEF DiskInv, BothParsed
  <1>4. LineTorn'
    <2>1. Due' = Due /\ Pieces(Due)' = Pieces(Due) /\ Blank' = Blank
      BY <1>1, DueStands DEF Pieces, Blank, Line, NoZone
    <2> QED BY <1>1, <2>1 DEF DiskInv, LineTorn
  <1>5. LogRead'
    BY <1>1, LogStands DEF DiskInv
  <1> QED BY <1>2, <1>3, <1>4, <1>5 DEF DiskInv

-----------------------------------------------------------------------------
(* What the samples tell *)

LEMMA DivExact ==
  ASSUME NEW d \in Nat \ {0}, NEW i \in Nat
  PROVE  (d * i) \div d = i
  <1>1. PICK a \in Nat : a = d * i
    <2>1. \A u, v \in Nat : u * v \in Nat
      OBVIOUS
    <2> QED BY <2>1
  <1>2. a % d = 0
    <2>1. (d * i + 0) % d = 0
      <3>1. i \in Int /\ 0 \in 0..d-1
        OBVIOUS
      <3> QED BY <3>1, ModUnique
    <2> QED BY <1>1, <2>1
  <1>3. (a \div d) \in Int /\ a = d * (a \div d) + (a % d)
    <2>1. a \in Int
      OBVIOUS
    <2> QED BY <2>1, ModBounds
  <1>4. PICK q \in Int : q = a \div d
    BY <1>3
  <1>5. PICK p \in Int : p = d * q
    OBVIOUS
  <1>6. a = p
    <2>1. a = p + (a % d)
      BY ONLY <1>3, <1>4, <1>5
    <2> QED BY ONLY <1>2, <2>1, a \in Nat, p \in Int
  <1>7. q <= i
    <2>1. d * q < d * i + d
      BY ONLY <1>1, <1>5, <1>6, d \in Nat \ {0}, a \in Nat
    <2> QED BY <2>1, MulGap
  <1>8. i <= q
    <2>1. d * i < d * q + d
      BY ONLY <1>1, <1>5, <1>6, d \in Nat \ {0}, a \in Nat
    <2> QED BY <2>1, MulGap
  <1>9. q = i
    BY <1>7, <1>8
  <1> QED BY <1>1, <1>4, <1>9

\* A list of m samples, and one that no other is nearer than.
AreTimed(list, m) == DOMAIN list = 1..m /\ \A i \in 1..m : list[i].at \in Int

IsNearest(s, list, m, t) ==
  /\ \E i \in 1..m : s = list[i]
  /\ \A j \in 1..m : Distance(s, t) <= Distance(list[j], t)

\* min() finds one.
LEMMA ClosestIs ==
  ASSUME NEW m \in Nat \ {0}, NEW list, AreTimed(list, m), NEW t \in Int
  PROVE  IsNearest(closest_sample(list, t), list, m, t)
  <1> DEFINE D(i) == Distance(list[i], t)
             IsFirst(i) == \A j \in 1..m : D(i) < D(j) \/ (D(i) = D(j) /\ i <= j)
             Dists == {D(i) : i \in 1..m}
  <1>0. DOMAIN list = 1..m
    BY DEF AreTimed
  <1>1. \A i \in 1..m : D(i) \in Nat
    BY DEF Distance, AreTimed
  <1> HIDE DEF D
  <1>2. PICK x \in Dists : \A y \in Dists : x <= y
    <2>1. Dists \subseteq Nat /\ Dists # {}
      BY <1>1
    <2> HIDE DEF Dists
    <2> QED BY <2>1, LeastNat
  <1> DEFINE Nearest == {i \in 1..m : D(i) = x}
  <1>3. PICK i \in Nearest : \A j \in Nearest : i <= j
    <2>1. Nearest \subseteq Nat /\ Nearest # {}
      BY <1>2
    <2> HIDE DEF Nearest
    <2> QED BY <2>1, LeastNat
  <1>4. i \in 1..m /\ IsFirst(i)
    <2>1. i \in 1..m /\ D(i) = x
      BY <1>3
    <2>2. ASSUME NEW j \in 1..m PROVE D(i) < D(j) \/ (D(i) = D(j) /\ i <= j)
      <3>1. x <= D(j)
        BY <1>2
      <3>2. D(j) = x => i <= j
        BY <1>3
      <3> QED BY <1>1, <2>1, <3>1, <3>2
    <2> QED BY <2>1, <2>2
  <1>5. PICK c : c = CHOOSE k \in 1..m : IsFirst(k)
    OBVIOUS
  <1>6. c \in 1..m /\ IsFirst(c)
    <2> HIDE DEF IsFirst
    <2> QED BY <1>4, <1>5
  <1>7. closest_sample(list, t) = list[c]
    BY <1>0, <1>5 DEF closest_sample, D
  <1>8. \A j \in 1..m : D(c) <= D(j)
    BY <1>1, <1>6
  <1> QED BY <1>6, <1>7, <1>8 DEF D, IsNearest

\* Between samples d apart, one of the two around is at most d / 2 away.
LEMMA SomeIsNear ==
  ASSUME NEW d \in Nat \ {0}, NEW m \in Nat \ {0}, NEW c \in Nat, NEW t \in Nat, NEW list,
         \A i \in 1..m : list[i].at = d * (i - 1) + c,
         c <= t, t <= d * (m - 1) + c
  PROVE  \E i \in 1..m : Distance(list[i], t) \in Nat /\ 2 * Distance(list[i], t) <= d
  <1>1. PICK a \in Nat : a = t - c
    OBVIOUS
  <1>2. PICK q \in Int, r \in 0..d-1 : q = a \div d /\ r = a % d
    <2>1. a \in Int
      OBVIOUS
    <2>2. (a \div d) \in Int /\ (a % d) \in 0..d-1
      BY <2>1, ModBounds
    <2> QED BY <2>2
  <1>3. PICK p \in Int : p = d * q
    OBVIOUS
  <1>4. a = p + r
    <2>1. a = d * (a \div d) + (a % d)
      <3>1. a \in Int
        OBVIOUS
      <3> QED BY <3>1, ModBounds
    <2> QED BY ONLY <1>2, <1>3, <2>1
  <1>5. q \in Nat
    <2>1. d * 0 < d * q + d
      BY <1>3, <1>4
    <2>2. 0 <= q
      BY <2>1, MulGap
    <2> QED BY <2>2
  <1>6. PICK e \in Int : e = d * (m - 1)
    OBVIOUS
  <1>7. q <= m - 1
    <2>1. d * q < d * (m - 1) + d
      BY <1>1, <1>3, <1>4, <1>6
    <2>2. m - 1 \in Int
      OBVIOUS
    <2> QED BY <2>1, <2>2, MulGap
  <1>8. PICK i \in 1..m : i = q + 1 /\ i - 1 = q
    BY <1>5, <1>7
  <1>9. list[i].at = p + c
    BY <1>3, <1>8
  <1>10. Distance(list[i], t) = r
    BY <1>1, <1>4, <1>9 DEF Distance
  <1>11. CASE 2 * r <= d
    BY <1>10, <1>11
  <1>12. CASE 2 * r > d
    <2>1. q # m - 1
      BY <1>1, <1>3, <1>4, <1>6, <1>12
    <2>2. PICK k \in 1..m : k = q + 2 /\ k - 1 = q + 1
      BY <1>5, <1>7, <2>1
    <2>3. d * (q + 1) = p + d
      BY <1>3
    <2>4. list[k].at = (p + d) + c
      BY <2>2, <2>3
    <2>5. Distance(list[k], t) = d - r
      BY <1>1, <1>4, <2>4 DEF Distance
    <2>6. d - r \in Nat /\ 2 * (d - r) <= d
      BY <1>12
    <2> QED BY <2>5, <2>6
  <1> QED BY <1>11, <1>12

\* A sample of the report that iostat was stopped in.
SaysNoMore(x, when, told) ==
  /\ x \in Readings
  /\ x.at = when \/ x.at = NoZone
  /\ x.iowait \in Int /\ x.util \in Int /\ x.iowait <= told /\ x.util <= told

LEMMA PartialSaysNoMore ==
  ASSUME NEW when \in Nat, NEW told \in Nat, NEW j \in 0..7
  PROVE  SaysNoMore(Partial(when, told, j), when, told)
  BY DEF SaysNoMore, Partial, Readings

\* The piece of a line that was due is a line, and what is read with it tells no
\* more than the whole line would have.
LEMMA TornRead ==
  ASSUME NEW R \in Seq(Readings), NEW when \in Nat, NEW told \in Nat, NEW j \in 0..6,
         NEW p \in Parses, KnowsAfter(p, R, when, told, j),
         NEW line \in Pieces(ReportLines(when, told)[j+1])
  PROVE  /\ line \in Lines
         /\ \/ j = 0 /\ IostatLine(p, line).samples = R
            \/ \E x : SaysNoMore(x, when, told) /\ IostatLine(p, line).samples = Append(R, x)
  <1>1. PICK lines \in Seq(Lines) : lines = ReportLines(when, told) /\ Len(lines) = 7
    <2>1. when \in Int /\ told \in Int \cup Waits
      OBVIOUS
    <2> QED BY <2>1, LinesOfReport
  <1>2. PICK full \in Lines : full = ReportLines(when, told)[j+1]
    <2>1. j + 1 \in 1..Len(lines)
      BY <1>1
    <2>2. lines[j+1] \in Lines
      BY <2>1
    <2> QED BY <1>1, <2>2
  <1>3. /\ full.kind = "timestamp" => j = 0 /\ full = Line("timestamp", when)
        /\ full.kind = "numbers" => (j = 2 \/ j = 5) /\ full.value = told
    <2>1. j \in {0, 1, 2, 3, 4, 5, 6}
      OBVIOUS
    <2> QED BY <1>2, <2>1 DEF ReportLines, Line, Blank
  <1>4. \/ line = Blank
        \/ line = full
        \/ full.kind = "timestamp" /\ line = Line("timestamp", NoZone)
        \/ full.kind = "numbers" /\ \E v \in 0..full.value : line = Line("numbers", v)
    BY <1>2 DEF Pieces
  <1>5. \A k \in 0..7 : Partial(when, told, k) \in Readings
    BY DEF Partial, Readings
  <1>6. /\ p = [mode |-> p.mode, samples |-> p.samples] /\ p.samples \in Seq(Readings)
    BY DEF Parses
  <1>7. CASE line = Blank
    <2>1. Blank \in Lines /\ IostatLine(p, Blank) = p
      BY DEF Blank, Line, Lines, IostatLine
    <2>2. CASE j = 0
      BY <1>7, <2>1, <2>2 DEF KnowsAfter
    <2>3. CASE j # 0
      <3>1. p.samples = Append(R, Partial(when, told, j)) /\ j \in 0..7
        BY <2>3 DEF KnowsAfter
      <3> QED BY <1>7, <2>1, <3>1, PartialSaysNoMore
    <2> QED BY <2>2, <2>3
  <1>8. CASE line = full
    <2>1. KnowsAfter(IostatLine(p, line), R, when, told, j + 1)
      <3>1. when \in Int /\ told \in Int \cup Waits
        OBVIOUS
      <3> QED BY <1>2, <1>8, <3>1, ReportRead
    <2>2. j + 1 # 0 /\ j + 1 \in 0..7
      OBVIOUS
    <2>3. IostatLine(p, line).samples = Append(R, Partial(when, told, j + 1))
      BY <2>1, <2>2 DEF KnowsAfter
    <2> QED BY <1>2, <1>8, <2>2, <2>3, PartialSaysNoMore
  <1>9. CASE full.kind = "timestamp" /\ line = Line("timestamp", NoZone)
    <2>1. p.samples = R
      BY <1>3, <1>9 DEF KnowsAfter
    <2>2. PICK x : x = [at |-> NoZone, iowait |-> 0, util |-> -1]
      OBVIOUS
    <2>3. SaysNoMore(x, when, told)
      BY <2>2 DEF SaysNoMore, Readings, NoZone
    <2>4. IostatLine(p, line).samples = Append(R, x)
      BY <1>9, <2>1, <2>2 DEF IostatLine, Line
    <2>5. line \in Lines
      BY <1>9 DEF Line, Lines, NoZone
    <2> QED BY <2>3, <2>4, <2>5
  <1>10. CASE full.kind = "numbers" /\ \E v \in 0..full.value : line = Line("numbers", v)
    <2>1. PICK v \in 0..told : line = Line("numbers", v)
      BY <1>3, <1>10
    <2>2. line \in Lines
      BY <2>1 DEF Line, Lines
    <2>3. PICK y \in Readings : y = Partial(when, told, j)
      BY <1>5
    <2>4. p.samples = Append(R, y) /\ p.samples # <<>>
      <3>1. p.samples = Append(R, y)
        BY <1>3, <1>10, <2>3 DEF KnowsAfter
      <3>2. Append(R, y) # <<>>
        BY LongerList
      <3> QED BY <3>1, <3>2
    <2>5. SaysNoMore(y, when, told)
      <3>1. j \in 0..7
        OBVIOUS
      <3> QED BY <2>3, <3>1, PartialSaysNoMore
    <2>6. v \in Int \cup Waits /\ v \in Int /\ v <= told
      BY <2>1
    <2>7. CASE j = 2
      <3>1. PICK x : x = [y EXCEPT !.iowait = v]
        OBVIOUS
      <3>2. IostatLine(p, line).samples = WithLast(p.samples, "iowait", v)
        BY <2>1, <2>4, <2>7 DEF IostatLine, Line, KnowsAfter
      <3>3. WithLast(Append(R, y), "iowait", v) = Append(R, x)
        BY <2>6, <3>1, LastChanged
      <3>4. SaysNoMore(x, when, told)
        BY <2>5, <2>6, <3>1 DEF SaysNoMore, Readings
      <3> QED BY <2>2, <2>4, <3>2, <3>3, <3>4
    <2>8. CASE j = 5
      <3>1. PICK x : x = [y EXCEPT !.util = v]
        OBVIOUS
      <3>2. IostatLine(p, line).samples = WithLast(p.samples, "util", v)
        BY <1>6, <2>1, <2>4, <2>8 DEF IostatLine, Line, KnowsAfter
      <3>3. WithLast(Append(R, y), "util", v) = Append(R, x)
        BY <2>6, <3>1, LastChanged
      <3>4. SaysNoMore(x, when, told)
        BY <2>5, <2>6, <3>1 DEF SaysNoMore, Readings
      <3> QED BY <2>2, <2>4, <3>2, <3>3, <3>4
    <2> QED BY <1>3, <1>10, <2>7, <2>8
  <1> QED BY <1>4, <1>7, <1>8, <1>9, <1>10

\* What is read of iostat's log: the samples of the reports before the one it
\* was stopped in, and perhaps one of that.
LEMMA AllReadIs ==
  ASSUME DiskInv
  PROVE  \E R \in Seq(Readings), u \in 1..Len(disk)+2 :
           /\ u = report /\ R = Reports(u - 1) /\ Len(R) = u - 1
           /\ \/ AllRead = R
              \/ /\ u <= Len(disk) + 1
                 /\ \E x : SaysNoMore(x, Interval * (u - 1), Told(u)) /\ AllRead = Append(R, x)
  <1>1. DiskTypes /\ LogRead /\ LineTorn
    BY DEF DiskInv
  <1>2. PICK l \in Nat, u \in 1..Len(disk)+2, j \in 0..6 :
          l = Len(disk) /\ u = report /\ j = written /\ (u > l + 1 => j = 0)
    BY <1>1, ToldType DEF DiskTypes
  <1>3. PICK R \in Seq(Readings) : R = Reports(u - 1) /\ Len(R) = u - 1
    <2>1. u - 1 \in 0..Len(disk)+1
      BY <1>2
    <2> QED BY <1>1, <2>1, ToldType
  <1>4. iostat_log \in Seq(Lines)
    BY <1>1 DEF DiskTypes
  <1>5. CASE u > l + 1
    <2>1. j = 0 /\ torn = Blank
      BY <1>1, <1>2, <1>5 DEF LineTorn
    <2>2. Blank \in Lines
      BY DEF Blank, Line, Lines
    <2>3. PICK p \in Parses : p = Parsed(iostat_log)
      BY <1>4, <2>2, NextLine
    <2>4. Parsed(Append(iostat_log, torn)) = IostatLine(p, Blank)
      BY <1>4, <2>1, <2>2, <2>3, NextLine
    <2>5. IostatLine(p, Blank) = p
      BY DEF IostatLine, Blank, Line
    <2>6. p.samples = R
      BY <1>1, <1>2, <1>3, <2>1, <2>3 DEF LogRead, KnowsAfter
    <2>7. AllRead = R
      BY <2>4, <2>5, <2>6 DEF AllRead
    <2> QED BY <1>2, <1>3, <2>7
  <1>6. CASE u <= l + 1
    <2>1. PICK when \in Nat, told \in Nat, lines \in Seq(Lines) :
             /\ when = Interval * (report - 1) /\ told = Told(report)
             /\ lines = ReportLines(when, told) /\ Due = lines[j+1]
      BY <1>1, <1>2, <1>6, DueIs
    <2>2. torn \in Pieces(ReportLines(when, told)[j+1])
      <3>1. Blank \in Pieces(Due)
        BY DEF Pieces
      <3>2. torn \in Pieces(Due)
        BY <1>1, <3>1 DEF LineTorn
      <3> QED BY <2>1, <3>2
    <2>3. PICK p : p = Parsed(iostat_log)
      OBVIOUS
    <2>4. p \in Parses
      <3>1. Blank \in Lines
        BY DEF Blank, Line, Lines
      <3> QED BY <1>4, <2>3, <3>1, NextLine
    <2>5. KnowsAfter(p, R, when, told, j)
      BY <1>1, <1>2, <1>3, <2>1, <2>3 DEF LogRead
    <2>6. /\ torn \in Lines
          /\ \/ j = 0 /\ IostatLine(p, torn).samples = R
             \/ \E x : SaysNoMore(x, when, told) /\ IostatLine(p, torn).samples = Append(R, x)
      BY <2>2, <2>4, <2>5, TornRead
    <2>7. AllRead = IostatLine(p, torn).samples
      BY <1>4, <2>3, <2>6, NextLine DEF AllRead
    <2>8. when = Interval * (u - 1) /\ told = Told(u)
      BY <1>2, <2>1
    <2> QED BY <1>2, <1>3, <1>6, <2>6, <2>7, <2>8
  <1> QED BY <1>5, <1>6

\* Every sample is at its report's time and tells what that said; only one of the
\* report that iostat was stopped in may tell less, or be at no comparable time.
LEMMA LoggedSamples ==
  ASSUME DiskInv, NEW all, all = AllRead
  PROVE  /\ all \in Seq(Readings) /\ Len(all) <= Len(disk) + 1
         /\ \A k \in 1..Len(all) :
              /\ all[k].at = Interval * (k - 1) \/ all[k].at = NoZone
              /\ \/ all[k].iowait = Told(k) /\ all[k].util = Told(k)
                 \/ /\ k = Len(all) /\ k = report
                    /\ all[k].iowait <= Told(k) /\ all[k].util <= Told(k)
  <1>1. PICK R \in Seq(Readings), u \in 1..Len(disk)+2 :
           /\ u = report /\ R = Reports(u - 1) /\ Len(R) = u - 1
           /\ \/ all = R
              \/ /\ u <= Len(disk) + 1
                 /\ \E x : SaysNoMore(x, Interval * (u - 1), Told(u)) /\ all = Append(R, x)
    BY AllReadIs
  <1>2. PICK l \in Nat : l = Len(disk)
    BY ToldType DEF DiskInv
  <1>3. \A k \in 1..u-1 : R[k].at = Interval * (k - 1) /\ R[k].iowait = Told(k) /\ R[k].util = Told(k)
    BY <1>1 DEF Reports
  <1>4. CASE all = R
    BY <1>1, <1>2, <1>3, <1>4
  <1>5. CASE all # R
    <2>1. PICK x : SaysNoMore(x, Interval * (u - 1), Told(u)) /\ all = Append(R, x)
      BY <1>1, <1>5
    <2>2. x \in Readings /\ u <= l + 1
      BY <1>1, <1>2, <1>5, <2>1 DEF SaysNoMore
    <2>3. /\ all \in Seq(Readings) /\ Len(all) = u /\ all[u] = x /\ \A k \in 1..u-1 : all[k] = R[k]
      <3>1. Len(R) + 1 = u
        BY <1>1
      <3> QED BY <2>1, <2>2, <3>1
    <2>4. ASSUME NEW k \in 1..Len(all)
          PROVE  /\ all[k].at = Interval * (k - 1) \/ all[k].at = NoZone
                 /\ \/ all[k].iowait = Told(k) /\ all[k].util = Told(k)
                    \/ /\ k = Len(all) /\ k = report
                       /\ all[k].iowait <= Told(k) /\ all[k].util <= Told(k)
      <3>1. CASE k = u
        <4>1. all[k] = x /\ k = Len(all) /\ k = report
          BY <1>1, <2>3, <3>1
        <4>2. /\ x.at = Interval * (k - 1) \/ x.at = NoZone
              /\ x.iowait <= Told(k) /\ x.util <= Told(k)
          BY <2>1, <3>1 DEF SaysNoMore
        <4> QED BY <4>1, <4>2
      <3>2. CASE k # u
        <4>1. k \in 1..u-1
          BY <2>3, <3>2
        <4> QED BY <1>3, <2>3, <4>1
      <3> QED BY <3>1, <3>2
    <2> QED BY <1>2, <2>2, <2>3, <2>4
  <1> QED BY <1>4, <1>5

\* The reading since boot goes as soon as there is another.
LEMMA KeptSamples ==
  ASSUME DiskInv, run = "report",
         NEW all, all = AllRead, NEW m, m = Len(samples)
  PROVE  /\ m \in Nat \ {0} /\ DOMAIN samples = 1..m
         /\ \/ m = 1 /\ Len(all) = 1 /\ samples = all
            \/ Len(all) = m + 1 /\ \A i \in 1..m : samples[i] = all[i+1]
  <1>1. samples = dropFirst(all) /\ samples # <<>>
    BY DEF DiskInv, BothParsed
  <1>2. all \in Seq(Readings)
    BY LoggedSamples
  <1>3. PICK num \in Nat : num = Len(all)
    BY <1>2
  <1>4. CASE num > 1
    <2>1. samples = Tail(all)
      BY <1>1, <1>3, <1>4 DEF dropFirst
    <2>2. /\ samples \in Seq(Readings) /\ Len(samples) = num - 1
          /\ \A i \in 1..num-1 : samples[i] = all[i+1]
      BY <1>2, <1>3, <1>4, <2>1
    <2> QED BY <1>3, <1>4, <2>2
  <1>5. CASE num <= 1
    <2>1. samples = all
      BY <1>1, <1>3, <1>5 DEF dropFirst
    <2>2. num # 0
      BY <1>1, <1>2, <1>3, <2>1
    <2>3. num = 1
      BY <1>5, <2>2
    <2>4. Len(samples) = 1
      BY <1>3, <2>1, <2>3
    <2>5. DOMAIN samples = 1..1
      BY <1>2, <2>1, <2>4
    <2> QED BY <1>3, <2>1, <2>3, <2>4, <2>5
  <1> QED BY <1>3, <1>4, <1>5

LEMMA SamplesTell == DiskInv => SamplesTellTheDisk
  <1> SUFFICES ASSUME DiskInv, run = "report", Len(samples) > 1, NEW i \in DOMAIN samples
               PROVE  /\ samples[i].at > 0
                      /\ \/ /\ samples[i].iowait = disk[samples[i].at \div Interval]
                            /\ samples[i].util = disk[samples[i].at \div Interval]
                         \/ /\ i = Len(samples) /\ samples[i].at = Interval * (report - 1)
                            /\ samples[i].iowait <= disk[samples[i].at \div Interval]
                            /\ samples[i].util <= disk[samples[i].at \div Interval]
    BY DEF SamplesTellTheDisk
  <1>1. PICK all : all = AllRead
    OBVIOUS
  <1>2. PICK m \in Nat \ {0} : m = Len(samples) /\ DOMAIN samples = 1..m /\ Len(all) = m + 1
                               /\ \A k \in 1..m : samples[k] = all[k+1]
    <2>1. PICK m : m = Len(samples)
      OBVIOUS
    <2>2. /\ m \in Nat \ {0} /\ DOMAIN samples = 1..m
          /\ \/ m = 1 /\ Len(all) = 1 /\ samples = all
             \/ Len(all) = m + 1 /\ \A k \in 1..m : samples[k] = all[k+1]
      BY <1>1, <2>1, KeptSamples
    <2>3. m # 1
      BY <2>1
    <2> QED BY <2>1, <2>2, <2>3
  <1>3. PICK k \in 1..m+1 : k = i + 1 /\ k - 1 = i /\ i \in Nat \ {0} /\ i \in 1..m /\ k # 1
    BY <1>2
  <1>5. samples[i] = all[k] /\ (k = Len(all) => i = Len(samples))
    BY <1>2, <1>3
  <1>4. /\ all[k].at = Interval * (k - 1)
        /\ \/ all[k].iowait = Told(k) /\ all[k].util = Told(k)
           \/ k = Len(all) /\ k = report /\ all[k].iowait <= Told(k) /\ all[k].util <= Told(k)
    <2>1. samples[i].at # NoZone
      BY DEF DiskInv, BothParsed
    <2>2. k \in 1..Len(all)
      BY <1>2
    <2> QED BY <1>1, <1>5, <2>1, <2>2, LoggedSamples
  <1>6. Told(k) = disk[i]
    BY <1>3 DEF Told
  <1>7. Interval \in Nat \ {0} /\ Interval * i > 0 /\ (Interval * i) \div Interval = i
    <2>1. Interval \in Nat \ {0}
      BY CorrelationAssumption
    <2>2. (Interval * i) \div Interval = i
      BY <1>3, <2>1, DivExact
    <2>3. \A u, v \in Nat \ {0} : u * v > 0
      OBVIOUS
    <2> QED BY <1>3, <2>1, <2>2, <2>3
  <1> QED BY <1>3, <1>4, <1>5, <1>6, <1>7

LEMMA NearOnes == DiskInv => NearestIsNear
  <1> SUFFICES ASSUME DiskInv, run = "report", NEW q \in DOMAIN slow_queries, NEW t, t = slow_queries[q],
                      samples[1].at <= t, t <= samples[Len(samples)].at
               PROVE  2 * Distance(closest_sample(samples, t), t) <= Interval
    BY DEF NearestIsNear
  <1>1. t \in Nat
    <2>1. slow_queries \in Seq(Nat)
      BY DEF DiskInv, DiskTypes, BothParsed
    <2> QED BY <2>1
  <1>2. PICK all : all = AllRead
    OBVIOUS
  <1>3. PICK m \in Nat \ {0} : m = Len(samples)
    BY <1>2, KeptSamples
  <1>4. PICK d \in Nat \ {0} : d = Interval
    BY CorrelationAssumption
  <1>5. DOMAIN samples = 1..m
    BY <1>2, <1>3, KeptSamples
  <1>6. \E c \in Nat : \A i \in 1..m : samples[i].at = d * (i - 1) + c
    <2>1. CASE m = 1 /\ Len(all) = 1 /\ samples = all
      <3>1. all[1].at = Interval * (1 - 1)
        <4>1. 1 \in 1..Len(all) /\ 1 \in DOMAIN samples
          BY <1>5, <2>1
        <4>2. all[1].at # NoZone
          BY <2>1, <4>1 DEF DiskInv, BothParsed
        <4> QED BY <1>2, <4>1, <4>2, LoggedSamples
      <3>2. \A i \in 1..m : samples[i].at = d * (i - 1) + 0
        BY <1>4, <2>1, <3>1
      <3>3. 0 \in Nat
        OBVIOUS
      <3> QED BY <3>2, <3>3
    <2>2. CASE Len(all) = m + 1 /\ \A i \in 1..m : samples[i] = all[i+1]
      <3>1. ASSUME NEW i \in 1..m PROVE samples[i].at = d * (i - 1) + d
        <4>1. PICK k \in 1..Len(all) : k = i + 1 /\ k - 1 = i
          BY <2>2
        <4>2. all[k].at = d * i
          <5>1. all[k].at = Interval * (k - 1)
            <6>1. samples[i].at # NoZone
              BY <1>5 DEF DiskInv, BothParsed
            <6>2. all[k].at # NoZone
              BY <2>2, <4>1, <6>1
            <6> QED BY <1>2, <6>2, LoggedSamples
          <5> QED BY <1>4, <4>1, <5>1
        <4>3. d * i = d * (i - 1) + d
          OBVIOUS
        <4> QED BY <2>2, <4>1, <4>2, <4>3
      <3>2. d \in Nat
        OBVIOUS
      <3> QED BY <3>1, <3>2
    <2>3. \/ m = 1 /\ Len(all) = 1 /\ samples = all
          \/ Len(all) = m + 1 /\ \A i \in 1..m : samples[i] = all[i+1]
      BY <1>2, <1>3, KeptSamples
    <2> QED BY <2>1, <2>2, <2>3
  <1>7. PICK c \in Nat : \A i \in 1..m : samples[i].at = d * (i - 1) + c
    BY <1>6
  <1>8. c <= t /\ t <= d * (m - 1) + c
    <2>1. 1 \in 1..m /\ m \in 1..m
      OBVIOUS
    <2>2. samples[1].at = d * (1 - 1) + c /\ samples[m].at = d * (m - 1) + c
      BY <1>7, <2>1
    <2>3. d * (1 - 1) + c = c
      OBVIOUS
    <2> QED BY <1>3, <2>2, <2>3
  <1>9. PICK near \in 1..m : Distance(samples[near], t) \in Nat /\ 2 * Distance(samples[near], t) <= d
    BY <1>1, <1>7, <1>8, SomeIsNear
  <1>10. \A i \in 1..m : samples[i].at \in Int
    <2> TAKE i \in 1..m
    <2>1. samples[i].at = d * (i - 1) + c
      BY <1>7
    <2>2. d * (i - 1) + c \in Int
      OBVIOUS
    <2> QED BY <2>1, <2>2
  <1>11. IsNearest(closest_sample(samples, t), samples, m, t)
    <2>1. AreTimed(samples, m)
      BY <1>5, <1>10 DEF AreTimed
    <2>2. t \in Int
      BY <1>1
    <2> QED BY <2>1, <2>2, ClosestIs
  <1>12. PICK i \in 1..m : closest_sample(samples, t) = samples[i]
    BY <1>11 DEF IsNearest
  <1>13. PICK x \in Nat, y \in Nat : x = Distance(samples[i], t) /\ y = Distance(samples[near], t)
    <2>1. samples[i].at \in Int /\ t \in Int
      BY <1>1, <1>10
    <2>2. Distance(samples[i], t) \in Nat
      BY <2>1 DEF Distance
    <2> QED BY <1>9, <2>2
  <1>14. x <= y /\ 2 * y <= d
    BY <1>9, <1>11, <1>12, <1>13 DEF IsNearest
  <1> QED BY <1>4, <1>12, <1>13, <1>14

LEMMA CorrelationIsRight == DiskInv => SlowQueriesMeetTheDisk
  <1>1. DiskInv => AllSlowRowsParsed
    BY DEF DiskInv, BothParsed, AllSlowRowsParsed
  <1> QED BY <1>1, SamplesTell, NearOnes DEF SlowQueriesMeetTheDisk

-----------------------------------------------------------------------------
(* The scripts together *)

LEMMA ScriptsInit == Init => PinInv /\ DiskInv /\ HotInv /\ CrossInv
  BY PinInitInv, DiskStart, HotInitInv, CrossInitInv DEF Init

\* A script leaves the variables of the others alone.
LEMMA ScriptsStep ==
  /\ PinInv /\ [Next]_vars => PinInv'
  /\ DiskInv /\ [Next]_vars => DiskInv'
  /\ HotInv /\ [Next]_vars => HotInv'
  /\ CrossInv /\ [Next]_vars => CrossInv'
  <1>1. [Next]_vars => /\ PinningNext \/ UNCHANGED pinningVars
                       /\ CorrelationNext \/ UNCHANGED correlationVars
                       /\ HotspotNext \/ UNCHANGED hotspotVars
                       /\ CrosscheckNext \/ UNCHANGED crosscheckVars
    BY DEF Next, vars, Pinning, Iowait, Hotspot, Golden, Others
  <1> QED BY <1>1, PinningKeepsInv, PinStutter, CorrelationKeepsInv, DiskStutter,
             HotspotKeepsInv,
             CrosscheckKeepsInv, CrossStutter

\* In every trial of diagnose_thread_pinning.py, burst or stagger, from one pool
\* or many, what is counted besides the trial's own connections are at most those
\* that other programs opened, and without such the verdict says what the server did.
THEOREM VerdictsAreRight == Spec => []VerdictFitsServer
  <1>1. PinInv => VerdictFitsServer
    BY DEF PinInv
  <1> QED BY <1>1, ScriptsInit, ScriptsStep, PTL DEF Spec

\* correlate_iowait.py, for any interval, any disk readings, and whatever line iostat
\* and the benchmark are stopped in, however much of iostat's output was lost: every
\* slow row printed is found, in order; and when a report is made each sample tells of
\* the interval that ended at its time, though that of the report iostat was stopped in
\* may say too little, and a row that falls between samples is set against one at most
\* half an interval away.
THEOREM SlowQueriesMeetDisk == Spec => []SlowQueriesMeetTheDisk
  <1>1. DiskInv => SlowQueriesMeetTheDisk
    BY CorrelationIsRight
  <1> QED BY <1>1, ScriptsInit, ScriptsStep, PTL DEF Spec

\* The load scripts report the operations the server executed in the phase, through
\* pipelines and a deadline, and charge each of its threads with the ticks it spent
\* between its two readings, while others of its threads start and end.
THEOREM ReportsAreOfTheirPhase == Spec => []ReportIsThisPhase
  <1>1. HotInv => ReportIsThisPhase
    BY DEF HotInv
  <1> QED BY <1>1, ScriptsInit, ScriptsStep, PTL DEF Spec

\* The Go test passes on the file of the last Python run, whatever interrupted runs
\* under other bucket counts have left in the two namespaces.
THEOREM GoldenFileReplays == Spec => []GoldenReplays
  <1>1. CrossInv => GoldenReplays
    BY DEF CrossInv
  <1> QED BY <1>1, ScriptsInit, ScriptsStep, PTL DEF Spec
==============================================================================
