--------------------------- MODULE RuleStoreProofs ---------------------------
(***************************************************************************)
(* What holds of RuleStore for every set of cells, counts, batches,        *)
(* connections and queries.                                                *)
(***************************************************************************)
EXTENDS RuleStore, WellFoundedInduction, TLAPS

-----------------------------------------------------------------------------
(* Keys *)

\* A key belongs to one cell.
LEMMA KeyNamesCell ==
  ASSUME NEW c, NEW d, NEW n, NEW m, NEW i, NEW j, key(c, n, i) = key(d, m, j)
  PROVE  c = d
BY DEF key

\* The replicas of a cell have distinct keys.
LEMMA KeyNamesReplica ==
  ASSUME NEW c \in Cells, NEW n \in Counts,
         NEW i \in 0..num_replicas(c, n)-1, NEW j \in 0..num_replicas(c, n)-1,
         key(c, n, i) = key(c, n, j)
  PROVE  i = j
<1>1. CASE Replicated(c, n)  BY <1>1 DEF key
<1>2. CASE ~Replicated(c, n)  BY <1>2 DEF num_replicas
<1> QED  BY <1>1, <1>2

LEMMA KeyExists ==
  ASSUME NEW c \in Cells, NEW n \in Counts, NEW i \in 0..num_replicas(c, n)-1
  PROVE  key(c, n, i) \in Keys
<1>1. key(c, n, i) \in KeysOf(c, n)  BY DEF KeysOf
<1>2. KeysOf(c, n) \in {KeysOf(d, m) : d \in Cells, m \in Counts}  OBVIOUS
<1> QED  BY <1>1, <1>2 DEF Keys

\* A cell has at least one replica.
LEMMA ReplicasPositive ==
  ASSUME NEW c, NEW n \in Counts
  PROVE  num_replicas(c, n) \in Nat \ {0}
BY CountsAssumption DEF num_replicas

-----------------------------------------------------------------------------
(* The best hit *)

\* Among hits with natural ranks there is a best one.
LEMMA LeastRank ==
  ASSUME NEW rank \in [Cells -> Nat], NEW hits \in SUBSET (Cells \X Values), hits # {}
  PROVE  \E h \in hits : \A o \in hits : rank[h[1]] <= rank[o[1]]
<1> DEFINE Ranks == {rank[h[1]] : h \in hits}
<1>1. Ranks \subseteq Nat /\ Ranks # {}
  OBVIOUS
<1>2. \E x \in Ranks : \A y \in Ranks : <<y, x>> \notin OpToRel(<, Nat)
  <2> HIDE DEF Ranks
  <2> QED  BY <1>1, NatLessThanWellFounded, WFMin
<1>3. \E x \in Ranks : \A y \in Ranks : ~(y < x)
  <2> HIDE DEF Ranks
  <2>1. PICK x \in Ranks : \A y \in Ranks : <<y, x>> \notin OpToRel(<, Nat)
    BY <1>2
  <2>2. \A y \in Ranks : ~(y < x)
    BY <1>1, <2>1 DEF OpToRel
  <2> QED  BY <2>2
<1>4. PICK h \in hits : \A y \in Ranks : ~(y < rank[h[1]])
  BY <1>3
<1>5. \A o \in hits : rank[h[1]] <= rank[o[1]]
  BY <1>1, <1>4
<1> QED  BY <1>5

\* Best returns the least ranked of the hits, and nothing only if there are none.
LEMMA BestHit ==
  ASSUME NEW q \in Queries, NEW found \in SUBSET (Cells \X Values),
         NEW best \in (Cells \X Values) \cup {NoRule}
  PROVE  LET hits == found \cup ({best} \ {NoRule})
         IN  \/ hits = {} /\ Best(q, found, best) = NoRule
             \/ /\ Best(q, found, best) \in hits
                /\ \A o \in hits : Rank[q][Best(q, found, best)[1]] <= Rank[q][o[1]]
<1> DEFINE hits == found \cup ({best} \ {NoRule})
<1>1. hits \in SUBSET (Cells \X Values)
  OBVIOUS
<1>2. CASE hits = {}
  BY <1>2 DEF Best
<1>3. CASE hits # {}
  <2>1. \E h \in hits : \A o \in hits : Rank[q][h[1]] <= Rank[q][o[1]]
    BY <1>1, <1>3, LeastRank, QueriesAssumption
  <2> QED  BY <1>3, <2>1 DEF Best
<1> QED  BY <1>2, <1>3

-----------------------------------------------------------------------------
(* Types *)

LEMMA SeqWiden ==
  ASSUME NEW S, NEW T, S \subseteq T, NEW s \in Seq(S)
  PROVE  s \in Seq(T)
OBVIOUS

LEMMA BatchElements ==
  ASSUME NEW batch \in Seq(Items)
  PROVE  /\ CellsOf(batch) \in SUBSET Cells
         /\ \A r \in Nat \ {0} : r <= Len(batch) =>
              /\ r \in DOMAIN batch
              /\ batch[r] \in Items
              /\ batch[r].cell \in CellsOf(batch)
<1>1. \A r \in DOMAIN batch : batch[r] \in Items
  OBVIOUS
<1>2. CellsOf(batch) \in SUBSET Cells
  BY <1>1 DEF CellsOf, Items
<1>3. \A r \in Nat \ {0} : r <= Len(batch) => r \in DOMAIN batch
  OBVIOUS
<1> QED  BY <1>1, <1>2, <1>3 DEF CellsOf

LEMMA PipeType ==
  ASSUME TypeOK, NEW w \in Writers
  PROVE  /\ pipe[w].op \in {"idle", "put", "delete"}
         /\ pipe[w].op = "idle" => pipe[w] = Idle
         /\ pipe[w].op # "idle" => pipe[w].count \in Counts
         /\ pipe[w].batch \in Seq(Items)
         /\ pipe[w].rule \in Nat \ {0}
         /\ pipe[w].replica \in Nat
         /\ pipe[w].found \in BOOLEAN
<1>1. CASE pipe[w] = Idle  BY <1>1 DEF Idle, Pipeline
<1>2. CASE pipe[w] # Idle  BY <1>2 DEF TypeOK, Pipelines
<1> QED  BY <1>1, <1>2

LEMMA IdleEmpty == Idle.op = "idle" /\ Idle.batch = <<>> /\ CellsOf(Idle.batch) = {}
BY DEF Idle, Pipeline, CellsOf

\* A pipeline with a command left is not idle.
LEMMA BusyPipe ==
  ASSUME TypeOK, NEW w \in Writers, pipe[w].rule <= Len(pipe[w].batch)
  PROVE  pipe[w].op \in {"put", "delete"} /\ pipe[w].count \in Counts
<1>1. pipe[w] # Idle  BY DEF Idle, Pipeline
<1> QED  BY <1>1, PipeType

LEMMA ScanType ==
  ASSUME TypeOK, NEW r \in Readers, scan[r].phase = "sent"
  PROVE  /\ scan[r].count \in Counts
         /\ scan[r].query \in Queries
         /\ scan[r].group \in Nat \ {0}
         /\ scan[r].hit \in (Cells \X Values) \cup {NoRule}
<1>1. scan[r] # NoScan  BY DEF NoScan, Scan
<1> QED  BY <1>1 DEF TypeOK, Scans

LEMMA IdleType == Idle \in Pipelines
BY DEF Pipelines

LEMMA SendType ==
  ASSUME TypeOK, NEW w \in Writers, NEW op \in {"put", "delete"}, NEW n \in Counts,
         NEW batch \in Seq(Items),
         Send(w, op, n, batch), prior' \in [Writers -> BOOLEAN]
  PROVE  TypeOK'
<1>1. Pipeline(op, n, batch, 1, 0, FALSE) \in Pipelines
  BY DEF Pipeline, Pipelines
<1>2. CellsOf(batch) \in SUBSET Cells
  BY BatchElements
<1>3. pipe' \in [Writers -> Pipelines]
  BY <1>1 DEF TypeOK, Send
<1> QED  BY <1>2, <1>3 DEF TypeOK, Send

LEMMA CommandType ==
  ASSUME TypeOK, NEW w \in Writers, Command(w)
  PROVE  TypeOK'
<1> DEFINE p == pipe[w]
           b == p.batch[p.rule]
<1>1. b \in Items
  BY PipeType, BatchElements DEF Command
<1>2. db' \in [Keys -> Values \cup {NoRule}]
  BY <1>1 DEF TypeOK, Command, Items
<1>3. wrote' \in [Writers -> [Cells -> Values \cup {NoRule, Torn}]]
  BY <1>1 DEF TypeOK, Command, Items
<1>4. pipe' \in [Writers -> Pipelines]
  <2>1. p.op \in {"put", "delete"} /\ p.count \in Counts
    BY BusyPipe DEF Command
  <2>2. \A rule \in Nat \ {0}, replica \in Nat, found \in BOOLEAN :
          Pipeline(p.op, p.count, p.batch, rule, replica, found) \in Pipelines
    BY <2>1, PipeType DEF Pipeline, Pipelines
  <2> DEFINE x == key(b.cell, p.count, p.replica)
             last == p.replica + 1 = num_replicas(b.cell, p.count)
             rule == IF last THEN p.rule + 1 ELSE p.rule
             replica == IF last THEN 0 ELSE p.replica + 1
             found == AnyDeleted(p, x)
  <2>3. found \in BOOLEAN
    BY DEF AnyDeleted
  <2>4. rule \in Nat \ {0} /\ replica \in Nat
    BY PipeType
  <2>5. pipe' = [pipe EXCEPT ![w] = Pipeline(p.op, p.count, p.batch, rule, replica, found)]
    BY DEF Command, LastReplica
  <2>6. Pipeline(p.op, p.count, p.batch, rule, replica, found) \in Pipelines
    <3> HIDE DEF p, rule, replica, found
    <3> QED  BY <2>2, <2>3, <2>4
  <2> QED
    <3> HIDE DEF p, rule, replica, found
    <3> QED  BY <2>5, <2>6 DEF TypeOK
<1> QED  BY <1>2, <1>3, <1>4 DEF TypeOK, Command

LEMMA ReleaseType ==
  ASSUME TypeOK, NEW w \in Writers, Release(w),
         settled' \in [Cells -> [Counts -> Values \cup {NoRule, Torn}]]
  PROVE  TypeOK'
BY IdleType DEF TypeOK, Release, Untouched

LEMMA ResendType ==
  ASSUME TypeOK, NEW w \in Writers, Resend(w)
  PROVE  TypeOK'
<1> DEFINE again == Pipeline(pipe[w].op, pipe[w].count, pipe[w].batch, 1, 0, FALSE)
<1>1. again \in Pipelines
  BY PipeType DEF Resend, Pipeline, Pipelines
<1>2. pipe' = [pipe EXCEPT ![w] = again]
  BY DEF Resend
<1>3. pipe' \in [Writers -> Pipelines]
  <2> HIDE DEF again
  <2> QED  BY <1>1, <1>2 DEF TypeOK
<1> QED  BY <1>3 DEF TypeOK, Resend, Untouched

LEMMA VisibleType ==
  ASSUME TypeOK, NEW q \in Queries, NEW n \in Counts, NEW cells \in SUBSET Cells
  PROVE  Visible(q, n, cells) \in SUBSET (Cells \X Values)
<1>1. \A c \in cells : key(c, n, bucket_index(q, n)) \in Keys
  <2> TAKE c \in cells
  <2>1. bucket_index(q, n) \in 0..num_replicas(c, n)-1 \/ ~Replicated(c, n)
    BY CountsAssumption, QueriesAssumption DEF bucket_index, num_replicas, Replicated
  <2>2. CASE ~Replicated(c, n)
    <3>1. key(c, n, bucket_index(q, n)) = key(c, n, 0)  BY <2>2 DEF key
    <3> QED  BY <2>2, <3>1, KeyExists DEF num_replicas
  <2> QED  BY <2>1, <2>2, KeyExists
<1> QED  BY <1>1 DEF TypeOK, Visible

LEMMA ReadGroupType ==
  ASSUME TypeOK, NEW r \in Readers, ReadGroup(r)
  PROVE  TypeOK'
<1> DEFINE s == scan[r]
           found == Visible(s.query, s.count, Groups[s.query][s.group])
<1>1. /\ s.count \in Counts /\ s.query \in Queries /\ s.group \in Nat \ {0}
      /\ s.hit \in (Cells \X Values) \cup {NoRule}
  BY ScanType DEF ReadGroup
<1>2. Groups[s.query] \in Seq(SUBSET Cells) /\ s.group <= Len(Groups[s.query])
  BY <1>1, QueriesAssumption DEF ReadGroup, Finished
<1>3. Groups[s.query][s.group] \in SUBSET Cells
  BY <1>1, <1>2
<1>4. found \in SUBSET (Cells \X Values)
  BY <1>1, <1>3, VisibleType
<1>5. Best(s.query, found, s.hit) \in (Cells \X Values) \cup {NoRule}
  BY <1>1, <1>4, BestHit
<1>6. Scan("sent", s.count, s.query, s.group + 1, Best(s.query, found, s.hit)) \in Scans
  BY <1>1, <1>5 DEF Scan, Scans
<1> QED  BY <1>6 DEF TypeOK, ReadGroup, ghosts

\* Every step keeps the types.
LEMMA TypeStep ==
  ASSUME TypeOK, [Next]_vars
  PROVE  TypeOK'
<1>1. ASSUME NEW n \in Counts, Open(n) \/ Close(n)
      PROVE  TypeOK'
  BY <1>1 DEF TypeOK, Open, Close, ghosts
<1>2. ASSUME NEW w \in Writers, NEW n \in Counts, NEW batch \in Batches, Put(w, n, batch)
      PROVE  TypeOK'
  <2>1. batch \in Seq(Items)
    <3>1. [cell : Cells, val : Values] \subseteq Items  BY DEF Items
    <3> QED  BY <3>1, BatchesAssumption, SeqWiden
  <2>2. prior' \in [Writers -> BOOLEAN]
    BY <1>2 DEF TypeOK, Put
  <2> QED  BY <1>2, <2>1, <2>2, SendType DEF Put
<1>3. ASSUME NEW w \in Writers, NEW n \in Counts, NEW c \in Cells, Delete(w, n, c)
      PROVE  TypeOK'
  <2>1. <<[cell |-> c, val |-> NoRule]>> \in Seq(Items)
    BY DEF Items
  <2>2. prior' \in [Writers -> BOOLEAN]
    BY <1>3 DEF TypeOK, Delete
  <2> QED  BY <1>3, <2>1, <2>2, SendType DEF Delete
<1>4. ASSUME NEW w \in Writers, Command(w)
      PROVE  TypeOK'
  BY <1>4, CommandType
<1>5. ASSUME NEW w \in Writers, RecordCount(w)
      PROVE  TypeOK'
  <2>1. pipe[w].op = "put" /\ pipe[w].count \in Counts
    BY <1>5, PipeType DEF RecordCount, RecordsCount
  <2>2. pipe' \in [Writers -> Pipelines]
    <3>1. Pipeline(pipe[w].op, pipe[w].count, pipe[w].batch, pipe[w].rule + 1,
                   pipe[w].replica, pipe[w].found) \in Pipelines
      BY <2>1, PipeType DEF Pipeline, Pipelines
    <3> QED  BY <1>5, <3>1 DEF TypeOK, RecordCount
  <2> QED  BY <1>5, <2>1, <2>2 DEF TypeOK, RecordCount, recorded_count, ghosts
<1>6. ASSUME NEW w \in Writers, Return(w)
      PROVE  TypeOK'
  <2>1. pipe[w].op # "idle" /\ Release(w)
    BY <1>6 DEF Return, Executed
  <2>2. wrote[w] \in [Cells -> Values \cup {NoRule, Torn}]
    BY DEF TypeOK
  <2>3. settled' \in [Cells -> [Counts -> Values \cup {NoRule, Torn}]]
    BY <1>6, <2>2 DEF TypeOK, Return
  <2> QED  BY <2>1, <2>3, ReleaseType
<1>7. ASSUME NEW w \in Writers, Drop(w)
      PROVE  TypeOK'
  BY <1>7, ReleaseType DEF TypeOK, Drop
<1>13. ASSUME NEW w \in Writers, Resend(w)
       PROVE  TypeOK'
  BY <1>13, ResendType
<1>8. ASSUME NEW r \in Readers, NEW n \in Counts, NEW q \in Queries, Lookup(r, n, q)
      PROVE  TypeOK'
  <2>1. Scan("sent", n, q, 1, NoRule) \in Scans
    BY DEF Scan, Scans
  <2> QED  BY <1>8, <2>1 DEF TypeOK, Lookup
<1>9. ASSUME NEW r \in Readers, ReadGroup(r)
      PROVE  TypeOK'
  BY <1>9, ReadGroupType
<1>10. ASSUME NEW r \in Readers, EndLookup(r)
       PROVE  TypeOK'
  <2>1. NoScan \in Scans
    BY DEF Scans
  <2> QED  BY <1>10, <2>1 DEF TypeOK, EndLookup
<1>11. ASSUME Flush
       PROVE  TypeOK'
  BY <1>11 DEF TypeOK, Flush
<1>12. ASSUME UNCHANGED vars
       PROVE  TypeOK'
  BY <1>12 DEF TypeOK, vars, ghosts
<1> QED
  BY <1>1, <1>2, <1>3, <1>4, <1>5, <1>6, <1>7, <1>8, <1>9, <1>10, <1>11, <1>12, <1>13 DEF Next

\* Every state of the system is well typed.
THEOREM StoreTypeCorrect == Spec => []TypeOK
<1>1. Init => TypeOK
  BY IdleType DEF Init, TypeOK, Untouched, Scans
<1>2. TypeOK /\ [Next]_vars => TypeOK'
  BY TypeStep
<1> QED  BY <1>1, <1>2, PTL DEF Spec

-----------------------------------------------------------------------------
(* The inductive invariant *)

\* The next command of a pipeline names an existing replica, and a delete
\* is a pipeline over one cell.
PipelineBounds ==
  \A w \in Writers :
    LET p == pipe[w]
    IN  /\ p.rule <= Len(p.batch) => p.replica < num_replicas(p.batch[p.rule].cell, p.count)
        /\ p.op = "delete" => Len(p.batch) = 1 /\ p.batch[1].val = NoRule

\* A cell on its way to being written is not settled under any count.
WritingUnsettles ==
  \A w \in Writers : \A c \in CellsOf(pipe[w].batch), n \in Counts : settled[c][n] = Torn

\* A clean cell is being written by its own pipeline and by no other.
CleanIsExclusive ==
  \A w \in Writers : \A c \in clean[w] :
    /\ c \in CellsOf(pipe[w].batch)
    /\ \A v \in Writers \ {w} : c \notin CellsOf(pipe[v].batch)

\* Every rule the pipeline is past has been written.
RulesWritten ==
  \A w \in Writers :
    LET p == pipe[w]
    IN  /\ p.op = "idle" => wrote[w] = Untouched
        /\ \A r \in DOMAIN p.batch : r < p.rule => wrote[w][p.batch[r].cell] # Torn

\* The replicas of a clean cell hold the rule being written up to the next
\* command, and the rule written before from there on.
ReplicasWritten ==
  \A w \in Writers : \A c \in clean[w] :
    LET p == pipe[w]
    IN  \A i \in 0..num_replicas(c, p.count)-1 :
          IF p.rule <= Len(p.batch) /\ p.batch[p.rule].cell = c /\ i < p.replica
          THEN db[key(c, p.count, i)] = p.batch[p.rule].val
          ELSE wrote[w][c] # Torn => db[key(c, p.count, i)] = wrote[w][c]

StoreInv ==
  /\ TypeOK
  /\ PipelineBounds
  /\ WritingUnsettles
  /\ CleanIsExclusive
  /\ RulesWritten
  /\ ReplicasWritten
  /\ SettledReplicasAgree

\* What one command does, field by field.
LEMMA CommandEffect ==
  ASSUME TypeOK, PipelineBounds, NEW w \in Writers, Command(w)
  PROVE  LET p == pipe[w]
             b == p.batch[p.rule]
             n == p.count
             x == key(b.cell, n, p.replica)
             last == p.replica + 1 = num_replicas(b.cell, n)
         IN  /\ n \in Counts
             /\ p.rule \in DOMAIN p.batch /\ p.rule <= Len(p.batch)
             /\ b \in Items /\ b.cell \in Cells /\ b.cell \in CellsOf(p.batch)
             /\ b.val # Torn
             /\ p.replica \in 0..num_replicas(b.cell, n)-1
             /\ x \in Keys
             /\ db' = [db EXCEPT ![x] = b.val]
             /\ \A v \in Writers : /\ v # w => pipe'[v] = pipe[v] /\ wrote'[v] = wrote[v]
                                   /\ pipe'[v].batch = pipe[v].batch
                                   /\ pipe'[v].count = pipe[v].count
                                   /\ pipe'[v].op = pipe[v].op
             /\ last => /\ pipe'[w].rule = p.rule + 1 /\ pipe'[w].replica = 0
                        /\ wrote'[w] = [wrote[w] EXCEPT ![b.cell] = b.val]
             /\ ~last => /\ pipe'[w].rule = p.rule /\ pipe'[w].replica = p.replica + 1
                         /\ wrote'[w] = wrote[w]
<1> DEFINE p == pipe[w]
           b == p.batch[p.rule]
           n == p.count
           x == key(b.cell, n, p.replica)
           last == p.replica + 1 = num_replicas(b.cell, n)
<1>1. p.rule \in Nat \ {0} /\ p.rule <= Len(p.batch) /\ p.batch \in Seq(Items) /\ p.replica \in Nat
  BY PipeType DEF Command
<1>2. n \in Counts /\ p.op \in {"put", "delete"}
  BY BusyPipe DEF Command
<1>3. p.rule \in DOMAIN p.batch /\ b \in Items /\ b.cell \in CellsOf(p.batch)
  BY <1>1, BatchElements
<1>4. b.cell \in Cells /\ b.val # Torn
  BY <1>3, ValuesAssumption DEF Items
<1>5. p.replica \in 0..num_replicas(b.cell, n)-1
  BY <1>1, <1>2, ReplicasPositive DEF PipelineBounds
<1>6. x \in Keys
  BY <1>2, <1>4, <1>5, KeyExists
<1>7. \A v \in Writers : /\ v # w => pipe'[v] = pipe[v] /\ wrote'[v] = wrote[v]
                         /\ pipe'[v].batch = pipe[v].batch
                         /\ pipe'[v].count = pipe[v].count
                         /\ pipe'[v].op = pipe[v].op
  BY DEF Command, LastReplica, Pipeline, TypeOK
<1>8. last => /\ pipe'[w].rule = p.rule + 1 /\ pipe'[w].replica = 0
              /\ wrote'[w] = [wrote[w] EXCEPT ![b.cell] = b.val]
  BY DEF Command, LastReplica, Pipeline, TypeOK
<1>9. ~last => /\ pipe'[w].rule = p.rule /\ pipe'[w].replica = p.replica + 1
               /\ wrote'[w] = wrote[w]
  BY DEF Command, LastReplica, Pipeline, TypeOK
<1>10. db' = [db EXCEPT ![x] = b.val]
  BY DEF Command
<1> QED  BY <1>1, <1>2, <1>3, <1>4, <1>5, <1>6, <1>7, <1>8, <1>9, <1>10

\* A command of one pipeline disturbs neither the settled cells nor the clean
\* cells of the others, and brings its own cell one replica further.
LEMMA CommandKeepsInv ==
  ASSUME StoreInv, NEW w \in Writers, Command(w)
  PROVE  StoreInv'
<1> DEFINE p == pipe[w]
           b == p.batch[p.rule]
           n == p.count
           x == key(b.cell, n, p.replica)
           last == p.replica + 1 = num_replicas(b.cell, n)
<1>1. /\ n \in Counts
      /\ p.rule \in DOMAIN p.batch /\ p.rule <= Len(p.batch)
      /\ b.cell \in Cells /\ b.cell \in CellsOf(p.batch) /\ b.val # Torn
      /\ p.replica \in 0..num_replicas(b.cell, n)-1
      /\ x \in Keys
      /\ db' = [db EXCEPT ![x] = b.val]
  BY CommandEffect DEF StoreInv
<1>2. \A v \in Writers : /\ v # w => pipe'[v] = pipe[v] /\ wrote'[v] = wrote[v]
                         /\ pipe'[v].batch = pipe[v].batch
                         /\ pipe'[v].count = pipe[v].count
                         /\ pipe'[v].op = pipe[v].op
  BY CommandEffect DEF StoreInv
<1>3. last => /\ pipe'[w].rule = p.rule + 1 /\ pipe'[w].replica = 0
              /\ wrote'[w] = [wrote[w] EXCEPT ![b.cell] = b.val]
  BY CommandEffect DEF StoreInv
<1>4. ~last => /\ pipe'[w].rule = p.rule /\ pipe'[w].replica = p.replica + 1
               /\ wrote'[w] = wrote[w]
  BY CommandEffect DEF StoreInv
<1>5. settled' = settled /\ clean' = clean
  BY DEF Command
<1>6. p.rule \in Nat \ {0} /\ p.replica \in Nat /\ p.op \in {"put", "delete"}
  BY PipeType, BusyPipe DEF StoreInv, Command
<1>7. db \in [Keys -> Values \cup {NoRule}] /\ wrote[w] \in [Cells -> Values \cup {NoRule, Torn}]
  BY DEF StoreInv, TypeOK
<1>8. \A c \in Cells : \A m, i : c # b.cell => db'[key(c, m, i)] = db[key(c, m, i)]
  BY <1>1, <1>7, KeyNamesCell
<1> HIDE DEF p, b, n, x, last
<1>a. TypeOK'
  BY CommandType DEF StoreInv
<1>b. PipelineBounds'
  <2> SUFFICES ASSUME NEW v \in Writers
               PROVE  /\ pipe'[v].rule <= Len(pipe'[v].batch) =>
                           pipe'[v].replica
                             < num_replicas(pipe'[v].batch[pipe'[v].rule].cell, pipe'[v].count)
                      /\ pipe'[v].op = "delete" =>
                           Len(pipe'[v].batch) = 1 /\ pipe'[v].batch[1].val = NoRule
    BY DEF PipelineBounds
  <2>1. CASE v # w
    BY <1>2, <2>1 DEF StoreInv, PipelineBounds
  <2>2. CASE v = w /\ last
    BY <1>1, <1>2, <1>3, <2>2, ReplicasPositive DEF StoreInv, PipelineBounds, p, n
  <2>3. CASE v = w /\ ~last
    <3>1. p.replica + 1 < num_replicas(b.cell, n)
      BY <1>1, <2>3, ReplicasPositive DEF last
    <3> QED  BY <1>2, <1>4, <2>3, <3>1 DEF StoreInv, PipelineBounds, p, b, n
  <2> QED  BY <2>1, <2>2, <2>3
<1>c. WritingUnsettles'
  BY <1>2, <1>5 DEF StoreInv, WritingUnsettles
<1>d. CleanIsExclusive'
  BY <1>2, <1>5 DEF StoreInv, CleanIsExclusive
<1>e. RulesWritten'
  <2> SUFFICES ASSUME NEW v \in Writers
               PROVE  /\ pipe'[v].op = "idle" => wrote'[v] = Untouched
                      /\ \A r \in DOMAIN pipe'[v].batch :
                           r < pipe'[v].rule => wrote'[v][pipe'[v].batch[r].cell] # Torn
    BY DEF RulesWritten
  <2>1. CASE v # w
    BY <1>2, <2>1 DEF StoreInv, RulesWritten
  <2>2. CASE v = w
    <3>1. pipe'[w].op # "idle"
      BY <1>2, <1>6 DEF p
    <3>2. ASSUME NEW r \in DOMAIN p.batch, r < pipe'[w].rule
          PROVE  wrote'[w][p.batch[r].cell] # Torn
      <4>1. p.batch \in Seq(Items)
        BY PipeType DEF StoreInv, p
      <4>2. p.batch[r].cell \in Cells /\ r \in Nat
        <5>1. r \in Nat /\ p.batch[r] \in Items
          BY <4>1
        <5> QED  BY <5>1 DEF Items
      <4>3. CASE last /\ r = p.rule
        BY <1>1, <1>3, <1>7, <4>3 DEF b
      <4>4. CASE last /\ r # p.rule
        <5>1. r < p.rule
          BY <1>3, <1>6, <3>2, <4>2, <4>4
        <5>2. wrote[w][p.batch[r].cell] # Torn
          BY <5>1 DEF StoreInv, RulesWritten, p
        <5> QED  BY <1>1, <1>3, <1>7, <4>2, <4>4, <5>2
      <4>5. CASE ~last
        BY <1>4, <3>2, <4>5 DEF StoreInv, RulesWritten, p
      <4> QED  BY <4>3, <4>4, <4>5
    <3> QED  BY <1>2, <2>2, <3>1, <3>2 DEF p
  <2> QED  BY <2>1, <2>2
<1>f. ReplicasWritten'
  <2> SUFFICES ASSUME NEW v \in Writers, NEW c \in clean[v],
                      NEW i \in 0..num_replicas(c, pipe[v].count)-1
               PROVE  IF /\ pipe'[v].rule <= Len(pipe[v].batch)
                         /\ pipe[v].batch[pipe'[v].rule].cell = c
                         /\ i < pipe'[v].replica
                      THEN db'[key(c, pipe[v].count, i)] = pipe[v].batch[pipe'[v].rule].val
                      ELSE wrote'[v][c] # Torn =>
                             db'[key(c, pipe[v].count, i)] = wrote'[v][c]
    BY <1>2, <1>5 DEF ReplicasWritten
  <2>0. c \in Cells
    BY DEF StoreInv, TypeOK
  <2>1. IF /\ pipe[v].rule <= Len(pipe[v].batch)
           /\ pipe[v].batch[pipe[v].rule].cell = c
           /\ i < pipe[v].replica
        THEN db[key(c, pipe[v].count, i)] = pipe[v].batch[pipe[v].rule].val
        ELSE wrote[v][c] # Torn => db[key(c, pipe[v].count, i)] = wrote[v][c]
    BY DEF StoreInv, ReplicasWritten
  <2>2. CASE v # w
    <3>1. c # b.cell
      BY <1>1, <2>2 DEF StoreInv, CleanIsExclusive, p
    <3> QED  BY <1>2, <1>8, <2>0, <2>1, <2>2, <3>1
  <2>3. CASE v = w /\ c # b.cell
    <3>1. db'[key(c, n, i)] = db[key(c, n, i)]
      BY <1>8, <2>0, <2>3
    <3>2. wrote'[w][c] = wrote[w][c]
      BY <1>1, <1>3, <1>4, <1>7, <2>0, <2>3
    <3>3. wrote[w][c] # Torn => db[key(c, n, i)] = wrote[w][c]
      BY <2>1, <2>3 DEF p, b, n
    <3>4. ~(pipe[w].batch[pipe'[w].rule].cell = c /\ i < pipe'[w].replica)
      BY <1>3, <1>4, <2>3 DEF p, b
    <3> QED  BY <2>3, <3>1, <3>2, <3>3, <3>4 DEF p, n
  <2>4. CASE v = w /\ c = b.cell
    <3>1. i # p.replica => key(c, n, i) # x
      BY <1>1, <2>0, <2>4, KeyNamesReplica DEF p, n, x
    <3>2. key(c, n, i) \in Keys
      BY <1>1, <2>0, <2>4, KeyExists DEF p, n
    <3>3. db'[key(c, n, i)] = IF i = p.replica THEN b.val ELSE db[key(c, n, i)]
      BY <1>1, <1>7, <2>4, <3>1, <3>2 DEF x
    <3>4. i < p.replica => db[key(c, n, i)] = b.val
      BY <1>1, <2>1, <2>4 DEF p, b, n
    <3>5. i >= p.replica /\ wrote[w][c] # Torn => db[key(c, n, i)] = wrote[w][c]
      BY <1>1, <2>1, <2>4 DEF p, b, n
    <3>6. CASE last
      <4>1. db'[key(c, n, i)] = b.val
        BY <1>1, <1>6, <2>4, <3>3, <3>4, <3>6, ReplicasPositive DEF last, p, n
      <4>2. wrote'[w][c] = b.val
        BY <1>1, <1>3, <1>7, <2>4, <3>6
      <4> QED  BY <1>3, <2>4, <3>6, <4>1, <4>2 DEF p, n
    <3>7. CASE ~last
      <4>1. i < p.replica + 1 => db'[key(c, n, i)] = b.val
        BY <1>6, <3>3, <3>4
      <4>2. ~(i < p.replica + 1) /\ wrote[w][c] # Torn => db'[key(c, n, i)] = wrote[w][c]
        BY <1>6, <3>3, <3>5
      <4> QED  BY <1>1, <1>4, <2>4, <3>7, <4>1, <4>2 DEF p, b, n
    <3> QED  BY <3>6, <3>7
  <2> QED  BY <2>2, <2>3, <2>4
<1>g. SettledReplicasAgree'
  <2> SUFFICES ASSUME NEW c \in Cells, NEW m \in Counts, settled[c][m] # Torn,
                      NEW i \in 0..num_replicas(c, m)-1
               PROVE  db'[key(c, m, i)] = settled[c][m]
    BY <1>5 DEF SettledReplicasAgree
  <2>1. c # b.cell
    BY <1>1 DEF StoreInv, WritingUnsettles, p
  <2> QED  BY <1>8, <2>1 DEF StoreInv, SettledReplicasAgree
<1> QED  BY <1>a, <1>b, <1>c, <1>d, <1>e, <1>f, <1>g DEF StoreInv

\* Sending unsettles the cells and starts from an empty record of writes.
LEMMA SendKeepsInv ==
  ASSUME StoreInv, NEW w \in Writers, NEW op \in {"put", "delete"}, NEW n \in Counts,
         NEW batch \in Seq(Items), Send(w, op, n, batch), TypeOK',
         op = "delete" => Len(batch) = 1 /\ batch[1].val = NoRule
  PROVE  StoreInv'
<1> DEFINE cells == CellsOf(batch)
<1>1. /\ pipe'[w].op = op /\ pipe'[w].count = n /\ pipe'[w].batch = batch
      /\ pipe'[w].rule = 1 /\ pipe'[w].replica = 0
  BY DEF Send, Pipeline, StoreInv, TypeOK
<1>2. \A v \in Writers \ {w} : pipe'[v] = pipe[v]
  BY DEF Send, StoreInv, TypeOK
<1>3. CellsOf(pipe[w].batch) = {} /\ wrote[w] = Untouched
  BY PipeType, IdleEmpty DEF Send, StoreInv, RulesWritten
<1>4. wrote' = wrote /\ db' = db
  BY DEF Send
<1>5. /\ clean'[w] = {c \in cells : ~Writing(c)}
      /\ \A v \in Writers \ {w} : clean'[v] = clean[v] \ cells
  BY DEF Send
<1>6. \A c \in Cells : settled'[c] = IF c \in cells THEN [m \in Counts |-> Torn] ELSE settled[c]
  BY DEF Send
<1>7. cells \in SUBSET Cells
  BY BatchElements
<1>8. CellsOf(pipe'[w].batch) = cells /\ \A v \in Writers \ {w} : CellsOf(pipe'[v].batch) = CellsOf(pipe[v].batch)
  BY <1>1, <1>2
<1>9. \A v \in Writers : CellsOf(pipe[v].batch) \in SUBSET Cells
  BY PipeType, BatchElements DEF StoreInv
<1>a. PipelineBounds'
  <2> SUFFICES ASSUME NEW v \in Writers
               PROVE  /\ pipe'[v].rule <= Len(pipe'[v].batch) =>
                           pipe'[v].replica
                             < num_replicas(pipe'[v].batch[pipe'[v].rule].cell, pipe'[v].count)
                      /\ pipe'[v].op = "delete" =>
                           Len(pipe'[v].batch) = 1 /\ pipe'[v].batch[1].val = NoRule
    BY DEF PipelineBounds
  <2>1. CASE v # w
    BY <1>2, <2>1 DEF StoreInv, PipelineBounds
  <2>2. CASE v = w
    <3>1. 0 < num_replicas(batch[1].cell, n)
      BY ReplicasPositive
    <3> QED  BY <1>1, <2>2, <3>1
  <2> QED  BY <2>1, <2>2
<1>b. WritingUnsettles'
  <2> SUFFICES ASSUME NEW v \in Writers, NEW c \in CellsOf(pipe'[v].batch), NEW m \in Counts
               PROVE  settled'[c][m] = Torn
    BY DEF WritingUnsettles
  <2>1. c \in Cells
    BY <1>7, <1>8, <1>9
  <2>2. CASE c \in cells
    BY <1>6, <2>1, <2>2
  <2>3. CASE c \notin cells
    <3>1. v # w /\ c \in CellsOf(pipe[v].batch)
      BY <1>8, <2>3
    <3> QED  BY <1>6, <2>1, <2>3, <3>1 DEF StoreInv, WritingUnsettles
  <2> QED  BY <2>2, <2>3
<1>c. CleanIsExclusive'
  <2> SUFFICES ASSUME NEW v \in Writers, NEW c \in clean'[v]
               PROVE  /\ c \in CellsOf(pipe'[v].batch)
                      /\ \A u \in Writers \ {v} : c \notin CellsOf(pipe'[u].batch)
    BY DEF CleanIsExclusive
  <2>1. CASE v = w
    BY <1>5, <1>8, <2>1 DEF Writing
  <2>2. CASE v # w
    <3>1. c \in clean[v] /\ c \notin cells
      BY <1>5, <2>2
    <3> QED  BY <1>8, <2>2, <3>1 DEF StoreInv, CleanIsExclusive
  <2> QED  BY <2>1, <2>2
<1>d. RulesWritten'
  <2> SUFFICES ASSUME NEW v \in Writers
               PROVE  /\ pipe'[v].op = "idle" => wrote[v] = Untouched
                      /\ \A r \in DOMAIN pipe'[v].batch :
                           r < pipe'[v].rule => wrote[v][pipe'[v].batch[r].cell] # Torn
    BY <1>4 DEF RulesWritten
  <2>1. CASE v # w
    BY <1>2, <2>1 DEF StoreInv, RulesWritten
  <2>2. CASE v = w
    BY <1>1, <2>2
  <2> QED  BY <2>1, <2>2
<1>e. ReplicasWritten'
  <2> SUFFICES ASSUME NEW v \in Writers, NEW c \in clean'[v],
                      NEW i \in 0..num_replicas(c, pipe'[v].count)-1
               PROVE  IF /\ pipe'[v].rule <= Len(pipe'[v].batch)
                         /\ pipe'[v].batch[pipe'[v].rule].cell = c
                         /\ i < pipe'[v].replica
                      THEN db[key(c, pipe'[v].count, i)] = pipe'[v].batch[pipe'[v].rule].val
                      ELSE wrote[v][c] # Torn =>
                             db[key(c, pipe'[v].count, i)] = wrote[v][c]
    BY <1>4 DEF ReplicasWritten
  <2>1. CASE v = w
    <3>1. ~(i < pipe'[v].replica)
      BY <1>1, <2>1
    <3>2. wrote[v][c] = Torn
      BY <1>3, <1>5, <1>7, <2>1 DEF Untouched
    <3> QED  BY <3>1, <3>2
  <2>2. CASE v # w
    <3>1. c \in clean[v] /\ pipe'[v] = pipe[v]
      BY <1>2, <1>5, <2>2
    <3> QED  BY <3>1 DEF StoreInv, ReplicasWritten
  <2> QED  BY <2>1, <2>2
<1>f. SettledReplicasAgree'
  <2> SUFFICES ASSUME NEW c \in Cells, NEW m \in Counts, settled'[c][m] # Torn,
                      NEW i \in 0..num_replicas(c, m)-1
               PROVE  db[key(c, m, i)] = settled'[c][m]
    BY <1>4 DEF SettledReplicasAgree
  <2>1. settled'[c] = settled[c]
    BY <1>6
  <2> QED  BY <2>1 DEF StoreInv, SettledReplicasAgree
<1> QED  BY <1>a, <1>b, <1>c, <1>d, <1>e, <1>f DEF StoreInv

\* A connection that becomes free leaves everything else as it was.
LEMMA ReleaseEffect ==
  ASSUME StoreInv, NEW w \in Writers, Release(w)
  PROVE  /\ pipe'[w] = Idle /\ clean'[w] = {} /\ wrote'[w] = Untouched
         /\ \A v \in Writers \ {w} :
              pipe'[v] = pipe[v] /\ clean'[v] = clean[v] /\ wrote'[v] = wrote[v]
         /\ db' = db
         /\ PipelineBounds' /\ CleanIsExclusive' /\ RulesWritten' /\ ReplicasWritten'
<1>1. /\ pipe'[w] = Idle /\ clean'[w] = {} /\ wrote'[w] = Untouched
      /\ \A v \in Writers \ {w} :
           pipe'[v] = pipe[v] /\ clean'[v] = clean[v] /\ wrote'[v] = wrote[v]
      /\ db' = db
  BY DEF Release, StoreInv, TypeOK
<1>2. Idle.op = "idle" /\ Idle.batch = <<>> /\ Idle.rule = 1 /\ CellsOf(Idle.batch) = {}
  BY DEF Idle, Pipeline, CellsOf
<1>3. PipelineBounds'
  BY <1>1, <1>2 DEF StoreInv, PipelineBounds
<1>4. CleanIsExclusive'
  BY <1>1, <1>2 DEF StoreInv, CleanIsExclusive
<1>5. RulesWritten'
  BY <1>1, <1>2 DEF StoreInv, RulesWritten
<1>6. ReplicasWritten'
  BY <1>1, <1>2 DEF StoreInv, ReplicasWritten
<1> QED  BY <1>1, <1>3, <1>4, <1>5, <1>6

LEMMA DropKeepsInv ==
  ASSUME StoreInv, NEW w \in Writers, Drop(w), TypeOK'
  PROVE  StoreInv'
<1>1. Release(w) /\ settled' = settled
  BY DEF Drop
<1>2. WritingUnsettles'
  BY <1>1, ReleaseEffect, IdleEmpty DEF StoreInv, WritingUnsettles
<1>3. SettledReplicasAgree'
  BY <1>1, ReleaseEffect DEF StoreInv, SettledReplicasAgree
<1> QED  BY <1>1, <1>2, <1>3, ReleaseEffect DEF StoreInv

\* A pipeline sent again has written nothing that counts.
LEMMA ResendEffect ==
  ASSUME StoreInv, NEW w \in Writers, Resend(w)
  PROVE  /\ pipe[w].op # "idle"
         /\ pipe'[w].op = pipe[w].op /\ pipe'[w].count = pipe[w].count
         /\ pipe'[w].batch = pipe[w].batch
         /\ pipe'[w].rule = 1 /\ pipe'[w].replica = 0 /\ pipe'[w].found = FALSE
         /\ wrote'[w] = Untouched /\ resent'[w] = TRUE
         /\ \A v \in Writers \ {w} :
              pipe'[v] = pipe[v] /\ wrote'[v] = wrote[v] /\ resent'[v] = resent[v]
         /\ UNCHANGED <<db, meta, scan, settled, clean, prior, stable>>
BY DEF Resend, Pipeline, StoreInv, TypeOK

LEMMA ResendKeepsInv ==
  ASSUME StoreInv, NEW w \in Writers, Resend(w), TypeOK'
  PROVE  StoreInv'
<1>1. /\ pipe'[w].op = pipe[w].op /\ pipe'[w].count = pipe[w].count
      /\ pipe'[w].batch = pipe[w].batch /\ pipe'[w].rule = 1 /\ pipe'[w].replica = 0
      /\ wrote'[w] = Untouched
      /\ \A v \in Writers \ {w} : pipe'[v] = pipe[v] /\ wrote'[v] = wrote[v]
      /\ UNCHANGED <<db, settled, clean>>
  BY ResendEffect
<1>2. \A v \in Writers : pipe'[v].batch = pipe[v].batch
  BY <1>1
<1>3. PipelineBounds'
  <2> SUFFICES ASSUME NEW v \in Writers
               PROVE  /\ pipe'[v].rule <= Len(pipe'[v].batch) =>
                           pipe'[v].replica
                             < num_replicas(pipe'[v].batch[pipe'[v].rule].cell, pipe'[v].count)
                      /\ pipe'[v].op = "delete" =>
                           Len(pipe'[v].batch) = 1 /\ pipe'[v].batch[1].val = NoRule
    BY DEF PipelineBounds
  <2>1. CASE v # w
    BY <1>1, <2>1 DEF StoreInv, PipelineBounds
  <2>2. CASE v = w
    <3>1. pipe[w].count \in Counts
      BY PipeType, ResendEffect DEF StoreInv
    <3>2. 0 < num_replicas(pipe[w].batch[1].cell, pipe[w].count)
      BY <3>1, ReplicasPositive
    <3> QED  BY <1>1, <2>2, <3>2 DEF StoreInv, PipelineBounds
  <2> QED  BY <2>1, <2>2
<1>4. WritingUnsettles' /\ CleanIsExclusive'
  BY <1>1, <1>2 DEF StoreInv, WritingUnsettles, CleanIsExclusive
<1>5. RulesWritten'
  <2> SUFFICES ASSUME NEW v \in Writers
               PROVE  /\ pipe'[v].op = "idle" => wrote'[v] = Untouched
                      /\ \A r \in DOMAIN pipe'[v].batch :
                           r < pipe'[v].rule => wrote'[v][pipe'[v].batch[r].cell] # Torn
    BY DEF RulesWritten
  <2>1. CASE v # w
    BY <1>1, <2>1 DEF StoreInv, RulesWritten
  <2>2. CASE v = w
    <3>1. \A r \in DOMAIN pipe[w].batch : ~(r < 1)
      BY PipeType DEF StoreInv
    <3> QED  BY <1>1, <2>2, <3>1
  <2> QED  BY <2>1, <2>2
<1>6. ReplicasWritten'
  <2> SUFFICES ASSUME NEW v \in Writers, NEW c \in clean[v],
                      NEW i \in 0..num_replicas(c, pipe'[v].count)-1
               PROVE  IF /\ pipe'[v].rule <= Len(pipe'[v].batch)
                         /\ pipe'[v].batch[pipe'[v].rule].cell = c
                         /\ i < pipe'[v].replica
                      THEN db[key(c, pipe'[v].count, i)] = pipe'[v].batch[pipe'[v].rule].val
                      ELSE wrote'[v][c] # Torn =>
                             db[key(c, pipe'[v].count, i)] = wrote'[v][c]
    BY <1>1 DEF ReplicasWritten
  <2>1. CASE v # w
    BY <1>1, <2>1 DEF StoreInv, ReplicasWritten
  <2>2. CASE v = w
    <3>1. ~(i < pipe'[v].replica)
      BY <1>1, <2>2
    <3>2. wrote'[v][c] = Torn
      BY <1>1, <2>2 DEF Untouched, StoreInv, TypeOK
    <3> QED  BY <3>1, <3>2
  <2> QED  BY <2>1, <2>2
<1>7. SettledReplicasAgree'
  BY <1>1 DEF StoreInv, SettledReplicasAgree
<1> QED  BY <1>3, <1>4, <1>5, <1>6, <1>7 DEF StoreInv

\* A pipeline that was executed has written its last rule for each of its
\* clean cells to all replicas: they can be settled.
LEMMA ReturnKeepsInv ==
  ASSUME StoreInv, NEW w \in Writers, Return(w), TypeOK'
  PROVE  StoreInv'
<1> DEFINE p == pipe[w]
<1>1. Release(w) /\ p.op # "idle" /\ p.count \in Counts
  BY PipeType DEF Return, Executed, StoreInv
<1>2. \A c \in Cells : settled'[c] =
        IF c \in clean[w]
        THEN [m \in Counts |-> IF m = p.count \/ c \notin Catchall
                               THEN wrote[w][c] ELSE settled[c][m]]
        ELSE settled[c]
  BY DEF Return
<1>3. p.batch \in Seq(Items) /\ p.rule > Len(p.batch)
  <2>1. p.batch \in Seq(Items) /\ Len(p.batch) \in Nat
    BY PipeType DEF StoreInv
  <2>2. Executed(p)
    BY DEF Return
  <2>3. CASE RecordsCount(p)
    BY <2>1, <2>2, <2>3 DEF Executed
  <2>4. CASE ~RecordsCount(p)
    BY <2>1, <2>2, <2>4 DEF Executed
  <2> QED  BY <2>3, <2>4
<1>4. ASSUME NEW c \in clean[w], NEW i \in 0..num_replicas(c, p.count)-1
      PROVE  db[key(c, p.count, i)] = wrote[w][c]
  <2>1. PICK r \in DOMAIN p.batch : p.batch[r].cell = c
    BY DEF StoreInv, CleanIsExclusive, CellsOf
  <2>2. r < p.rule
    BY <1>3, <2>1, PipeType DEF StoreInv
  <2>3. wrote[w][c] # Torn
    BY <2>1, <2>2 DEF StoreInv, RulesWritten
  <2>4. ~(p.rule <= Len(p.batch))
    BY <1>3, PipeType DEF StoreInv
  <2> QED  BY <2>3, <2>4 DEF StoreInv, ReplicasWritten
<1>5. WritingUnsettles'
  <2> SUFFICES ASSUME NEW v \in Writers, NEW c \in CellsOf(pipe'[v].batch), NEW m \in Counts
               PROVE  settled'[c][m] = Torn
    BY DEF WritingUnsettles
  <2>1. v # w /\ c \in CellsOf(pipe[v].batch)
    BY <1>1, ReleaseEffect, IdleEmpty
  <2>2. c \notin clean[w] /\ c \in Cells
    BY <2>1, PipeType, BatchElements DEF StoreInv, CleanIsExclusive
  <2> QED  BY <1>2, <2>1, <2>2 DEF StoreInv, WritingUnsettles
<1>6. SettledReplicasAgree'
  <2> SUFFICES ASSUME NEW c \in Cells, NEW m \in Counts, settled'[c][m] # Torn,
                      NEW i \in 0..num_replicas(c, m)-1
               PROVE  db[key(c, m, i)] = settled'[c][m]
    BY <1>1, ReleaseEffect DEF SettledReplicasAgree
  <2>1. CASE c \notin clean[w]
    BY <1>2, <2>1 DEF StoreInv, SettledReplicasAgree
  <2>2. CASE c \in clean[w] /\ m = p.count
    <3>1. settled'[c][m] = wrote[w][c]  BY <1>2, <2>2
    <3>2. db[key(c, p.count, i)] = wrote[w][c]  BY <1>4, <2>2
    <3> QED  BY <2>2, <3>1, <3>2
  <2>3. CASE c \in clean[w] /\ c \notin Catchall
    <3>1. key(c, m, i) = key(c, p.count, 0) /\ 0 \in 0..num_replicas(c, p.count)-1
      BY <2>3 DEF key, num_replicas, Replicated
    <3> QED  BY <1>2, <1>4, <2>3, <3>1
  <2>4. CASE c \in clean[w] /\ m # p.count /\ c \in Catchall
    <3>1. settled'[c][m] = settled[c][m]  BY <1>2, <2>4
    <3> QED  BY <3>1 DEF StoreInv, SettledReplicasAgree
  <2> QED  BY <2>1, <2>2, <2>3, <2>4
<1> QED  BY <1>1, <1>5, <1>6, ReleaseEffect DEF StoreInv

LEMMA RecordCountKeepsInv ==
  ASSUME StoreInv, NEW w \in Writers, RecordCount(w), TypeOK'
  PROVE  StoreInv'
<1>1. /\ pipe'[w].op = pipe[w].op /\ pipe'[w].count = pipe[w].count
      /\ pipe'[w].batch = pipe[w].batch /\ pipe'[w].rule = Len(pipe[w].batch) + 2
      /\ pipe[w].rule = Len(pipe[w].batch) + 1
  BY DEF RecordCount, Pipeline, StoreInv, TypeOK
<1>2. \A v \in Writers \ {w} : pipe'[v] = pipe[v]
  BY DEF RecordCount, StoreInv, TypeOK
<1>3. /\ db' = db /\ settled' = settled /\ clean' = clean /\ wrote' = wrote
      /\ pipe[w].op = "put"
  BY DEF RecordCount, RecordsCount, ghosts
<1>4. pipe[w].batch \in Seq(Items) /\ Len(pipe[w].batch) \in Nat
  BY PipeType DEF StoreInv
<1>5. ~(pipe'[w].rule <= Len(pipe'[w].batch)) /\ ~(pipe[w].rule <= Len(pipe[w].batch))
  BY <1>1, <1>4
<1>6. \A v \in Writers : pipe'[v].batch = pipe[v].batch
  BY <1>1, <1>2
<1>a. PipelineBounds'
  BY <1>1, <1>2, <1>3, <1>5 DEF StoreInv, PipelineBounds
<1>b. WritingUnsettles'
  BY <1>3, <1>6 DEF StoreInv, WritingUnsettles
<1>c. CleanIsExclusive'
  BY <1>3, <1>6 DEF StoreInv, CleanIsExclusive
<1>d. RulesWritten'
  <2> SUFFICES ASSUME NEW v \in Writers
               PROVE  /\ pipe'[v].op = "idle" => wrote[v] = Untouched
                      /\ \A r \in DOMAIN pipe'[v].batch :
                           r < pipe'[v].rule => wrote[v][pipe'[v].batch[r].cell] # Torn
    BY <1>3 DEF RulesWritten
  <2>1. CASE v # w
    BY <1>2, <2>1 DEF StoreInv, RulesWritten
  <2>2. CASE v = w
    <3>1. \A r \in DOMAIN pipe[w].batch : r < pipe[w].rule
      BY <1>1, <1>4
    <3> QED  BY <1>1, <1>3, <2>2, <3>1 DEF StoreInv, RulesWritten
  <2> QED  BY <2>1, <2>2
<1>e. ReplicasWritten'
  <2> SUFFICES ASSUME NEW v \in Writers, NEW c \in clean[v],
                      NEW i \in 0..num_replicas(c, pipe'[v].count)-1
               PROVE  IF /\ pipe'[v].rule <= Len(pipe'[v].batch)
                         /\ pipe'[v].batch[pipe'[v].rule].cell = c
                         /\ i < pipe'[v].replica
                      THEN db[key(c, pipe'[v].count, i)] = pipe'[v].batch[pipe'[v].rule].val
                      ELSE wrote[v][c] # Torn =>
                             db[key(c, pipe'[v].count, i)] = wrote[v][c]
    BY <1>3 DEF ReplicasWritten
  <2>1. CASE v # w
    BY <1>2, <2>1 DEF StoreInv, ReplicasWritten
  <2>2. CASE v = w
    <3>1. wrote[w][c] # Torn => db[key(c, pipe[w].count, i)] = wrote[w][c]
      BY <1>1, <1>5, <2>2 DEF StoreInv, ReplicasWritten
    <3> QED  BY <1>1, <1>5, <2>2, <3>1
  <2> QED  BY <2>1, <2>2
<1>f. SettledReplicasAgree'
  BY <1>3 DEF StoreInv, SettledReplicasAgree
<1> QED  BY <1>a, <1>b, <1>c, <1>d, <1>e, <1>f DEF StoreInv

\* An emptied data base agrees with everything that is still settled.
LEMMA FlushKeepsInv ==
  ASSUME StoreInv, Flush, TypeOK'
  PROVE  StoreInv'
<1>1. /\ pipe' = pipe /\ wrote' = wrote /\ \A w \in Writers : clean'[w] = {}
      /\ db' = [x \in Keys |-> NoRule]
      /\ \A c \in Cells, n \in Counts :
           settled'[c][n] = IF Writing(c) THEN Torn ELSE NoRule
  BY DEF Flush
<1>2. WritingUnsettles'
  <2> SUFFICES ASSUME NEW v \in Writers, NEW c \in CellsOf(pipe[v].batch), NEW m \in Counts
               PROVE  settled'[c][m] = Torn
    BY <1>1 DEF WritingUnsettles
  <2>1. c \in Cells
    BY PipeType, BatchElements DEF StoreInv
  <2> QED  BY <1>1, <2>1 DEF Writing
<1>3. SettledReplicasAgree'
  <2> SUFFICES ASSUME NEW c \in Cells, NEW m \in Counts, settled'[c][m] # Torn,
                      NEW i \in 0..num_replicas(c, m)-1
               PROVE  db'[key(c, m, i)] = settled'[c][m]
    BY DEF SettledReplicasAgree
  <2>1. settled'[c][m] = NoRule
    BY <1>1
  <2>2. key(c, m, i) \in Keys
    BY KeyExists
  <2> QED  BY <1>1, <2>1, <2>2
<1>4. PipelineBounds' /\ RulesWritten'
  BY <1>1 DEF StoreInv, PipelineBounds, RulesWritten
<1>5. CleanIsExclusive' /\ ReplicasWritten'
  BY <1>1 DEF CleanIsExclusive, ReplicasWritten
<1> QED  BY <1>2, <1>3, <1>4, <1>5 DEF StoreInv

\* Opening, closing and reading leave what the invariant is about alone.
LEMMA ReadersKeepInv ==
  ASSUME StoreInv, TypeOK', UNCHANGED <<db, pipe, settled, clean, wrote>>
  PROVE  StoreInv'
<1>1. PipelineBounds' /\ WritingUnsettles' /\ CleanIsExclusive'
  BY DEF StoreInv, PipelineBounds, WritingUnsettles, CleanIsExclusive
<1>2. RulesWritten' /\ ReplicasWritten'
  BY DEF StoreInv, RulesWritten, ReplicasWritten
<1>3. SettledReplicasAgree'
  BY DEF StoreInv, SettledReplicasAgree
<1> QED  BY <1>1, <1>2, <1>3 DEF StoreInv

LEMMA StoreStep ==
  ASSUME StoreInv, [Next]_vars
  PROVE  StoreInv'
<1>0. TypeOK'
  BY TypeStep DEF StoreInv
<1>1. ASSUME NEW n \in Counts, Open(n) \/ Close(n)
      PROVE  StoreInv'
  BY <1>0, <1>1, ReadersKeepInv DEF Open, Close, ghosts
<1>2. ASSUME NEW w \in Writers, NEW n \in Counts, NEW batch \in Batches, Put(w, n, batch)
      PROVE  StoreInv'
  <2>1. [cell : Cells, val : Values] \subseteq Items  BY DEF Items
  <2>2. batch \in Seq(Items)  BY <2>1, BatchesAssumption, SeqWiden
  <2> QED  BY <1>0, <1>2, <2>2, SendKeepsInv DEF Put
<1>3. ASSUME NEW w \in Writers, NEW n \in Counts, NEW c \in Cells, Delete(w, n, c)
      PROVE  StoreInv'
  <2> DEFINE batch == <<[cell |-> c, val |-> NoRule]>>
  <2>1. batch \in Seq(Items) /\ Len(batch) = 1 /\ batch[1].val = NoRule
    BY DEF Items
  <2> QED  BY <1>0, <1>3, <2>1, SendKeepsInv DEF Delete
<1>4. ASSUME NEW w \in Writers, Command(w)
      PROVE  StoreInv'
  BY <1>4, CommandKeepsInv
<1>5. ASSUME NEW w \in Writers, RecordCount(w)
      PROVE  StoreInv'
  BY <1>0, <1>5, RecordCountKeepsInv
<1>6. ASSUME NEW w \in Writers, Return(w)
      PROVE  StoreInv'
  BY <1>0, <1>6, ReturnKeepsInv
<1>7. ASSUME NEW w \in Writers, Drop(w)
      PROVE  StoreInv'
  BY <1>0, <1>7, DropKeepsInv
<1>13. ASSUME NEW w \in Writers, Resend(w)
       PROVE  StoreInv'
  BY <1>0, <1>13, ResendKeepsInv
<1>8. ASSUME NEW r \in Readers, NEW n \in Counts, NEW q \in Queries, Lookup(r, n, q)
      PROVE  StoreInv'
  BY <1>0, <1>8, ReadersKeepInv DEF Lookup
<1>9. ASSUME NEW r \in Readers, ReadGroup(r)
      PROVE  StoreInv'
  BY <1>0, <1>9, ReadersKeepInv DEF ReadGroup, ghosts
<1>10. ASSUME NEW r \in Readers, EndLookup(r)
       PROVE  StoreInv'
  BY <1>0, <1>10, ReadersKeepInv DEF EndLookup
<1>11. ASSUME Flush
       PROVE  StoreInv'
  BY <1>0, <1>11, FlushKeepsInv
<1>12. ASSUME UNCHANGED vars
       PROVE  StoreInv'
  BY <1>0, <1>12, ReadersKeepInv DEF vars, ghosts
<1> QED
  BY <1>1, <1>2, <1>3, <1>4, <1>5, <1>6, <1>7, <1>8, <1>9, <1>10, <1>11, <1>12, <1>13 DEF Next

LEMMA StoreInit == Init => StoreInv
<1> SUFFICES ASSUME Init PROVE StoreInv
  OBVIOUS
<1>1. TypeOK
  BY IdleType DEF Init, TypeOK, Untouched, Scans
<1>2. \A w \in Writers : pipe[w] = Idle /\ clean[w] = {} /\ wrote[w] = Untouched
  BY DEF Init
<1>3. Idle.op = "idle" /\ Idle.batch = <<>> /\ Idle.rule = 1 /\ CellsOf(Idle.batch) = {}
  BY DEF Idle, Pipeline, CellsOf
<1>4. PipelineBounds /\ WritingUnsettles /\ CleanIsExclusive /\ RulesWritten /\ ReplicasWritten
  BY <1>2, <1>3 DEF PipelineBounds, WritingUnsettles, CleanIsExclusive, RulesWritten,
                    ReplicasWritten
<1>5. SettledReplicasAgree
  BY KeyExists DEF Init, SettledReplicasAgree
<1> QED  BY <1>1, <1>4, <1>5 DEF StoreInv

\* The inductive invariant holds in every reachable state.
THEOREM StoreInvariant == Spec => []StoreInv
BY StoreInit, StoreStep, PTL DEF Spec

\* For any number of connections, counts and rules, and with pipelines that
\* break at any command: a write or delete executed to its end without a rival
\* leaves all replicas of its cell equal, and they stay so until the next one.
THEOREM SettledWritesReachAllReplicas == Spec => []SettledReplicasAgree
<1>1. StoreInv => SettledReplicasAgree
  BY DEF StoreInv
<1> QED  BY <1>1, StoreInvariant, PTL

-----------------------------------------------------------------------------
(* What a complete write and a delete promise their caller: the namespace is *)
(* guarded, and delete's answer is true.                                     *)

\* A delete writes nothing but the absence of its rule.
DeletesWriteNothing ==
  \A w \in Writers : pipe[w].op = "delete" => \A c \in Cells : wrote[w][c] \in {NoRule, Torn}

\* A pipeline that has recorded its count and has kept a cell to itself since
\* leaves a recorded count: a flush in between takes all its cells.
CountIsRecorded ==
  \A w \in Writers :
    LET p == pipe[w]
    IN  RecordsCount(p) /\ p.rule = Len(p.batch) + 2 /\ clean[w] # {} => meta # 0

\* The replicas the delete has still to reach.
Ahead(w) ==
  LET p == pipe[w]
  IN  {i \in 0..num_replicas(p.batch[1].cell, p.count)-1 : p.rule = 1 /\ p.replica <= i}

\* What a delete has found or has still to find.
Left(w) ==
  LET p == pipe[w]
  IN  p.found \/ \E i \in Ahead(w) : db[key(p.batch[1].cell, p.count, i)] # NoRule

\* It was there when delete was called; and if the pipeline was sent once, it
\* is all that was there.
DeleteFindsAll ==
  \A w \in Writers :
    LET p == pipe[w]
    IN  p.op = "delete" /\ p.batch[1].cell \in clean[w] =>
          /\ Left(w) => prior[w]
          /\ prior[w] /\ ~resent[w] => Left(w)

CallInv == DeletesWriteNothing /\ CountIsRecorded /\ DeleteFindsAll /\ SettledRulesAreGuarded

-----------------------------------------------------------------------------

\* A delete is over one cell.
LEMMA DeletePipe ==
  ASSUME StoreInv, NEW w \in Writers, pipe[w].op = "delete"
  PROVE  /\ Len(pipe[w].batch) = 1 /\ pipe[w].batch[1].val = NoRule
         /\ pipe[w].batch[1].cell \in Cells
         /\ CellsOf(pipe[w].batch) = {pipe[w].batch[1].cell}
         /\ ~RecordsCount(pipe[w])
  <1>1. pipe[w].batch \in Seq(Items) /\ Len(pipe[w].batch) = 1 /\ pipe[w].batch[1].val = NoRule
    BY PipeType DEF StoreInv, PipelineBounds
  <1>2. DOMAIN pipe[w].batch = {1} /\ pipe[w].batch[1] \in Items
    BY <1>1
  <1> QED BY <1>1, <1>2 DEF CellsOf, Items, RecordsCount

\* A pipeline as it leaves the client.
LEMMA SentPipe ==
  ASSUME StoreInv, NEW w \in Writers, NEW op \in {"put", "delete"}, NEW n \in Counts,
         NEW batch \in Seq(Items), Send(w, op, n, batch)
  PROVE  /\ pipe[w].op = "idle" /\ wrote[w] = Untouched /\ wrote' = wrote
         /\ pipe'[w] = Pipeline(op, n, batch, 1, 0, FALSE)
         /\ \A v \in Writers \ {w} : pipe'[v] = pipe[v]
         /\ \A v \in Writers \ {w} : clean'[v] \subseteq clean[v]
         /\ \A c \in Cells, m \in Counts : settled'[c][m] \in {settled[c][m], Torn}
         /\ UNCHANGED <<db, meta>>
  <1>1. pipe[w].op = "idle" /\ pipe'[w] = Pipeline(op, n, batch, 1, 0, FALSE)
        /\ \A v \in Writers \ {w} : pipe'[v] = pipe[v]
    BY DEF Send, StoreInv, TypeOK
  <1>2. wrote[w] = Untouched
    BY <1>1 DEF StoreInv, RulesWritten
  <1>3. \A v \in Writers \ {w} : clean'[v] \subseteq clean[v]
    BY DEF Send
  <1>4. \A c \in Cells, m \in Counts : settled'[c][m] \in {settled[c][m], Torn}
    BY DEF Send
  <1> QED BY <1>1, <1>2, <1>3, <1>4 DEF Send

\* What sending any pipeline keeps, and of a delete what it has to find.
LEMMA SendKeepsCalls ==
  ASSUME StoreInv, CallInv,
         NEW w \in Writers, NEW op \in {"put", "delete"}, NEW n \in Counts,
         NEW batch \in Seq(Items), Send(w, op, n, batch),
         \A v \in Writers \ {w} : prior'[v] = prior[v],
         resent' = resent,
         op = "delete" => \E c \in Cells :
           /\ batch = <<[cell |-> c, val |-> NoRule]>>
           /\ prior'[w] = \E x \in KeysOf(c, n) : db[x] # NoRule
  PROVE  CallInv'
  <1>1. /\ pipe[w].op = "idle" /\ wrote[w] = Untouched /\ wrote' = wrote
        /\ pipe'[w] = Pipeline(op, n, batch, 1, 0, FALSE)
        /\ \A v \in Writers \ {w} : pipe'[v] = pipe[v]
        /\ \A v \in Writers \ {w} : clean'[v] \subseteq clean[v]
        /\ \A c \in Cells, m \in Counts : settled'[c][m] \in {settled[c][m], Torn}
        /\ db' = db /\ meta' = meta
    BY SentPipe
  <1>2. /\ pipe'[w].op = op /\ pipe'[w].rule = 1 /\ pipe'[w].batch = batch
        /\ pipe'[w].count = n /\ pipe'[w].replica = 0 /\ pipe'[w].found = FALSE
    BY <1>1 DEF Pipeline
  <1>3. DeletesWriteNothing'
    BY <1>1 DEF CallInv, DeletesWriteNothing, Untouched
  <1>4. CountIsRecorded'
    <2> SUFFICES ASSUME NEW v \in Writers, RecordsCount(pipe'[v]),
                        pipe'[v].rule = Len(pipe'[v].batch) + 2, clean'[v] # {}
                 PROVE  meta # 0
      BY <1>1 DEF CountIsRecorded
    <2>1. v # w
      <3>1. Len(batch) \in Nat
        OBVIOUS
      <3> QED BY <1>2, <3>1
    <2> QED BY <1>1, <2>1 DEF CallInv, CountIsRecorded
  <1>5. DeleteFindsAll'
    <2> SUFFICES ASSUME NEW v \in Writers, pipe'[v].op = "delete",
                        pipe'[v].batch[1].cell \in clean'[v]
                 PROVE  /\ Left(v)' => prior'[v]
                        /\ prior'[v] /\ ~resent[v] => Left(v)'
      BY DEF DeleteFindsAll
    <2>1. CASE v # w
      <3>1. Left(v)' = Left(v)
        BY <1>1, <2>1 DEF Left, Ahead
      <3> QED BY <1>1, <2>1, <3>1 DEF CallInv, DeleteFindsAll
    <2>2. CASE v = w
      <3>1. PICK c \in Cells : /\ batch = <<[cell |-> c, val |-> NoRule]>>
                               /\ prior'[w] = \E x \in KeysOf(c, n) : db[x] # NoRule
        BY <1>2, <2>2
      <3>2. batch[1].cell = c
        BY <3>1
      <3>3. Ahead(w)' = 0..num_replicas(c, n)-1
        BY <1>2, <3>2 DEF Ahead
      <3>4. prior'[w] <=> \E i \in 0..num_replicas(c, n)-1 : db[key(c, n, i)] # NoRule
        BY <3>1 DEF KeysOf
      <3>5. Left(w)' <=> \E i \in 0..num_replicas(c, n)-1 : db[key(c, n, i)] # NoRule
        BY <1>1, <1>2, <3>2, <3>3 DEF Left
      <3> QED BY <2>2, <3>4, <3>5
    <2> QED BY <2>1, <2>2
  <1>6. SettledRulesAreGuarded'
    BY <1>1, ValuesAssumption DEF CallInv, SettledRulesAreGuarded
  <1> QED BY <1>3, <1>4, <1>5, <1>6 DEF CallInv

-----------------------------------------------------------------------------

\* A command does not reach the cell of another delete that has it to itself.
LEMMA CommandElsewhere ==
  ASSUME StoreInv, NEW w \in Writers, NEW v \in Writers \ {w}, Command(w),
         pipe[v].op = "delete", pipe[v].batch[1].cell \in clean[v],
         NEW i \in 0..num_replicas(pipe[v].batch[1].cell, pipe[v].count)-1
  PROVE  db'[key(pipe[v].batch[1].cell, pipe[v].count, i)]
           = db[key(pipe[v].batch[1].cell, pipe[v].count, i)]
  <1> DEFINE b == pipe[w].batch[pipe[w].rule]
             x == key(b.cell, pipe[w].count, pipe[w].replica)
             c == pipe[v].batch[1].cell
  <1>1. b.cell \in CellsOf(pipe[w].batch) /\ x \in Keys /\ db' = [db EXCEPT ![x] = b.val]
    BY CommandEffect DEF StoreInv
  <1>2. c # b.cell
    BY <1>1 DEF StoreInv, CleanIsExclusive
  <1>3. key(c, pipe[v].count, i) # x
    BY <1>2, KeyNamesCell
  <1>4. key(c, pipe[v].count, i) \in Keys
    <2>1. c \in Cells /\ pipe[v].count \in Counts
      BY DeletePipe, PipeType DEF StoreInv
    <2> QED BY <2>1, KeyExists
  <1> QED BY <1>1, <1>3, <1>4 DEF StoreInv, TypeOK

\* The next command of a delete finds the replica or leaves the rest to find.
LEMMA DeleteCommand ==
  ASSUME StoreInv, CallInv, NEW w \in Writers, Command(w),
         pipe[w].op = "delete", pipe[w].batch[1].cell \in clean[w]
  PROVE  Left(w)' <=> Left(w)
  <1> DEFINE p == pipe[w]
             c == p.batch[1].cell
             n == p.count
             k == p.replica
             m == num_replicas(c, n)
             here == db[key(c, n, k)] # NoRule
             after == \E i \in k+1..m-1 : db[key(c, n, i)] # NoRule
  <1>1. Len(p.batch) = 1 /\ c \in Cells /\ p.rule \in Nat \ {0} /\ p.rule <= Len(p.batch)
        /\ n \in Counts
    BY DeletePipe, PipeType, BusyPipe DEF StoreInv, Command
  <1>2. p.rule = 1 /\ k \in 0..m-1 /\ m \in Nat
    <2>1. p.rule = 1
      BY <1>1
    <2>2. k \in 0..num_replicas(p.batch[p.rule].cell, n)-1
      BY CommandEffect DEF StoreInv
    <2> QED BY <1>1, <2>1, <2>2, ReplicasPositive
  <1>3. Left(w) <=> p.found \/ here \/ after
    <2>1. Left(w) <=> p.found \/ \E i \in Ahead(w) : db[key(c, n, i)] # NoRule
      BY DEF Left
    <2>2. Ahead(w) = {k} \cup (k+1..m-1)
      BY <1>2 DEF Ahead
    <2> QED BY <2>1, <2>2
  <1>4. /\ pipe'[w].batch = p.batch /\ pipe'[w].count = n
        /\ pipe'[w].found <=> p.found \/ here
    BY <1>2 DEF Command, Pipeline, AnyDeleted, StoreInv, TypeOK
  <1>5. \A i \in k+1..m-1 : db'[key(c, n, i)] = db[key(c, n, i)]
    <2>1. db' = [db EXCEPT ![key(c, n, k)] = p.batch[1].val]
      BY <1>2 DEF Command
    <2> TAKE i \in k+1..m-1
    <2>2. i \in 0..m-1 /\ i # k
      BY <1>2
    <2>3. key(c, n, i) \in Keys
      BY <1>1, <2>2, KeyExists
    <2>4. key(c, n, i) # key(c, n, k)
      <3>1. i \in 0..num_replicas(c, n)-1 /\ k \in 0..num_replicas(c, n)-1
        BY <1>2, <2>2
      <3> QED BY <1>1, <2>2, <3>1, KeyNamesReplica
    <2> QED BY <2>1, <2>3, <2>4 DEF StoreInv, TypeOK
  <1>6. CASE k + 1 = m
    <2>1. pipe'[w].rule = 2
      <3>1. pipe'[w].rule = p.rule + 1
        BY <1>2, <1>6, CommandEffect DEF StoreInv
      <3> QED BY <1>2, <3>1
    <2>2. Ahead(w)' = {}
      BY <2>1 DEF Ahead
    <2>3. ~after
      BY <1>2, <1>6
    <2> QED BY <1>3, <1>4, <2>2, <2>3 DEF Left
  <1>7. CASE k + 1 # m
    <2>1. pipe'[w].rule = 1 /\ pipe'[w].replica = k + 1
      <3>1. pipe'[w].rule = p.rule /\ pipe'[w].replica = k + 1
        BY <1>2, <1>7, CommandEffect DEF StoreInv
      <3> QED BY <1>2, <3>1
    <2>2. Ahead(w)' = k+1..m-1
      BY <1>2, <1>4, <2>1 DEF Ahead
    <2> QED BY <1>3, <1>4, <1>5, <2>2 DEF Left
  <1> QED BY <1>6, <1>7

LEMMA CommandKeepsCalls ==
  ASSUME StoreInv, CallInv, NEW w \in Writers, Command(w)
  PROVE  CallInv'
  <1> DEFINE p == pipe[w]
             b == p.batch[p.rule]
  <1>1. /\ b.cell \in Cells
        /\ \A v \in Writers : /\ v # w => pipe'[v] = pipe[v] /\ wrote'[v] = wrote[v]
                              /\ pipe'[v].batch = pipe[v].batch
                              /\ pipe'[v].count = pipe[v].count
                              /\ pipe'[v].op = pipe[v].op
        /\ wrote'[w] \in {wrote[w], [wrote[w] EXCEPT ![b.cell] = b.val]}
    BY CommandEffect DEF StoreInv
  <1>2. UNCHANGED <<meta, settled, clean, prior, resent>>
    BY DEF Command
  <1>3. DeletesWriteNothing'
    <2> SUFFICES ASSUME NEW v \in Writers, pipe[v].op = "delete", NEW c \in Cells
                 PROVE  wrote'[v][c] \in {NoRule, Torn}
      BY <1>1 DEF DeletesWriteNothing
    <2>1. CASE v # w
      BY <1>1, <2>1 DEF CallInv, DeletesWriteNothing
    <2>2. CASE v = w
      <3>1. p.rule \in Nat \ {0} /\ p.rule <= Len(p.batch) /\ Len(p.batch) = 1 /\ p.batch[1].val = NoRule
        BY <2>2, PipeType, DeletePipe DEF StoreInv, Command
      <3>2. p.rule = 1
        BY <3>1
      <3>3. b.val = NoRule
        BY <3>1, <3>2
      <3>4. wrote[w] \in [Cells -> Values \cup {NoRule, Torn}]
        BY DEF StoreInv, TypeOK
      <3> HIDE DEF b
      <3> QED BY <1>1, <2>2, <3>3, <3>4 DEF CallInv, DeletesWriteNothing
    <2> QED BY <2>1, <2>2
  <1>4. CountIsRecorded'
    <2> SUFFICES ASSUME NEW v \in Writers, RecordsCount(pipe'[v]),
                        pipe'[v].rule = Len(pipe'[v].batch) + 2, clean[v] # {}
                 PROVE  meta # 0
      BY <1>2 DEF CountIsRecorded
    <2>1. v # w
      <3>1. p.rule \in Nat /\ p.rule <= Len(p.batch) /\ Len(p.batch) \in Nat
        BY PipeType DEF StoreInv, Command
      <3>2. pipe'[w].rule \in {p.rule, p.rule + 1} /\ Len(pipe'[w].batch) = Len(p.batch)
        BY <1>1, CommandEffect DEF StoreInv
      <3> QED BY <3>1, <3>2
    <2> QED BY <1>1, <2>1 DEF CallInv, CountIsRecorded
  <1>5. DeleteFindsAll'
    <2> SUFFICES ASSUME NEW v \in Writers, pipe[v].op = "delete",
                        pipe[v].batch[1].cell \in clean[v]
                 PROVE  Left(v)' <=> Left(v)
      BY <1>1, <1>2 DEF CallInv, DeleteFindsAll
    <2>1. CASE v # w
      <3>1. pipe'[v] = pipe[v] /\ Ahead(v)' = Ahead(v)
        BY <1>1, <2>1 DEF Ahead
      <3>2. \A i \in Ahead(v) : db'[key(pipe[v].batch[1].cell, pipe[v].count, i)]
                                  = db[key(pipe[v].batch[1].cell, pipe[v].count, i)]
        BY <2>1, CommandElsewhere DEF Ahead
      <3> QED BY <3>1, <3>2 DEF Left
    <2>2. CASE v = w
      BY <2>2, DeleteCommand
    <2> QED BY <2>1, <2>2
  <1>6. SettledRulesAreGuarded'
    BY <1>2 DEF CallInv, SettledRulesAreGuarded
  <1> QED BY <1>3, <1>4, <1>5, <1>6 DEF CallInv

-----------------------------------------------------------------------------

LEMMA RecordKeepsCalls ==
  ASSUME StoreInv, CallInv, NEW w \in Writers, RecordCount(w)
  PROVE  CallInv'
  <1>1. /\ pipe[w].op = "put" /\ pipe[w].count \in Counts /\ meta' = pipe[w].count
        /\ pipe'[w].op = "put" /\ \A v \in Writers \ {w} : pipe'[v] = pipe[v]
        /\ UNCHANGED <<db, settled, clean, wrote, prior, resent>>
    <2>1. pipe[w].op = "put"
      BY DEF RecordCount, RecordsCount
    <2>2. pipe[w].count \in Counts
      BY <2>1, PipeType DEF StoreInv
    <2> QED BY <2>1, <2>2 DEF RecordCount, recorded_count, Pipeline, StoreInv, TypeOK, ghosts
  <1>2. meta' # 0
    BY <1>1, CountsAssumption
  <1>3. DeletesWriteNothing'
    BY <1>1 DEF CallInv, DeletesWriteNothing
  <1>4. DeleteFindsAll'
    BY <1>1 DEF CallInv, DeleteFindsAll, Left, Ahead
  <1> QED BY <1>2, <1>3, <1>4 DEF CallInv, CountIsRecorded, SettledRulesAreGuarded

\* A connection that becomes free.
LEMMA ReleaseKeepsCalls ==
  ASSUME StoreInv, CallInv, NEW w \in Writers, Release(w)
  PROVE  DeletesWriteNothing' /\ CountIsRecorded' /\ DeleteFindsAll' /\ meta' = meta
  <1>1. /\ pipe'[w] = Idle /\ clean'[w] = {}
        /\ \A v \in Writers \ {w} :
             pipe'[v] = pipe[v] /\ clean'[v] = clean[v] /\ wrote'[v] = wrote[v]
        /\ db' = db
    BY ReleaseEffect
  <1>2. meta' = meta /\ \A v \in Writers \ {w} : prior'[v] = prior[v] /\ resent'[v] = resent[v]
    BY DEF Release, StoreInv, TypeOK
  <1>3. Idle.op = "idle"
    BY IdleEmpty
  <1>4. DeletesWriteNothing'
    BY <1>1, <1>3 DEF CallInv, DeletesWriteNothing
  <1>5. CountIsRecorded'
    BY <1>1, <1>2 DEF CallInv, CountIsRecorded
  <1>6. DeleteFindsAll'
    BY <1>1, <1>2, <1>3 DEF CallInv, DeleteFindsAll, Left, Ahead
  <1> QED BY <1>2, <1>4, <1>5, <1>6

\* A rule that a return settles was put by a pipeline that recorded the count.
LEMMA ReturnKeepsCalls ==
  ASSUME StoreInv, CallInv, NEW w \in Writers, Return(w)
  PROVE  CallInv'
  <1> DEFINE p == pipe[w]
  <1>1. Release(w) /\ Executed(p)
    BY DEF Return
  <1>2. meta' = meta
    BY <1>1, ReleaseKeepsCalls
  <1>3. SettledRulesAreGuarded'
    <2> SUFFICES ASSUME NEW c \in Cells, NEW n \in Counts,
                        Replicated(c, n), settled'[c][n] \in Values
                 PROVE  meta # 0
      BY <1>2 DEF SettledRulesAreGuarded
    <2>1. CASE settled'[c][n] = settled[c][n]
      BY <2>1 DEF CallInv, SettledRulesAreGuarded
    <2>2. CASE settled'[c][n] # settled[c][n]
      <3>1. c \in clean[w] /\ (n = p.count \/ c \notin Catchall) /\ settled'[c][n] = wrote[w][c]
        BY <2>2 DEF Return
      <3>2. n = p.count
        BY <3>1 DEF Replicated
      <3>3. p.op # "delete"
        BY <3>1, ValuesAssumption DEF CallInv, DeletesWriteNothing
      <3>4. p.op = "put"
        BY <1>1, <3>3, PipeType DEF StoreInv, Executed
      <3>5. c \in CellsOf(p.batch)
        BY <3>1 DEF StoreInv, CleanIsExclusive
      <3>6. num_replicas(c, p.count) > 1
        BY <3>2 DEF Replicated, num_replicas
      <3>7. RecordsCount(p)
        BY <3>4, <3>5, <3>6 DEF RecordsCount
      <3>8. p.rule = Len(p.batch) + 2
        BY <1>1, <3>7 DEF Executed
      <3> QED BY <3>1, <3>7, <3>8 DEF CallInv, CountIsRecorded
    <2> QED BY <2>1, <2>2
  <1> QED BY <1>1, <1>3, ReleaseKeepsCalls DEF CallInv

LEMMA DropKeepsCalls ==
  ASSUME StoreInv, CallInv, NEW w \in Writers, Drop(w)
  PROVE  CallInv'
  <1>1. Release(w) /\ settled' = settled
    BY DEF Drop
  <1>2. SettledRulesAreGuarded'
    BY <1>1, ReleaseKeepsCalls DEF CallInv, SettledRulesAreGuarded
  <1> QED BY <1>1, <1>2, ReleaseKeepsCalls DEF CallInv

\* What a delete has deleted stays deleted when it is sent again.
LEMMA ResendKeepsCalls ==
  ASSUME StoreInv, CallInv, NEW w \in Writers, Resend(w)
  PROVE  CallInv'
  <1>1. /\ pipe[w].op # "idle"
        /\ pipe'[w].op = pipe[w].op /\ pipe'[w].count = pipe[w].count
        /\ pipe'[w].batch = pipe[w].batch
        /\ pipe'[w].rule = 1 /\ pipe'[w].replica = 0 /\ pipe'[w].found = FALSE
        /\ wrote'[w] = Untouched /\ resent'[w] = TRUE
        /\ \A v \in Writers \ {w} :
             pipe'[v] = pipe[v] /\ wrote'[v] = wrote[v] /\ resent'[v] = resent[v]
        /\ UNCHANGED <<db, meta, settled, clean, prior>>
    BY ResendEffect
  <1>2. DeletesWriteNothing'
    BY <1>1 DEF CallInv, DeletesWriteNothing, Untouched
  <1>3. CountIsRecorded'
    <2> SUFFICES ASSUME NEW v \in Writers, RecordsCount(pipe'[v]),
                        pipe'[v].rule = Len(pipe'[v].batch) + 2, clean[v] # {}
                 PROVE  meta # 0
      BY <1>1 DEF CountIsRecorded
    <2>1. v # w
      <3>1. Len(pipe[w].batch) \in Nat
        BY PipeType DEF StoreInv
      <3> QED BY <1>1, <3>1
    <2> QED BY <1>1, <2>1 DEF CallInv, CountIsRecorded
  <1>4. DeleteFindsAll'
    <2> SUFFICES ASSUME NEW v \in Writers, pipe[v].op = "delete",
                        pipe[v].batch[1].cell \in clean[v]
                 PROVE  /\ Left(v)' => prior[v]
                        /\ prior[v] /\ ~resent'[v] => Left(v)'
      BY <1>1 DEF DeleteFindsAll
    <2>1. CASE v # w
      <3>1. Left(v)' = Left(v)
        BY <1>1, <2>1 DEF Left, Ahead
      <3> QED BY <1>1, <2>1, <3>1 DEF CallInv, DeleteFindsAll
    <2>2. CASE v = w
      <3> DEFINE p == pipe[w]
                 c == p.batch[1].cell
                 n == p.count
      <3> SUFFICES ASSUME NEW i \in 0..num_replicas(c, n)-1, db[key(c, n, i)] # NoRule
                   PROVE  prior[w]
        BY <1>1, <2>2 DEF Left, Ahead
      <3>1. Len(p.batch) = 1 /\ p.batch[1].val = NoRule /\ p.rule \in Nat \ {0} /\ p.replica \in Nat
            /\ 1 \in DOMAIN p.batch /\ c \in Cells
        <4>1. p.batch \in Seq(Items) /\ p.rule \in Nat \ {0} /\ p.replica \in Nat
          BY PipeType DEF StoreInv
        <4>2. Len(p.batch) = 1 /\ p.batch[1].val = NoRule /\ c \in Cells
          BY <2>2, DeletePipe
        <4> QED BY <4>1, <4>2
      <3>2. wrote[w][c] \in {NoRule, Torn}
        BY <2>2, <3>1 DEF CallInv, DeletesWriteNothing
      <3>3. IF p.rule <= Len(p.batch) /\ p.batch[p.rule].cell = c /\ i < p.replica
            THEN db[key(c, n, i)] = p.batch[p.rule].val
            ELSE wrote[w][c] # Torn => db[key(c, n, i)] = wrote[w][c]
        BY <2>2 DEF StoreInv, ReplicasWritten
      <3>4. p.rule = 1
        <4>1. p.rule # 1 => wrote[w][c] # Torn
          <5>1. p.rule # 1 => 1 < p.rule
            BY <3>1
          <5> QED BY <3>1, <5>1 DEF StoreInv, RulesWritten
        <4>2. p.rule # 1 => ~(p.rule <= Len(p.batch))
          BY <3>1
        <4> QED BY <3>2, <3>3, <4>1, <4>2
      <3>5. ~(i < p.replica)
        BY <3>1, <3>3, <3>4
      <3>6. i \in Ahead(w)
        BY <3>1, <3>4, <3>5 DEF Ahead
      <3> QED BY <2>2, <3>6 DEF CallInv, DeleteFindsAll, Left
    <2> QED BY <2>1, <2>2
  <1>5. SettledRulesAreGuarded'
    BY <1>1 DEF CallInv, SettledRulesAreGuarded
  <1> QED BY <1>2, <1>3, <1>4, <1>5 DEF CallInv

\* A flush forgets the count and with it every settled rule.
LEMMA FlushKeepsCalls ==
  ASSUME StoreInv, CallInv, Flush
  PROVE  CallInv'
  <1>1. /\ UNCHANGED <<pipe, wrote, prior, resent>> /\ \A w \in Writers : clean'[w] = {}
        /\ \A c \in Cells, n \in Counts : settled'[c][n] \in {NoRule, Torn}
    BY DEF Flush
  <1>2. DeletesWriteNothing'
    BY <1>1 DEF CallInv, DeletesWriteNothing
  <1>3. CountIsRecorded' /\ DeleteFindsAll'
    BY <1>1 DEF CountIsRecorded, DeleteFindsAll
  <1>4. SettledRulesAreGuarded'
    BY <1>1, ValuesAssumption DEF SettledRulesAreGuarded
  <1> QED BY <1>2, <1>3, <1>4 DEF CallInv

LEMMA OthersKeepCalls ==
  ASSUME CallInv, UNCHANGED <<db, meta, pipe, settled, clean, wrote, prior, resent>>
  PROVE  CallInv'
  BY DEF CallInv, DeletesWriteNothing, CountIsRecorded, DeleteFindsAll, Left, Ahead,
         SettledRulesAreGuarded

LEMMA CallStep ==
  ASSUME StoreInv, CallInv, [Next]_vars
  PROVE  CallInv'
  <1>1. CASE \/ UNCHANGED vars
             \/ \E n \in Counts : Open(n) \/ Close(n)
             \/ \E r \in Readers : \/ \E n \in Counts, q \in Queries : Lookup(r, n, q)
                                   \/ ReadGroup(r) \/ EndLookup(r)
    <2>1. UNCHANGED <<db, meta, pipe, settled, clean, wrote, prior, resent>>
      BY <1>1 DEF Open, Close, Lookup, ReadGroup, EndLookup, ghosts, vars
    <2> QED BY <2>1, OthersKeepCalls
  <1>2. ASSUME NEW w \in Writers, NEW n \in Counts, NEW batch \in Batches, Put(w, n, batch)
        PROVE  CallInv'
    <2>1. [cell : Cells, val : Values] \subseteq Items
      BY DEF Items
    <2>2. batch \in Seq(Items)
      BY <2>1, BatchesAssumption, SeqWiden
    <2>3. Send(w, "put", n, batch) /\ prior' = prior /\ resent' = resent
      BY <1>2 DEF Put, Send
    <2> QED BY <2>2, <2>3, SendKeepsCalls
  <1>3. ASSUME NEW w \in Writers, NEW n \in Counts, NEW c \in Cells, Delete(w, n, c)
        PROVE  CallInv'
    <2> DEFINE batch == <<[cell |-> c, val |-> NoRule]>>
    <2>1. batch \in Seq(Items)
      BY DEF Items
    <2>2. /\ \A v \in Writers \ {w} : prior'[v] = prior[v]
          /\ prior'[w] = \E x \in KeysOf(c, n) : db[x] # NoRule
      BY <1>3 DEF Delete, StoreInv, TypeOK
    <2>3. Send(w, "delete", n, batch) /\ resent' = resent
      BY <1>3 DEF Delete, Send
    <2> QED BY <2>1, <2>2, <2>3, SendKeepsCalls
  <1>4. CASE \E w \in Writers :
               Command(w) \/ RecordCount(w) \/ Return(w) \/ Resend(w) \/ Drop(w)
    BY <1>4, CommandKeepsCalls, RecordKeepsCalls, ReturnKeepsCalls, ResendKeepsCalls,
       DropKeepsCalls
  <1>5. CASE Flush
    BY <1>5, FlushKeepsCalls
  <1> QED BY <1>1, <1>2, <1>3, <1>4, <1>5 DEF Next

LEMMA CallInit == Init => CallInv
  <1> SUFFICES ASSUME Init PROVE CallInv
    OBVIOUS
  <1>1. \A w \in Writers : pipe[w] = Idle /\ clean[w] = {}
    BY DEF Init
  <1>2. Idle.op = "idle"
    BY IdleEmpty
  <1>3. \A c \in Cells, n \in Counts : settled[c][n] = NoRule
    BY DEF Init
  <1> QED BY <1>1, <1>2, <1>3, ValuesAssumption
      DEF CallInv, DeletesWriteNothing, CountIsRecorded, DeleteFindsAll, SettledRulesAreGuarded

LEMMA CallInvariant == Spec => [](StoreInv /\ CallInv)
  <1>1. StoreInv /\ CallInv /\ [Next]_vars => (StoreInv /\ CallInv)'
    BY StoreStep, CallStep
  <1> QED BY <1>1, StoreInit, CallInit, PTL DEF Spec

\* For any number of connections, counts and rules, flushes and broken
\* pipelines: once a replicated rule is completely written, the namespace has
\* a recorded bucket count (put's and put_many's last command).
THEOREM SettledRulesHaveACount == Spec => []SettledRulesAreGuarded
  <1>1. CallInv => SettledRulesAreGuarded
    BY DEF CallInv
  <1> QED BY <1>1, CallInvariant, PTL

\* For any number of connections, counts and replicas, a delete without a
\* rival returns true only if some replica held the rule when it was called,
\* the torn ones that broken pipelines leave included, however often the client
\* library repeats it; one that is not repeated returns true whenever one did
\* (delete's any over the replies).
THEOREM DeleteTellsTheTruth == Spec => []DeleteReportsExistence
  <1>1. StoreInv /\ CallInv => DeleteReportsExistence
    <2> SUFFICES ASSUME StoreInv, CallInv, NEW w \in Writers, pipe[w].op = "delete",
                        Executed(pipe[w]), pipe[w].batch[1].cell \in clean[w]
                 PROVE  /\ pipe[w].found => prior[w]
                        /\ prior[w] /\ ~resent[w] => pipe[w].found
      BY DEF DeleteReportsExistence
    <2>1. pipe[w].rule = 2
      <3>1. Len(pipe[w].batch) = 1 /\ ~RecordsCount(pipe[w])
        BY DeletePipe
      <3>2. pipe[w].rule = Len(pipe[w].batch) + 1
        BY <3>1 DEF Executed
      <3> QED BY <3>1, <3>2
    <2>2. Ahead(w) = {}
      BY <2>1 DEF Ahead
    <2> QED BY <2>2 DEF CallInv, DeleteFindsAll, Left
  <1> QED BY <1>1, CallInvariant, PTL

-----------------------------------------------------------------------------
(* What a lookup promises while others write: the rules that nobody touches  *)
(* are seen, whatever happens to their neighbours.                           *)

\* The lookup has to answer with this cell or a more specific one.
Owed(s, c) ==
  settled[c][s.count] \in Values /\ <<c, settled[c][s.count]>> \notin Blocked[s.query]

Answers(s, c) == s.hit # NoRule /\ Rank[s.query][s.hit[1]] <= Rank[s.query][c]

\* The cells a lookup relies on are not on their way to being written.
StableIsQuiet == \A r \in Readers : \A c \in stable[r] : c \in Cells /\ ~Writing(c)

\* The groups read so far have not hidden a cell that is owed.
GroupsAnswered ==
  \A r \in Readers : scan[r].phase = "sent" =>
    \A g \in DOMAIN Groups[scan[r].query] : g < scan[r].group =>
      \A c \in stable[r] \cap Groups[scan[r].query][g] :
        Owed(scan[r], c) => Answers(scan[r], c)

\* The best hit so far is still what its cell holds, if that was left alone.
HitHolds ==
  \A r \in Readers : scan[r].phase = "sent" =>
    LET s == scan[r]
    IN  s.hit # NoRule /\ s.hit[1] \in stable[r] =>
          settled[s.hit[1]][s.count] \in {Torn, s.hit[2]}

ScanInv == StableIsQuiet /\ GroupsAnswered /\ HitHolds

-----------------------------------------------------------------------------

\* Only what a lookup relies on matters to it, and it may rely on less.
LEMMA SameScan ==
  ASSUME ScanInv, NEW r \in Readers,
         scan' = scan, stable'[r] \subseteq stable[r],
         \A c \in stable'[r] : settled'[c] = settled[c]
  PROVE  scan'[r].phase = "sent" =>
           /\ \A g \in DOMAIN Groups[scan'[r].query] : g < scan'[r].group =>
                \A c \in stable'[r] \cap Groups[scan'[r].query][g] :
                  Owed(scan[r], c)' => Answers(scan[r], c)'
           /\ scan'[r].hit # NoRule /\ scan'[r].hit[1] \in stable'[r] =>
                settled'[scan'[r].hit[1]][scan'[r].count] \in {Torn, scan'[r].hit[2]}
  BY DEF ScanInv, GroupsAnswered, HitHolds, Owed, Answers

\* A step of the writers that the lookups do not notice.
LEMMA WritersKeepScans ==
  ASSUME ScanInv, scan' = scan,
         \A r \in Readers : stable'[r] \subseteq stable[r],
         \A r \in Readers : \A c \in stable'[r] : settled'[c] = settled[c],
         \A r \in Readers : \A c \in stable'[r] : ~Writing(c)'
  PROVE  ScanInv'
  <1>1. StableIsQuiet'
    BY DEF ScanInv, StableIsQuiet
  <1>2. GroupsAnswered'
    BY SameScan DEF GroupsAnswered
  <1>3. HitHolds'
    BY SameScan DEF HitHolds
  <1> QED BY <1>1, <1>2, <1>3 DEF ScanInv

LEMMA SendKeepsScans ==
  ASSUME StoreInv, ScanInv, NEW w \in Writers, NEW op \in {"put", "delete"}, NEW n \in Counts,
         NEW batch \in Seq(Items), Send(w, op, n, batch)
  PROVE  ScanInv'
  <1> DEFINE cells == CellsOf(batch)
  <1>1. /\ scan' = scan /\ \A r \in Readers : stable'[r] = stable[r] \ cells
        /\ \A c \in Cells \ cells : settled'[c] = settled[c]
    BY DEF Send
  <1>2. /\ pipe'[w].batch = batch /\ \A v \in Writers \ {w} : pipe'[v] = pipe[v]
    BY DEF Send, Pipeline, StoreInv, TypeOK
  <1>3. \A c \in Cells \ cells : ~Writing(c) => ~Writing(c)'
    BY <1>2 DEF Writing
  <1>4. \A r \in Readers : \A c \in stable'[r] : c \in Cells \ cells /\ ~Writing(c)
    BY <1>1 DEF ScanInv, StableIsQuiet
  <1> HIDE DEF cells
  <1> QED BY <1>1, <1>3, <1>4, WritersKeepScans

\* The other steps of a writer: its cells are not those of any lookup.
LEMMA PipelinesKeepScans ==
  ASSUME StoreInv, ScanInv, NEW w \in Writers,
         Command(w) \/ RecordCount(w) \/ Return(w) \/ Resend(w) \/ Drop(w)
  PROVE  ScanInv'
  <1>1. scan' = scan /\ stable' = stable
    BY DEF Command, RecordCount, Return, Resend, Drop, Release, ghosts
  <1>2. \A v \in Writers : pipe'[v].batch = pipe[v].batch \/ CellsOf(pipe'[v].batch) = {}
    <2>1. Command(w) \/ RecordCount(w) \/ Resend(w) =>
            \A v \in Writers : pipe'[v].batch = pipe[v].batch
      <3>1. Command(w) => \A v \in Writers : pipe'[v].batch = pipe[v].batch
        BY CommandEffect DEF StoreInv
      <3>2. RecordCount(w) => \A v \in Writers : pipe'[v].batch = pipe[v].batch
        BY DEF RecordCount, Pipeline, StoreInv, TypeOK
      <3>3. Resend(w) => \A v \in Writers : pipe'[v].batch = pipe[v].batch
        BY DEF Resend, Pipeline, StoreInv, TypeOK
      <3> QED BY <3>1, <3>2, <3>3
    <2>2. Return(w) \/ Drop(w) => Release(w)
      BY DEF Return, Drop
    <2>3. Release(w) => /\ CellsOf(pipe'[w].batch) = {}
                        /\ \A v \in Writers \ {w} : pipe'[v].batch = pipe[v].batch
      BY IdleEmpty DEF Release, StoreInv, TypeOK
    <2> QED BY <2>1, <2>2, <2>3
  <1>3. \A c : ~Writing(c) => ~Writing(c)'
    BY <1>2 DEF Writing, CellsOf
  <1>4. \A c \in Cells : ~Writing(c) => settled'[c] = settled[c]
    <2>1. CASE Return(w)
      <3>1. \A c \in Cells \ clean[w] : settled'[c] = settled[c]
        BY <2>1 DEF Return
      <3>2. \A c \in clean[w] : Writing(c)
        BY DEF StoreInv, CleanIsExclusive, Writing
      <3> QED BY <3>1, <3>2
    <2>2. CASE ~Return(w)
      BY <2>2 DEF Command, RecordCount, Resend, Drop, ghosts
    <2> QED BY <2>1, <2>2
  <1>5. \A r \in Readers : \A c \in stable[r] : c \in Cells /\ ~Writing(c)
    BY DEF ScanInv, StableIsQuiet
  <1> QED BY <1>1, <1>3, <1>4, <1>5, WritersKeepScans

LEMMA FlushKeepsScans ==
  ASSUME ScanInv, Flush
  PROVE  ScanInv'
  <1>1. scan' = scan /\ \A r \in Readers : stable'[r] = {}
    BY DEF Flush
  <1> QED BY <1>1, WritersKeepScans

-----------------------------------------------------------------------------

\* What a lookup starts with and leaves.
LEMMA LookupKeepsScans ==
  ASSUME StoreInv, ScanInv, NEW r \in Readers,
         (\E n \in Counts, q \in Queries : Lookup(r, n, q)) \/ EndLookup(r)
  PROVE  ScanInv'
  <1>1. settled' = settled /\ pipe' = pipe
    BY DEF Lookup, EndLookup
  <1>2. /\ \A o \in Readers \ {r} : scan'[o] = scan[o] /\ stable'[o] = stable[o]
        /\ stable'[r] \subseteq {c \in Cells : ~Writing(c)}
    BY DEF Lookup, EndLookup, StoreInv, TypeOK
  <1>3. scan'[r].phase = "sent" => scan'[r].group = 1 /\ scan'[r].hit = NoRule
                                   /\ scan'[r].query \in Queries
    BY DEF Lookup, EndLookup, Scan, NoScan, StoreInv, TypeOK
  <1>4. StableIsQuiet'
    BY <1>1, <1>2 DEF ScanInv, StableIsQuiet, Writing
  <1>5. GroupsAnswered'
    <2> SUFFICES ASSUME NEW o \in Readers, scan'[o].phase = "sent",
                        NEW g \in DOMAIN Groups[scan'[o].query], g < scan'[o].group,
                        NEW c \in stable'[o] \cap Groups[scan'[o].query][g], Owed(scan[o], c)'
                 PROVE  Answers(scan[o], c)'
      BY DEF GroupsAnswered
    <2>1. o # r
      <3>1. \A q \in Queries : \A h \in DOMAIN Groups[q] : ~(h < 1)
        BY QueriesAssumption
      <3> QED BY <1>3, <3>1
    <2> QED BY <1>1, <1>2, <2>1 DEF ScanInv, GroupsAnswered, Owed, Answers
  <1>6. HitHolds'
    BY <1>1, <1>2, <1>3 DEF ScanInv, HitHolds
  <1> QED BY <1>4, <1>5, <1>6 DEF ScanInv

\* The replica a query reads is one of the cell's.
LEMMA ReadsAReplica ==
  ASSUME NEW q \in Queries, NEW n \in Counts, NEW c \in Cells
  PROVE  \E i \in 0..num_replicas(c, n)-1 : key(c, n, bucket_index(q, n)) = key(c, n, i)
  <1>1. CASE Replicated(c, n)
    BY <1>1, CountsAssumption, QueriesAssumption DEF bucket_index, num_replicas, Replicated
  <1>2. CASE ~Replicated(c, n)
    <2>1. key(c, n, bucket_index(q, n)) = key(c, n, 0)
      BY <1>2 DEF key
    <2> QED BY <1>2, <2>1 DEF num_replicas
  <1> QED BY <1>1, <1>2

\* Of a settled cell a lookup reads what it is settled to.
LEMMA ReadsSettled ==
  ASSUME StoreInv, NEW q \in Queries, NEW n \in Counts, NEW c \in Cells, settled[c][n] # Torn
  PROVE  db[key(c, n, bucket_index(q, n))] = settled[c][n]
  BY ReadsAReplica DEF StoreInv, SettledReplicasAgree

LEMMA GroupKeepsScans ==
  ASSUME StoreInv, ScanInv, NEW r \in Readers, ReadGroup(r)
  PROVE  ScanInv'
  <1> DEFINE s == scan[r]
             q == s.query
             n == s.count
             found == Visible(q, n, Groups[q][s.group])
             best == Best(q, found, s.hit)
  <1>1. /\ s.phase = "sent" /\ n \in Counts /\ q \in Queries /\ s.group \in Nat \ {0}
        /\ s.hit \in (Cells \X Values) \cup {NoRule}
    BY ScanType DEF StoreInv, ReadGroup
  <1>2. Groups[q] \in Seq(SUBSET Cells) /\ s.group \in DOMAIN Groups[q]
        /\ Groups[q][s.group] \in SUBSET Cells
    <2>1. Groups[q] \in Seq(SUBSET Cells) /\ s.group <= Len(Groups[q])
      BY <1>1, QueriesAssumption DEF ReadGroup, Finished
    <2> QED BY <1>1, <2>1
  <1>3. found \in SUBSET (Cells \X Values)
    BY <1>1, <1>2, VisibleType DEF StoreInv
  <1>4. /\ UNCHANGED <<db, pipe, settled, stable>>
        /\ scan'[r] = Scan("sent", n, q, s.group + 1, best)
        /\ \A o \in Readers \ {r} : scan'[o] = scan[o]
    BY DEF ReadGroup, ghosts, StoreInv, TypeOK
  <1>5. /\ scan'[r].phase = "sent" /\ scan'[r].query = q /\ scan'[r].count = n
        /\ scan'[r].group = s.group + 1 /\ scan'[r].hit = best
    BY <1>4 DEF Scan
  <1> DEFINE hits == found \cup ({s.hit} \ {NoRule})
  <1>6. \/ hits = {} /\ best = NoRule
        \/ best \in hits /\ \A o \in hits : Rank[q][best[1]] <= Rank[q][o[1]]
    <2>1. q \in Queries /\ found \in SUBSET (Cells \X Values)
          /\ s.hit \in (Cells \X Values) \cup {NoRule}
      BY <1>1, <1>3
    <2> HIDE DEF s, q, found
    <2> QED BY <2>1, BestHit
  <1>7. NoRule \notin hits /\ hits \in SUBSET (Cells \X Values)
    <2>1. NoRule \notin Cells \X Values
      BY ValuesAssumption
    <2> HIDE DEF s, found
    <2> QED BY <1>1, <1>3, <2>1
  <1> HIDE DEF s, q, n, found, best, hits
  <1>8. StableIsQuiet'
    BY <1>4 DEF ScanInv, StableIsQuiet, Writing
  <1>9. GroupsAnswered'
    <2> SUFFICES ASSUME NEW o \in Readers, scan'[o].phase = "sent",
                        NEW g \in DOMAIN Groups[scan'[o].query], g < scan'[o].group,
                        NEW c \in stable'[o] \cap Groups[scan'[o].query][g], Owed(scan[o], c)'
                 PROVE  Answers(scan[o], c)'
      BY DEF GroupsAnswered
    <2>1. CASE o # r
      BY <1>4, <2>1 DEF ScanInv, GroupsAnswered, Owed, Answers
    <2>2. CASE o = r
      <3>1. /\ g \in DOMAIN Groups[q] /\ g \in Nat /\ g < s.group + 1 /\ c \in Groups[q][g]
            /\ c \in stable[r] /\ c \in Cells
        BY <1>2, <1>4, <1>5, <2>2 DEF ScanInv, StableIsQuiet
      <3>2. settled[c][n] \in Values /\ <<c, settled[c][n]>> \notin Blocked[q]
        BY <1>4, <1>5, <2>2 DEF Owed
      <3>3. \E h \in hits : Rank[q][h[1]] <= Rank[q][c]
        <4>1. CASE g = s.group
          <5>1. db[key(c, n, bucket_index(q, n))] = settled[c][n]
            BY <1>1, <3>1, <3>2, ValuesAssumption, ReadsSettled
          <5>2. <<c, settled[c][n]>> \in found
            BY <3>1, <3>2, <4>1, <5>1, ValuesAssumption DEF found, Visible
          <5>3. Rank[q][c] \in Nat
            BY <1>1, <3>1, QueriesAssumption
          <5> QED BY <5>2, <5>3 DEF hits
        <4>2. CASE g < s.group
          <5>1. s.hit # NoRule /\ Rank[q][s.hit[1]] <= Rank[q][c]
            BY <1>1, <3>1, <3>2, <4>2 DEF ScanInv, GroupsAnswered, Owed, Answers, s, q, n
          <5> QED BY <5>1 DEF hits
        <4> QED BY <1>1, <3>1, <4>1, <4>2
      <3>4. PICK h \in hits : Rank[q][h[1]] <= Rank[q][c]
        BY <3>3
      <3>5. best \in hits /\ Rank[q][best[1]] <= Rank[q][h[1]]
        BY <1>6, <3>4
      <3>6. Rank[q] \in [Cells -> Nat]
        BY <1>1, QueriesAssumption
      <3>7. best[1] \in Cells /\ h[1] \in Cells
        BY <1>7, <3>4, <3>5
      <3>8. Rank[q][best[1]] <= Rank[q][c]
        BY <3>1, <3>4, <3>5, <3>6, <3>7
      <3>9. best # NoRule
        BY <1>7, <3>5
      <3> QED BY <1>5, <2>2, <3>8, <3>9 DEF Answers
    <2> QED BY <2>1, <2>2
  <1>10. HitHolds'
    <2> SUFFICES ASSUME NEW o \in Readers, scan'[o].phase = "sent",
                        scan'[o].hit # NoRule, scan'[o].hit[1] \in stable'[o]
                 PROVE  settled'[scan'[o].hit[1]][scan'[o].count] \in {Torn, scan'[o].hit[2]}
      BY DEF HitHolds
    <2>1. CASE o # r
      BY <1>4, <2>1 DEF ScanInv, HitHolds
    <2>2. CASE o = r
      <3>1. best \in hits /\ best[1] \in stable[r] /\ best[1] \in Cells
        BY <1>4, <1>5, <1>6, <1>7, <2>2
      <3>2. CASE best \in found
        <4>1. best[2] = db[key(best[1], n, bucket_index(q, n))]
          BY <3>2 DEF found, Visible
        <4>2. settled[best[1]][n] # Torn => best[2] = settled[best[1]][n]
          BY <1>1, <3>1, <4>1, ReadsSettled
        <4> QED BY <1>4, <1>5, <2>2, <4>2
      <3>3. CASE best = s.hit
        <4>1. settled[best[1]][n] \in {Torn, best[2]}
          BY <1>1, <1>7, <3>1, <3>3 DEF ScanInv, HitHolds, s, n
        <4> QED BY <1>4, <1>5, <2>2, <4>1
      <3> QED BY <3>1, <3>2, <3>3 DEF hits
    <2> QED BY <2>1, <2>2
  <1> QED BY <1>8, <1>9, <1>10 DEF ScanInv

-----------------------------------------------------------------------------

LEMMA ScanStep ==
  ASSUME StoreInv, ScanInv, [Next]_vars
  PROVE  ScanInv'
  <1>1. CASE UNCHANGED vars \/ \E n \in Counts : Open(n) \/ Close(n)
    <2>1. UNCHANGED <<pipe, scan, settled, stable>>
      BY <1>1 DEF Open, Close, vars, ghosts
    <2>2. \A r \in Readers : \A c \in stable'[r] : ~Writing(c)'
      BY <2>1 DEF ScanInv, StableIsQuiet, Writing
    <2> QED BY <2>1, <2>2, WritersKeepScans
  <1>2. ASSUME NEW w \in Writers, NEW n \in Counts, NEW batch \in Batches, Put(w, n, batch)
        PROVE  ScanInv'
    <2>1. [cell : Cells, val : Values] \subseteq Items
      BY DEF Items
    <2>2. batch \in Seq(Items)
      BY <2>1, BatchesAssumption, SeqWiden
    <2> QED BY <1>2, <2>2, SendKeepsScans DEF Put
  <1>3. ASSUME NEW w \in Writers, NEW n \in Counts, NEW c \in Cells, Delete(w, n, c)
        PROVE  ScanInv'
    <2>1. <<[cell |-> c, val |-> NoRule]>> \in Seq(Items)
      BY DEF Items
    <2> QED BY <1>3, <2>1, SendKeepsScans DEF Delete
  <1>4. CASE \E w \in Writers :
               Command(w) \/ RecordCount(w) \/ Return(w) \/ Resend(w) \/ Drop(w)
    BY <1>4, PipelinesKeepScans
  <1>5. CASE \E r \in Readers : (\E n \in Counts, q \in Queries : Lookup(r, n, q)) \/ EndLookup(r)
    BY <1>5, LookupKeepsScans
  <1>6. CASE \E r \in Readers : ReadGroup(r)
    BY <1>6, GroupKeepsScans
  <1>7. CASE Flush
    BY <1>7, FlushKeepsScans
  <1> QED BY <1>1, <1>2, <1>3, <1>4, <1>5, <1>6, <1>7 DEF Next

LEMMA ScanInit == Init => ScanInv
  <1> SUFFICES ASSUME Init PROVE ScanInv
    OBVIOUS
  <1>1. \A r \in Readers : scan[r] = NoScan /\ stable[r] = {}
    BY DEF Init
  <1>2. NoScan.phase = "idle"
    BY DEF NoScan, Scan
  <1> QED BY <1>1, <1>2 DEF ScanInv, StableIsQuiet, GroupsAnswered, HitHolds

\* For any number of connections, counts, replicas and rules: a lookup that
\* reads its groups one by one while others write, delete, break and flush
\* still answers with a rule at least as specific as every rule that was
\* settled and left alone, and never with a value such a cell does not hold.
THEOREM LookupsSeeWhatIsSettled == Spec => []LookupSeesSettledRules
  <1>1. StoreInv /\ ScanInv => LookupSeesSettledRules
    <2> SUFFICES ASSUME StoreInv, ScanInv, NEW r \in Readers, Finished(scan[r])
                 PROVE  /\ \A c \in stable[r] \cap CandidatesOf(scan[r].query) :
                             Owed(scan[r], c) => Answers(scan[r], c)
                        /\ scan[r].hit # NoRule /\ scan[r].hit[1] \in stable[r] =>
                             settled[scan[r].hit[1]][scan[r].count] \in {Torn, scan[r].hit[2]}
      BY DEF LookupSeesSettledRules, Owed, Answers
    <2>1. scan[r].phase = "sent" /\ scan[r].group > Len(Groups[scan[r].query])
      BY DEF Finished
    <2>2. scan[r].query \in Queries /\ scan[r].group \in Nat
      BY <2>1, ScanType DEF StoreInv
    <2>3. \A g \in DOMAIN Groups[scan[r].query] : g < scan[r].group
      BY <2>1, <2>2, QueriesAssumption
    <2>4. \A c \in stable[r] \cap CandidatesOf(scan[r].query) :
            Owed(scan[r], c) => Answers(scan[r], c)
      BY <2>1, <2>3 DEF ScanInv, GroupsAnswered, CandidatesOf
    <2> QED BY <2>1, <2>4 DEF ScanInv, HitHolds
  <1>2. StoreInv /\ ScanInv /\ [Next]_vars => (StoreInv /\ ScanInv)'
    BY StoreStep, ScanStep
  <1> QED BY <1>1, <1>2, StoreInit, ScanInit, PTL DEF Spec
=============================================================================
