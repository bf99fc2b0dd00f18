------------------------------ MODULE RuleStore ------------------------------
(***************************************************************************)
(* Rule stores sharing one data base: the write pipelines and lookups of   *)
(* several processes, command by command.  A call is sent as one pipeline  *)
(* that is not a transaction, so the server interleaves the commands of    *)
(* different connections.  A connection may break, which loses the rest of *)
(* a pipeline or only its replies; the client library then sends the whole *)
(* pipeline again inside the same call, or gives up.                       *)
(*                                                                         *)
(* A cell is a rule's (fqdn1 pattern, port, fqdn2 pattern) triple.  A cell *)
(* of the catch-all tiers is replicated: a store with n > 1 buckets keeps  *)
(* it in n keys and a query reads the one its own name hashes to.          *)
(***************************************************************************)
EXTENDS Integers, Sequences, FiniteSets

CONSTANTS
  Cells,          \* the rule triples
  Catchall,       \* the cells whose tag is __global__ or __tld__
  Values,         \* stored values: scope letter and rule id
  Counts,         \* the bucket counts stores are configured with
  Token,          \* Token[n][i]: compute_bucket_table(n).token(i)
  Batches,        \* what put and put_many send: sequences of [cell, val]
  Queries,        \* the lookups
  Checksum,       \* Checksum[q]: crc32 of the query's fqdn1
  Groups,         \* Groups[q]: the cells read by each command of the lookup
  Rank,           \* Rank[q][c]: position of c in the query's candidate order
  Blocked,        \* Blocked[q]: the <<cell, value>> pairs the scope filter skips
  Writers,        \* connections carrying a write pipeline
  Readers,        \* connections carrying a lookup
  MaxOpen,        \* bound on the counts in use at the same time
  NoFlush,        \* --no-flush: no benchmark empties the data base
  Lossy,          \* whether connections break and callers time out
  NoRule,         \* the field does not exist
  Torn            \* ghost: the replicas of a cell need not agree

ASSUME CellsAssumption == Catchall \subseteq Cells
ASSUME CountsAssumption == Counts \subseteq Nat \ {0}
ASSUME ValuesAssumption ==
  NoRule \notin Values \cup (Cells \X Values) /\ Torn \notin Values \cup {NoRule}
ASSUME BatchesAssumption == Batches \subseteq Seq([cell : Cells, val : Values])
ASSUME QueriesAssumption ==
  /\ Checksum \in [Queries -> Nat]
  /\ Groups \in [Queries -> Seq(SUBSET Cells)]
  /\ Rank \in [Queries -> [Cells -> Nat]]
  /\ Blocked \in [Queries -> SUBSET (Cells \X Values)]
ASSUME SwitchesAssumption == Lossy \in BOOLEAN /\ NoFlush \in BOOLEAN

VARIABLES
  open,           \* the counts for which some process holds a store object
  db,             \* the rule hashes: physical key of a cell -> value
  meta,           \* the recorded bucket count, 0 when there is none
  pipe,           \* pipe[w]: the write pipeline on connection w
  scan,           \* scan[r]: the lookup on connection r
  settled,        \* ghost: the value all replicas of a cell are left with
  clean,          \* ghost: cells of w's pipeline no other writer has touched
  wrote,          \* ghost: the value w's pipeline has put in all replicas so far
  prior,          \* ghost: whether any replica held w's rule when delete was called
  resent,         \* ghost: w's pipeline was sent again inside its call
  stable          \* ghost: cells nobody has written since r's lookup was sent

ghosts == <<settled, clean, wrote, prior, resent, stable>>
vars == <<open, db, meta, pipe, scan, ghosts>>

-----------------------------------------------------------------------------
(* Keys *)

Replicated(c, n) == c \in Catchall /\ n > 1

\* The physical key of replica i: the token and the index are part of its
\* text, the count is not.
key(c, n, i) == IF Replicated(c, n) THEN <<c, Token[n][i], i>> ELSE <<c, "apex", 0>>

num_replicas(c, n) == IF Replicated(c, n) THEN n ELSE 1

KeysOf(c, n) == {key(c, n, i) : i \in 0..num_replicas(c, n)-1}

Keys == UNION {KeysOf(c, n) : c \in Cells, n \in Counts}

bucket_index(q, n) == IF n > 1 THEN Checksum[q] % n ELSE 0

-----------------------------------------------------------------------------
(* Write pipelines *)

\* Command rule, replica comes next; behind the last rule comes the record of
\* the bucket count, if the pipeline has one.
Pipeline(op, n, batch, rule, replica, found) ==
  [op |-> op, count |-> n, batch |-> batch,
   rule |-> rule, replica |-> replica, found |-> found]

Idle == Pipeline("idle", 0, <<>>, 1, 0, FALSE)

Items == [cell : Cells, val : Values \cup {NoRule}]

Pipelines ==
  {Idle} \cup
  [op : {"put", "delete"}, count : Counts,
   batch : Seq(Items),
   rule : Nat \ {0}, replica : Nat, found : BOOLEAN]

CellsOf(batch) == {batch[r].cell : r \in DOMAIN batch}

Writing(c) == \E w \in Writers : c \in CellsOf(pipe[w].batch)

RecordsCount(p) ==
  p.op = "put" /\ \E c \in CellsOf(p.batch) : num_replicas(c, p.count) > 1

Executed(p) ==
  p.op # "idle" /\ p.rule = Len(p.batch) + (IF RecordsCount(p) THEN 2 ELSE 1)

Untouched == [c \in Cells |-> Torn]

\* A pipeline leaves the client in one send; from then on its cells are
\* unsettled, and contended if another pipeline is on its way to them.
Send(w, op, n, batch) ==
  LET cells == CellsOf(batch)
  IN  /\ n \in open
      /\ pipe[w].op = "idle"
      /\ pipe' = [pipe EXCEPT ![w] = Pipeline(op, n, batch, 1, 0, FALSE)]
      /\ settled' = [c \in Cells |-> IF c \in cells THEN [m \in Counts |-> Torn]
                                     ELSE settled[c]]
      /\ clean' = [v \in Writers |-> IF v = w THEN {c \in cells : ~Writing(c)}
                                     ELSE clean[v] \ cells]
      /\ stable' = [r \in Readers |-> stable[r] \ cells]
      /\ UNCHANGED <<open, db, meta, scan, wrote, resent>>

Put(w, n, batch) ==
  /\ Send(w, "put", n, batch)
  /\ UNCHANGED prior

Delete(w, n, c) ==
  /\ Send(w, "delete", n, <<[cell |-> c, val |-> NoRule]>>)
  /\ prior' = [prior EXCEPT ![w] = \E x \in KeysOf(c, n) : db[x] # NoRule]

M_LastReplica_early(p) == p.replica + 2 >= num_replicas(p.batch[p.rule].cell, p.count)

LastReplica(p) == p.replica + 1 = num_replicas(p.batch[p.rule].cell, p.count)

M_AnyDeleted_last(p, x) == p.op = "delete" /\ db[x] # NoRule

\* delete's answer so far: true if any HDEL removed the field.
AnyDeleted(p, x) == p.found \/ (p.op = "delete" /\ db[x] # NoRule)

\* The server executes the next HSET or HDEL of a pipeline.
Command(w) ==
  LET p == pipe[w]
      b == p.batch[p.rule]
      x == key(b.cell, p.count, p.replica)
  IN  /\ p.rule <= Len(p.batch)
      /\ db' = [db EXCEPT ![x] = b.val]
      /\ pipe' = [pipe EXCEPT ![w] =
           Pipeline(p.op, p.count, p.batch,
                    IF LastReplica(p) THEN p.rule + 1 ELSE p.rule,
                    IF LastReplica(p) THEN 0 ELSE p.replica + 1,
                    AnyDeleted(p, x))]
      /\ wrote' = IF LastReplica(p) THEN [wrote EXCEPT ![w][b.cell] = b.val] ELSE wrote
      /\ UNCHANGED <<open, meta, scan, settled, clean, prior, resent, stable>>

M_recorded_count_forgotten(p) == meta
M_recorded_count_of_rules(p) == Len(p.batch)

recorded_count(p) == p.count

\* The last command of a pipeline that wrote replicas: HSET num_buckets.
RecordCount(w) ==
  LET p == pipe[w]
  IN  /\ RecordsCount(p)
      /\ p.rule = Len(p.batch) + 1
      /\ meta' = recorded_count(p)
      /\ pipe' = [pipe EXCEPT ![w] =
           Pipeline(p.op, p.count, p.batch, p.rule + 1, p.replica, p.found)]
      /\ UNCHANGED <<open, db, scan, ghosts>>

Release(w) ==
  /\ pipe' = [pipe EXCEPT ![w] = Idle]
  /\ clean' = [clean EXCEPT ![w] = {}]
  /\ wrote' = [wrote EXCEPT ![w] = Untouched]
  /\ prior' = [prior EXCEPT ![w] = FALSE]
  /\ resent' = [resent EXCEPT ![w] = FALSE]
  /\ UNCHANGED <<open, db, meta, scan, stable>>

\* Every command was executed; the uncontended cells are settled, under every
\* count that gives them the same key.
Return(w) ==
  LET p == pipe[w]
  IN  /\ Executed(p)
      /\ settled' = [c \in Cells |->
           IF c \in clean[w]
           THEN [m \in Counts |-> IF m = p.count \/ c \notin Catchall
                                  THEN wrote[w][c] ELSE settled[c][m]]
           ELSE settled[c]]
      /\ Release(w)

\* The connection breaks, or the replies do not come: redis-py and go-redis
\* send the pipeline again from its first command inside the same call, with no
\* replies kept.  What the server has executed of it stays executed; the rest
\* is lost with the connection.  Where the server goes on with the first all
\* the same, the two run as the pipelines of two connections do.
Resend(w) ==
  LET p == pipe[w]
  IN  /\ Lossy
      /\ p.op # "idle"
      /\ pipe' = [pipe EXCEPT ![w] = Pipeline(p.op, p.count, p.batch, 1, 0, FALSE)]
      /\ wrote' = [wrote EXCEPT ![w] = Untouched]
      /\ resent' = [resent EXCEPT ![w] = TRUE]
      /\ UNCHANGED <<open, db, meta, scan, settled, clean, prior, stable>>

\* The client library gives up: the commands that were not executed never are.
Drop(w) ==
  /\ Lossy
  /\ pipe[w].op # "idle"
  /\ Release(w)
  /\ UNCHANGED settled

-----------------------------------------------------------------------------
(* Lookups *)

\* Command group comes next; hit is the best match so far.
Scan(phase, n, q, group, hit) ==
  [phase |-> phase, count |-> n, query |-> q, group |-> group, hit |-> hit]

NoScan == Scan("idle", 0, NoRule, 1, NoRule)

Scans ==
  {NoScan} \cup
  [phase : {"sent"}, count : Counts, query : Queries, group : Nat \ {0},
   hit : (Cells \X Values) \cup {NoRule}]

Lookup(r, n, q) ==
  /\ n \in open
  /\ scan[r].phase = "idle"
  /\ scan' = [scan EXCEPT ![r] = Scan("sent", n, q, 1, NoRule)]
  /\ stable' = [stable EXCEPT ![r] = {c \in Cells : ~Writing(c)}]
  /\ UNCHANGED <<open, db, meta, pipe, settled, clean, wrote, prior, resent>>

\* The unfiltered hits of one command, with the key of the query's replica.
Visible(q, n, cells) ==
  {<<c, db[key(c, n, bucket_index(q, n))]>> : c \in cells}
    \ (Blocked[q] \cup (Cells \X {NoRule}))

M_Best_latest(q, found, best) ==
  IF found = {} THEN best
  ELSE CHOOSE h \in found : \A o \in found : Rank[q][h[1]] <= Rank[q][o[1]]

\* The most specific of what was found so far.
Best(q, found, best) ==
  LET hits == found \cup ({best} \ {NoRule})
  IN  IF hits = {} THEN NoRule
      ELSE CHOOSE h \in hits : \A o \in hits : Rank[q][h[1]] <= Rank[q][o[1]]

CandidatesOf(q) == UNION {Groups[q][g] : g \in DOMAIN Groups[q]}

Finished(s) == s.phase = "sent" /\ s.group > Len(Groups[s.query])

\* One EVALSHA (a whole tag group) or one HMGET (a single key): atomic, but
\* the next one sees a later data base.
ReadGroup(r) ==
  LET s == scan[r]
  IN  /\ s.phase = "sent"
      /\ ~Finished(s)
      /\ scan' = [scan EXCEPT ![r] =
           Scan("sent", s.count, s.query, s.group + 1,
                Best(s.query, Visible(s.query, s.count, Groups[s.query][s.group]), s.hit))]
      /\ UNCHANGED <<open, db, meta, pipe, ghosts>>

\* The lookup returns, or fails with its connection.  One that is sent again
\* inside its call starts over with nothing read, as the next Lookup does.
EndLookup(r) ==
  /\ scan[r].phase = "sent"
  /\ Finished(scan[r]) \/ Lossy
  /\ scan' = [scan EXCEPT ![r] = NoScan]
  /\ stable' = [stable EXCEPT ![r] = {}]
  /\ UNCHANGED <<open, db, meta, pipe, settled, clean, wrote, prior, resent>>

-----------------------------------------------------------------------------
(* Store objects and the benchmark's FLUSHDB *)

\* The constructor reads the recorded count and refuses another one.
Open(n) ==
  /\ n \notin open
  /\ Cardinality(open) < MaxOpen
  /\ meta \in {0, n}
  /\ open' = open \cup {n}
  /\ UNCHANGED <<db, meta, pipe, scan, ghosts>>

Close(n) ==
  /\ n \in open
  /\ open' = open \ {n}
  /\ UNCHANGED <<db, meta, pipe, scan, ghosts>>

Flush ==
  /\ ~NoFlush
  /\ open # {}
  /\ db' = [x \in Keys |-> NoRule]
  /\ meta' = 0
  /\ settled' = [c \in Cells |-> [n \in Counts |-> IF Writing(c) THEN Torn ELSE NoRule]]
  /\ clean' = [w \in Writers |-> {}]
  /\ stable' = [r \in Readers |-> {}]
  /\ UNCHANGED <<open, pipe, scan, wrote, prior, resent>>

-----------------------------------------------------------------------------

Init ==
  /\ open = {}
  /\ db = [x \in Keys |-> NoRule]
  /\ meta = 0
  /\ pipe = [w \in Writers |-> Idle]
  /\ scan = [r \in Readers |-> NoScan]
  /\ settled = [c \in Cells |-> [n \in Counts |-> NoRule]]
  /\ clean = [w \in Writers |-> {}]
  /\ wrote = [w \in Writers |-> Untouched]
  /\ prior = [w \in Writers |-> FALSE]
  /\ resent = [w \in Writers |-> FALSE]
  /\ stable = [r \in Readers |-> {}]

Next ==
  \/ \E n \in Counts : Open(n) \/ Close(n)
  \/ \E w \in Writers :
       \/ \E n \in Counts, batch \in Batches : Put(w, n, batch)
       \/ \E n \in Counts, c \in Cells : Delete(w, n, c)
       \/ Command(w)
       \/ RecordCount(w)
       \/ Return(w)
       \/ Resend(w)
       \/ Drop(w)
  \/ \E r \in Readers :
       \/ \E n \in Counts, q \in Queries : Lookup(r, n, q)
       \/ ReadGroup(r)
       \/ EndLookup(r)
  \/ Flush

Spec == Init /\ [][Next]_vars

-----------------------------------------------------------------------------
(* Properties *)

TypeOK ==
  /\ open \subseteq Counts
  /\ db \in [Keys -> Values \cup {NoRule}]
  /\ meta \in Counts \cup {0}
  /\ pipe \in [Writers -> Pipelines]
  /\ scan \in [Readers -> Scans]
  /\ settled \in [Cells -> [Counts -> Values \cup {NoRule, Torn}]]
  /\ clean \in [Writers -> SUBSET Cells]
  /\ wrote \in [Writers -> [Cells -> Values \cup {NoRule, Torn}]]
  /\ prior \in [Writers -> BOOLEAN]
  /\ resent \in [Writers -> BOOLEAN]
  /\ stable \in [Readers -> SUBSET Cells]

\* A write or delete that was executed to its end, with no other writer on
\* the cell in the meantime, leaves its value in every replica, and it stays
\* there until the next write: torn replicas are only what a broken pipeline
\* or a race leaves, and one more complete write repairs them.
SettledReplicasAgree ==
  \A c \in Cells, n \in Counts :
    settled[c][n] # Torn =>
      \A i \in 0..num_replicas(c, n)-1 : db[key(c, n, i)] = settled[c][n]

\* Once a replicated rule is completely written the namespace has a recorded
\* bucket count for the constructor's guard to check.
SettledRulesAreGuarded ==
  \A c \in Cells, n \in Counts :
    Replicated(c, n) /\ settled[c][n] \in Values => meta # 0

\* What delete returns, as long as nobody else wrote the rule meanwhile: true
\* only if some replica held the rule when delete was called, torn replicas
\* included, however often the pipeline was sent again; and true whenever one
\* did, if it was sent once.
DeleteReportsExistence ==
  \A w \in Writers :
    LET p == pipe[w]
    IN  p.op = "delete" /\ Executed(p) /\ p.batch[1].cell \in clean[w] =>
          /\ p.found => prior[w]
          /\ prior[w] /\ ~resent[w] => p.found

\* Stated by delete's docstring, not kept once the client library repeats the
\* call: the answer is true if the field existed in any replica.
DeleteSaysWhetherItExisted ==
  \A w \in Writers :
    LET p == pipe[w]
    IN  p.op = "delete" /\ Executed(p) /\ p.batch[1].cell \in clean[w] /\ prior[w]
          => p.found

\* A lookup reads its groups one after the other while others write.  It
\* still returns a rule at least as specific as every rule that was
\* settled and left alone throughout, and never a value such a cell does not hold.
LookupSeesSettledRules ==
  \A r \in Readers :
    LET s == scan[r]
    IN  Finished(s) =>
          /\ \A c \in stable[r] \cap CandidatesOf(s.query) :
               /\ settled[c][s.count] \in Values
               /\ <<c, settled[c][s.count]>> \notin Blocked[s.query]
               => s.hit # NoRule /\ Rank[s.query][s.hit[1]] <= Rank[s.query][c]
          /\ s.hit # NoRule /\ s.hit[1] \in stable[r]
               => settled[s.hit[1]][s.count] \in {Torn, s.hit[2]}

\* Stated by the documents, not kept by the code: a store that was allowed to
\* open never misses a rule because it was written under another count.
NoSilentMiss ==
  \A r \in Readers :
    Finished(scan[r]) /\ scan[r].hit = NoRule =>
      \A c \in stable[r] \cap CandidatesOf(scan[r].query), n \in Counts :
        settled[c][n] \in Values => <<c, settled[c][n]>> \in Blocked[scan[r].query]
=============================================================================
