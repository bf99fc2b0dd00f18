----------------------------- MODULE CdcListener -----------------------------
(***************************************************************************)
(* The changefeed listener (cdc_topic_guided_listener.go): each HTTP       *)
(* request carries a batch of row changes; the handler turns every usable  *)
(* one into a (key, document) pair and writes the pairs in pipelined       *)
(* chunks.  Whatever happened to the writes, it answers 200.               *)
(*                                                                         *)
(* The sender is outside the code.  It sends the changes in order, a batch *)
(* at a time; sends again what was not acknowledged, be it refused or      *)
(* timed out, even while the first handler is still at work; and may start *)
(* over from an earlier point.                                             *)
(*                                                                         *)
(* A text is the sequence of its words: joining with "_" and replacing     *)
(* spaces by "_" both flatten.  Times are microseconds.                    *)
(***************************************************************************)
EXTENDS InOrder, Sequences, SequencesExt

CONSTANTS
  Log,            \* the changes: [topic, after]
  maxBatchSize,
  MaxItems,       \* changes per request (bound)
  Handlers,       \* requests handled at a time (bound)
  MaxFaults       \* things that go wrong in one behaviour (bound)

ASSUME CdcAssumption ==
  /\ Log \in Seq(Range(Log))
  /\ maxBatchSize \in Nat \ {0} /\ MaxItems \in Nat \ {0} /\ MaxFaults \in Nat

VARIABLES
  acked,          \* how many changes the sender counts as delivered
  handlers,       \* the requests being handled
  db,             \* the documents
  lost,           \* history: keys of which some write failed
  late,           \* history: keys written for a sender that had given up
  faults

vars == <<acked, handlers, db, lost, late, faults>>

-----------------------------------------------------------------------------
(* From a change to a key and a document.  A value is [t, v]: its JSON type *)
(* and content, where "time" and "digits" are strings that parse as such.   *)

topicToPrefix ==
  [promo_codes |-> "promo_code", rides |-> "ride", users |-> "user", vehicles |-> "vehicle",
   vehicle_location_histories |-> "vehicle_location_history",
   user_promo_codes |-> "user_promo_code"]

\* A topic is the sequence of its dot-separated parts, in lower case.
detectPrefix(topic) == topicToPrefix[Last(topic)]

KeyColumns(prefix) ==
  CASE prefix \in {"user", "vehicle", "ride"}     -> <<"city", "id">>
    [] prefix = "promo_code"                      -> <<"code">>
    [] prefix = "user_promo_code"                 -> <<"city", "user_id", "code">>
    [] prefix = "vehicle_location_history"        -> <<"city", "ride_id", "timestamp">>

Has(after, column) == column \in DOMAIN after /\ after[column].t # "null"

Words(value) == IF value.t = "string" THEN value.v ELSE <<ToString(value.v)>>

\* A usable change: a known topic, a row (not a deletion: null, nor absent),
\* and all of its key columns.
Usable(change) ==
  /\ Last(change.topic) \in DOMAIN topicToPrefix
  /\ change.after.t = "object"
  /\ \A c \in Range(KeyColumns(detectPrefix(change.topic))) :
       Has(change.after.v, c) /\ Words(change.after.v[c]) # <<>>

timestampFields(prefix) ==
  CASE prefix = "vehicle"                                         -> {"creation_time"}
    [] prefix = "ride"                                            -> {"start_time", "end_time"}
    [] prefix \in {"vehicle_location_history", "user_promo_code"} -> {"timestamp"}
    [] prefix = "promo_code"                           -> {"creation_time", "expiration_time"}
    [] OTHER                                                      -> {}

Number(n) == [t |-> "number", v |-> n]

\* Milliseconds for the times that parse; all else is left as it is.
convertTimestamps(prefix, after) ==
  [c \in DOMAIN after |-> IF c \in timestampFields(prefix) /\ after[c].t = "time"
                          THEN Number(after[c].v \div 1000) ELSE after[c]]

Float(after, c) == c \in DOMAIN after /\ after[c].t \in {"number", "digits"}

addGeoAttribute(prefix, after) ==
  IF prefix = "vehicle_location_history" /\ Float(after, "lat") /\ Float(after, "long")
  THEN [c \in DOMAIN after \cup {"geo"} |->
          IF c = "geo" THEN [t |-> "geo", v |-> <<after.long.v, after.lat.v>>] ELSE after[c]]
  ELSE after

toInt64(value) == IF value.t \in {"number", "digits"} THEN value.v ELSE 0

convertCreditCard(prefix, after) ==
  IF prefix = "user" /\ Has(after, "credit_card")
  THEN [after EXCEPT !.credit_card = Number(toInt64(@))] ELSE after

Document(change) ==
  LET prefix == detectPrefix(change.topic)
  IN  convertCreditCard(prefix, addGeoAttribute(prefix, convertTimestamps(prefix, change.after.v)))

\* Strings as they are, all else as it is printed; then joined.
buildID(prefix, after) ==
  FlattenSeq([i \in DOMAIN KeyColumns(prefix) |-> Words(after[KeyColumns(prefix)[i]])])

\* The key from the rewritten document instead.
M_buildKey_converted(change) ==
  LET prefix == detectPrefix(change.topic)
  IN  [prefix |-> prefix, id |-> buildID(prefix, Document(change))]

\* The id, with spaces replaced, from the row as it came.
buildKey(change) ==
  LET prefix == detectPrefix(change.topic)
  IN  [prefix |-> prefix, id |-> buildID(prefix, change.after.v)]

UsableChanges == {i \in DOMAIN Log : Usable(Log[i])}
keyOf == [i \in UsableChanges |-> buildKey(Log[i])]
docOf == [i \in UsableChanges |-> Document(Log[i])]

\* The row a change is about: its table and its primary key.
RowOf(change) ==
  <<Last(change.topic),
    [i \in DOMAIN KeyColumns(detectPrefix(change.topic)) |->
       change.after.v[KeyColumns(detectPrefix(change.topic))[i]]]>>

\* The rows of a table differ in their joined key columns: the code does not
\* escape a "_" in them, and would give "a_b", "c" and "a", "b_c" one key.
ASSUME RowsAssumption ==
  \A i, j \in UsableChanges :
    LET prefix == detectPrefix(Log[i].topic)
    IN  /\ Last(Log[i].topic) = Last(Log[j].topic)
        /\ buildID(prefix, Log[i].after.v) = buildID(prefix, Log[j].after.v)
        => RowOf(Log[i]) = RowOf(Log[j])

\* The first pass over changes lo+1..hi: which of them to write, in order.
toWrite(lo, hi) == Ascending(UsableChanges \cap (lo+1..hi))

-----------------------------------------------------------------------------
Free == [stage |-> "free"]

Init ==
  /\ acked = 0
  /\ handlers = [h \in Handlers |-> Free]
  /\ db = [k \in {} |-> 0]
  /\ lost = {}
  /\ late = {}
  /\ faults = 0

Busy(h) == handlers[h].stage # "free"
Awaited(h) == Busy(h) /\ handlers[h].awaited
Fault == faults < MaxFaults /\ faults' = faults + 1

\* (external) The next batch goes out once the last is answered or given up.
Send(h) ==
  /\ acked < Len(Log)
  /\ ~Busy(h)
  /\ \A g \in Handlers : ~Awaited(g)
  /\ \E n \in 1..MaxItems :
       /\ acked + n <= Len(Log)
       /\ handlers' = [handlers EXCEPT ![h] =
            [stage |-> "read", awaited |-> TRUE, lo |-> acked, hi |-> acked + n]]
  /\ UNCHANGED <<acked, db, lost, late, faults>>

\* The body is read and parsed, and the first pass made.
Receive(h) ==
  /\ handlers[h].stage = "read"
  /\ handlers' = [handlers EXCEPT ![h] =
       [stage |-> "write", awaited |-> @.awaited, lo |-> @.lo, hi |-> @.hi,
        toWrite |-> toWrite(@.lo, @.hi), start |-> 0, next |-> 0]]
  /\ UNCHANGED <<acked, db, lost, late, faults>>

\* 500 for a body that cannot be read, 400 for one that is not JSON: the
\* request is over and nothing is acknowledged.
Refuse(h) ==
  /\ handlers[h].stage = "read"
  /\ Fault
  /\ handlers' = [handlers EXCEPT ![h] = Free]
  /\ UNCHANGED <<acked, db, lost, late>>

LeastOf(a, b) == IF a < b THEN a ELSE b

\* end: where the chunk that begins at start ends (excluded).
ChunkEnd(w) == LeastOf(w.start + maxBatchSize, Len(w.toWrite))

Writing(h) == handlers[h].stage = "write" /\ handlers[h].next < ChunkEnd(handlers[h])

\* The server executes the next JSON.SET of the chunk's pipeline.  Commands
\* of concurrent handlers interleave.
JSONSet(h) ==
  LET i == handlers[h].toWrite[handlers[h].next + 1]
  IN  /\ Writing(h)
      /\ db' = [k \in DOMAIN db \cup {keyOf[i]} |-> IF k = keyOf[i] THEN docOf[i] ELSE db[k]]
      /\ late' = IF Awaited(h) THEN late ELSE late \cup {keyOf[i]}
      /\ handlers' = [handlers EXCEPT ![h].next = @ + 1]
      /\ UNCHANGED <<acked, lost, faults>>

\* One command fails, or the connection does and takes the rest of the chunk
\* with it.  Logged, nothing more.
CommandsFail(h) ==
  LET w == handlers[h]
  IN  /\ Writing(h)
      /\ Fault
      /\ \E n \in {w.next + 1, ChunkEnd(w)} :
           /\ lost' = lost \cup {keyOf[w.toWrite[i]] : i \in w.next+1 .. n}
           /\ handlers' = [handlers EXCEPT ![h].next = n]
      /\ UNCHANGED <<acked, db, late>>

\* (external) go-redis repeats a pipeline whose connection failed.
Retry(h) ==
  /\ handlers[h].stage = "write"
  /\ handlers[h].next > handlers[h].start
  /\ Fault
  /\ handlers' = [handlers EXCEPT ![h].next = handlers[h].start]
  /\ UNCHANGED <<acked, db, lost, late>>

NextChunk(h) ==
  LET w == handlers[h]
  IN  /\ w.stage = "write"
      /\ w.start < Len(w.toWrite)
      /\ w.next = ChunkEnd(w)
      /\ handlers' = [handlers EXCEPT ![h] =
           [w EXCEPT !.start = @ + maxBatchSize, !.next = w.start + maxBatchSize]]
      /\ UNCHANGED <<acked, db, lost, late, faults>>

\* Skipped items reported to the sender.
M_status_strict(w) == IF Len(w.toWrite) = w.hi - w.lo THEN 200 ELSE 500

\* Neither skipped items nor failed writes show in the status.
status(w) == 200

Respond(h) ==
  LET w == handlers[h]
  IN  /\ w.stage = "write"
      /\ w.start >= Len(w.toWrite)
      /\ handlers' = [handlers EXCEPT ![h] = Free]
      /\ acked' = IF w.awaited /\ status(w) = 200 THEN w.hi ELSE acked
      /\ UNCHANGED <<db, lost, late, faults>>

\* (external) The sender stops waiting; the handler works on.
TimeOut(h) ==
  /\ Awaited(h)
  /\ Fault
  /\ handlers' = [handlers EXCEPT ![h].awaited = FALSE]
  /\ UNCHANGED <<acked, db, lost, late>>

\* (external) The changefeed resumes from an earlier point.
Resume ==
  /\ \A h \in Handlers : ~Awaited(h)
  /\ Fault
  /\ \E n \in 0..acked-1 : acked' = n
  /\ UNCHANGED <<handlers, db, lost, late>>

Work(h) == Receive(h) \/ JSONSet(h) \/ NextChunk(h) \/ Respond(h)

Next ==
  \/ Resume
  \/ \E h \in Handlers :
       Send(h) \/ Work(h) \/ Refuse(h) \/ CommandsFail(h) \/ Retry(h) \/ TimeOut(h)

\* Every handler is a goroutine that runs to its end, and the sender goes on
\* sending while changes are unacknowledged.
Fairness ==
  /\ \A h \in Handlers : WF_vars(Work(h))
  /\ WF_vars(\E h \in Handlers : Send(h))

Spec == Init /\ [][Next]_vars /\ Fairness

-----------------------------------------------------------------------------
(* Properties *)

ChangesOf == [row \in {RowOf(Log[i]) : i \in UsableChanges} |->
                {i \in UsableChanges : RowOf(Log[i]) = row}]

\* What the sender counts as delivered is in the database: the document of
\* every row is that of its latest acknowledged change, or of a later one,
\* through refused and repeated requests, repeated pipelines and restarts of
\* the feed.  The exceptions are exactly the two the handler lets happen:
\* a write that failed (it answers 200 all the same) and a write made for a
\* sender that had stopped waiting (it may come after newer ones).
AcknowledgedIsStored ==
  \A row \in DOMAIN ChangesOf :
    LET delivered == {i \in ChangesOf[row] : i <= acked}
        key == keyOf[CHOOSE i \in ChangesOf[row] : TRUE]
    IN  (delivered # {} /\ key \notin lost \cup late) =>
          /\ key \in DOMAIN db
          /\ \E i \in ChangesOf[row] : /\ \A j \in delivered : i >= j
                                       /\ db[key] = docOf[i]

\* No change holds up the feed: deletions, unknown tables and rows without a
\* key are skipped, and every change is acknowledged in the end.
FeedDrains == <>[](acked = Len(Log))
==============================================================================
