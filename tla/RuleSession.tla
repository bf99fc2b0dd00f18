------------------------------ MODULE RuleSession ----------------------------
(***************************************************************************)
(* One process using one rule store of num_buckets buckets, call after     *)
(* call, as fqdn_router.py's RuleStore and the Go stores execute it: what  *)
(* each call leaves in the data base and what it returns.  No other client *)
(* writes in the meantime (RuleStore models that), but the server may      *)
(* restart: it keeps the data and forgets the lookup script.               *)
(***************************************************************************)
EXTENDS RuleLookup

CONSTANTS
  Counts,        \* bucket counts a store may be configured with
  Rules,         \* rules the application registers
  Batches,       \* bulk loads: sequences of rules
  RawQueries,    \* queries as the application sends them
  MaxRules       \* bound on the rules registered at once

ASSUME CountsAssumption == Counts \subseteq Nat \ {0}

RuleRecords ==
  [fqdn1 : Patterns, port : Int, fqdn2 : Patterns, scope : {"S", "M", "B"}, id : STRING]

ASSUME RulesAssumption == Rules \subseteq RuleRecords /\ Batches \subseteq Seq(RuleRecords)

\* zlib.crc32 is unsigned.
ASSUME QueriesAssumption ==
  /\ RawQueries \subseteq [fqdn1 : RawNames, port : Int, fqdn2 : RawNames,
                          mode : {SINGLE_LEVEL, MULTI_LEVEL}]
  /\ \A q \in RawQueries : normalize_fqdn(q.fqdn1) # InvalidFqdn
                            => Crc32[normalize_fqdn(q.fqdn1)] \in Nat

VARIABLES
  num_buckets,   \* the configured count
  open,          \* whether the store object exists
  db,            \* the rule hashes
  meta,          \* the recorded bucket count, 0 when there is none
  loaded,        \* whether the server has the script the store sends the SHA of
  reply          \* what the last call returned

vars == <<num_buckets, open, db, meta, loaded, reply>>

Ok == [reply |-> "ok"]

KeysOf(rule) == keys_for_pattern(num_buckets, rule.fqdn1, rule.port)

\* The rule a field belongs to: a key ends with the pattern and the port.
TripleOf(x) == <<x[1][Len(x[1]) - 1], x[1][Len(x[1])], x[2]>>

Registered == {TripleOf(x) : x \in DOMAIN db}

Room(batch) ==
  Cardinality(Registered \cup
    {<<batch[i].fqdn1, batch[i].port, batch[i].fqdn2>> : i \in DOMAIN batch}) <= MaxRules

-----------------------------------------------------------------------------

Init ==
  /\ num_buckets \in Counts
  /\ open = FALSE
  /\ db = [x \in {} |-> NoRule]
  /\ meta = 0
  /\ loaded = FALSE
  /\ reply = Ok

\* The constructor: it loads the script, once and for all, and refuses a
\* namespace recorded under another count.
Open ==
  /\ ~open
  /\ meta \in {0, num_buckets}
  /\ open' = TRUE
  /\ loaded' = TRUE
  /\ reply' = Ok
  /\ UNCHANGED <<num_buckets, db, meta>>

Close ==
  /\ open
  /\ open' = FALSE
  /\ reply' = Ok
  /\ UNCHANGED <<num_buckets, db, meta, loaded>>

\* (external) The server restarts from its snapshot.
Restart ==
  /\ loaded
  /\ loaded' = FALSE
  /\ UNCHANGED <<num_buckets, open, db, meta, reply>>

\* put: a single HSET, or one per replica and then the count.
put(rule) ==
  /\ open
  /\ Room(<<rule>>)
  /\ IF ~valid_port(rule.port)
     THEN reply' = Error /\ UNCHANGED <<db, meta>>
     ELSE /\ db' = hset_all(db, num_buckets, <<rule>>)
          /\ meta' = IF Len(KeysOf(rule)) = 1 THEN meta ELSE num_buckets
          /\ reply' = Ok
  /\ UNCHANGED <<num_buckets, open, loaded>>

\* put_many: a bad port anywhere raises before the pipeline is executed.
put_many(batch) ==
  /\ open
  /\ Room(batch)
  /\ IF \E i \in DOMAIN batch : ~valid_port(batch[i].port)
     THEN reply' = Error /\ UNCHANGED <<db, meta>>
     ELSE /\ db' = hset_all(db, num_buckets, batch)
          /\ meta' = IF \E i \in DOMAIN batch : Len(KeysOf(batch[i])) > 1
                     THEN num_buckets ELSE meta
          /\ reply' = Ok
  /\ UNCHANGED <<num_buckets, open, loaded>>

M_delete_first_replica(fqdn1, port, fqdn2) ==
  LET cell == <<keys_for_pattern(num_buckets, fqdn1, port)[1], fqdn2>>
  IN  /\ open
      /\ db' = [x \in DOMAIN db \ {cell} |-> db[x]]
      /\ reply' = [reply |-> "deleted", existed |-> cell \in DOMAIN db]
      /\ UNCHANGED <<num_buckets, open, meta, loaded>>

\* delete: every replica, true if any had the field; the port is not
\* checked and the recorded count stays.
delete(fqdn1, port, fqdn2) ==
  LET fields == cells(num_buckets, fqdn1, port, fqdn2)
  IN  /\ open
      /\ db' = [x \in DOMAIN db \ fields |-> db[x]]
      /\ reply' = [reply |-> "deleted", existed |-> fields \cap DOMAIN db # {}]
      /\ UNCHANGED <<num_buckets, open, meta, loaded>>

\* The Lua stores (Python, go-benchmark): a NOSCRIPT answer to the EVALSHA is
\* an exception ...
lookup_lua(q) ==
  /\ open
  /\ reply' = IF loaded THEN LuaLookup(db, num_buckets, q.fqdn1, q.port, q.fqdn2, q.mode)
              ELSE Error
  /\ UNCHANGED <<num_buckets, open, db, meta, loaded>>

\* ... and routerd's store without scripts.
lookup_noscript(q) ==
  /\ open
  /\ reply' = NoScriptLookup(db, num_buckets, q.fqdn1, q.port, q.fqdn2, q.mode)
  /\ UNCHANGED <<num_buckets, open, db, meta, loaded>>

Next ==
  \/ Open
  \/ Close
  \/ Restart
  \/ \E rule \in Rules : put(rule)
  \/ \E batch \in Batches : put_many(batch)
  \/ \E rule \in Rules : delete(rule.fqdn1, rule.port, rule.fqdn2)
  \/ \E q \in RawQueries : lookup_lua(q)
  \/ \E q \in RawQueries : lookup_noscript(q)

Spec == Init /\ [][Next]_vars

-----------------------------------------------------------------------------
(* Properties *)

\* The rules as the application knows them, read off the first replica.
TableOf(d, n) ==
  [t \in {TripleOf(x) : x \in DOMAIN d} |->
     hget(d, keys_for_pattern(n, t[1], t[2])[1], t[3])]

TableOfStore == TableOf(db, num_buckets)

Normalised(q) ==
  LET n1 == normalize_fqdn(q.fqdn1)
      n2 == normalize_fqdn(q.fqdn2)
  IN  [fqdn1 |-> n1, port |-> q.port, fqdn2 |-> n2, mode |-> q.mode,
       answerable |-> n1 # InvalidFqdn /\ n2 # InvalidFqdn /\ valid_port(q.port)]

Abstract == INSTANCE RuleTable
              WITH table <- TableOfStore, available <- loaded, Queries <- {Normalised(q) : q \in RawQueries}

\* For one client the store is a rule table: a put is visible to every later
\* query at whatever replica the query hashes to, a delete removes the rule
\* for all of them and says truly whether it existed, and both lookup
\* algorithms answer with the most specific eligible rule; after a restart of
\* the server a lookup fails rather than misses, until the store is reopened.
StoreIsARuleTable == Abstract!Spec

==============================================================================
