------------------------------ MODULE RuleLookup -----------------------------
(***************************************************************************)
(* How a rule store turns rules into Redis hashes and a query back into    *)
(* the best matching rule: the key layout shared by the three ports, the   *)
(* lookup that runs a Lua script per hash-tag group (fqdn_router.py and    *)
(* go-benchmark/router.go) and the one that scans plain HMGET replies      *)
(* (go-router-service/store.go).                                           *)
(*                                                                         *)
(* A data base is a function from the <<key, field>> pairs that exist to   *)
(* the stored value, the scope letter and the rule id.  An empty hash does *)
(* not exist in Redis either.                                              *)
(***************************************************************************)
EXTENDS FqdnPattern, FiniteSetsExt

CONSTANT Token     \* Token[n][i]: compute_bucket_table(n).token(i)

NoRule == [scope |-> "none", id |-> "none"]
Miss == [reply |-> "miss"]
Error == [reply |-> "error"]

Values(Ids) == [scope : {"S", "M", "B"}, id : Ids]

hget(db, key, field) ==
  IF <<key, field>> \in DOMAIN db THEN db[<<key, field>>] ELSE NoRule

-----------------------------------------------------------------------------
(* Keys *)

\* The physical key of a pattern for a store opened with n buckets.
key(n, tag, bucket_index, pattern, port) ==
  IF is_bucketed_tag(tag) /\ n > 1
  THEN <<Token[n][bucket_index], tag, bucket_index, pattern, port>>
  ELSE <<tag, pattern, port>>

\* Every physical key a rule under the pattern is written to.
keys_for_pattern(n, pattern, port) ==
  LET tag == hash_tag(pattern)
  IN  IF is_bucketed_tag(tag) /\ n > 1
      THEN [i \in 1..n |-> key(n, tag, i - 1, pattern, port)]
      ELSE <<key(n, tag, 0, pattern, port)>>

valid_port(port) == port > 0 /\ port < 65536

-----------------------------------------------------------------------------
(* Writing *)

\* The hash fields a rule is written to.
cells(n, pattern, port, fqdn2) ==
  LET keys == keys_for_pattern(n, pattern, port)
  IN  {<<keys[i], fqdn2>> : i \in DOMAIN keys}

\* The HSETs of a load into a store of n buckets, in the order the server runs
\* them: a field keeps what the last rule with that field writes.
hset_all(d, n, batch) ==
  LET writers(x) == {i \in DOMAIN batch :
                       x \in cells(n, batch[i].fqdn1, batch[i].port, batch[i].fqdn2)}
      written == UNION {cells(n, batch[i].fqdn1, batch[i].port, batch[i].fqdn2) :
                          i \in DOMAIN batch}
      value(rule) == [scope |-> rule.scope, id |-> rule.id]
  IN  [x \in DOMAIN d \cup written |->
         IF x \in written THEN value(batch[Max(writers(x))]) ELSE d[x]]

-----------------------------------------------------------------------------
(* The scope filter and the two lookups *)

M_blocked_exact_too(exact, deep, scope) ==
  (deep /\ scope = "S") \/ (~deep /\ scope = "M")

\* A hit between two literal names is never filtered; any other hit is kept
\* from a rule whose wildcard may not reach that deep, or only deeper.
blocked(exact, deep, scope) ==
  ~exact /\ ((deep /\ scope = "S") \/ (~deep /\ scope = "M"))

\* What is stored for candidate a of fqdn1 under candidate b of fqdn2.
found(db, n, a, port, b) ==
  hget(db, key(n, a.tag, a.bucket_index, a.pattern, port), b.pattern)

Before(p, q) == p[1] < q[1] \/ (p[1] = q[1] /\ p[2] <= q[2])

\* The nested loop over keys and fields returns at its first hit.
FirstHit(hits) == CHOOSE p \in hits : \A q \in hits : Before(p, q)

Match(v, a, b, port) ==
  [reply |-> "match", rule_id |-> v.id, fqdn1_pattern |-> a.pattern, port |-> port,
   fqdn2_pattern |-> b.pattern, rank1 |-> a.rank, rank2 |-> b.rank]

\* LUA_LOOKUP for the fqdn1 candidates at the positions in group, in one
\* EVALSHA; the first field is the literal one.
LuaGroup(db, n, a, group, port, b) ==
  LET hits == {p \in group \X DOMAIN b :
                 LET v == found(db, n, a[p[1]], port, b[p[2]])
                 IN  /\ v # NoRule
                     /\ ~blocked(a[p[1]].rank = 0 /\ p[2] = 1,
                                 a[p[1]].needs_multi \/ b[p[2]].needs_multi, v.scope)}
      p == FirstHit(hits)
  IN  IF hits = {} THEN Miss
      ELSE Match(found(db, n, a[p[1]], port, b[p[2]]), a[p[1]], b[p[2]], port)

more_specific(m, best) ==
  IF m.rank1 # best.rank1 THEN m.rank1 < best.rank1 ELSE m.rank2 < best.rank2

\* The pipelined Lua lookup: one script call per hash tag, the winner being
\* the most specific of the groups' answers.
LuaLookup(db, n, raw1, port, raw2, mode) ==
  LET fqdn1 == normalize_fqdn(raw1)
      fqdn2 == normalize_fqdn(raw2)
      a == candidates(fqdn1, mode, n)
      groups == {{i \in DOMAIN a : a[i].tag = a[j].tag} : j \in DOMAIN a}
      answers == {LuaGroup(db, n, a, group, port, field_candidates(fqdn2, mode)) :
                    group \in groups} \ {Miss}
  IN  IF fqdn1 = InvalidFqdn \/ fqdn2 = InvalidFqdn \/ ~valid_port(port) THEN Error
      ELSE IF answers = {} THEN Miss
      ELSE CHOOSE m \in answers : \A o \in answers : o # m => more_specific(m, o)

\* The flat scan over one HMGET reply per fqdn1 candidate.
NoScriptLookup(db, n, raw1, port, raw2, mode) ==
  LET fqdn1 == normalize_fqdn(raw1)
      fqdn2 == normalize_fqdn(raw2)
      a == candidates(fqdn1, mode, n)
      b == field_candidates(fqdn2, mode)
      vals == [p \in (DOMAIN a) \X (DOMAIN b) |-> found(db, n, a[p[1]], port, b[p[2]])]
      hits == {p \in DOMAIN vals :
                 /\ vals[p] # NoRule
                 /\ ~blocked(a[p[1]].rank = 0 /\ b[p[2]].rank = 0,
                             a[p[1]].needs_multi \/ b[p[2]].needs_multi, vals[p].scope)}
      p == FirstHit(hits)
  IN  IF fqdn1 = InvalidFqdn \/ fqdn2 = InvalidFqdn \/ ~valid_port(port) THEN Error
      ELSE IF hits = {} THEN Miss
      ELSE Match(vals[p], a[p[1]], b[p[2]], port)
==============================================================================
