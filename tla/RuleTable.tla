------------------------------ MODULE RuleTable ------------------------------
(***************************************************************************)
(* What a rule store promises, without keys, replicas or candidate lists:  *)
(* one table of rules, and lookups answered by the most specific rule that *)
(* matches.  Matching is stated on the names themselves.                   *)
(***************************************************************************)
EXTENDS Integers, Sequences, FiniteSetsExt

CONSTANTS
  Rules,         \* the rules that may be registered
  Batches,       \* the bulk loads: sequences of rules
  Queries        \* [fqdn1, port, fqdn2, mode, answerable]: normalised questions

VARIABLES
  table,         \* the registered rules: <<fqdn1, port, fqdn2>> -> value
  available,     \* FALSE from a restart to the next opening: lookups may fail
  reply          \* what the last call returned

vars == <<table, available, reply>>

Triple(rule) == <<rule.fqdn1, rule.port, rule.fqdn2>>
Value(rule) == [scope |-> rule.scope, id |-> rule.id]

\* The table after a whole batch, in order: the last rule of a triple stays.
SetAll(t, batch) ==
  LET writers(x) == {i \in DOMAIN batch : Triple(batch[i]) = x}
  IN  [x \in DOMAIN t \cup {Triple(batch[i]) : i \in DOMAIN batch} |->
         IF writers(x) = {} THEN t[x] ELSE Value(batch[Max(writers(x))])]

LegalPort(port) == port \in 1..65535

-----------------------------------------------------------------------------
(* Matching *)

\* How many leading labels of the name the pattern leaves open; a literal
\* pattern leaves none.
Depth(pattern, name) ==
  IF pattern.kind = "star" THEN Len(name) ELSE Len(name) - Len(pattern.labels)

Covers(pattern, name) ==
  CASE pattern.kind = "exact" -> pattern.labels = name
    [] pattern.kind = "wild"  ->
         /\ Depth(pattern, name) >= 1
         /\ SubSeq(name, Depth(pattern, name) + 1, Len(name)) = pattern.labels
    [] pattern.kind = "star"  -> TRUE

\* An anchored wildcard that stands for two labels or more.
Deep(pattern, name) == pattern.kind = "wild" /\ Depth(pattern, name) >= 2

\* Literal first, then the closest anchor, the bare star last.
Specificity(pattern, name) ==
  CASE pattern.kind = "exact" -> 0
    [] pattern.kind = "wild"  -> Depth(pattern, name)
    [] pattern.kind = "star"  -> 255

Eligible(t, q) ==
  {x \in DOMAIN t :
     LET deep == Deep(x[1], q.fqdn1) \/ Deep(x[3], q.fqdn2)
     IN  /\ x[2] = q.port
         /\ Covers(x[1], q.fqdn1) /\ Covers(x[3], q.fqdn2)
         /\ deep => q.mode = "multi"
         /\ \/ x[1].kind = "exact" /\ x[3].kind = "exact"
            \/ t[x].scope = "B"
            \/ t[x].scope = IF deep THEN "M" ELSE "S"}

Answer(t, q) ==
  LET hits == Eligible(t, q)
      S1(x) == Specificity(x[1], q.fqdn1)
      S2(x) == Specificity(x[3], q.fqdn2)
      best == CHOOSE x \in hits : \A y \in hits :
                S1(x) < S1(y) \/ (S1(x) = S1(y) /\ S2(x) <= S2(y))
  IN  IF ~q.answerable THEN [reply |-> "error"]
      ELSE IF hits = {} THEN [reply |-> "miss"]
      ELSE [reply |-> "match", rule_id |-> t[best].id, fqdn1_pattern |-> best[1],
            port |-> q.port, fqdn2_pattern |-> best[3],
            rank1 |-> S1(best), rank2 |-> S2(best)]

-----------------------------------------------------------------------------
(* Operations *)

Ok == [reply |-> "ok"]
Failed == [reply |-> "error"]
Deleted(existed) == [reply |-> "deleted", existed |-> existed]

Init == table = [x \in {} |-> Ok] /\ available = FALSE /\ reply = Ok

Load(batch) ==
  /\ IF \A i \in DOMAIN batch : LegalPort(batch[i].port)
     THEN table' = SetAll(table, batch) /\ reply' = Ok
     ELSE table' = table /\ reply' = Failed
  /\ UNCHANGED available

Put(rule) == Load(<<rule>>)

Delete(x) ==
  /\ reply' = Deleted(x \in DOMAIN table)
  /\ table' = [y \in DOMAIN table \ {x} |-> table[y]]
  /\ UNCHANGED available

Lookup(q) ==
  /\ reply' = Answer(table, q) \/ (~available /\ reply' = Failed)
  /\ UNCHANGED <<table, available>>

\* Opening or closing the store changes nothing that was registered, nor does
\* a restart.
Reopen == reply' = Ok /\ table' = table /\ available' \in {available, TRUE}

Restart == available' = FALSE /\ UNCHANGED <<table, reply>>

Next ==
  \/ \E rule \in Rules : Put(rule)
  \/ \E batch \in Batches : Load(batch)
  \/ \E rule \in Rules : Delete(Triple(rule))
  \/ \E q \in Queries : Lookup(q)
  \/ Reopen
  \/ Restart

Spec == Init /\ [][Next]_vars
==============================================================================
