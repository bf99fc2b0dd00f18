---------------------------- MODULE MCRuleSession ----------------------------
(***************************************************************************)
(* Names under the one top-level label "c": enough for an apex group with  *)
(* a literal, a shallow and a deep wildcard, a top-level group and the     *)
(* global group.                                                           *)
(***************************************************************************)
EXTENDS RuleSession

LowerCase == [l \in {"", "*", "a", "b", "c", "B", "x", "y", "z"} |->
              IF l = "B" THEN "b" ELSE l]

MCLower == LowerCase

\* Two names that hash to different replicas, a third that wraps around.
Checksum == [f \in {<<"c">>, <<"b", "c">>, <<"a", "b", "c">>, <<"x", "a", "b", "c">>} |->
               Len(f) + 1]

MCCrc32 == Checksum

\* Tokens of the committed golden tables; bucket 0 of 2 and of 8 share "3".
Tokens == [n \in {2, 3} |-> IF n = 2 THEN [i \in 0..1 |-> IF i = 0 THEN 3 ELSE 0]
                             ELSE [i \in 0..2 |-> 5 + i]]

MCToken == Tokens

Raw(labels) == [padded |-> FALSE, labels |-> labels]

Rule(p, port, q, scope) ==
  [fqdn1 |-> p, port |-> port, fqdn2 |-> q, scope |-> scope, id |-> "r"]

MCRules ==
  {Rule(p, 1, Star, s) : p \in {Star, Wild(<<"c">>), Wild(<<"b", "c">>)},
                         s \in {"S", "M", "B"}}
  \cup {Rule(p, 1, q, s) : p \in {Star, Exact(<<"a", "b", "c">>)},
                           q \in {Wild(<<"z">>), Exact(<<"y", "z">>)},
                           s \in {"S", "M"}}
  \cup {Rule(Star, 0, Star, "B")}

MCBatches ==
  { \* the catch-all rule registered twice: the later one stays
    <<Rule(Star, 1, Star, "S"), Rule(Star, 1, Star, "M")>>,
    \* an apex rule and a catch-all rule in one pipeline
    <<Rule(Wild(<<"b", "c">>), 1, Star, "B"), Rule(Wild(<<"c">>), 1, Star, "B")>>,
    \* a bad port behind a good rule: nothing is sent
    <<Rule(Star, 1, Star, "B"), Rule(Star, 65536, Star, "B")>>,
    <<>> }

Query(l1, l2, mode) == [fqdn1 |-> Raw(l1), port |-> 1, fqdn2 |-> Raw(l2), mode |-> mode]

MCRawQueries ==
  {Query(l1, <<"y", "z">>, mode) :
     l1 \in {<<"x", "a", "b", "c">>, <<"a", "B", "c", "">>, <<"c">>},
     mode \in {SINGLE_LEVEL, MULTI_LEVEL}}
  \cup {Query(<<"a", "b", "c">>, <<"x", "y", "z">>, MULTI_LEVEL),
        Query(<<"x", "x", "a", "b", "c">>, <<"y", "z">>, MULTI_LEVEL),
        Query(<<"", "c">>, <<"y", "z">>, SINGLE_LEVEL),
        Query(<<"c">>, <<"*">>, SINGLE_LEVEL),
        [fqdn1 |-> [padded |-> TRUE, labels |-> <<"b", "c">>], port |-> 65536,
         fqdn2 |-> Raw(<<"z">>), mode |-> SINGLE_LEVEL],
        [fqdn1 |-> [padded |-> TRUE, labels |-> <<"b", "c">>], port |-> 1,
         fqdn2 |-> Raw(<<"z">>), mode |-> SINGLE_LEVEL]}
==============================================================================
