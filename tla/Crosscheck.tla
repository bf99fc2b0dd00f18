------------------------------ MODULE Crosscheck -----------------------------
(***************************************************************************)
(* crosscheck_python.py: the Python store loads a fixed set of rules into  *)
(* its namespace and answers a fixed set of queries; the Go test replays   *)
(* the file it writes in a namespace of its own, compares the physical     *)
(* keys, and asks the same queries of both namespaces.  Either may be      *)
(* interrupted, run again, or run with another bucket count.  Also the     *)
(* demonstration at the end of fqdn_router.py.                             *)
(***************************************************************************)
EXTENDS RuleLookup

CONSTANT BucketCountsTried     \* values of FQDN_NUM_BUCKETS

ASSUME CountsTriedAssumption == BucketCountsTried \subseteq Nat \ {0}

VARIABLES
  stored,        \* stored[ns]: the rule hashes of a namespace
  recorded,      \* recorded[ns]: its recorded bucket count, 0 when there is none
  at,            \* what runs, and how far it has come
  num_buckets,   \* the bucket count of what runs
  expected,      \* the results of the Python store
  golden,        \* the file: bucket count and expected results
  current,       \* history: the file is of the last Python run, which ended
  outcome        \* the verdict of the Go test

crosscheckVars == <<stored, recorded, at, num_buckets, expected, golden, current, outcome>>

-----------------------------------------------------------------------------
(* The rules and queries, and those of the demonstration *)

Rule(fqdn1, port, fqdn2, rule_id, scope) ==
  [fqdn1 |-> fqdn1, port |-> port, fqdn2 |-> fqdn2, id |-> rule_id, scope |-> scope]

apiFoo == <<"api", "foo", "com">>
corp == Wild(<<"corp", "dragonfly", "com">>)
retailer == Exact(<<"retailer", "com">>)

RULES == <<
  Rule(Exact(apiFoo), 443, Exact(<<"backend-api", "foo", "com">>), "r-exact", "B"),
  Rule(Exact(apiFoo), 443, Star, "r-exact-any", "B"),
  Rule(corp, 443, retailer, "r-corp-exact", "B"),
  Rule(corp, 443, Wild(<<"com">>), "r-corp-wild", "B"),
  Rule(Wild(<<"dragonfly", "com">>), 443, retailer, "r-broad", "B"),
  Rule(Wild(<<"dragonfly", "com">>), 443, Star, "r-tls-strict", "S"),
  Rule(Wild(<<"deep", "example", "org">>), 443, Star, "r-deep-only", "M"),
  Rule(Wild(<<"com">>), 8443, Wild(<<"net">>), "r-tld", "B"),
  Rule(Star, 443, Exact(<<"catch-all", "example", "com">>), "r-global", "B"),
  Rule(Star, 80, Star, "r-global-any", "B"),
  Rule(Exact(<<"host1", "beta", "co">>), 8443, Wild(<<"beta", "co">>), "r-beta", "B"),
  Rule(Exact(<<"host9", "gamma", "io">>), 8443, Exact(<<"backend9", "gamma", "io">>),
       "r-exact-multi-scope", "M") >>

Query(name1, port, name2, mode) ==
  [fqdn1 |-> [padded |-> FALSE, labels |-> name1], port |-> port,
   fqdn2 |-> [padded |-> FALSE, labels |-> name2], mode |-> mode]

backendApi == <<"backend-api", "foo", "com">>
console == <<"console", "corp", "dragonfly", "com">>
deeper == <<"a">> \o console
retailerName == <<"retailer", "com">>
anything == <<"anything", "net">>

QUERIES == <<
  Query(apiFoo, 443, backendApi, SINGLE_LEVEL), Query(apiFoo, 443, backendApi, MULTI_LEVEL),
  Query(apiFoo, 443, <<"whatever", "xyz">>, MULTI_LEVEL),
  Query(apiFoo, 8080, backendApi, MULTI_LEVEL),
  Query(console, 443, retailerName, SINGLE_LEVEL),
  Query(console, 443, <<"shop", "com">>, SINGLE_LEVEL),
  Query(console, 443, retailerName, MULTI_LEVEL),
  Query(deeper, 443, retailerName, SINGLE_LEVEL), Query(deeper, 443, retailerName, MULTI_LEVEL),
  Query(<<"host1", "dragonfly", "com">>, 443, anything, MULTI_LEVEL),
  Query(<<"host1", "dragonfly", "com">>, 443, anything, SINGLE_LEVEL),
  Query(<<"a", "b", "dragonfly", "com">>, 443, anything, MULTI_LEVEL),
  Query(<<"x", "deep", "example", "org">>, 443, <<"zzz", "net">>, MULTI_LEVEL),
  Query(<<"a", "x", "deep", "example", "org">>, 443, <<"zzz", "net">>, MULTI_LEVEL),
  Query(<<"a", "x", "deep", "example", "org">>, 443, <<"zzz", "net">>, SINGLE_LEVEL),
  Query(<<"shop", "omega", "com">>, 8443, <<"mail", "gamma", "net">>, MULTI_LEVEL),
  Query(<<"shop", "omega", "com">>, 8443, <<"mail", "gamma", "net">>, SINGLE_LEVEL),
  Query(<<"anything", "invalid">>, 443, <<"catch-all", "example", "com">>, MULTI_LEVEL),
  Query(<<"localhost">>, 443, <<"catch-all", "example", "com">>, MULTI_LEVEL),
  Query(<<"host1", "beta", "co">>, 8443, <<"www", "beta", "co">>, MULTI_LEVEL),
  Query(<<"host1", "beta", "co">>, 8443, <<"host1", "beta", "co">>, MULTI_LEVEL),
  Query(<<"nomatch1", "unknown", "invalid">>, 8080, <<"nomatch1", "invalid">>, MULTI_LEVEL),
  Query(<<"API", "FOO", "COM", "">>, 443, <<"Backend-Api", "Foo", "Com">>, MULTI_LEVEL),
  Query(<<"host9", "gamma", "io">>, 8443, <<"backend9", "gamma", "io">>, MULTI_LEVEL),
  \* the names of BUCKET_PROBES
  Query(<<"shop", "omega", "com">>, 80, <<"anything", "at", "all">>, MULTI_LEVEL),
  Query(<<"api", "omega", "net">>, 80, <<"anything", "at", "all">>, MULTI_LEVEL),
  Query(<<"www", "kappa", "org">>, 80, <<"anything", "at", "all">>, MULTI_LEVEL),
  Query(<<"portal", "sigma", "dev">>, 80, <<"anything", "at", "all">>, MULTI_LEVEL),
  Query(<<"mail", "lambda", "io">>, 80, <<"anything", "at", "all">>, MULTI_LEVEL) >>

\* What a store of n buckets answers from the data base d.
Answers(d, n, queries) ==
  [i \in DOMAIN queries |->
     LuaLookup(d, n, queries[i].fqdn1, queries[i].port, queries[i].fqdn2, queries[i].mode)]

NoRules == [x \in {} |-> NoRule]

demoRules == <<
  Rule(corp, 443, retailer, "rule:corp-to-retailer", "B"),
  Rule(corp, 443, Wild(<<"com">>), "rule:corp-to-any-dot-com", "B"),
  Rule(Wild(<<"dragonfly", "com">>), 443, Star, "rule:tls-strict", "S") >>

demoCases == <<
  Query(console, 443, retailerName, SINGLE_LEVEL),
  Query(console, 443, <<"shop", "com">>, SINGLE_LEVEL),
  Query(deeper, 443, retailerName, SINGLE_LEVEL),
  Query(deeper, 443, retailerName, MULTI_LEVEL),
  Query(<<"a", "b", "dragonfly", "com">>, 443, anything, MULTI_LEVEL) >>

\* A flushed data base, the default single bucket, put by put.
demo == Answers(hset_all(NoRules, 1, demoRules), 1, demoCases)

-----------------------------------------------------------------------------
(* The two programs *)

NoFile == [num_buckets |-> 0, expected |-> <<>>]

CrosscheckInit ==
  /\ stored = [ns \in {"xpy", "xgo"} |-> NoRules]
  /\ recorded = [ns \in {"xpy", "xgo"} |-> 0]
  /\ at = <<"idle">>
  /\ num_buckets \in BucketCountsTried
  /\ expected = <<>> /\ golden = NoFile /\ current = FALSE
  /\ outcome = "none"

StartPython ==
  /\ at = <<"idle">>
  /\ at' = <<"wipe", "xpy", "tagged">>
  /\ num_buckets' \in BucketCountsTried
  /\ current' = FALSE /\ outcome' = "none"
  /\ UNCHANGED <<stored, recorded, expected, golden>>

StartGo ==
  /\ at = <<"idle">> /\ golden # NoFile
  /\ at' = <<"wipe", "xgo", "tagged">>
  /\ num_buckets' = golden.num_buckets
  /\ outcome' = "none"
  /\ UNCHANGED <<stored, recorded, expected, golden, current>>

\* The pattern "r:{ns:*" finds the keys whose tag holds the namespace, the
\* pattern "r:ns:*" the replicas, whose tag is a token.
Found(shape, ns) ==
  {x \in DOMAIN stored[ns] : (Len(x[1]) = 3) = (shape = "tagged")}

M_ForgetsCount_never(shape) == FALSE

\* The key of the recorded count is one of the first kind.
ForgetsCount(shape) == shape = "tagged"

Wipe(ns, shape) ==
  /\ at = <<"wipe", ns, shape>>
  /\ stored' = [stored EXCEPT ![ns] = Restrict(@, DOMAIN @ \ Found(shape, ns))]
  /\ recorded' = [recorded EXCEPT ![ns] = IF ForgetsCount(shape) THEN 0 ELSE @]
  /\ at' = IF shape = "tagged" THEN <<"wipe", ns, "replicas">> ELSE <<"open", ns>>
  /\ UNCHANGED <<num_buckets, expected, golden, current, outcome>>

\* The constructor of either port: it refuses another count than recorded.
OpenStore(ns) ==
  /\ at = <<"open", ns>>
  /\ IF recorded[ns] \in {0, num_buckets}
     THEN at' = <<"load", ns>> /\ outcome' = outcome
     ELSE at' = <<"idle">> /\ outcome' = "refused"
  /\ UNCHANGED <<stored, recorded, num_buckets, expected, golden, current>>

LoadRules(ns) ==
  /\ at = <<"load", ns>>
  /\ stored' = [stored EXCEPT ![ns] = hset_all(@, num_buckets, RULES)]
  /\ recorded' = [recorded EXCEPT ![ns] =
       IF \E i \in DOMAIN RULES :
            Len(keys_for_pattern(num_buckets, RULES[i].fqdn1, RULES[i].port)) > 1
       THEN num_buckets ELSE @]
  /\ at' = <<"ask", ns>>
  /\ UNCHANGED <<num_buckets, expected, golden, current, outcome>>

AskPython ==
  /\ at = <<"ask", "xpy">>
  /\ expected' = Answers(stored["xpy"], num_buckets, QUERIES)
  /\ at' = <<"write">>
  /\ UNCHANGED <<stored, recorded, num_buckets, golden, current, outcome>>

WriteFile ==
  /\ at = <<"write">>
  /\ golden' = [num_buckets |-> num_buckets, expected |-> expected]
  /\ current' = TRUE
  /\ at' = <<"idle">>
  /\ UNCHANGED <<stored, recorded, num_buckets, expected, outcome>>

KeysOfNamespace(ns) == {x[1] : x \in DOMAIN stored[ns]}

\* assertSameKeyLayout, the opening of the Python namespace, and the queries
\* on both; then the Go namespace is cleared, unless FQDN_KEEP is set.
Replay ==
  /\ at = <<"ask", "xgo">>
  /\ outcome' =
       IF \/ KeysOfNamespace("xpy") # KeysOfNamespace("xgo")
          \/ recorded["xpy"] # recorded["xgo"]
       THEN "keys differ"
       ELSE IF \E ns \in {"xpy", "xgo"} :
                 Answers(stored[ns], num_buckets, QUERIES) # golden.expected
       THEN "answers differ"
       ELSE "pass"
  /\ \/ UNCHANGED <<stored, recorded>>
     \/ /\ stored' = [stored EXCEPT !["xgo"] = NoRules]
        /\ recorded' = [recorded EXCEPT !["xgo"] = 0]
  /\ at' = <<"idle">>
  /\ UNCHANGED <<num_buckets, expected, golden, current>>

\* Either program is interrupted.
Interrupted ==
  /\ at # <<"idle">>
  /\ at' = <<"idle">>
  /\ UNCHANGED <<stored, recorded, num_buckets, expected, golden, current, outcome>>

CrosscheckNext ==
  \/ StartPython \/ StartGo \/ AskPython \/ WriteFile \/ Replay \/ Interrupted
  \/ \E ns \in {"xpy", "xgo"} :
       \/ \E shape \in {"tagged", "replicas"} : Wipe(ns, shape)
       \/ OpenStore(ns) \/ LoadRules(ns)

-----------------------------------------------------------------------------
(* Properties *)

Table == INSTANCE RuleTable
           WITH table <- stored, available <- TRUE, reply <- outcome,
                Rules <- {}, Batches <- {}, Queries <- {}

BestMatch(rules, q) ==
  Table!Answer(Table!SetAll(NoRules, rules),
               [fqdn1 |-> normalize_fqdn(q.fqdn1), port |-> q.port,
                fqdn2 |-> normalize_fqdn(q.fqdn2), mode |-> q.mode, answerable |-> TRUE])

ReferenceAnswers == [i \in DOMAIN QUERIES |-> BestMatch(RULES, QUERIES[i])]

\* What the Python side records as expected is the best match by the names
\* alone, whatever the bucket count: a catch-all rule answers at every replica
\* the probes hash to.
ExpectedIsTheBestMatch == golden.expected = ReferenceAnswers

\* "replays all of it ... and compares": the test passes on the file of the
\* last Python run, whatever runs under whatever counts, finished or not, have
\* left in the two namespaces, and no constructor is refused after the wipe.
GoldenReplays ==
  /\ outcome # "refused"
  /\ current => outcome \in {"none", "pass"}

\* The labels that the demonstration prints beside its five lookups: the
\* exact name before the wildcard, and a miss where mode or scope forbid depth.
DemoLabelsHold ==
  /\ demo[1].rule_id = "rule:corp-to-retailer" /\ demo[2].rule_id = "rule:corp-to-any-dot-com"
  /\ demo[3] = Miss /\ demo[5] = Miss
  /\ demo[4].rule_id = "rule:corp-to-retailer"

\* Answers written down to be relied on, the golden file's and the labels of the
\* demonstration, are the best matches of their rules.  (The demonstration is
\* one fact, looked at where there is a file.)
StatedAnswersHold == golden # NoFile => ExpectedIsTheBestMatch /\ DemoLabelsHold
==============================================================================
