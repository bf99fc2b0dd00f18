---------------------------- MODULE MCDiagnostics ----------------------------
(***************************************************************************)
(* The scripts beside the benchmark, one at a time: which one runs is      *)
(* chosen at the start, and the variables of the others stay as they are.  *)
(* The checksums are zlib's of the names asked, modulo 12; the tokens are  *)
(* those of the golden tables.                                             *)
(***************************************************************************)
EXTENDS ThreadPinning, IowaitCorrelation, HotspotLoad, Crosscheck

VARIABLE script

vars == <<script, pinningVars, correlationVars, hotspotVars, crosscheckVars>>

MCLower ==
  [l \in STRING |->
     CASE l = "API" -> "api" [] l = "FOO" -> "foo" [] l = "COM" -> "com"
       [] l = "Foo" -> "foo" [] l = "Com" -> "com" [] l = "Backend-Api" -> "backend-api"
       [] OTHER -> l]

Checksum(name) ==
  CASE name \in {<<"a", "x", "deep", "example", "org">>, <<"host9", "gamma", "io">>} -> 1
    [] name \in {apiFoo, <<"host1", "beta", "co">>, <<"nomatch1", "unknown", "invalid">>} -> 2
    [] name = <<"mail", "lambda", "io">> -> 4
    [] name = <<"anything", "invalid">> -> 5
    [] name = <<"www", "kappa", "org">> -> 6
    [] name = deeper -> 7
    [] name \in {<<"shop", "omega", "com">>, <<"x", "deep", "example", "org">>} -> 8
    [] name \in {<<"api", "omega", "net">>, <<"host1", "dragonfly", "com">>} -> 9
    [] name = console -> 10
    [] OTHER -> 11

MCCrc32 == [f \in Seq(STRING) |-> Checksum(f)]

MCToken ==
  [c \in {2, 3, 4} |->
     [i \in 0..c-1 |-> CASE c = 2 -> <<3, 0>>[i+1] [] c = 3 -> <<3, 30, 0>>[i+1]
                         [] c = 4 -> <<3, 2, 1, 0>>[i+1]]]

Init ==
  /\ script \in {"pinning", "iowait", "hotspot", "crosscheck"}
  /\ PinningInit /\ CorrelationInit /\ HotspotInit /\ CrosscheckInit
  \* what is varied only in the script that runs
  /\ script # "pinning" =>
       /\ pool_mode = "shared" /\ timing = "burst" /\ even /\ has_tid
  /\ script # "hotspot" => phases = <<"distributed">>
  /\ script # "crosscheck" => num_buckets = 1

Others(vs) == UNCHANGED <<script, vs>>

Pinning == script = "pinning" /\ PinningNext
             /\ Others(<<correlationVars, hotspotVars, crosscheckVars>>)

Iowait == script = "iowait" /\ CorrelationNext
            /\ Others(<<pinningVars, hotspotVars, crosscheckVars>>)

Hotspot == script = "hotspot" /\ HotspotNext
             /\ Others(<<pinningVars, correlationVars, crosscheckVars>>)

Golden == script = "crosscheck" /\ CrosscheckNext
            /\ Others(<<pinningVars, correlationVars, hotspotVars>>)

Next == Pinning \/ Iowait \/ Hotspot \/ Golden

Spec == Init /\ [][Next]_vars
==============================================================================
