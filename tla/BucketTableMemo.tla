--------------------------- MODULE BucketTableMemo ---------------------------
(***************************************************************************)
(* The per-process memo in front of the token search when goroutines ask   *)
(* for tables at the same time.  go-router-service publishes an entry      *)
(* first and lets its sync.Once compute the table; go-benchmark computes   *)
(* first and publishes what it got.  A table is named by the goroutine     *)
(* that computed it.                                                       *)
(***************************************************************************)
EXTENDS Naturals, FiniteSets

CONSTANTS
  Callers,      \* the goroutines
  Counts,       \* the counts they ask for
  Invalid,      \* of those, the ones outside [1, 16384]
  Unfillable    \* of those, the ones whose search would give up


VARIABLES
  WithOnce,     \* TRUE in a go-router-service process, FALSE in go-benchmark's
  call,         \* call[c]: the count c asks for and how far it has come
  claimed,      \* counts whose Once has been entered
  memo,         \* the tables published
  returned,     \* history: what calls for each count have returned
  builds        \* history: how often each search was run (2: more than once)

memoVars == <<WithOnce, call, claimed, memo, returned, builds>>

NoTable == "nil"
Refused == "error"
Idle == [at |-> "idle"]

ASSUME MemoAssumption ==
  /\ Invalid \subseteq Counts /\ Unfillable \subseteq Counts
  /\ NoTable \notin Callers /\ Refused \notin Callers

MemoInit ==
  /\ WithOnce \in BOOLEAN
  /\ call = [c \in Callers |-> Idle]
  /\ claimed = {}
  /\ memo = [n \in Counts |-> NoTable]
  /\ returned = [n \in Counts |-> {}]
  /\ builds = [n \in Counts |-> 0]

Return(c, n, table) ==
  /\ returned' = [returned EXCEPT ![n] = @ \cup {table}]
  /\ call' = [call EXCEPT ![c] = Idle]

\* The count is checked before the memo is looked at; go-benchmark returns a
\* table that is there.
Call(c, n) ==
  /\ call[c] = Idle
  /\ IF n \in Invalid THEN Return(c, n, Refused)
     ELSE IF ~WithOnce /\ memo[n] # NoTable THEN Return(c, n, memo[n])
     ELSE /\ call' = [call EXCEPT ![c] = [at |-> IF WithOnce THEN "once" ELSE "build", n |-> n]]
          /\ returned' = returned
  /\ UNCHANGED <<WithOnce, claimed, memo, builds>>

\* The first caller at the entry's Once runs the search ...
Enter(c) ==
  /\ call[c].at = "once" /\ call[c].n \notin claimed
  /\ claimed' = claimed \cup {call[c].n}
  /\ call' = [call EXCEPT ![c].at = "build"]
  /\ UNCHANGED <<WithOnce, memo, returned, builds>>

M_Await_early(c) ==
  /\ call[c].at = "once" /\ call[c].n \in claimed
  /\ Return(c, call[c].n, memo[call[c].n])
  /\ UNCHANGED <<WithOnce, claimed, memo, builds>>

\* ... and the others wait for its result, an error included.
Await(c) ==
  /\ call[c].at = "once" /\ memo[call[c].n] # NoTable
  /\ Return(c, call[c].n, memo[call[c].n])
  /\ UNCHANGED <<WithOnce, claimed, memo, builds>>

M_Published_no_errors(n, table) == IF table = Refused THEN NoTable ELSE table

\* LoadOrStore keeps what is there; go-benchmark does not store an error.
Published(n, table) ==
  IF memo[n] # NoTable \/ (~WithOnce /\ table = Refused) THEN memo[n] ELSE table

Build(c) ==
  LET n == call[c].n
      table == IF n \in Unfillable THEN Refused ELSE c
  IN  /\ call[c].at = "build"
      /\ builds' = [builds EXCEPT ![n] = IF @ < 2 THEN @ + 1 ELSE @]
      /\ memo' = [memo EXCEPT ![n] = Published(n, table)]
      /\ Return(c, n, IF table = Refused THEN Refused ELSE Published(n, table))
      /\ UNCHANGED <<WithOnce, claimed>>

Step(c) == Enter(c) \/ Await(c) \/ Build(c)

MemoNext == \E c \in Callers : Step(c) \/ \E n \in Counts : Call(c, n)

\* Goroutines run.
MemoSpec == MemoInit /\ [][MemoNext]_memoVars /\ \A c \in Callers : WF_memoVars(Step(c))

-----------------------------------------------------------------------------
\* Every caller is handed the one table of its count, never a nil one and
\* never a second copy, however the first accesses race; and behind the Once
\* "exactly one goroutine computes the table" (go-router-service).
OneTablePerCount ==
  \A n \in Counts :
    /\ Cardinality(returned[n]) <= 1 /\ NoTable \notin returned[n]
    /\ WithOnce => builds[n] <= 1

\* Nobody waits for ever, not even for a search that ends in an error.
CallsReturn == \A c \in Callers : call[c] # Idle ~> call[c] = Idle
==============================================================================
