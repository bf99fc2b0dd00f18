------------------------------ MODULE SnackBar -------------------------------
(***************************************************************************)
(* The snack sales demo (fast_api_snack_bar/app): a worker that posts one  *)
(* sale after the other to the app it runs in, other clients posting to    *)
(* the same route, the rate limiter each sale must pass, and the           *)
(* leaderboard it is then recorded on.  The app may stop and start again;  *)
(* counters and leaderboard are in Redis and stay.  The limiter is the     *)
(* library's, one counter per snack and window of a second.                *)
(***************************************************************************)
EXTENDS Integers, Sequences, FiniteSets, TLC, InOrder

CONSTANTS
  SNACK_RATES,    \* sales per second of each snack
  SnackOrder,     \* the snacks in the order of the registry
  Clients,        \* the others who post sales
  Unknown,        \* snacks they ask for that the registry does not have
  MaxWindows,     \* seconds that pass (bound)
  MaxRestarts     \* how often the app is started again (bound)

Snacks == DOMAIN SNACK_RATES
Worker == "worker"
Callers == Clients \cup {Worker}

ASSUME SnackAssumption ==
  /\ SnackOrder \in Seq(Snacks)
  /\ \A s \in Snacks : \E i \in DOMAIN SnackOrder : SnackOrder[i] = s
  /\ \A i, j \in DOMAIN SnackOrder : SnackOrder[i] = SnackOrder[j] => i = j
  /\ \A s \in Snacks : SNACK_RATES[s] \in Nat
  /\ Worker \notin Clients /\ IsFiniteSet(Clients)

VARIABLES
  window,         \* seconds gone
  hits,           \* the limiter's counters of this window
  scores,         \* the sorted set snacks_sold
  request,        \* request[c]: the sale c has posted and how far it is
  turn,           \* the worker's place in its round, 0 when it has died
  up,             \* whether the app is running
  restarts,       \* how often it was started again
  board,          \* the last leaderboard read
  dropped         \* history: admitted sales that were never recorded

snackVars == <<window, hits, scores, request, turn, up, restarts, board, dropped>>

Idle == [at |-> "idle"]

SnackInit ==
  /\ window = 0
  /\ hits = [s \in Snacks |-> 0]
  /\ scores = [s \in {} |-> 0]
  /\ request = [c \in Callers |-> Idle]
  /\ turn = 1
  /\ up = TRUE
  /\ restarts = 0
  /\ board = <<>>
  /\ dropped = [s \in Snacks |-> 0]

\* (external) The second ends, and with it the limiter's counters.
Tick ==
  /\ window < MaxWindows
  /\ window' = window + 1
  /\ hits' = [s \in Snacks |-> 0]
  /\ UNCHANGED <<scores, request, turn, up, restarts, board, dropped>>

Post(c, s) ==
  /\ up
  /\ request[c] = Idle
  /\ c = Worker => turn # 0 /\ s = SnackOrder[turn]
  /\ request' = [request EXCEPT ![c] = [at |-> "sell", snack |-> s]]
  /\ UNCHANGED <<window, hits, scores, turn, up, restarts, board, dropped>>

M_Answered_sold(c) ==
  /\ request' = [request EXCEPT ![c] = Idle]
  /\ turn' = IF c = Worker /\ request[c].at = "record"
             THEN (turn % Len(SnackOrder)) + 1 ELSE turn

\* The request is answered; the worker goes on to its next snack.
Answered(c) ==
  /\ request' = [request EXCEPT ![c] = Idle]
  /\ turn' = IF c = Worker THEN (turn % Len(SnackOrder)) + 1 ELSE turn

\* 404: the limiter is not asked.
UnknownSnack(c) ==
  /\ request[c].at = "sell" /\ request[c].snack \notin Snacks
  /\ Answered(c)
  /\ UNCHANGED <<window, hits, scores, up, restarts, board, dropped>>

\* (external) The limiter counts and decides in one step.
allowed(s) == hits[s] < SNACK_RATES[s]

\* The limiter's answer is not looked at.
M_Hit_anyway(c) ==
  LET s == request[c].snack
  IN  /\ request[c].at = "sell" /\ s \in Snacks
      /\ hits' = IF allowed(s) THEN [hits EXCEPT ![s] = @ + 1] ELSE hits
      /\ request' = [request EXCEPT ![c].at = "record"]
      /\ UNCHANGED <<window, scores, turn, up, restarts, board, dropped>>

\* The sale route: the limiter's verdict, then the record or an answer
\* that nothing was sold.
Hit(c) ==
  LET s == request[c].snack
  IN  /\ request[c].at = "sell" /\ s \in Snacks
      /\ IF allowed(s)
         THEN /\ hits' = [hits EXCEPT ![s] = @ + 1]
              /\ request' = [request EXCEPT ![c].at = "record"]
              /\ turn' = turn
         ELSE Answered(c) /\ hits' = hits
      /\ UNCHANGED <<window, scores, up, restarts, board, dropped>>

\* int(score or 0): the snack may not be a member yet.
count(s) == IF s \in DOMAIN scores THEN scores[s] ELSE 0

\* record_sale: ZINCRBY creates the member and the set if need be.
Recorded(s) ==
  scores' = [x \in DOMAIN scores \cup {s} |-> count(x) + (IF x = s THEN 1 ELSE 0)]

Record(c) ==
  /\ request[c].at = "record"
  /\ Recorded(request[c].snack)
  /\ Answered(c)
  /\ UNCHANGED <<window, hits, up, restarts, board, dropped>>

\* A Redis call raises: the request fails, and so does the worker's loop,
\* which nothing restarts.
Raise(c) ==
  LET s == request[c].snack
  IN  /\ request[c].at = "record" \/ (request[c].at = "sell" /\ s \in Snacks)
      /\ dropped' = IF request[c].at = "record" THEN [dropped EXCEPT ![s] = @ + 1] ELSE dropped
      /\ request' = [request EXCEPT ![c] = Idle]
      /\ turn' = IF c = Worker THEN 0 ELSE turn
      /\ UNCHANGED <<window, hits, scores, up, restarts, board>>

M_rows_of_members ==
  [i \in 1..Cardinality(DOMAIN scores) |->
     LET s == SelectSeq(SnackOrder, LAMBDA x : x \in DOMAIN scores)[i]
     IN  [snack |-> s, count |-> count(s)]]

\* One ZMSCORE of all the names.
rows == [i \in DOMAIN SnackOrder |->
           [snack |-> SnackOrder[i], count |-> count(SnackOrder[i])]]

\* The rows by falling count.
ranked ==
  LET place == SortedPositions([i \in DOMAIN rows |-> -rows[i].count])
  IN  [i \in DOMAIN rows |-> rows[place[i]]]

read_leaderboard ==
  /\ up
  /\ board' = ranked
  /\ UNCHANGED <<window, hits, scores, request, turn, up, restarts, dropped>>

\* The end of lifespan, once the other requests are answered: the worker is
\* cancelled wherever it waits, so that an admitted sale is recorded or lost.
Shutdown ==
  LET s == request[Worker].snack
      recording == request[Worker].at = "record"
  IN  /\ up /\ restarts < MaxRestarts
      /\ \A c \in Clients : request[c] = Idle
      /\ up' = FALSE
      /\ request' = [request EXCEPT ![Worker] = Idle]
      /\ \/ recording /\ Recorded(s) /\ dropped' = dropped
         \/ recording /\ dropped' = [dropped EXCEPT ![s] = @ + 1] /\ scores' = scores
         \/ ~recording /\ UNCHANGED <<scores, dropped>>
      /\ UNCHANGED <<window, hits, turn, restarts, board>>

\* A new process, and in it a new worker.
Startup ==
  /\ ~up
  /\ up' = TRUE /\ turn' = 1
  /\ restarts' = restarts + 1
  /\ UNCHANGED <<window, hits, scores, request, board, dropped>>

Handle(c) == UnknownSnack(c) \/ Hit(c) \/ Record(c)

SnackNext ==
  \/ Tick
  \/ read_leaderboard
  \/ Shutdown \/ Startup
  \/ \E c \in Callers : (\E s \in Snacks \cup Unknown : Post(c, s)) \/ Handle(c) \/ Raise(c)

\* Requests are tasks of the event loop, and so is the worker.
SnackSpec ==
  /\ SnackInit /\ [][SnackNext]_snackVars
  /\ \A c \in Callers : WF_snackVars(Handle(c))
  /\ WF_snackVars(\E s \in Snacks : Post(Worker, s))

-----------------------------------------------------------------------------
(* Properties *)

Unrecorded(s) == Cardinality({c \in Callers : request[c].at = "record" /\ request[c].snack = s})

\* "what keeps each snack's growth at its target rate": with any number of
\* callers between the limiter and the leaderboard, sales lost there by errors
\* or by the worker's end, and restarts, the leaderboard never runs ahead of
\* what the seconds so far allow.
GrowthWithinRate ==
  \A s \in Snacks :
    count(s) + Unrecorded(s) + dropped[s] <= SNACK_RATES[s] * (window + 1)

\* Every snack is on the leaderboard once, those with no sales too, best
\* seller first.
BoardRanksAllSnacks ==
  board # <<>> =>
    /\ Len(board) = Cardinality(Snacks)
    /\ {board[i].snack : i \in DOMAIN board} = Snacks
    /\ \A i, j \in DOMAIN board : i < j => board[i].count >= board[j].count

\* A snack at its limit, a refused sale, a second that ends or other clients
\* and their failures never keep the worker from trying all snacks again and
\* again: only an exception of its own request stops it (until the app is
\* started again: nothing else restarts it), or the end of the app.
OnlyItsOwnErrorStopsTheWorker ==
  (\A i \in DOMAIN SnackOrder : []<>(turn = i)) \/ <>[](turn = 0 \/ ~up)
==============================================================================
