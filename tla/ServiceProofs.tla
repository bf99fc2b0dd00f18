---------------------------- MODULE ServiceProofs ----------------------------
(***************************************************************************)
(* The two small services.  The snack bar, for any snacks, rates and       *)
(* clients: sales stay within the rates, and the leaderboard ranks all of  *)
(* them.  The changefeed listener, for                                     *)
(* every log of changes, size of requests and chunks, and number of        *)
(* handlers at a time: what it acknowledges is stored.                     *)
(***************************************************************************)
EXTENDS SnackBar, CdcListener, SetLemmas

-----------------------------------------------------------------------------
(* The snack bar *)

\* The requests between the limiter and the leaderboard.
Pending(s) == {c \in Callers : request[c].at = "record" /\ request[c].snack = s}

Requests == {Idle} \cup [at : {"sell", "record"}, snack : Snacks \cup Unknown]

BarTypes ==
  /\ window \in Nat
  /\ hits \in [Snacks -> Nat]
  /\ dropped \in [Snacks -> Nat]
  /\ \A s \in Snacks : count(s) \in Nat
  /\ request \in [Callers -> Requests]
  /\ \A c \in Callers : request[c].at = "record" => request[c].snack \in Snacks

\* What a snack has used of the seconds gone and of this one.
WithinHits ==
  \A s \in Snacks :
    /\ hits[s] <= SNACK_RATES[s]
    /\ count(s) + Unrecorded(s) + dropped[s] <= SNACK_RATES[s] * window + hits[s]

BarInv == BarTypes /\ WithinHits

-----------------------------------------------------------------------------

LEMMA PendingFinite ==
  ASSUME NEW s
  PROVE  /\ IsFiniteSet(Pending(s)) /\ Unrecorded(s) = Cardinality(Pending(s))
         /\ Unrecorded(s) \in Nat
         /\ \A c \in Pending(s) : Unrecorded(s) >= 1
  <1>1. IsFiniteSet(Callers)
    BY SnackAssumption, FS_AddElement DEF Callers
  <1>2. IsFiniteSet(Pending(s))
    <2>1. Pending(s) \in SUBSET Callers
      BY DEF Pending
    <2> QED BY <1>1, <2>1, FS_Subset
  <1>3. Unrecorded(s) = Cardinality(Pending(s))
    BY DEF Unrecorded, Pending
  <1>4. Cardinality(Pending(s)) \in Nat
    BY <1>2, FS_CardinalityType
  <1>5. Cardinality(Pending(s)) = 0 <=> Pending(s) = {}
    BY <1>2, FS_EmptySet
  <1> QED BY <1>2, <1>3, <1>4, <1>5

\* One request changes: how many wait to be recorded.
LEMMA PendingChange ==
  ASSUME BarTypes, NEW c \in Callers, NEW v, request' = [request EXCEPT ![c] = v], NEW s
  PROVE  Unrecorded(s)' = Unrecorded(s) - (IF c \in Pending(s) THEN 1 ELSE 0)
                            + (IF v.at = "record" /\ v.snack = s THEN 1 ELSE 0)
  <1>1. request'[c] = v /\ \A d \in Callers \ {c} : request'[d] = request[d]
    BY DEF BarTypes
  <1>2. Unrecorded(s)' = Cardinality(Pending(s)')
    BY DEF Unrecorded, Pending
  <1>3. /\ IsFiniteSet(Pending(s)) /\ Unrecorded(s) = Cardinality(Pending(s))
        /\ Unrecorded(s) \in Nat
    BY PendingFinite
  <1> DEFINE rest == Pending(s) \ {c}
  <1>4. /\ IsFiniteSet(rest)
        /\ Cardinality(rest) = Unrecorded(s) - (IF c \in Pending(s) THEN 1 ELSE 0)
    BY <1>3, FS_RemoveElement
  <1>5. CASE v.at = "record" /\ v.snack = s
    <2>1. Pending(s)' = rest \cup {c}
      BY <1>1, <1>5 DEF Pending
    <2>2. Cardinality(Pending(s)') = Cardinality(rest) + 1
      BY <1>4, <2>1, FS_AddElement
    <2> QED BY <1>2, <1>3, <1>4, <1>5, <2>2
  <1>6. CASE ~(v.at = "record" /\ v.snack = s)
    <2>1. Pending(s)' = rest
      BY <1>1, <1>6 DEF Pending
    <2> QED BY <1>2, <1>3, <1>4, <1>6, <2>1
  <1> QED BY <1>5, <1>6

\* The requests stay well formed when one is answered, posted or let through.
LEMMA RequestTypes ==
  ASSUME BarTypes, NEW c \in Callers, NEW v \in Requests,
         v.at = "record" => v.snack \in Snacks,
         request' = [request EXCEPT ![c] = v]
  PROVE  /\ request' \in [Callers -> Requests]
         /\ \A d \in Callers : request'[d].at = "record" => request'[d].snack \in Snacks
  BY DEF BarTypes

LEMMA IdleRequest == Idle \in Requests /\ Idle.at = "idle"
  BY DEF Idle, Requests

\* Recording a sale moves the snack's score by one, and no other's.
LEMMA RecordedCount ==
  ASSUME BarTypes, NEW x \in Snacks, Recorded(x)
  PROVE  \A s \in Snacks : count(s)' = count(s) + (IF s = x THEN 1 ELSE 0)
  <1> SUFFICES ASSUME NEW s \in Snacks
               PROVE  count(s)' = count(s) + (IF s = x THEN 1 ELSE 0)
    OBVIOUS
  <1>1. /\ DOMAIN scores' = DOMAIN scores \cup {x}
        /\ \A y \in DOMAIN scores \cup {x} : scores'[y] = count(y) + (IF y = x THEN 1 ELSE 0)
    BY DEF Recorded
  <1>2. CASE s \in DOMAIN scores \cup {x}
    BY <1>1, <1>2 DEF count
  <1>3. CASE s \notin DOMAIN scores \cup {x}
    BY <1>1, <1>3 DEF count
  <1> QED BY <1>2, <1>3

LEMMA BarInit == SnackInit => BarInv
  <1> SUFFICES ASSUME SnackInit PROVE BarInv
    OBVIOUS
  <1>1. /\ window = 0 /\ hits = [s \in Snacks |-> 0] /\ dropped = [s \in Snacks |-> 0]
        /\ scores = [s \in {} |-> 0] /\ request = [c \in Callers |-> Idle]
    BY DEF SnackInit
  <1>2. \A s \in Snacks : count(s) = 0
    BY <1>1 DEF count
  <1>3. BarTypes
    BY <1>1, <1>2, IdleRequest DEF BarTypes
  <1>4. \A s \in Snacks : Unrecorded(s) = 0
    <2> TAKE s \in Snacks
    <2>1. Pending(s) = {}
      BY <1>1, IdleRequest DEF Pending
    <2> QED BY <2>1, PendingFinite, FS_EmptySet
  <1>5. \A s \in Snacks : SNACK_RATES[s] \in Nat
    BY SnackAssumption
  <1>6. WithinHits
    BY <1>1, <1>2, <1>4, <1>5 DEF WithinHits
  <1> QED BY <1>3, <1>6 DEF BarInv

\* Steps on which no sale enters or leaves the wait for the leaderboard.
LEMMA NoSaleMoves ==
  ASSUME BarInv, NEW c \in Callers, NEW v \in Requests,
         request[c].at # "record", v.at # "record",
         request' = [request EXCEPT ![c] = v],
         UNCHANGED <<window, hits, scores, dropped>>
  PROVE  BarInv'
  <1>1. \A s \in Snacks : count(s)' = count(s) /\ Unrecorded(s)' = Unrecorded(s)
    <2> TAKE s \in Snacks
    <2>1. c \notin Pending(s)
      BY DEF Pending
    <2>2. Unrecorded(s)' = Unrecorded(s) - 0 + 0
      BY <2>1, PendingChange DEF BarInv
    <2> QED BY <2>2, PendingFinite DEF count
  <1>2. BarTypes'
    BY <1>1, RequestTypes DEF BarInv, BarTypes
  <1>3. WithinHits'
    BY <1>1 DEF BarInv, WithinHits
  <1> QED BY <1>2, <1>3 DEF BarInv

\* An admitted sale is recorded or lost.
LEMMA SaleEnds ==
  ASSUME BarInv, NEW c \in Callers, NEW x \in Snacks,
         request[c].at = "record", request[c].snack = x,
         request' = [request EXCEPT ![c] = Idle],
         UNCHANGED <<window, hits>>,
         \/ Recorded(x) /\ dropped' = dropped
         \/ dropped' = [dropped EXCEPT ![x] = @ + 1] /\ scores' = scores
  PROVE  BarInv'
  <1>1. \A s \in Snacks :
          /\ count(s) \in Nat /\ dropped[s] \in Nat /\ Unrecorded(s) \in Nat
          /\ Unrecorded(s)' = Unrecorded(s) - (IF s = x THEN 1 ELSE 0)
          /\ count(s)' \in Nat /\ dropped'[s] \in Nat
          /\ count(s)' + dropped'[s] = count(s) + dropped[s] + (IF s = x THEN 1 ELSE 0)
    <2> TAKE s \in Snacks
    <2>1. c \in Pending(s) <=> s = x
      BY DEF Pending
    <2>2. Unrecorded(s) \in Nat /\ Unrecorded(s)' = Unrecorded(s) - (IF s = x THEN 1 ELSE 0)
      <3>1. Unrecorded(s)' = Unrecorded(s) - (IF c \in Pending(s) THEN 1 ELSE 0) + 0
        BY PendingChange, IdleRequest DEF BarInv
      <3> QED BY <2>1, <3>1, PendingFinite
    <2>3. count(s) \in Nat /\ dropped[s] \in Nat
      BY DEF BarInv, BarTypes
    <2>4. CASE Recorded(x) /\ dropped' = dropped
      BY <2>2, <2>3, <2>4, RecordedCount DEF BarInv
    <2>5. CASE dropped' = [dropped EXCEPT ![x] = @ + 1] /\ scores' = scores
      <3>1. count(s)' = count(s)
        BY <2>5 DEF count
      <3> QED BY <2>2, <2>3, <2>5, <3>1 DEF BarInv, BarTypes
    <2> QED BY <2>4, <2>5
  <1>2. dropped' \in [Snacks -> Nat]
    BY <1>1 DEF BarInv, BarTypes
  <1>3. BarTypes'
    BY <1>1, <1>2, RequestTypes, IdleRequest DEF BarInv, BarTypes
  <1>4. WithinHits'
    <2> SUFFICES ASSUME NEW s \in Snacks
                 PROVE  /\ hits'[s] <= SNACK_RATES[s]
                        /\ count(s)' + Unrecorded(s)' + dropped'[s]
                             <= SNACK_RATES[s] * window' + hits'[s]
      BY DEF WithinHits
    <2>1. count(s)' + Unrecorded(s)' + dropped'[s] = count(s) + Unrecorded(s) + dropped[s]
      <3> DEFINE one == IF s = x THEN 1 ELSE 0
      <3>1. PICK n1 \in Nat, l1 \in Nat : n1 = count(s)' /\ l1 = dropped'[s]
        BY <1>1
      <3>2. PICK n \in Nat, l \in Nat, u \in Nat : n = count(s) /\ l = dropped[s] /\ u = Unrecorded(s)
        BY <1>1
      <3>3. n1 + l1 = n + l + one /\ Unrecorded(s)' = u - one /\ one \in Nat
        BY <1>1, <3>1, <3>2
      <3> HIDE DEF one
      <3>4. n1 + (u - one) + l1 = n + u + l
        BY <3>3
      <3> QED BY <3>1, <3>2, <3>3, <3>4
    <2> QED BY <2>1 DEF BarInv, WithinHits
  <1> QED BY <1>3, <1>4 DEF BarInv

LEMMA HitKeepsInv ==
  ASSUME BarInv, NEW c \in Callers, Hit(c)
  PROVE  BarInv'
  <1>1. PICK x \in Snacks : x = request[c].snack
    BY DEF Hit
  <1>2. /\ request[c].at = "sell" /\ request[c] \in Requests
        /\ UNCHANGED <<window, scores, dropped>>
    BY DEF Hit, BarInv, BarTypes
  <1>3. CASE ~allowed(x)
    <2>1. request' = [request EXCEPT ![c] = Idle] /\ hits' = hits
      BY <1>1, <1>3 DEF Hit, Answered
    <2> QED BY <1>2, <2>1, NoSaleMoves, IdleRequest
  <1>4. CASE allowed(x)
    <2> DEFINE v == [request[c] EXCEPT !.at = "record"]
    <2>1. hits' = [hits EXCEPT ![x] = @ + 1] /\ request' = [request EXCEPT ![c] = v]
      BY <1>1, <1>4 DEF Hit
    <2>2. v \in Requests /\ v.at = "record" /\ v.snack = x
      <3>1. request[c] \in [at : {"sell", "record"}, snack : Snacks \cup Unknown]
        BY <1>2, IdleRequest DEF Requests
      <3> QED BY <1>1, <3>1 DEF Requests
    <2> HIDE DEF v
    <2>3. \A s \in Snacks :
            /\ count(s)' = count(s) /\ Unrecorded(s) \in Nat
            /\ Unrecorded(s)' = Unrecorded(s) + (IF s = x THEN 1 ELSE 0)
      <3> TAKE s \in Snacks
      <3>1. c \notin Pending(s)
        BY <1>2 DEF Pending
      <3>2. Unrecorded(s)' = Unrecorded(s) - 0 + (IF v.at = "record" /\ v.snack = s THEN 1 ELSE 0)
        BY <2>1, <3>1, PendingChange DEF BarInv
      <3> QED BY <1>2, <2>2, <3>2, PendingFinite DEF count
    <2>4. BarTypes'
      BY <1>2, <2>1, <2>2, <2>3, RequestTypes DEF BarInv, BarTypes
    <2>5. WithinHits'
      <3> SUFFICES ASSUME NEW s \in Snacks
                   PROVE  /\ hits'[s] <= SNACK_RATES[s]
                          /\ count(s)' + Unrecorded(s)' + dropped'[s]
                               <= SNACK_RATES[s] * window' + hits'[s]
        BY DEF WithinHits
      <3>1. /\ hits[s] \in Nat /\ SNACK_RATES[s] \in Nat /\ count(s) \in Nat /\ dropped[s] \in Nat
            /\ hits[s] <= SNACK_RATES[s] /\ SNACK_RATES[s] * window \in Nat
            /\ count(s) + Unrecorded(s) + dropped[s] <= SNACK_RATES[s] * window + hits[s]
        <4>1. SNACK_RATES[s] \in Nat
          BY SnackAssumption
        <4>2. window \in Nat
          BY DEF BarInv, BarTypes
        <4>3. SNACK_RATES[s] * window \in Nat
          BY <4>1, <4>2
        <4> QED BY <4>1, <4>3 DEF BarInv, BarTypes, WithinHits
      <3>2. hits'[s] = hits[s] + (IF s = x THEN 1 ELSE 0) /\ hits[x] < SNACK_RATES[x]
        BY <1>4, <2>1, <3>1 DEF allowed, BarInv, BarTypes
      <3>3. window' = window /\ dropped' = dropped
        BY <1>2
      <3> QED BY <2>3, <3>1, <3>2, <3>3
    <2> QED BY <2>4, <2>5 DEF BarInv
  <1> QED BY <1>3, <1>4

LEMMA TickKeepsInv == ASSUME BarInv, Tick PROVE BarInv'
  <1>1. /\ window' = window + 1 /\ hits' = [s \in Snacks |-> 0]
        /\ UNCHANGED <<scores, request, dropped>>
    BY DEF Tick
  <1>2. \A s \in Snacks : count(s)' = count(s) /\ Unrecorded(s)' = Unrecorded(s)
    BY <1>1 DEF count, Unrecorded
  <1>3. BarTypes'
    BY <1>1, <1>2 DEF BarInv, BarTypes
  <1>4. WithinHits'
    <2> SUFFICES ASSUME NEW s \in Snacks
                 PROVE  /\ hits'[s] <= SNACK_RATES[s]
                        /\ count(s)' + Unrecorded(s)' + dropped'[s]
                             <= SNACK_RATES[s] * window' + hits'[s]
      BY DEF WithinHits
    <2>1. /\ SNACK_RATES[s] \in Nat /\ window \in Nat /\ hits[s] \in Nat /\ hits[s] <= SNACK_RATES[s]
          /\ count(s) \in Nat /\ dropped[s] \in Nat /\ Unrecorded(s) \in Nat
          /\ count(s) + Unrecorded(s) + dropped[s] <= SNACK_RATES[s] * window + hits[s]
      BY SnackAssumption, PendingFinite DEF BarInv, BarTypes, WithinHits
    <2>2. SNACK_RATES[s] * (window + 1) = SNACK_RATES[s] * window + SNACK_RATES[s]
          /\ SNACK_RATES[s] * window \in Nat
      BY <2>1
    <2> QED BY <1>1, <1>2, <2>1, <2>2
  <1> QED BY <1>3, <1>4 DEF BarInv

LEMMA BarStep == BarInv /\ [SnackNext]_snackVars => BarInv'
  <1> SUFFICES ASSUME BarInv, [SnackNext]_snackVars PROVE BarInv'
    OBVIOUS
  <1>1. CASE UNCHANGED <<window, hits, scores, request, dropped>>
    BY <1>1 DEF BarInv, BarTypes, WithinHits, count, Unrecorded
  <1>2. CASE read_leaderboard \/ Startup \/ UNCHANGED snackVars
    BY <1>1, <1>2 DEF read_leaderboard, Startup, snackVars
  <1>3. ASSUME NEW c \in Callers, NEW s \in Snacks \cup Unknown, Post(c, s) PROVE BarInv'
    <2>1. /\ request[c] = Idle /\ UNCHANGED <<window, hits, scores, dropped>>
          /\ request' = [request EXCEPT ![c] = [at |-> "sell", snack |-> s]]
      BY <1>3 DEF Post
    <2>2. [at |-> "sell", snack |-> s] \in Requests
      BY DEF Requests
    <2> QED BY <2>1, <2>2, NoSaleMoves, IdleRequest
  <1>4. ASSUME NEW c \in Callers, UnknownSnack(c) PROVE BarInv'
    BY <1>4, NoSaleMoves, IdleRequest DEF UnknownSnack, Answered
  <1>5. ASSUME NEW c \in Callers, Record(c) PROVE BarInv'
    <2>1. request[c].snack \in Snacks
      BY <1>5 DEF Record, BarInv, BarTypes
    <2> QED BY <1>5, <2>1, SaleEnds DEF Record, Answered
  <1>6. ASSUME NEW c \in Callers, Raise(c) PROVE BarInv'
    <2>1. CASE request[c].at = "record"
      <3>1. request[c].snack \in Snacks
        BY <2>1 DEF BarInv, BarTypes
      <3> QED BY <1>6, <2>1, <3>1, SaleEnds DEF Raise
    <2>2. CASE request[c].at # "record"
      BY <1>6, <2>2, NoSaleMoves, IdleRequest DEF Raise
    <2> QED BY <2>1, <2>2
  <1>7. ASSUME Shutdown PROVE BarInv'
    <2>1. Worker \in Callers
      BY DEF Callers
    <2>2. CASE request[Worker].at = "record"
      <3>1. request[Worker].snack \in Snacks
        BY <2>1, <2>2 DEF BarInv, BarTypes
      <3> QED BY <1>7, <2>1, <2>2, <3>1, SaleEnds DEF Shutdown
    <2>3. CASE request[Worker].at # "record"
      BY <1>7, <2>1, <2>3, NoSaleMoves, IdleRequest DEF Shutdown
    <2> QED BY <2>2, <2>3
  <1> QED BY <1>2, <1>3, <1>4, <1>5, <1>6, <1>7, HitKeepsInv, TickKeepsInv DEF SnackNext, Handle

\* For any snacks, rates and number of clients, with sales lost between the
\* limiter and the leaderboard and with restarts, no snack's count ever runs
\* ahead of its rate (main.py's sale route and record_sale).
THEOREM SalesStayWithinTheRates == SnackSpec => []GrowthWithinRate
  <1>1. BarInv => GrowthWithinRate
    <2> SUFFICES ASSUME BarInv, NEW s \in Snacks
                 PROVE  count(s) + Unrecorded(s) + dropped[s] <= SNACK_RATES[s] * (window + 1)
      BY DEF GrowthWithinRate
    <2>1. /\ SNACK_RATES[s] \in Nat /\ window \in Nat /\ hits[s] \in Nat /\ hits[s] <= SNACK_RATES[s]
          /\ count(s) \in Nat /\ dropped[s] \in Nat /\ Unrecorded(s) \in Nat
          /\ count(s) + Unrecorded(s) + dropped[s] <= SNACK_RATES[s] * window + hits[s]
      BY SnackAssumption, PendingFinite DEF BarInv, BarTypes, WithinHits
    <2>2. SNACK_RATES[s] * (window + 1) = SNACK_RATES[s] * window + SNACK_RATES[s]
          /\ SNACK_RATES[s] * window \in Nat
      BY <2>1
    <2> QED BY <2>1, <2>2
  <1> QED BY <1>1, BarInit, BarStep, PTL DEF SnackSpec

-----------------------------------------------------------------------------

\* A snack for each row, the rows by falling count.
IsBoard(b) ==
  /\ Len(b) = Cardinality(Snacks)
  /\ {b[i].snack : i \in DOMAIN b} = Snacks
  /\ \A i, j \in DOMAIN b : i < j => b[i].count >= b[j].count

\* The registry has as many places as snacks.
LEMMA PlacesAreSnacks ==
  /\ Len(SnackOrder) \in Nat /\ DOMAIN SnackOrder = 1..Len(SnackOrder)
  /\ \A i \in DOMAIN SnackOrder : SnackOrder[i] \in Snacks
  /\ Len(SnackOrder) = Cardinality(Snacks)
  <1>1. PICK n \in Nat : n = Len(SnackOrder) /\ SnackOrder \in [1..n -> Snacks]
    BY SnackAssumption
  <1>2. SnackOrder \in Surjection(1..n, Snacks) /\ SnackOrder \in Injection(1..n, Snacks)
    BY <1>1, SnackAssumption DEF Surjection, Injection, IsInjective
  <1>3. Cardinality(Snacks) = Cardinality(1..n)
    BY <1>2, UpToHas, FS_Surjection
  <1> QED BY <1>1, <1>3, UpToHas

\* Sorting the rows loses none and brings the best seller to the front.
LEMMA RankedIsBoard ==
  ASSUME BarTypes, NEW b, b = ranked
  PROVE  IsBoard(b)
  <1>1. PICK n \in Nat : n = Cardinality(Snacks) /\ DOMAIN SnackOrder = 1..n
                         /\ \A i \in 1..n : SnackOrder[i] \in Snacks
    BY PlacesAreSnacks
  <1>2. PICK r : r = rows
    OBVIOUS
  <1>3. /\ DOMAIN r = 1..n
        /\ \A i \in 1..n : r[i].snack = SnackOrder[i] /\ r[i].count \in Nat
    BY <1>1, <1>2 DEF rows, BarTypes
  <1>4. PICK key : key = [i \in DOMAIN r |-> -r[i].count] /\ key \in [1..n -> Int]
    <2> DEFINE k == [i \in DOMAIN r |-> -r[i].count]
    <2>1. \A i \in 1..n : -r[i].count \in Int
      BY <1>3
    <2>2. k \in [1..n -> Int]
      BY <1>3, <2>1
    <2> QED BY <2>2
  <1>5. PICK pos : pos = SortedPositions(key) /\ Sorts(pos, key, n)
    <2>1. Sorts(SortedPositions(key), key, n)
      BY <1>4, PositionsAreSorted
    <2> QED BY <2>1
  <1>6. /\ pos \in [1..n -> 1..n]
        /\ \A i \in 1..n : \E p \in 1..n : pos[p] = i
        /\ \A p, q \in 1..n : p < q => key[pos[p]] <= key[pos[q]]
    <2>1. Sorts(pos, key, n)
      BY <1>5
    <2> QED BY <2>1 DEF Sorts
  <1>7. b = [i \in 1..n |-> r[pos[i]]]
    BY <1>2, <1>3, <1>4, <1>5 DEF ranked
  <1>8. Len(b) = n /\ DOMAIN b = 1..n
    BY <1>7
  <1>9. {b[i].snack : i \in DOMAIN b} = Snacks
    <2>1. \A i \in 1..n : b[i].snack \in Snacks
      <3> TAKE i \in 1..n
      <3>1. pos[i] \in 1..n
        BY <1>6
      <3> QED BY <1>1, <1>3, <1>7, <3>1
    <2>2. \A s \in Snacks : \E i \in 1..n : b[i].snack = s
      <3> TAKE s \in Snacks
      <3>1. PICK k \in 1..n : SnackOrder[k] = s
        BY <1>1, SnackAssumption
      <3>2. PICK i \in 1..n : pos[i] = k
        BY <1>6
      <3> QED BY <1>3, <1>7, <3>1, <3>2
    <2> QED BY <1>8, <2>1, <2>2
  <1>10. ASSUME NEW i \in 1..n, NEW j \in 1..n, i < j PROVE b[i].count >= b[j].count
    <2>1. PICK k \in 1..n, l \in 1..n : k = pos[i] /\ l = pos[j]
      BY <1>6
    <2>2. key[k] <= key[l]
      BY <1>6, <1>10, <2>1
    <2>3. PICK x \in Nat, y \in Nat : x = r[k].count /\ y = r[l].count
      BY <1>3
    <2>4. key[k] = -x /\ key[l] = -y
      BY <1>3, <1>4, <2>3
    <2>5. x >= y
      BY <2>2, <2>4
    <2>6. b[i] = r[k] /\ b[j] = r[l]
      BY <1>7, <2>1
    <2> QED BY <2>3, <2>5, <2>6
  <1> QED BY <1>1, <1>8, <1>9, <1>10 DEF IsBoard

LEMMA BoardStep ==
  BarInv /\ BoardRanksAllSnacks /\ [SnackNext]_snackVars => BoardRanksAllSnacks'
  <1> SUFFICES ASSUME BarInv, BoardRanksAllSnacks, [SnackNext]_snackVars
               PROVE  BoardRanksAllSnacks'
    OBVIOUS
  <1>1. BoardRanksAllSnacks <=> (board # <<>> => IsBoard(board))
    BY DEF BoardRanksAllSnacks, IsBoard
  <1>2. BoardRanksAllSnacks' <=> (board' # <<>> => IsBoard(board'))
    BY DEF BoardRanksAllSnacks, IsBoard
  <1>3. CASE read_leaderboard
    <2>1. PICK b : b = board'
      OBVIOUS
    <2> QED BY <1>2, <1>3, <2>1, RankedIsBoard DEF read_leaderboard, BarInv
  <1>4. CASE ~read_leaderboard
    <2>1. board' = board
      BY <1>4 DEF SnackNext, snackVars, Tick, Post, Handle, UnknownSnack, Hit, Record, Raise,
                  Shutdown, Startup
    <2> QED BY <1>1, <1>2, <2>1
  <1> QED BY <1>3, <1>4

\* For any snacks and any sales: a leaderboard read lists every snack of the
\* registry once, unsold ones too, by falling count (read_leaderboard).
THEOREM BoardIsRanked == SnackSpec => []BoardRanksAllSnacks
  <1>1. SnackInit => BoardRanksAllSnacks
    BY DEF SnackInit, BoardRanksAllSnacks
  <1>2. BarInv /\ BoardRanksAllSnacks /\ [SnackNext]_snackVars => BarInv' /\ BoardRanksAllSnacks'
    BY BarStep, BoardStep
  <1> QED BY <1>1, <1>2, BarInit, PTL DEF SnackSpec

-----------------------------------------------------------------------------
(* The changefeed listener *)

-----------------------------------------------------------------------------
(* The sequence that the first pass makes *)

\* Changes are numbered from 1.
LEMMA UsableInLog ==
  Len(Log) \in Nat /\ UsableChanges \subseteq 1..Len(Log)
  BY CdcAssumption DEF UsableChanges

\* The changes of a request are a finite set of naturals.
LEMMA UsableFinite ==
  ASSUME NEW lo \in Nat, NEW hi \in Nat
  PROVE  /\ UsableChanges \cap (lo+1..hi) \in SUBSET Nat
         /\ IsFiniteSet(UsableChanges \cap (lo+1..hi))
  <1>1. IsFiniteSet(lo+1..hi)
    BY FS_Interval
  <1>2. UsableChanges \cap (lo+1..hi) \in SUBSET (lo+1..hi)
    OBVIOUS
  <1> QED BY <1>1, <1>2, FS_Subset

\* The list w has just the usable changes lo+1..hi, in order.
ListsRange(w, lo, hi) ==
  /\ w \in Seq(Nat)
  /\ \A p \in DOMAIN w : w[p] \in UsableChanges /\ lo < w[p] /\ w[p] <= hi
  /\ \A p, q \in DOMAIN w : p < q => w[p] < w[q]
  /\ \A i \in UsableChanges : lo < i /\ i <= hi => \E p \in DOMAIN w : w[p] = i

\* The first pass lists just the usable changes of the request, in order.
LEMMA ToWriteLists ==
  ASSUME NEW lo \in Nat, NEW hi \in Nat, NEW w, w = toWrite(lo, hi)
  PROVE  ListsRange(w, lo, hi)
  <1> DEFINE S == UsableChanges \cap (lo+1..hi)
             N == Cardinality(S)
  <1>1. S \in SUBSET Nat /\ S \in SUBSET Int /\ IsFiniteSet(S)
    BY UsableFinite
  <1>2. \A i \in S : i \in UsableChanges /\ lo < i /\ i <= hi
    OBVIOUS
  <1>3. \A i \in UsableChanges : lo < i /\ i <= hi => i \in S
    BY UsableInLog
  <1>4. w = [p \in 1..N |-> Nth(S, p)]
    BY DEF toWrite, Ascending
  <1> HIDE DEF S
  <1>5. /\ N \in Nat /\ \A p \in 1..N : Nth(S, p) \in S
        /\ \A p, q \in 1..N : p < q => Nth(S, p) < Nth(S, q)
        /\ \A i \in S : \E p \in 1..N : Nth(S, p) = i
    BY <1>1, NthIs
  <1> HIDE DEF N
  <1>6. w \in Seq(Nat) /\ DOMAIN w = 1..N
    <2>1. w \in [1..N -> Nat]
      BY <1>1, <1>4, <1>5
    <2> QED BY <1>5, <2>1
  <1> QED BY <1>2, <1>3, <1>4, <1>5, <1>6 DEF ListsRange

-----------------------------------------------------------------------------
(* The invariant *)

Readings == [stage : {"read"}, awaited : BOOLEAN, lo : Nat, hi : Nat]

Writings ==
  [stage : {"write"}, awaited : BOOLEAN, lo : Nat, hi : Nat, toWrite : Seq(Nat),
   start : Nat, next : Nat]

HandlerTypes ==
  /\ acked \in 0..Len(Log)
  /\ handlers \in [Handlers -> {Free} \cup Readings \cup Writings]
  /\ faults \in Nat

\* One request at a time is waited for, and it begins where the acknowledged
\* changes end.
OneAwaited ==
  /\ \A g, h \in Handlers : Awaited(g) /\ Awaited(h) => g = h
  /\ \A h \in Handlers : Awaited(h) => handlers[h].lo = acked
  /\ \A h \in Handlers : Busy(h) => handlers[h].hi <= Len(Log)

\* A handler writes what the first pass listed, chunk after chunk.
ListIsKept ==
  \A h \in Handlers :
    handlers[h].stage = "write" =>
      /\ handlers[h].toWrite = toWrite(handlers[h].lo, handlers[h].hi)
      /\ handlers[h].start <= handlers[h].next

\* The changes that an awaited request has written so far.
Written(h) ==
  {i \in UsableChanges :
     /\ Awaited(h) /\ handlers[h].stage = "write"
     /\ \E p \in DOMAIN handlers[h].toWrite :
          p <= handlers[h].next /\ handlers[h].toWrite[p] = i}

\* The changes to a key that are acknowledged, or will be with the request.
Done(k) ==
  {i \in UsableChanges :
     keyOf[i] = k /\ (i <= acked \/ \E h \in Handlers : i \in Written(h))}

\* The document of a key is that of its last change done, or of a later one.
Stored ==
  \A k \in {keyOf[i] : i \in UsableChanges} \ (lost \cup late) :
    Done(k) # {} =>
      /\ k \in DOMAIN db
      /\ \E i \in UsableChanges : /\ keyOf[i] = k /\ db[k] = docOf[i]
                                  /\ \A j \in Done(k) : j <= i

CdcInv == HandlerTypes /\ OneAwaited /\ ListIsKept /\ Stored

-----------------------------------------------------------------------------

\* A step that writes nothing keeps what is stored, if it takes nothing more
\* for done but for keys it counts as lost.
LEMMA StoredStays ==
  ASSUME Stored, db' = db, lost \subseteq lost', late \subseteq late',
         \A k \in {keyOf[i] : i \in UsableChanges} \ (lost' \cup late') : Done(k)' \subseteq Done(k)
  PROVE  Stored'
  <1> SUFFICES ASSUME NEW k \in {keyOf[i] : i \in UsableChanges} \ (lost' \cup late'),
                      Done(k)' # {}
               PROVE  /\ k \in DOMAIN db
                      /\ \E i \in UsableChanges : /\ keyOf[i] = k /\ db[k] = docOf[i]
                                                  /\ \A j \in Done(k)' : j <= i
    BY DEF Stored
  <1>1. k \in {keyOf[i] : i \in UsableChanges} \ (lost \cup late) /\ Done(k)' \subseteq Done(k)
    OBVIOUS
  <1>2. /\ k \in DOMAIN db
        /\ \E i \in UsableChanges : /\ keyOf[i] = k /\ db[k] = docOf[i]
                                    /\ \A j \in Done(k) : j <= i
    BY <1>1 DEF Stored
  <1> QED BY <1>1, <1>2

\* What a handler's stage says of it.
LEMMA HandlerShapes ==
  ASSUME HandlerTypes, NEW h \in Handlers
  PROVE  /\ handlers[h].stage = "free" => handlers[h] = Free
         /\ handlers[h].stage = "read" => handlers[h] \in Readings
         /\ handlers[h].stage = "write" => handlers[h] \in Writings
         /\ Busy(h) => handlers[h] \in Readings \cup Writings
  BY DEF HandlerTypes, Free, Readings, Writings, Busy

\* A step of one handler is none of another.
LEMMA OthersStay ==
  ASSUME HandlerTypes, NEW h \in Handlers, NEW w, handlers' = [handlers EXCEPT ![h] = w]
  PROVE  /\ handlers'[h] = w
         /\ \A g \in Handlers \ {h} : handlers'[g] = handlers[g]
         /\ \A g \in Handlers \ {h} : Awaited(g)' <=> Awaited(g)
         /\ \A g \in Handlers \ {h} : Busy(g)' <=> Busy(g)
         /\ \A g \in Handlers \ {h} : Written(g)' = Written(g)
  <1>1. handlers'[h] = w /\ \A g \in Handlers \ {h} : handlers'[g] = handlers[g]
    BY DEF HandlerTypes
  <1> QED BY <1>1 DEF Awaited, Busy, Written

\* A step of one handler that keeps its types, is awaited at most if it was,
\* or if no other is, and writes nothing, keeps the invariant.
LEMMA HandlerMoves ==
  ASSUME CdcInv, NEW h \in Handlers, NEW w, handlers' = [handlers EXCEPT ![h] = w],
         w \in {Free} \cup Readings \cup Writings,
         w.stage # "free" => w.hi <= Len(Log),
         (w.stage # "free" /\ w.awaited) =>
            w.lo = acked /\ (Awaited(h) \/ \A g \in Handlers : ~Awaited(g)),
         w.stage = "write" => w.toWrite = toWrite(w.lo, w.hi) /\ w.start <= w.next,
         acked' = acked, faults' \in Nat, db' = db, late' = late, lost \subseteq lost',
         \A i \in Written(h)' : i \in Written(h) \/ keyOf[i] \in lost'
  PROVE  CdcInv'
  <1>1. /\ handlers'[h] = w
        /\ \A g \in Handlers \ {h} : handlers'[g] = handlers[g]
        /\ \A g \in Handlers \ {h} : Awaited(g)' <=> Awaited(g)
        /\ \A g \in Handlers \ {h} : Busy(g)' <=> Busy(g)
        /\ \A g \in Handlers \ {h} : Written(g)' = Written(g)
    BY OthersStay DEF CdcInv
  <1>2. HandlerTypes'
    BY DEF CdcInv, HandlerTypes
  <1>3. Busy(h)' <=> w.stage # "free"
    BY <1>1 DEF Busy
  <1>4. Awaited(h)' <=> w.stage # "free" /\ w.awaited
    BY <1>1, <1>3 DEF Awaited
  <1>5. OneAwaited'
    BY <1>1, <1>3, <1>4 DEF CdcInv, OneAwaited
  <1>6. ListIsKept'
    BY <1>1 DEF CdcInv, ListIsKept
  <1>7. \A k \in {keyOf[i] : i \in UsableChanges} \ (lost' \cup late') : Done(k)' \subseteq Done(k)
    BY <1>1 DEF Done
  <1>8. Stored'
    BY <1>7, StoredStays DEF CdcInv
  <1> QED BY <1>2, <1>5, <1>6, <1>8 DEF CdcInv

\* The sender sends the next changes.
LEMMA SendKeepsInv ==
  ASSUME CdcInv, NEW h \in Handlers, Send(h)
  PROVE  CdcInv'
  <1>1. PICK n \in 1..MaxItems :
          /\ acked + n <= Len(Log)
          /\ handlers' = [handlers EXCEPT ![h] =
               [stage |-> "read", awaited |-> TRUE, lo |-> acked, hi |-> acked + n]]
    BY DEF Send
  <1> DEFINE w == [stage |-> "read", awaited |-> TRUE, lo |-> acked, hi |-> acked + n]
  <1>2. acked \in Nat /\ n \in Nat /\ faults \in Nat
    BY CdcAssumption, UsableInLog DEF CdcInv, HandlerTypes
  <1>3. w \in Readings
    BY <1>2 DEF Readings
  <1>4. UNCHANGED <<acked, db, lost, late, faults>> /\ \A g \in Handlers : ~Awaited(g)
    BY DEF Send
  <1>5. handlers'[h] = w
    BY <1>1 DEF CdcInv, HandlerTypes
  <1>6. Written(h)' = {}
    BY <1>5 DEF Written
  <1>7. /\ handlers' = [handlers EXCEPT ![h] = w] /\ w.stage = "read" /\ w.lo = acked
        /\ w.hi <= Len(Log)
    BY <1>1
  <1> HIDE DEF w
  <1> QED BY <1>2, <1>3, <1>4, <1>6, <1>7, HandlerMoves

\* The first pass.
LEMMA ReceiveKeepsInv ==
  ASSUME CdcInv, NEW h \in Handlers, Receive(h)
  PROVE  CdcInv'
  <1> DEFINE v == handlers[h]
             w == [stage |-> "write", awaited |-> v.awaited, lo |-> v.lo, hi |-> v.hi,
                   toWrite |-> toWrite(v.lo, v.hi), start |-> 0, next |-> 0]
  <1>1. /\ v.stage = "read" /\ handlers' = [handlers EXCEPT ![h] = w]
        /\ UNCHANGED <<acked, db, lost, late, faults>>
    BY DEF Receive, CdcInv, HandlerTypes
  <1>2. v \in Readings
    BY <1>1, HandlerShapes DEF CdcInv
  <1>3. v.lo \in Nat /\ v.hi \in Nat /\ v.awaited \in BOOLEAN
    BY <1>2 DEF Readings
  <1>4. toWrite(v.lo, v.hi) \in Seq(Nat)
    BY <1>3, ToWriteLists DEF ListsRange
  <1>5. w \in Writings
    BY <1>3, <1>4 DEF Writings
  <1>6. Busy(h) /\ (v.awaited <=> Awaited(h)) /\ faults \in Nat
    BY <1>1 DEF Busy, Awaited, CdcInv, HandlerTypes
  <1>7. v.hi <= Len(Log) /\ (v.awaited => v.lo = acked)
    BY <1>6 DEF CdcInv, OneAwaited
  <1>8. handlers'[h] = w
    BY <1>1 DEF CdcInv, HandlerTypes
  <1>9. Written(h)' = {}
    BY <1>4, <1>8 DEF Written
  <1>10. /\ w.stage = "write" /\ w.awaited = v.awaited /\ w.lo = v.lo /\ w.hi = v.hi
         /\ w.toWrite = toWrite(w.lo, w.hi) /\ w.start <= w.next
    OBVIOUS
  <1> HIDE DEF w, v
  <1> QED BY <1>1, <1>5, <1>6, <1>7, <1>9, <1>10, HandlerMoves

\* A refused request is over.
LEMMA RefuseKeepsInv ==
  ASSUME CdcInv, NEW h \in Handlers, Refuse(h)
  PROVE  CdcInv'
  <1>1. /\ handlers' = [handlers EXCEPT ![h] = Free] /\ faults' = faults + 1
        /\ UNCHANGED <<acked, db, lost, late>>
    BY DEF Refuse, Fault
  <1>2. Free.stage = "free" /\ faults' \in Nat
    BY <1>1 DEF Free, CdcInv, HandlerTypes
  <1>3. Written(h)' = {}
    BY <1>1 DEF Written, Free, CdcInv, HandlerTypes
  <1> QED BY <1>1, <1>2, <1>3, HandlerMoves

\* What a writing handler is at.
LEMMA WriterFacts ==
  ASSUME CdcInv, NEW h \in Handlers, handlers[h].stage = "write"
  PROVE  LET v == handlers[h]
         IN  /\ v \in Writings /\ Busy(h) /\ (v.awaited <=> Awaited(h))
             /\ v.lo \in Nat /\ v.hi \in Nat /\ v.start \in Nat /\ v.next \in Nat
             /\ v.hi <= Len(Log) /\ (v.awaited => v.lo = acked)
             /\ v.toWrite = toWrite(v.lo, v.hi) /\ v.toWrite \in Seq(Nat)
             /\ Len(v.toWrite) \in Nat /\ DOMAIN v.toWrite = 1..Len(v.toWrite)
             /\ v.start <= v.next
             /\ ChunkEnd(v) \in Nat /\ ChunkEnd(v) <= Len(v.toWrite)
             /\ ChunkEnd(v) <= v.start + maxBatchSize
             /\ \A p \in DOMAIN v.toWrite : v.toWrite[p] \in UsableChanges /\ v.lo < v.toWrite[p]
             /\ \A p, q \in DOMAIN v.toWrite : p < q => v.toWrite[p] < v.toWrite[q]
             /\ \A i \in UsableChanges :
                  v.lo < i /\ i <= v.hi => \E p \in DOMAIN v.toWrite : v.toWrite[p] = i
  <1> DEFINE v == handlers[h]
  <1>1. v \in Writings /\ Busy(h) /\ (v.awaited <=> Awaited(h))
    BY HandlerShapes DEF Busy, Awaited, CdcInv
  <1>2. /\ v.lo \in Nat /\ v.hi \in Nat /\ v.start \in Nat /\ v.next \in Nat
        /\ v.toWrite \in Seq(Nat)
    BY <1>1 DEF Writings
  <1>3. v.hi <= Len(Log) /\ (v.awaited => v.lo = acked)
    BY <1>1 DEF CdcInv, OneAwaited
  <1>4. v.toWrite = toWrite(v.lo, v.hi) /\ v.start <= v.next
    BY DEF CdcInv, ListIsKept
  <1>5. Len(v.toWrite) \in Nat /\ DOMAIN v.toWrite = 1..Len(v.toWrite)
    BY <1>2
  <1>6. /\ ChunkEnd(v) \in Nat /\ ChunkEnd(v) <= Len(v.toWrite)
        /\ ChunkEnd(v) <= v.start + maxBatchSize
    BY <1>2, <1>5, CdcAssumption DEF ChunkEnd, LeastOf
  <1>7. ListsRange(v.toWrite, v.lo, v.hi)
    BY <1>2, <1>4, ToWriteLists
  <1>8. /\ \A p \in DOMAIN v.toWrite : v.toWrite[p] \in UsableChanges /\ v.lo < v.toWrite[p]
        /\ \A p, q \in DOMAIN v.toWrite : p < q => v.toWrite[p] < v.toWrite[q]
        /\ \A i \in UsableChanges :
             v.lo < i /\ i <= v.hi => \E p \in DOMAIN v.toWrite : v.toWrite[p] = i
    <2> HIDE DEF v
    <2> QED BY <1>7 DEF ListsRange
  <1> QED BY <1>1, <1>2, <1>3, <1>4, <1>5, <1>6, <1>8

\* Moving on, or back, without a write.
LEMMA MoveInChunk ==
  ASSUME CdcInv, NEW h \in Handlers, handlers[h].stage = "write",
         NEW s \in Nat, NEW n \in Nat, s <= n,
         handlers' = [handlers EXCEPT ![h] = [handlers[h] EXCEPT !.start = s, !.next = n]],
         acked' = acked, faults' \in Nat, db' = db, late' = late, lost \subseteq lost',
         \A p \in DOMAIN handlers[h].toWrite :
           p <= n => p <= handlers[h].next \/ keyOf[handlers[h].toWrite[p]] \in lost'
  PROVE  CdcInv'
  <1> DEFINE v == handlers[h]
             w == [v EXCEPT !.start = s, !.next = n]
  <1>1. v \in Writings /\ Busy(h) /\ (v.awaited <=> Awaited(h)) /\ v.hi <= Len(Log)
        /\ (v.awaited => v.lo = acked) /\ v.toWrite = toWrite(v.lo, v.hi)
    BY WriterFacts
  <1>2. /\ w \in Writings /\ w.stage = "write" /\ w.awaited = v.awaited /\ w.lo = v.lo
        /\ w.hi = v.hi /\ w.toWrite = v.toWrite /\ w.start = s /\ w.next = n
    BY <1>1 DEF Writings
  <1>3. handlers'[h] = w
    BY DEF CdcInv, HandlerTypes
  <1>4. Awaited(h)' <=> Awaited(h)
    BY <1>1, <1>2, <1>3 DEF Awaited, Busy
  <1>5. \A i \in Written(h)' : i \in Written(h) \/ keyOf[i] \in lost'
    BY <1>2, <1>3, <1>4 DEF Written
  <1>6. /\ handlers' = [handlers EXCEPT ![h] = w] /\ w.stage # "free" /\ w.start <= w.next
        /\ w.hi <= Len(Log) /\ (w.awaited => w.lo = acked /\ Awaited(h))
        /\ w.toWrite = toWrite(w.lo, w.hi)
    BY <1>1, <1>2
  <1> HIDE DEF w, v
  <1> QED BY <1>2, <1>5, <1>6, HandlerMoves

\* A command that fails, or all that are left of the chunk.
LEMMA FailKeepsInv ==
  ASSUME CdcInv, NEW h \in Handlers, CommandsFail(h)
  PROVE  CdcInv'
  <1> DEFINE v == handlers[h]
  <1>1. v.stage = "write" /\ v.next < ChunkEnd(v) /\ faults' = faults + 1
        /\ UNCHANGED <<acked, db, late>>
    BY DEF CommandsFail, Writing, Fault
  <1>2. PICK n \in {v.next + 1, ChunkEnd(v)} :
          /\ lost' = lost \cup {keyOf[v.toWrite[i]] : i \in v.next+1 .. n}
          /\ handlers' = [handlers EXCEPT ![h].next = n]
    BY DEF CommandsFail
  <1>3. /\ v \in Writings /\ v.next \in Nat /\ v.start \in Nat /\ v.start <= v.next
        /\ ChunkEnd(v) \in Nat /\ DOMAIN v.toWrite = 1..Len(v.toWrite)
    BY <1>1, WriterFacts
  <1>4. n \in Nat /\ v.start <= n /\ faults' \in Nat
    BY <1>1, <1>2, <1>3 DEF CdcInv, HandlerTypes
  <1>5. handlers' = [handlers EXCEPT ![h] = [v EXCEPT !.start = v.start, !.next = n]]
    BY <1>2, <1>3 DEF Writings, CdcInv, HandlerTypes
  <1>6. \A p \in DOMAIN v.toWrite : p <= n => p <= v.next \/ keyOf[v.toWrite[p]] \in lost'
    BY <1>2, <1>3, <1>4
  <1>7. lost \subseteq lost'
    BY <1>2
  <1> HIDE DEF v
  <1> QED BY <1>1, <1>3, <1>4, <1>5, <1>6, <1>7, MoveInChunk DEF v

\* The pipeline is repeated from its beginning.
LEMMA RetryKeepsInv ==
  ASSUME CdcInv, NEW h \in Handlers, Retry(h)
  PROVE  CdcInv'
  <1> DEFINE v == handlers[h]
  <1>1. /\ v.stage = "write" /\ v.next > v.start /\ faults' = faults + 1
        /\ handlers' = [handlers EXCEPT ![h].next = v.start]
        /\ UNCHANGED <<acked, db, lost, late>>
    BY DEF Retry, Fault
  <1>2. /\ v \in Writings /\ v.next \in Nat /\ v.start \in Nat /\ v.start <= v.next
        /\ DOMAIN v.toWrite = 1..Len(v.toWrite)
    BY <1>1, WriterFacts
  <1>3. handlers' = [handlers EXCEPT ![h] = [v EXCEPT !.start = v.start, !.next = v.start]]
    BY <1>1, <1>2 DEF Writings, CdcInv, HandlerTypes
  <1>4. \A p \in DOMAIN v.toWrite :
          p <= v.start => p <= v.next \/ keyOf[v.toWrite[p]] \in lost'
    BY <1>2
  <1>5. faults' \in Nat
    BY <1>1 DEF CdcInv, HandlerTypes
  <1>6. lost \subseteq lost'
    BY <1>1
  <1>7. v.start <= v.start
    BY <1>2
  <1> HIDE DEF v
  <1> QED BY <1>1, <1>2, <1>3, <1>4, <1>5, <1>6, <1>7, MoveInChunk DEF v

\* The next chunk, or the end of the last one.
LEMMA NextChunkKeepsInv ==
  ASSUME CdcInv, NEW h \in Handlers, NextChunk(h)
  PROVE  CdcInv'
  <1> DEFINE v == handlers[h]
             s == v.start + maxBatchSize
  <1>1. /\ v.stage = "write" /\ v.next = ChunkEnd(v)
        /\ handlers' = [handlers EXCEPT ![h] = [v EXCEPT !.start = @ + maxBatchSize, !.next = s]]
        /\ UNCHANGED <<acked, db, lost, late, faults>>
    BY DEF NextChunk
  <1>2. /\ v \in Writings /\ v.next \in Nat /\ v.start \in Nat
        /\ Len(v.toWrite) \in Nat /\ DOMAIN v.toWrite = 1..Len(v.toWrite)
    BY <1>1, WriterFacts
  <1>3. s \in Nat
    BY <1>2, CdcAssumption
  <1>4. handlers' = [handlers EXCEPT ![h] = [v EXCEPT !.start = s, !.next = s]]
    BY <1>1, <1>2 DEF Writings
  <1>5. \A p \in DOMAIN v.toWrite : p <= s => p <= v.next
    BY <1>1, <1>2, <1>3 DEF ChunkEnd, LeastOf
  <1>6. faults' \in Nat
    BY <1>1 DEF CdcInv, HandlerTypes
  <1>7. lost \subseteq lost' /\ s <= s
    BY <1>1, <1>3
  <1> HIDE DEF s, v
  <1> QED BY <1>1, <1>2, <1>3, <1>4, <1>5, <1>6, <1>7, MoveInChunk DEF v

\* The sender gives up: what the handler writes from now on is late.
LEMMA TimeOutKeepsInv ==
  ASSUME CdcInv, NEW h \in Handlers, TimeOut(h)
  PROVE  CdcInv'
  <1> DEFINE v == handlers[h]
             w == [v EXCEPT !.awaited = FALSE]
  <1>1. /\ Awaited(h) /\ handlers' = [handlers EXCEPT ![h].awaited = FALSE]
        /\ faults' = faults + 1 /\ UNCHANGED <<acked, db, lost, late>>
    BY DEF TimeOut, Fault
  <1>2. v \in Readings \cup Writings /\ v.hi <= Len(Log)
    BY <1>1, HandlerShapes DEF Awaited, CdcInv, OneAwaited
  <1>3. /\ w \in Readings \cup Writings /\ w.hi = v.hi /\ w.awaited = FALSE /\ w.stage = v.stage
        /\ w.stage = "write" => w.lo = v.lo /\ w.toWrite = v.toWrite /\ w.start = v.start
                                /\ w.next = v.next
    BY <1>2 DEF Readings, Writings
  <1>4. w.stage = "write" => w.toWrite = toWrite(w.lo, w.hi) /\ w.start <= w.next
    BY <1>3 DEF CdcInv, ListIsKept
  <1>5. handlers' = [handlers EXCEPT ![h] = w] /\ handlers'[h] = w /\ faults' \in Nat
    BY <1>1 DEF CdcInv, HandlerTypes
  <1>6. Written(h)' = {}
    BY <1>3, <1>5 DEF Written, Awaited
  <1> HIDE DEF w
  <1> QED BY <1>1, <1>2, <1>3, <1>4, <1>5, <1>6, HandlerMoves

\* A write puts the document of a change in place of that of an earlier one, or
\* it is late.
LEMMA JSONSetKeepsInv ==
  ASSUME CdcInv, NEW h \in Handlers, JSONSet(h)
  PROVE  CdcInv'
  <1> DEFINE v == handlers[h]
             w == [v EXCEPT !.next = v.next + 1]
             i == v.toWrite[v.next + 1]
  <1>1. /\ v.stage = "write" /\ v.next < ChunkEnd(v)
        /\ handlers' = [handlers EXCEPT ![h].next = @ + 1]
        /\ db' = [k \in DOMAIN db \cup {keyOf[i]} |-> IF k = keyOf[i] THEN docOf[i] ELSE db[k]]
        /\ late' = IF Awaited(h) THEN late ELSE late \cup {keyOf[i]}
        /\ UNCHANGED <<acked, lost, faults>>
    BY DEF JSONSet, Writing
  <1>2. /\ v \in Writings /\ Busy(h) /\ v.lo \in Nat /\ v.hi \in Nat /\ v.start \in Nat
        /\ v.next \in Nat /\ (v.awaited <=> Awaited(h)) /\ (v.awaited => v.lo = acked)
        /\ v.toWrite = toWrite(v.lo, v.hi) /\ DOMAIN v.toWrite = 1..Len(v.toWrite)
        /\ Len(v.toWrite) \in Nat /\ v.start <= v.next /\ v.hi <= Len(Log)
        /\ ChunkEnd(v) \in Nat /\ ChunkEnd(v) <= Len(v.toWrite)
    BY <1>1, WriterFacts
  <1>3. /\ \A p \in DOMAIN v.toWrite : v.toWrite[p] \in UsableChanges /\ v.lo < v.toWrite[p]
        /\ \A p, q \in DOMAIN v.toWrite : p < q => v.toWrite[p] < v.toWrite[q]
    BY <1>1, WriterFacts
  <1>4. v.next + 1 \in DOMAIN v.toWrite
    BY <1>1, <1>2
  <1>5. i \in UsableChanges /\ v.lo < i /\ \A p \in DOMAIN v.toWrite : p <= v.next => v.toWrite[p] < i
    BY <1>2, <1>3, <1>4
  <1>6. /\ w \in Writings /\ w.stage = "write" /\ w.awaited = v.awaited /\ w.lo = v.lo
        /\ w.hi = v.hi /\ w.toWrite = v.toWrite /\ w.start = v.start /\ w.next = v.next + 1
    <2>1. v.next + 1 \in Nat
      BY <1>2
    <2> HIDE DEF v
    <2>2. v \in Writings
      BY <1>2
    <2> QED BY <2>1, <2>2 DEF Writings
  <1>7. handlers' = [handlers EXCEPT ![h] = w]
    BY <1>1 DEF CdcInv, HandlerTypes
  <1>8. /\ handlers'[h] = w
        /\ \A g \in Handlers \ {h} : handlers'[g] = handlers[g]
        /\ \A g \in Handlers \ {h} : Awaited(g)' <=> Awaited(g)
        /\ \A g \in Handlers \ {h} : Busy(g)' <=> Busy(g)
        /\ \A g \in Handlers \ {h} : Written(g)' = Written(g)
    <2> HIDE DEF w
    <2> QED BY <1>7, OthersStay DEF CdcInv
  <1>9. Awaited(h)' <=> Awaited(h)
    BY <1>2, <1>6, <1>8 DEF Awaited, Busy
  <1>10. HandlerTypes'
    BY <1>1, <1>6, <1>7 DEF CdcInv, HandlerTypes
  <1>11. OneAwaited'
    BY <1>1, <1>2, <1>6, <1>8, <1>9 DEF CdcInv, OneAwaited
  <1>12. ListIsKept'
    <2>1. w.toWrite = toWrite(w.lo, w.hi) /\ w.start <= w.next
      BY <1>2, <1>6
    <2> HIDE DEF w, v
    <2> QED BY <1>8, <2>1 DEF CdcInv, ListIsKept
  <1>13. Stored'
    <2> SUFFICES ASSUME NEW k \in {keyOf[j] : j \in UsableChanges} \ (lost' \cup late'),
                        Done(k)' # {}
                 PROVE  /\ k \in DOMAIN db'
                        /\ \E m \in UsableChanges : /\ keyOf[m] = k /\ db'[k] = docOf[m]
                                                    /\ \A j \in Done(k)' : j <= m
      BY DEF Stored
    <2>1. k \in {keyOf[j] : j \in UsableChanges} \ (lost \cup late)
      BY <1>1
    <2>2. \A j \in Written(h)' : j \in Written(h) \/ j = i
      <3> SUFFICES ASSUME NEW j \in Written(h)' PROVE j \in Written(h) \/ j = i
        OBVIOUS
      <3>1. /\ j \in UsableChanges /\ Awaited(h)
            /\ \E p \in DOMAIN w.toWrite : p <= w.next /\ w.toWrite[p] = j
        <4> HIDE DEF w, v
        <4> QED BY <1>8, <1>9 DEF Written
      <3>2. PICK p \in DOMAIN v.toWrite : p <= v.next + 1 /\ v.toWrite[p] = j
        <4> HIDE DEF w, v
        <4> QED BY <1>6, <3>1
      <3>3. CASE p <= v.next
        BY <1>1, <3>1, <3>2, <3>3 DEF Written
      <3>4. CASE p = v.next + 1
        BY <3>2, <3>4
      <3> QED BY <1>2, <3>2, <3>3, <3>4
    <2>3. CASE k = keyOf[i]
      <3>1. Awaited(h)
        BY <1>1, <2>3
      <3>2. \A g \in Handlers \ {h} : Written(g)' = {}
        BY <1>8, <3>1 DEF Written, CdcInv, OneAwaited
      <3>3. \A j \in Written(h) : j < i
        BY <1>5 DEF Written
      <3>4. \A j \in UsableChanges : j \in Nat
        BY UsableInLog
      <3>5. acked < i /\ acked' = acked /\ acked \in Nat
        BY <1>1, <1>2, <1>5, <3>1, UsableInLog DEF CdcInv, HandlerTypes
      <3>6. \A j \in Done(k)' : j <= i
        BY <1>5, <2>2, <3>2, <3>3, <3>4, <3>5 DEF Done
      <3>7. k \in DOMAIN db' /\ db'[k] = docOf[i]
        BY <1>1, <2>3
      <3> QED BY <1>5, <2>3, <3>6, <3>7
    <2>4. CASE k # keyOf[i]
      <3>1. Done(k)' \subseteq Done(k)
        BY <1>1, <1>8, <2>2, <2>4 DEF Done
      <3>2. /\ k \in DOMAIN db
            /\ \E m \in UsableChanges : /\ keyOf[m] = k /\ db[k] = docOf[m]
                                        /\ \A j \in Done(k) : j <= m
        BY <2>1, <3>1 DEF CdcInv, Stored
      <3>3. k \in DOMAIN db' /\ db'[k] = db[k]
        BY <1>1, <2>4, <3>2
      <3> QED BY <3>1, <3>2, <3>3
    <2> QED BY <2>3, <2>4
  <1> QED BY <1>10, <1>11, <1>12, <1>13 DEF CdcInv

\* The answer acknowledges what the request has written, and nothing else.
LEMMA RespondKeepsInv ==
  ASSUME CdcInv, NEW h \in Handlers, Respond(h)
  PROVE  CdcInv'
  <1> DEFINE v == handlers[h]
  <1>1. /\ v.stage = "write" /\ v.start >= Len(v.toWrite)
        /\ handlers' = [handlers EXCEPT ![h] = Free]
        /\ acked' = IF v.awaited THEN v.hi ELSE acked
        /\ UNCHANGED <<db, lost, late, faults>>
    BY DEF Respond, status
  <1>2. /\ v.lo \in Nat /\ v.hi \in Nat /\ v.start \in Nat /\ v.next \in Nat /\ v.start <= v.next
        /\ (v.awaited <=> Awaited(h)) /\ (v.awaited => v.lo = acked) /\ v.hi <= Len(Log)
        /\ v.toWrite = toWrite(v.lo, v.hi) /\ DOMAIN v.toWrite = 1..Len(v.toWrite)
        /\ Len(v.toWrite) \in Nat
    BY <1>1, WriterFacts
  <1>3. /\ handlers'[h] = Free
        /\ \A g \in Handlers \ {h} : handlers'[g] = handlers[g]
        /\ \A g \in Handlers \ {h} : Awaited(g)' <=> Awaited(g)
        /\ \A g \in Handlers \ {h} : Busy(g)' <=> Busy(g)
        /\ \A g \in Handlers \ {h} : Written(g)' = Written(g)
    BY <1>1, OthersStay DEF CdcInv
  <1>4. ~Awaited(h)' /\ ~Busy(h)' /\ Written(h)' = {}
    BY <1>3 DEF Awaited, Busy, Written, Free
  <1>5. CASE ~v.awaited
    <2>1. Free.stage = "free" /\ acked' = acked /\ faults' \in Nat
      BY <1>1, <1>5 DEF Free, CdcInv, HandlerTypes
    <2> QED BY <1>1, <1>4, <2>1, HandlerMoves
  <1>6. CASE v.awaited
    <2>1. \A g \in Handlers : ~Awaited(g)'
      BY <1>2, <1>3, <1>4, <1>6 DEF CdcInv, OneAwaited
    <2>2. HandlerTypes'
      BY <1>1, <1>2, UsableInLog DEF CdcInv, HandlerTypes
    <2>3. OneAwaited'
      BY <1>3, <1>4, <2>1 DEF CdcInv, OneAwaited
    <2>4. ListIsKept'
      BY <1>3 DEF CdcInv, ListIsKept, Free
    <2>5. \A i \in UsableChanges : v.lo < i /\ i <= v.hi => i \in Written(h)
      <3> SUFFICES ASSUME NEW i \in UsableChanges, v.lo < i, i <= v.hi PROVE i \in Written(h)
        OBVIOUS
      <3>1. \E p \in DOMAIN v.toWrite : v.toWrite[p] = i
        BY <1>1, WriterFacts
      <3>2. \A p \in DOMAIN v.toWrite : p <= v.next
        BY <1>1, <1>2
      <3> QED BY <1>1, <1>2, <1>6, <3>1, <3>2 DEF Written
    <2>6. \A g \in Handlers : Written(g)' = {}
      BY <2>1 DEF Written
    <2>7. \A i \in UsableChanges : i <= acked' => i <= acked \/ i \in Written(h)
      BY <1>1, <1>2, <1>6, <2>5, UsableInLog
    <2>8. \A k : Done(k)' \subseteq Done(k)
      BY <2>6, <2>7 DEF Done
    <2>9. Stored'
      BY <1>1, <2>8, StoredStays DEF CdcInv
    <2> QED BY <2>2, <2>3, <2>4, <2>9 DEF CdcInv
  <1> QED BY <1>2, <1>5, <1>6

\* The feed starts over: less counts as delivered, and what is stored is later.
LEMMA ResumeKeepsInv ==
  ASSUME CdcInv, Resume
  PROVE  CdcInv'
  <1>1. /\ \A h \in Handlers : ~Awaited(h)
        /\ acked' \in 0..acked-1 /\ faults' = faults + 1
        /\ UNCHANGED <<handlers, db, lost, late>>
    BY DEF Resume, Fault
  <1>2. \A h \in Handlers : ~Awaited(h)' /\ (Busy(h)' <=> Busy(h)) /\ Written(h)' = Written(h)
    BY <1>1 DEF Awaited, Busy, Written
  <1>3. acked \in Nat /\ acked' \in Nat /\ acked' <= acked /\ acked <= Len(Log)
    BY <1>1, UsableInLog DEF CdcInv, HandlerTypes
  <1>4. HandlerTypes'
    BY <1>1, <1>3, UsableInLog DEF CdcInv, HandlerTypes
  <1>5. OneAwaited' /\ ListIsKept'
    BY <1>1, <1>2 DEF CdcInv, OneAwaited, ListIsKept
  <1>6. \A i \in UsableChanges : i <= acked' => i <= acked
    BY <1>3, UsableInLog
  <1>7. \A k : Done(k)' \subseteq Done(k)
    BY <1>2, <1>6 DEF Done
  <1>8. Stored'
    BY <1>1, <1>7, StoredStays DEF CdcInv
  <1> QED BY <1>4, <1>5, <1>8 DEF CdcInv

-----------------------------------------------------------------------------

\* Nothing is acknowledged, nothing is owed.
LEMMA CdcInit == Init => CdcInv
  <1> SUFFICES ASSUME Init PROVE CdcInv
    OBVIOUS
  <1>1. \A h \in Handlers : ~Busy(h) /\ ~Awaited(h) /\ Written(h) = {} /\ handlers[h].stage = "free"
    BY DEF Init, Free, Busy, Awaited, Written
  <1>2. \A k : Done(k) = {}
    <2>1. \A i \in UsableChanges : ~(i <= acked)
      BY UsableInLog DEF Init
    <2> QED BY <1>1, <2>1 DEF Done
  <1>3. HandlerTypes
    BY UsableInLog DEF Init, HandlerTypes
  <1> QED BY <1>1, <1>2, <1>3 DEF CdcInv, OneAwaited, ListIsKept, Stored

\* Every step keeps the invariant.
LEMMA CdcStep == CdcInv /\ [Next]_vars => CdcInv'
  <1> SUFFICES ASSUME CdcInv, [Next]_vars PROVE CdcInv'
    OBVIOUS
  <1>1. CASE UNCHANGED vars
    BY <1>1 DEF vars, CdcInv, HandlerTypes, OneAwaited, ListIsKept, Stored, Done, Written,
                Awaited, Busy
  <1>2. CASE Resume
    BY <1>2, ResumeKeepsInv
  <1>3. ASSUME NEW h \in Handlers,
               Send(h) \/ Work(h) \/ Refuse(h) \/ CommandsFail(h) \/ Retry(h) \/ TimeOut(h)
        PROVE  CdcInv'
    BY <1>3, SendKeepsInv, ReceiveKeepsInv, JSONSetKeepsInv, NextChunkKeepsInv,
       RespondKeepsInv, RefuseKeepsInv, FailKeepsInv, RetryKeepsInv, TimeOutKeepsInv DEF Work
  <1> QED BY <1>1, <1>2, <1>3 DEF Next

\* A key is that of one row: its prefix names the table, its id the columns.
LEMMA KeysNameRows ==
  ASSUME NEW i \in UsableChanges, NEW j \in UsableChanges, keyOf[i] = keyOf[j]
  PROVE  RowOf(Log[i]) = RowOf(Log[j])
  <1>1. buildKey(Log[i]) = buildKey(Log[j])
    BY DEF keyOf
  <1>2. /\ detectPrefix(Log[i].topic) = detectPrefix(Log[j].topic)
        /\ buildID(detectPrefix(Log[i].topic), Log[i].after.v)
             = buildID(detectPrefix(Log[j].topic), Log[j].after.v)
    BY <1>1 DEF buildKey
  <1>3. /\ Last(Log[i].topic) \in DOMAIN topicToPrefix
        /\ Last(Log[j].topic) \in DOMAIN topicToPrefix
    BY DEF UsableChanges, Usable
  <1>4. Last(Log[i].topic) = Last(Log[j].topic)
    <2>1. \A s, t \in DOMAIN topicToPrefix : topicToPrefix[s] = topicToPrefix[t] => s = t
      BY DEF topicToPrefix
    <2> QED BY <1>2, <1>3, <2>1 DEF detectPrefix
  <1> QED BY <1>2, <1>4, RowsAssumption

\* And a row has one key.
LEMMA RowsHaveOneKey ==
  ASSUME NEW i \in UsableChanges, NEW j \in UsableChanges, RowOf(Log[i]) = RowOf(Log[j])
  PROVE  keyOf[i] = keyOf[j]
  <1> DEFINE p == detectPrefix(Log[i].topic)
  <1>1. Last(Log[i].topic) = Last(Log[j].topic)
    BY DEF RowOf
  <1>2. p = detectPrefix(Log[j].topic)
    BY <1>1 DEF detectPrefix
  <1>3. [c \in DOMAIN KeyColumns(p) |-> Log[i].after.v[KeyColumns(p)[c]]]
          = [c \in DOMAIN KeyColumns(p) |-> Log[j].after.v[KeyColumns(p)[c]]]
    BY <1>2 DEF RowOf
  <1>4. \A c \in DOMAIN KeyColumns(p) :
          Log[i].after.v[KeyColumns(p)[c]] = Log[j].after.v[KeyColumns(p)[c]]
    <2> HIDE DEF p
    <2> TAKE c \in DOMAIN KeyColumns(p)
    <2>1. [d \in DOMAIN KeyColumns(p) |-> Log[i].after.v[KeyColumns(p)[d]]][c]
            = [d \in DOMAIN KeyColumns(p) |-> Log[j].after.v[KeyColumns(p)[d]]][c]
      BY <1>3
    <2> QED BY <2>1
  <1>5. [c \in DOMAIN KeyColumns(p) |-> Words(Log[i].after.v[KeyColumns(p)[c]])]
          = [c \in DOMAIN KeyColumns(p) |-> Words(Log[j].after.v[KeyColumns(p)[c]])]
    <2> HIDE DEF p
    <2> QED BY <1>4
  <1>6. buildID(p, Log[i].after.v) = buildID(p, Log[j].after.v)
    <2> HIDE DEF p
    <2> QED BY <1>5 DEF buildID
  <1>7. buildKey(Log[i]) = buildKey(Log[j])
    BY <1>2, <1>6 DEF buildKey
  <1> QED BY <1>7 DEF keyOf

\* The invariant says of rows what it says of keys.
LEMMA InvIsEnough ==
  ASSUME CdcInv
  PROVE  AcknowledgedIsStored
  <1> SUFFICES ASSUME NEW row \in DOMAIN ChangesOf
               PROVE  LET delivered == {i \in ChangesOf[row] : i <= acked}
                          key == keyOf[CHOOSE i \in ChangesOf[row] : TRUE]
                      IN  (delivered # {} /\ key \notin lost \cup late) =>
                            /\ key \in DOMAIN db
                            /\ \E i \in ChangesOf[row] : /\ \A j \in delivered : i >= j
                                                         /\ db[key] = docOf[i]
    BY DEF AcknowledgedIsStored
  <1> DEFINE delivered == {i \in ChangesOf[row] : i <= acked}
             key == keyOf[CHOOSE i \in ChangesOf[row] : TRUE]
  <1> SUFFICES ASSUME delivered # {}, key \notin lost \cup late
               PROVE  /\ key \in DOMAIN db
                      /\ \E i \in ChangesOf[row] : /\ \A j \in delivered : i >= j
                                                   /\ db[key] = docOf[i]
    OBVIOUS
  <1>1. ChangesOf[row] = {i \in UsableChanges : RowOf(Log[i]) = row}
    BY DEF ChangesOf
  <1>2. PICK m \in ChangesOf[row] : key = keyOf[m]
    OBVIOUS
  <1>3. \A i \in ChangesOf[row] : i \in UsableChanges /\ keyOf[i] = key
    BY <1>1, <1>2, RowsHaveOneKey
  <1>4. delivered \subseteq Done(key)
    BY <1>3 DEF Done
  <1>5. /\ key \in DOMAIN db
        /\ \E i \in UsableChanges : /\ keyOf[i] = key /\ db[key] = docOf[i]
                                    /\ \A j \in Done(key) : j <= i
    BY <1>2, <1>3, <1>4 DEF CdcInv, Stored
  <1>6. \A i \in UsableChanges : keyOf[i] = key => i \in ChangesOf[row]
    BY <1>1, <1>2, <1>3, KeysNameRows
  <1> QED BY <1>3, <1>4, <1>5, <1>6, UsableInLog

\* Whatever is refused, repeated, timed out or resumed, and however requests are
\* cut into chunks: the sender counts nothing as delivered whose row has not
\* its document, or a later one, unless a write of the row failed or came late
\* (the handler behind /cdc answers 200 all the same).
THEOREM AcknowledgedChangesAreStored == Spec => []AcknowledgedIsStored
  BY CdcInit, CdcStep, InvIsEnough, PTL DEF Spec
==============================================================================
