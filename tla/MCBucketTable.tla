---------------------------- MODULE MCBucketTable ----------------------------
(***************************************************************************)
(* The token search over a small slot space with a hash that is hard on    *)
(* it; as facts about the real slot space and the cluster's own hash, that *)
(* the table the search is proved to arrive at (BucketTableProofs,         *)
(* TableIsFirstFit) is the one the ports are tested against; or else the   *)
(* memo in front of the search, to which a search is one step.             *)
(***************************************************************************)
EXTENDS BucketTable, BucketTableMemo, Crc16, TLC

VARIABLE part

allVars == <<part, vars, memoVars>>

MCInit ==
  /\ part \in {"search", "memo"}
  /\ Init /\ MemoInit
  /\ IF part = "memo" THEN num_buckets = 0 ELSE WithOnce

Search == part = "search" /\ Next /\ UNCHANGED <<part, memoVars>>

\* A step of the memo's, or of one of its callers.
InMemo(A) == part = "memo" /\ A /\ UNCHANGED <<part, vars>>

MCSpec ==
  /\ MCInit /\ [][Search \/ InMemo(MemoNext)]_allVars
  /\ \A c \in Callers : WF_allVars(InMemo(Step(c)))

TriedCounts == -1..24

\* The small instance's hash: about half the slots are hit by no counter.
SquareSlotOf == [n \in 0..MaxDraw |-> (n * n) % NumSlots]

\* The constants of the code, in an instance of their own.  (TLC keeps the
\* value of a definition without parameters, not that of a replacement.)
RealDraws == 20000
RealSlotTable == [n \in 0..RealDraws |-> CounterSlot(n)] @@ (0 :> CounterSlot(0))
Real == INSTANCE BucketTable WITH NumSlots <- NUM_SLOTS, SlotOf <- RealSlotTable,
          MaxDraw <- RealDraws, CapFactor <- 200, CapFloor <- 10000

\* "Empirically true for every 1 <= N <= 129 and for N in {16383, 16384} ...
\* false for every 130 <= N <= 16382" (fqdn_slots.py, _is_modulo_safe): a
\* statement about all counts, so one state is enough to look at it.
ModuloSafeWhereDocumented ==
  phase = "called" /\ num_buckets = 1 =>
    \A n \in 1..NUM_SLOTS : Real!is_modulo_safe(n) <=> n \in 1..129 \cup {16383, 16384}

\* The tables the ports are tested against
\* (testdata/slot_tokens_golden.json, bucket 0 first).
Golden == (1 :> <<0>>) @@
  (2 :> <<3, 0>>) @@
  (7 :> <<18, 50, 82, 55, 23, 0, 48>>) @@
  (8 :> <<3, 43, 15, 95, 243, 56, 22, 80>>) @@
  (12 :> <<278, 328, 501, 240, 60, 192, 480, 400, 221, 970, 22, 84>>) @@
  (16 :> <<274, 25, 188, 50, 116, 6, 77, 226, 493, 128, 85, 49, 286,
           396, 658, 694>>)

\* The first-fit table of the CRC-16 of the code is the committed golden table
\* for every golden count: the CRC, the slot ranges, the modulo condition and
\* the draw order together are the contract between the Python writer and the
\* Go readers.  The draw budget is never the reason a search ends ("200x plus a
\* flat floor comfortably covers both the modulo-safe and contiguous-only
\* cases", _iteration_cap): no golden token needs a tenth of it.
ReachesGoldenTable ==
  phase = "called" /\ num_buckets = 1 =>
    \A n \in DOMAIN Golden, b \in 0..16 : b < n =>
      LET safe == Real!is_modulo_safe(n)
          token == Golden[n][b + 1]
      IN  /\ Real!Fits(RealSlotTable[token], b, n, safe)
          /\ \A j \in 0..token-1 : ~Real!Fits(RealSlotTable[j], b, n, safe)
          /\ 10 * token <= Real!iteration_cap(n)

\* The bytes "r", ":", "{" and "}".
RuleKeyBytes(before, tag, after) == before \o <<123>> \o tag \o <<125>> \o after

\* A replica's whole key, as the data base hashes it (key_slot), lies in the
\* slot range of its bucket, whatever namespace stands before the braces and
\* whatever tag, pattern and port behind them: only the token is hashed.
ReplicaKeysLieInTheirRange ==
  phase = "called" /\ num_buckets = 1 =>
    \A n \in DOMAIN Golden, b \in 0..16 : b < n =>
      \A namespace \in {<<>>, <<110, 58>>} : \A pattern \in {<<58, 42>>, <<123, 125>>} :
        key_slot(RuleKeyBytes(<<114, 58>> \o namespace, DecimalDigits[Golden[n][b + 1]], pattern))
          \in Real!slot_range(b, n)
==============================================================================
