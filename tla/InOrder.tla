------------------------------- MODULE InOrder -------------------------------
(***************************************************************************)
(* The numbers of a finite set in order, and the elements of a sequence at *)
(* a set of positions: what filtering, dropping repetitions and sorting    *)
(* make of a list.                                                         *)
(***************************************************************************)
EXTENDS Integers, FiniteSets

\* The p-th smallest number of S.
Nth(S, p) == CHOOSE i \in S : Cardinality({j \in S : j <= i}) = p

\* S as a sequence.
Ascending(S) == [p \in 1..Cardinality(S) |-> Nth(S, p)]

\* What seq holds at the positions I.
Picked(seq, I) == [p \in 1..Cardinality(I) |-> seq[Nth(I, p)]]

\* The positions of a list in the order of their keys, those with the same key
\* as they were: Python's sort is stable.
SortedPositions(key) ==
  [p \in DOMAIN key |->
     CHOOSE i \in DOMAIN key :
       Cardinality({j \in DOMAIN key : key[j] < key[i] \/ (key[j] = key[i] /\ j <= i)}) = p]

Sorted(seq) == [p \in DOMAIN seq |-> seq[SortedPositions(seq)[p]]]
==============================================================================
