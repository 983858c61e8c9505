-------------------------------- MODULE Sums --------------------------------
(***************************************************************************)
(* Sums over the inputs and outputs of a transaction, and sets in order.   *)
(***************************************************************************)
EXTENDS Integers, Sequences, FiniteSets

\* The sum of a sequence of integers, added up one after the other.
Total(s) ==
  LET part[n \in 0..Len(s)] == IF n = 0 THEN 0 ELSE part[n - 1] + s[n]
  IN  part[Len(s)]

\* The elements of a finite set of integers, the smallest first.
Ordered(S) ==
  CHOOSE s \in [1..Cardinality(S) -> S] : \A i, j \in DOMAIN s : i < j => s[i] < s[j]
=============================================================================
