-------------------------------- MODULE Lists --------------------------------
(***************************************************************************)
(* What loops over a list compute: the sums of its elements, and the       *)
(* indices that satisfy a condition, in their order.                       *)
(***************************************************************************)
EXTENDS Integers, Sequences, FiniteSets

(* The sums of the first 0, 1, ... elements.                               *)
Sums(seq) ==
  LET sum[n \in 0 .. Len(seq)] == IF n = 0 THEN 0 ELSE sum[n - 1] + seq[n]
  IN  sum
Total(seq) == Sums(seq)[Len(seq)]

(* The index of S with n others before it, and all of them in order.       *)
Nth(S, n) == CHOOSE i \in S : Cardinality({j \in S : j < i}) = n
Listed(S) == [k \in 1 .. Cardinality(S) |-> Nth(S, k - 1)]
=============================================================================
