---------------------------- MODULE Comprehension ----------------------------
(***************************************************************************)
(* What a list comprehension with a condition, or a loop with a continue,  *)
(* keeps of a list: the elements at the positions where the condition      *)
(* holds, in their order.                                                  *)
(***************************************************************************)
EXTENDS Integers, Sequences, FiniteSets

\* The positions in ascending order.
Ascending(K) ==
  [n \in 1 .. Cardinality(K) |-> CHOOSE k \in K : Cardinality({j \in K : j < k}) = n - 1]

Keep(s, K) == [n \in 1 .. Cardinality(K) |-> s[Ascending(K)[n]]]
=============================================================================
