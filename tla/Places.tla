------------------------------- MODULE Places -------------------------------
(***************************************************************************)
(* What is left of a list when the loop that walks it takes elements out.  *)
(***************************************************************************)
EXTENDS Integers, Sequences, FiniteSets

\* The elements of s at the places K, in their order; the i-th place comes as
\* number Rank(K, i).
Rank(K, i) == Cardinality({k \in K : k <= i})
At(s, K) == [j \in 1..Cardinality(K) |-> s[CHOOSE i \in K : Rank(K, i) = j]]
=============================================================================
