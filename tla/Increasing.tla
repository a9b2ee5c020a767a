----------------------------- MODULE Increasing -----------------------------
(***************************************************************************)
(* Sets of numbers as increasing sequences, and the parts of a sequence.   *)
(***************************************************************************)
EXTENDS Integers, Sequences, FiniteSets

(* Where l is among the elements of L, from 1.                             *)
Rank(l, L) == 1 + Cardinality({m \in L : m < l})

(* The elements of L, the smallest first.                                  *)
InOrder(L) == [i \in 1 .. Cardinality(L) |-> CHOOSE l \in L : Rank(l, L) = i]

(* The elements of s at the indices of I, in their order in s.             *)
At(s, I) == [k \in 1 .. Cardinality(I) |-> s[InOrder(I)[k]]]
=============================================================================
