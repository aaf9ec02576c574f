---------------------------- MODULE Subsequence -----------------------------
(***************************************************************************)
(* What stands at some positions of a sequence: SelectSeq, defined by rank *)
(* instead of by recursion.                                                *)
(***************************************************************************)
EXTENDS Integers, Sequences, FiniteSets

(* The k-th of the positions I.                                            *)
Nth(I, k) == CHOOSE i \in I : Cardinality({j \in I : j <= i}) = k

At(s, I) == [k \in 1..Cardinality(I) |-> s[Nth(I, k)]]
=============================================================================
