-------------------------------- MODULE Sums --------------------------------
(***************************************************************************)
(* Sums of natural numbers, defined by counting instead of by recursion:   *)
(* f adds up to the number of its units.                                   *)
(***************************************************************************)
EXTENDS Integers, FiniteSets

Units(f, S) == UNION {{x} \X (1..f[x]) : x \in S}

Total(f, S) == Cardinality(Units(f, S))
=============================================================================
