---------------------------- MODULE Distribution ----------------------------
(***************************************************************************)
(* flow.Distribution (internal/flow/stats.go): statistics of a set of      *)
(* measurements that can be merged in any order.  Measurements are 32-bit  *)
(* microseconds, of which the 64-bit sums of a window cannot hold enough   *)
(* to wrap.                                                                *)
(***************************************************************************)
EXTENDS Integers

(* The zero value.                                                         *)
NoSamples == [count |-> 0, sum |-> 0, min |-> 0, max |-> 0]

Distributions ==
  {NoSamples} \cup [count : Nat \ {0}, sum : Nat, min : Nat, max : Nat]

PointDistribution(value) == [count |-> 1, sum |-> value, min |-> value, max |-> value]

(* Mutant: the zero value is merged like any other.                        *)
MergeZero(d, other) ==
  [count |-> d.count + other.count,
   sum   |-> d.sum + other.sum,
   min   |-> IF other.min < d.min THEN other.min ELSE d.min,
   max   |-> IF other.max > d.max THEN other.max ELSE d.max]

Merge(d, other) ==
  IF d.count = 0 THEN other
  ELSE IF other.count = 0 THEN d
  ELSE [count |-> d.count + other.count,
        sum   |-> d.sum + other.sum,
        min   |-> IF other.min < d.min THEN other.min ELSE d.min,
        max   |-> IF other.max > d.max THEN other.max ELSE d.max]
=============================================================================
