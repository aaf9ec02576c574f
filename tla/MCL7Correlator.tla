--------------------------- MODULE MCL7Correlator ---------------------------
(* L7Correlator for TLC: connections are interchangeable.                  *)
EXTENDS L7Correlator, TLC

ConnSymmetry == Permutations(Conns)
=============================================================================
