--------------------------- MODULE MCSocketProbes ---------------------------
(* SocketProbes for TLC.                                                   *)
EXTENDS SocketProbes, TLC

ProbesSymmetry == Permutations(Threads) \cup Permutations(Peers)
=============================================================================
