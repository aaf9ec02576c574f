--------------------------- MODULE MCTcpSampling ----------------------------
(* TcpSampling for TLC: processors are interchangeable.                    *)
EXTENDS TcpSampling, TLC

CpuSymmetry == Permutations(Cpus)
=============================================================================
