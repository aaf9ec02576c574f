-------------------------- MODULE MCDnsCorrelator ---------------------------
(* DnsCorrelator for TLC: keys are interchangeable.                        *)
EXTENDS DnsCorrelator, TLC

Symmetry == Permutations(Keys)
=============================================================================
