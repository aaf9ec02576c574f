---------------------------- MODULE MCFlowStream ----------------------------
(* FlowStream for TLC: identities are interchangeable.                     *)
EXTENDS FlowStream, TLC

MCRtts == 1 :> {NoSamples} @@ 2 :> {PointDistribution(3)} @@ 3 :> {PointDistribution(1)}

Symmetry == Permutations(Identities)
=============================================================================
