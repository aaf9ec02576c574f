----------------------------- MODULE MCPipeline -----------------------------
(* Pipeline for TLC: the sets that PipelineAssumption fixes.               *)
EXTENDS Pipeline

MCIds == 1..MaxReads
MCTimes == 0..MaxClock
MCRtts == [i \in MCIds |-> {NoSamples, PointDistribution(i)}]
MCIdentities == Flows \X (0..MaxReads)
=============================================================================
