---------------------------- MODULE MCEnrichment ----------------------------
EXTENDS Enrichment

Pod(uid, address, container, hostNetwork, created) ==
  [uid |-> uid, address |-> address, container |-> container, hostNetwork |-> hostNetwork,
   created |-> created]

MCInstants == {2, 3, 4, 22}

(* The client's Pod, another one that is given its address, and one behind *)
(* the service.                                                            *)
MCPods == {Pod("u1", "client", "c1", FALSE, 1), Pod("u2", "client", "c2", FALSE, 3),
           Pod("u3", "b1", "c3", FALSE, 1)}
=============================================================================
