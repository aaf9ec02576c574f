------------------------------ MODULE PodCache ------------------------------
(***************************************************************************)
(* podidentity.Cache (internal/podidentity): the Pods an informer has seen *)
(* so far, indexed by address and by container.  The informer and the API  *)
(* server behind it are external: Pods appear in and leave the index some  *)
(* time after they were created and deleted, in no relation to the events  *)
(* of the agent.  Its context is that of the whole run, so it ends when    *)
(* the run is cancelled, before the event loop has drained.                *)
(***************************************************************************)
EXTENDS WallClock, FiniteSets

CONSTANTS
  Pods,      \* [uid, address, container, hostNetwork, created], created being
             \* the wall time in its CreationTimestamp
  NoPod

ASSUME PodAssumption == \A p \in Pods : p.created \in Nat

VARIABLES
  podIndex,        \* what the informer has seen
  podChangedAt,    \* history: wall time of the last change
  podsStopped      \* ctx.Err() # nil

podVars == <<podIndex, podChangedAt, podsStopped>>

PodInit == podIndex = {} /\ podChangedAt = 0 /\ podsStopped = FALSE

(* External.                                                               *)
PodChange ==
  /\ ~podsStopped
  /\ \E p \in Pods :
       /\ p.created <= Wall
       /\ podIndex' = IF p \in podIndex THEN podIndex \ {p} ELSE podIndex \cup {p}
  /\ podChangedAt' = Wall
  /\ UNCHANGED podsStopped

PodsStop ==
  /\ ~podsStopped
  /\ podsStopped' = TRUE
  /\ UNCHANGED <<podIndex, podChangedAt>>

-----------------------------------------------------------------------------
(* lookup: a single match, and not one that is younger than the            *)
(* observation; the address of a host-network Pod is its node's.           *)
PodOf(matches, at) ==
  IF podsStopped \/ Cardinality(matches) # 1 THEN NoPod
  ELSE LET p == CHOOSE q \in matches : TRUE IN IF at < p.created THEN NoPod ELSE p

PodByAddress(address, at) ==
  LET pod == PodOf({p \in podIndex : p.address = address}, at) IN
  IF pod # NoPod /\ pod.hostNetwork THEN NoPod ELSE pod

PodByContainer(container, at) == PodOf({p \in podIndex : p.container = container}, at)
=============================================================================
