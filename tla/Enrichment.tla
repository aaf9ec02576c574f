----------------------------- MODULE Enrichment -----------------------------
(***************************************************************************)
(* How the event loop enriches an L4 observation (internal/app/events.go,  *)
(* pipeline.go): conntrack, process and Pod lookups, one after the other,  *)
(* over three caches of what the kernel and the cluster looked like some   *)
(* time ago, while both go on changing.  A new connection without a        *)
(* mapping is retried for resolutionGrace; its process is looked up before *)
(* that and its Pods after it.                                             *)
(***************************************************************************)
EXTENDS ConntrackResolver, ProcessResolver, PodCache

CONSTANTS
  Client, Service,   \* addresses of the observed tuple, in its original order
  ResolutionGrace,
  MaxObservations,   \* bound: observations
  MaxChanges         \* bound: changes outside the agent

(* nonempty: no Pod is indexed under the empty container ID.               *)
ASSUME EnrichmentAssumption ==
  /\ {ResolutionGrace, MaxObservations, MaxChanges} \subseteq Nat
  /\ \A p \in Pods : p.container # NoContainer

VARIABLES
  loopAt,        \* "idle", "captured", "resolve", "reverse", "resolved", "attach",
                 \* "pending", "retry", "observer", "source", "destination", "written"
  obs,           \* the observation
  deadline,
  observations,
  changes        \* number of changes so far

loopVars == <<loopAt, obs, deadline, observations>>
vars == <<clockVars, conntrackVars, processVars, podVars, loopVars, changes>>

(* inOrder: the tuple is in the order of the connection's first packet; a  *)
(* sample's is sorted by address, and either.                              *)
NewObservation(kind, inOrder, at) ==
  [kind |-> kind, inOrder |-> inOrder, observedAt |-> at,
   sourceResolved |-> None, destinationResolved |-> None, process |-> NoIdentity,
   observerPod |-> NoPod, sourcePod |-> NoPod, destinationPod |-> NoPod]

NoObservation == NewObservation("sample", TRUE, ZeroTime)

Init ==
  /\ ClockInit /\ ConntrackInit /\ ProcessInit /\ PodInit
  /\ loopAt = "idle" /\ obs = NoObservation /\ deadline = 0
  /\ observations = 0 /\ changes = 0

LoopOnly == UNCHANGED <<clockVars, conntrackVars, processVars, podVars, changes>>

(* The pump stamps the event; the loop takes it later.                     *)
Capture ==
  /\ loopAt = "idle" /\ observations < MaxObservations
  /\ observations' = observations + 1
  /\ \E kind \in {"connect", "sample"}, inOrder \in BOOLEAN :
       obs' = NewObservation(kind, inOrder \/ kind = "connect", Wall)
  /\ loopAt' = "captured"
  /\ UNCHANGED deadline
  /\ LoopOnly

-----------------------------------------------------------------------------
(***************************************************************************)
(* resolveObservation.                                                     *)
(***************************************************************************)
CallResolver(inOrder, at) ==
  /\ ResolveBegin(inOrder, IF obs.kind = "connect" THEN obs.observedAt ELSE ZeroTime)
  /\ loopAt' = at
  /\ UNCHANGED <<obs, deadline, observations, clockVars, processVars, podVars, changes>>

CallResolve == loopAt = "captured" /\ CallResolver(obs.inOrder, "resolve")

(* A connection is asked for in one order only.                            *)
TakeDestination ==
  /\ loopAt = "resolve"
  /\ ResolveReturns
  /\ obs' = [obs EXCEPT !.destinationResolved = answer]
  /\ loopAt' = IF answer = None /\ obs.kind = "sample" THEN "reverse" ELSE "attach"
  /\ UNCHANGED <<deadline, observations, clockVars, processVars, podVars, changes>>

CallReverse == loopAt = "reverse" /\ CallResolver(~obs.inOrder, "resolved")

TakeSource ==
  /\ loopAt = "resolved"
  /\ ResolveReturns
  /\ obs' = [obs EXCEPT !.sourceResolved = answer]
  /\ loopAt' = "attach"
  /\ UNCHANGED <<deadline, observations, clockVars, processVars, podVars, changes>>

-----------------------------------------------------------------------------
(***************************************************************************)
(* attachProcess, and the wait for a mapping.                              *)
(***************************************************************************)
CallLookup ==
  /\ loopAt = "attach"
  /\ LookupBegin
  /\ UNCHANGED <<loopVars, clockVars, conntrackVars, podVars, changes>>

(* Without a mapping a connection waits, if there is room for it.          *)
Attached(process) ==
  /\ obs' = [obs EXCEPT !.process = process]
  /\ deadline' = now + ResolutionGrace
  /\ loopAt' \in IF obs.kind = "connect" /\ obs.destinationResolved = None
                 THEN {"pending", "observer"} ELSE {"observer"}
  /\ UNCHANGED observations

TakeProcess ==
  /\ loopAt = "attach"
  /\ LookupReturns
  /\ Attached(identity)
  /\ UNCHANGED <<clockVars, conntrackVars, podVars, changes>>

(* PID 0: the socket was sampled outside any process.                      *)
AttachNothing ==
  /\ loopAt = "attach" /\ lookupAt = "idle"
  /\ Attached(NoIdentity)
  /\ LoopOnly

(* The retry tick.                                                         *)
Retry == loopAt = "pending" /\ CallResolver(obs.inOrder, "retry")

TakeRetried ==
  /\ loopAt = "retry"
  /\ ResolveReturns
  /\ obs' = [obs EXCEPT !.destinationResolved = answer]
  /\ loopAt' = IF answer # None \/ now >= deadline THEN "observer" ELSE "pending"
  /\ UNCHANGED <<deadline, observations, clockVars, processVars, podVars, changes>>

(* Its tuple is reused, or the capture ends: it is written as it is.       *)
StopWaiting ==
  /\ loopAt = "pending"
  /\ loopAt' = "observer"
  /\ UNCHANGED <<obs, deadline, observations>>
  /\ LoopOnly

-----------------------------------------------------------------------------
(***************************************************************************)
(* Enrich, called when the observation is written.                         *)
(***************************************************************************)
SourceAddress ==
  IF obs.sourceResolved # None THEN obs.sourceResolved
  ELSE IF obs.inOrder THEN Client ELSE Service

DestinationAddress ==
  IF obs.destinationResolved # None THEN obs.destinationResolved
  ELSE IF obs.inOrder THEN Service ELSE Client

EnrichObserver ==
  /\ loopAt = "observer"
  /\ obs' = [obs EXCEPT !.observerPod =
               IF obs.process = NoIdentity THEN NoPod
               ELSE PodByContainer(obs.process.container, obs.observedAt)]
  /\ loopAt' = "source"
  /\ UNCHANGED <<deadline, observations>>
  /\ LoopOnly

EnrichSource ==
  /\ loopAt = "source"
  /\ obs' = [obs EXCEPT !.sourcePod = PodByAddress(SourceAddress, obs.observedAt)]
  /\ loopAt' = "destination"
  /\ UNCHANGED <<deadline, observations>>
  /\ LoopOnly

EnrichDestination ==
  /\ loopAt = "destination"
  /\ obs' = [obs EXCEPT !.destinationPod = PodByAddress(DestinationAddress, obs.observedAt)]
  /\ loopAt' = "written"
  /\ UNCHANGED <<deadline, observations>>
  /\ LoopOnly

Written ==
  /\ loopAt = "written"
  /\ loopAt' = "idle"
  /\ obs' = NoObservation /\ deadline' = 0
  /\ UNCHANGED observations
  /\ LoopOnly

-----------------------------------------------------------------------------
ResolverStep ==
  /\ ConntrackStep
  /\ UNCHANGED <<loopVars, clockVars, processVars, podVars, changes>>

LookupStep ==
  /\ ProcessStep
  /\ UNCHANGED <<loopVars, clockVars, conntrackVars, podVars, changes>>

(* Where the next step reads the clock.                                    *)
Tick ==
  /\ loopAt \notin {"observer", "source", "destination", "written"}
  /\ lookupAt = "idle" /\ resolveAt \notin {"result", "returned"}
  /\ Advance
  /\ UNCHANGED <<loopVars, conntrackVars, processVars, podVars, changes>>

(* Everything that changes outside the agent.  A change that nothing reads *)
(* for a while is the same as one just before it is read: each kind        *)
(* happens only in the part of the loop that can read it.                  *)
Outside ==
  /\ changes < MaxChanges /\ changes' = changes + 1
  /\ \/ /\ loopAt \in {"captured", "resolve", "reverse", "resolved", "pending", "retry"}
        /\ KernelChange /\ UNCHANGED <<clockVars, processVars, podVars>>
     \/ loopAt = "attach" /\ ProcessChange /\ UNCHANGED <<clockVars, conntrackVars, podVars>>
     \/ /\ loopAt \in {"observer", "source", "destination"}
        /\ PodChange \/ PodsStop
        /\ UNCHANGED <<clockVars, conntrackVars, processVars>>
     \/ loopAt = "idle" /\ SetBack /\ UNCHANGED <<conntrackVars, processVars, podVars>>
  /\ UNCHANGED loopVars

LoopStep ==
  \/ Capture \/ CallResolve \/ TakeDestination \/ CallReverse \/ TakeSource
  \/ CallLookup \/ TakeProcess \/ AttachNothing \/ Retry \/ TakeRetried \/ StopWaiting
  \/ EnrichObserver \/ EnrichSource \/ EnrichDestination \/ Written

Next == LoopStep \/ ResolverStep \/ LookupStep \/ Tick \/ Outside

Spec == Init /\ [][Next]_vars

-----------------------------------------------------------------------------
(* What is written about an observation holds together, although each part *)
(* was read at another time: the process is one generation of the PID      *)
(* (IdentitySound); the observer Pod runs that generation's container; no  *)
(* Pod is younger than the observation, also after retries; at most one    *)
(* side is resolved, and its Pod is that of the backend; and an address    *)
(* that two Pods have claimed ever since is given to neither.              *)
AttributionSound ==
  /\ IdentitySound
  /\ loopAt = "written" =>
       /\ \A p \in {obs.observerPod, obs.sourcePod, obs.destinationPod} \ {NoPod} :
            p.created <= obs.observedAt
       /\ obs.observerPod # NoPod =>
            images[obs.process.start].container = obs.observerPod.container
       /\ None \in {obs.sourceResolved, obs.destinationResolved}
       /\ obs.destinationPod # NoPod /\ obs.destinationResolved # None =>
            obs.destinationPod.address = obs.destinationResolved
       /\ podChangedAt < obs.observedAt
            /\ Cardinality({p \in podIndex : p.address = SourceAddress}) # 1 =>
            obs.sourcePod = NoPod
=============================================================================
