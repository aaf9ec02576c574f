------------------------- MODULE Enrichment_proofs -------------------------
(***************************************************************************)
(* Proofs about the enrichment of an observation: what the conntrack and   *)
(* process caches return is recent enough and of one piece whatever        *)
(* changes while they read, dumps are throttled, and what is written about *)
(* an observation holds together.                                          *)
(***************************************************************************)
EXTENDS Enrichment, FiniteSetTheorems, SequenceTheorems, TLAPS

(***************************************************************************)
(* The conntrack resolver.                                                 *)
(***************************************************************************)
ClockInv == now \in Instants /\ skew \in {0, StepBack}

KernelInv ==
  /\ entries \subseteq Backends \cup {NoNat} /\ IsFiniteSet(entries)
  /\ changedAt \in Nat /\ changedAt <= now
  /\ releasedAt \in [Backends -> Nat] /\ \A b \in Backends : releasedAt[b] <= now

(* The table is what the kernel said when the dump began, or later.        *)
CacheInv ==
  /\ dumpedAt \in Nat /\ dumpedWall \in Nat /\ refreshAt \in Nat /\ dumpStart \in Nat
  /\ dumpedAt <= now
  /\ table \in Backends \cup {None}
  /\ skew = 0 => dumpedWall = dumpedAt
  /\ dumpedAt = 0 => dumpedWall = 0 /\ table = None
  /\ dumpedAt # 0 => refreshAt = dumpedAt + Ttl
  /\ table # None => /\ HeldAt(table) >= dumpedAt
                     /\ changedAt < dumpedAt => entries = {table}

(* When the next dump may start follows from when the last one did.        *)
ThrottleInv ==
  ~Dumping =>
    IF dumpStart = 0 THEN dumpedAt = 0 /\ refreshAt = 0
    ELSE \/ dumpedAt = 0 /\ refreshAt = dumpStart + 10 * Ttl
         \/ dumpedAt = dumpStart

(* A dump under way can return nothing that was not there since it began.  *)
DumpInv ==
  Dumping =>
    /\ dumpStart # 0 /\ dumpStart <= now /\ dumpStart >= calledAt
    /\ dumpStartWall \in Nat /\ (skew = 0 => dumpStartWall = dumpStart)
    /\ sinceDump \subseteq Backends \cup {NoNat} /\ IsFiniteSet(sinceDump)
    /\ entries \subseteq sinceDump /\ inDump \subseteq sinceDump
    /\ \A b \in sinceDump \cap Backends : HeldAt(b) >= dumpStart
    /\ changedAt < dumpStart => inDump = entries /\ sinceDump = entries

Recent(b) == b \in Backends /\ original /\ HeldAt(b) > calledAt - Ttl

ResolveStates == {"idle", "refresh", "lookup", "missDump", "result", "returned"}

CallInv ==
  /\ resolveAt \in ResolveStates
  /\ original \in BOOLEAN /\ notBefore \in Nat /\ calledAt \in Nat /\ calledAt <= now
  /\ resolveAt = "lookup" /\ table # None => dumpedAt > calledAt - Ttl
  /\ resolveAt \in {"missDump", "result"} /\ found # None => Recent(found)
  /\ resolveAt = "result" /\ found # None => found = table \/ dumpedAt = 0
  /\ resolveAt = "returned" /\ answer # None =>
       Recent(answer) /\ ~IsStale /\ (answer = table \/ dumpedAt = 0)

ConntrackInv == ClockInv /\ KernelInv /\ CacheInv /\ ThrottleInv /\ DumpInv /\ CallInv

(***************************************************************************)
(* The process resolver.                                                   *)
(***************************************************************************)
ImageSet == [generation : Nat, container : Containers \cup {NoContainer}]

(* Generations never come back: the PID's images are numbered in order.    *)
ImagesInv ==
  /\ images \in Seq(ImageSet) /\ endedAt \in [1..Len(images) -> Nat]
  /\ image = 0 \/ (image = Len(images) /\ image # 0 /\ endedAt[image] = 0)
  /\ \A i \in 1..Len(images) :
       /\ Generation(i) \in 1..i
       /\ images[Generation(i)].container = images[i].container
       /\ Generation(Generation(i)) = Generation(i)
  /\ \A i, j \in 1..Len(images) : i <= j => Generation(i) <= Generation(j)

IdentitySet ==
  [start : Nat, comm : Nat, cmdline : Nat, container : Containers \cup {NoContainer}, expiresAt : Nat]

(* One generation's identity, whose comm was current at time at.           *)
OneGeneration(id, at) ==
  /\ at <= now
  /\ id.start \in 1..Len(images)
  /\ id.comm \in 1..Len(images) /\ Generation(id.comm) = id.start
  /\ id.cmdline # 0 => id.cmdline \in 1..Len(images) /\ Generation(id.cmdline) = id.start
  /\ id.container \in {NoContainer, images[id.start].container}
  /\ endedAt[id.comm] = 0 \/ endedAt[id.comm] >= at

(* What has been read so far, if the PID has not changed hands.            *)
DraftInv ==
  /\ lookupAt \in {"cmdline", "cgroup", "again"} =>
       /\ draft.comm \in 1..Len(images) /\ draft.start = Generation(draft.comm)
       /\ draft.start \in aliveIn
       /\ endedAt[draft.comm] = 0 \/ endedAt[draft.comm] >= lookupNow
  /\ lookupAt \in {"cgroup", "again"} => draft.cmdline = 0 \/ draft.cmdline \in draft.comm..Len(images)
  /\ lookupAt = "again" =>
       \/ draft.container = NoContainer
       \/ \E i \in draft.comm..Len(images) : draft.container = images[i].container

LookupStates == {"idle", "hit", "stat", "cmdline", "cgroup", "again", "returned"}

LookupInv ==
  /\ lookupAt \in LookupStates /\ lookupNow \in Nat /\ lookupNow <= now
  /\ {cache, draft, identity} \subseteq IdentitySet
  /\ lookupAt # "idle" => Alive \subseteq aliveIn
  /\ cache # NoIdentity => OneGeneration(cache, cache.expiresAt - ProcessTtl)
  /\ lookupAt = "hit" => cache # NoIdentity /\ lookupNow < cache.expiresAt
  /\ lookupAt = "returned" /\ identity # NoIdentity =>
       OneGeneration(identity, lookupNow - ProcessTtl) /\ identity.start \in aliveIn

ProcessInv == ImagesInv /\ DraftInv /\ LookupInv

(***************************************************************************)
(* The loop.                                                               *)
(***************************************************************************)
LoopStates ==
  {"idle", "captured", "resolve", "reverse", "resolved", "attach", "pending", "retry", "observer",
   "source", "destination", "written"}

MaybePods == Pods \cup {NoPod}

ObsSet ==
  [kind : {"connect", "sample"}, inOrder : BOOLEAN, observedAt : Nat,
   sourceResolved : Backends \cup {None}, destinationResolved : Backends \cup {None},
   process : IdentitySet,
   observerPod : MaybePods, sourcePod : MaybePods, destinationPod : MaybePods]

OldEnough(p) == p # NoPod => p.created <= obs.observedAt

(* What is known of the observation at each point of the loop.             *)
ObsInv ==
  /\ loopAt # "idle" => obs.observedAt <= Wall
  /\ obs.kind = "connect" \/ loopAt \in {"captured", "resolve", "reverse", "resolved"}
       => obs.sourceResolved = None
  /\ loopAt \in {"pending", "retry"} => obs.kind = "connect"
  /\ loopAt \in {"reverse", "resolved"} => obs.kind = "sample" /\ obs.destinationResolved = None
  /\ None \in {obs.sourceResolved, obs.destinationResolved}
  /\ obs.process # NoIdentity =>
       /\ obs.process.start \in 1..Len(images)
       /\ obs.process.container \in {NoContainer, images[obs.process.start].container}

WrittenPodsInv ==
  /\ OldEnough(obs.observerPod) /\ OldEnough(obs.sourcePod) /\ OldEnough(obs.destinationPod)
  /\ loopAt \in {"source", "destination", "written"} /\ obs.observerPod # NoPod =>
       /\ obs.process # NoIdentity
       /\ images[obs.process.start].container = obs.observerPod.container
  /\ loopAt \in {"destination", "written"} /\ podChangedAt < obs.observedAt
       /\ Cardinality({p \in podIndex : p.address = SourceAddress}) # 1 => obs.sourcePod = NoPod
  /\ loopAt = "written" /\ obs.destinationPod # NoPod /\ obs.destinationResolved # None =>
       obs.destinationPod.address = obs.destinationResolved

PodsInv == podIndex \subseteq Pods /\ IsFiniteSet(podIndex) /\ podChangedAt \in Nat

LoopInv ==
  loopAt \in LoopStates /\ obs \in ObsSet /\ PodsInv /\ ObsInv /\ WrittenPodsInv

EnrichmentInv == ConntrackInv /\ ProcessInv /\ LoopInv
-----------------------------------------------------------------------------
LEMMA ClockFacts ==
  ASSUME ClockInv
  PROVE  now \in Nat \ {0} /\ skew \in Nat /\ Wall \in Nat /\ Wall # 0 /\ (skew = 0 => Wall = now)
<1>1. now \in Nat \ {0} /\ StepBack \in Nat /\ StepBack < now
  BY WallClockAssumption DEF ClockInv
<1> QED BY <1>1 DEF ClockInv, Wall

LEMMA HeldFacts ==
  ASSUME ClockInv, KernelInv, NEW b \in Backends
  PROVE  HeldAt(b) \in Nat /\ HeldAt(b) <= now
BY ClockFacts DEF KernelInv, HeldAt

ctClocks == <<clockVars, conntrackVars>>

(* Time goes on; the kernel removes and adds entries: a backend is held    *)
(* ever later.                                                             *)
TimeStep == (Advance \/ SetBack) /\ UNCHANGED conntrackVars
KernelStep == KernelChange /\ UNCHANGED clockVars

LEMMA ClockNext ==
  ASSUME ClockInv, TimeStep \/ UNCHANGED clockVars
  PROVE  ClockInv' /\ now' >= now /\ (skew' = 0 => skew = 0)
<1>1. now \in Nat
  BY ClockFacts
<1>2. CASE TimeStep /\ Advance
  <2>1. now' \in Instants /\ now' > now /\ skew' = skew
    BY <1>2 DEF Advance
  <2>2. now' \in Nat
    BY <2>1, WallClockAssumption
  <2> QED BY <1>1, <2>1, <2>2 DEF ClockInv
<1>3. CASE TimeStep /\ SetBack
  BY <1>1, <1>3 DEF SetBack, ClockInv
<1>4. CASE UNCHANGED clockVars
  BY <1>1, <1>4 DEF clockVars, ClockInv
<1> QED BY <1>2, <1>3, <1>4 DEF TimeStep

LEMMA HeldLonger ==
  ASSUME ClockInv, KernelInv,
         TimeStep \/ KernelStep \/ (UNCHANGED clockVars /\ UNCHANGED kernelVars)
  PROVE  /\ \A b \in Backends : HeldAt(b)' >= HeldAt(b) /\ HeldAt(b)' \in Nat
         /\ KernelInv'
         /\ changedAt' >= changedAt
<1>1. now \in Nat /\ now' \in Nat /\ now' >= now /\ ClockInv'
  BY ClockFacts, ClockNext, WallClockAssumption DEF KernelStep, ClockInv
<1>2. CASE UNCHANGED kernelVars
  BY <1>1, <1>2 DEF KernelInv, HeldAt, kernelVars
<1>3. CASE KernelStep
  <2>1. PICK e \in Backends \cup {NoNat} :
          /\ entries' = IF e \in entries THEN entries \ {e} ELSE entries \cup {e}
          /\ releasedAt' = [b \in Backends |-> IF b = e THEN now ELSE releasedAt[b]]
    BY <1>3 DEF KernelStep, KernelChange
  <2>2. changedAt' = now /\ now' = now
    BY <1>3 DEF KernelStep, KernelChange, clockVars
  <2>3. IsFiniteSet(entries')
    BY <2>1, FS_AddElement, FS_RemoveElement DEF KernelInv
  <2>4. KernelInv'
    BY <1>1, <2>1, <2>2, <2>3 DEF KernelInv
  <2>5. \A b \in Backends : HeldAt(b)' >= HeldAt(b) /\ HeldAt(b)' \in Nat
    BY <1>1, <2>1, <2>2 DEF KernelInv, HeldAt
  <2> QED BY <2>2, <2>4, <2>5 DEF KernelInv
<1> QED BY <1>2, <1>3 DEF TimeStep, conntrackVars

LEMMA BuildTableFacts ==
  ASSUME NEW dump, IsFiniteSet(dump), dump \subseteq Backends \cup {NoNat}
  PROVE  /\ BuildTable(dump) \in Backends \cup {None}
         /\ BuildTable(dump) # None => dump = {BuildTable(dump)}
<1>1. CASE Cardinality(dump) = 1 /\ dump # {NoNat}
  <2>1. PICK x : dump = {x}
    BY <1>1, FS_Singleton
  <2>2. BuildTable(dump) = x
    BY <1>1, <2>1 DEF BuildTable
  <2> QED BY <1>1, <2>1, <2>2
<1>2. CASE ~(Cardinality(dump) = 1 /\ dump # {NoNat})
  BY <1>2 DEF BuildTable
<1> QED BY <1>1, <1>2

(* While only time passes or the kernel changes.                           *)
LEMMA ConntrackEnvironment ==
  ASSUME ConntrackInv, TimeStep \/ KernelStep
  PROVE  ConntrackInv'
<1> USE DEF ConntrackInv
<1>1. /\ UNCHANGED <<cacheVars, callVars, resolveAt, dumpStart, dumpStartWall>>
      /\ now \in Nat /\ now' \in Nat /\ now' >= now /\ ClockInv' /\ (skew' = 0 => skew = 0)
  <2>1. UNCHANGED <<cacheVars, callVars, resolveAt, dumpStart, dumpStartWall>>
    BY DEF TimeStep, KernelStep, KernelChange, conntrackVars, dumpVars, cacheVars, callVars
  <2> QED BY <2>1, ClockFacts, ClockNext, WallClockAssumption DEF ClockInv, KernelStep
<1>2. /\ \A b \in Backends : /\ HeldAt(b)' >= HeldAt(b) /\ HeldAt(b)' \in Nat
                             /\ HeldAt(b) \in Nat
      /\ KernelInv' /\ changedAt' >= changedAt
  BY HeldLonger, HeldFacts
<1>3. UNCHANGED <<entries, changedAt>> \/ changedAt' = now
  BY DEF TimeStep, KernelStep, KernelChange, conntrackVars, kernelVars
<1>4. CacheInv'
  <2>1. table' # None => HeldAt(table)' >= dumpedAt'
    BY <1>1, <1>2 DEF CacheInv, cacheVars
  <2>2. table' # None /\ changedAt' < dumpedAt' => entries' = {table'}
    BY <1>1, <1>3 DEF CacheInv, cacheVars
  <2> QED BY <1>1, <2>1, <2>2 DEF CacheInv, cacheVars
<1>5. ThrottleInv'
  BY <1>1 DEF ThrottleInv, Dumping, cacheVars
<1>6. DumpInv'
  <2> SUFFICES ASSUME Dumping' PROVE DumpInv'
    BY DEF DumpInv
  <2>1. Dumping
    BY <1>1 DEF Dumping
  <2>2. CASE TimeStep
    <3>1. UNCHANGED <<entries, changedAt, inDump, sinceDump, calledAt>>
      BY <2>2 DEF TimeStep, conntrackVars, kernelVars, dumpVars, callVars
    <3>2. \A b \in sinceDump \cap Backends : HeldAt(b)' >= dumpStart'
      BY <1>1, <1>2, <2>1, <3>1 DEF DumpInv, CacheInv
    <3> QED BY <1>1, <2>1, <3>1, <3>2 DEF DumpInv, CacheInv
  <2>3. CASE KernelStep
    <3>1. inDump' = inDump \cap entries' /\ sinceDump' = sinceDump \cup entries' /\ changedAt' = now
      BY <2>1, <2>3 DEF KernelStep, KernelChange
    <3>2. IsFiniteSet(sinceDump') /\ sinceDump' \subseteq Backends \cup {NoNat}
      BY <1>2, <2>1, <3>1, FS_Union DEF DumpInv, KernelInv
    <3>3. now' = now
      BY <2>3 DEF KernelStep, clockVars
    <3>4. \A b \in sinceDump' \cap Backends : HeldAt(b)' >= dumpStart'
      <4> SUFFICES ASSUME NEW b \in sinceDump' \cap Backends
                   PROVE  HeldAt(b)' >= dumpStart'
        OBVIOUS
      <4>1. CASE b \in sinceDump
        <5>1. HeldAt(b) >= dumpStart
          BY <2>1, <4>1 DEF DumpInv
        <5> QED BY <1>1, <1>2, <5>1 DEF CacheInv
      <4>2. CASE b \in entries'
        <5>1. HeldAt(b)' = now
          BY <3>3, <4>2 DEF HeldAt
        <5> QED BY <1>1, <2>1, <5>1 DEF DumpInv, CacheInv
      <4> QED BY <3>1, <4>1, <4>2
    <3>5. UNCHANGED <<calledAt, dumpStart>> /\ ~(changedAt' < dumpStart')
      BY <1>1, <2>1, <3>1, <3>3 DEF callVars, DumpInv, CacheInv
    <3> QED BY <1>1, <2>1, <3>1, <3>2, <3>3, <3>4, <3>5 DEF DumpInv
  <2> QED BY <2>2, <2>3
<1>7. CallInv'
  <2>1. \A b : Recent(b) => Recent(b)'
    BY <1>1, <1>2, ConntrackAssumption DEF Recent, callVars, CallInv
  <2>2. UNCHANGED <<original, notBefore, calledAt, found, answer, table, dumpedAt, dumpedWall, resolveAt>>
    BY <1>1 DEF callVars, cacheVars
  <2>3. resolveAt' \in {"missDump", "result"} /\ found' # None => Recent(found)'
    BY <2>1, <2>2 DEF CallInv, Recent
  <2>4. resolveAt' = "returned" /\ answer' # None => Recent(answer)'
    BY <2>1, <2>2 DEF CallInv, Recent
  <2> QED BY <1>1, <2>2, <2>3, <2>4 DEF CallInv, IsStale
<1> QED BY <1>1, <1>2, <1>4, <1>5, <1>6, <1>7

(* The steps of ResolveAfter.                                              *)
LEMMA ResolverLeavesKernel ==
  ASSUME ConntrackInv, UNCHANGED clockVars, UNCHANGED kernelVars
  PROVE  /\ ClockInv' /\ KernelInv'
         /\ \A b : HeldAt(b)' = HeldAt(b)
         /\ now \in Nat \ {0} /\ Wall \in Nat /\ (skew = 0 => Wall = now)
BY ClockFacts DEF ConntrackInv, ClockInv, KernelInv, HeldAt, clockVars, kernelVars

LEMMA BeginDumpKeeps ==
  ASSUME ConntrackInv, UNCHANGED clockVars, UNCHANGED kernelVars, BeginDump, Dumping',
         calledAt' \in Nat, calledAt' <= now
  PROVE  DumpInv'
<1>1. now \in Nat \ {0} /\ Wall \in Nat /\ (skew = 0 => Wall = now) /\ now' = now /\ skew' = skew
  BY ResolverLeavesKernel DEF clockVars
<1>2. \A b \in entries : HeldAt(b)' = now
  BY DEF HeldAt, kernelVars, clockVars
<1>3. entries' = entries /\ changedAt' = changedAt
  BY DEF kernelVars
<1> QED BY <1>1, <1>2, <1>3 DEF DumpInv, BeginDump, ConntrackInv, KernelInv

(* What a dump that is over leaves in the cache.                           *)
LEMMA DumpOutcome ==
  ASSUME ConntrackInv, UNCHANGED clockVars, UNCHANGED kernelVars, Dumping, ~Dumping',
         DumpFailed \/ DumpSucceeded, EndDump
  PROVE  /\ CacheInv' /\ ThrottleInv' /\ DumpInv'
         /\ table' # None => /\ dumpedAt' = dumpStart /\ dumpStart >= calledAt
                             /\ table' \in Backends /\ HeldAt(table)' >= dumpStart
         /\ DumpFailed => table' = None /\ dumpedAt' = 0
<1> USE DEF ConntrackInv
<1>1. /\ ClockInv' /\ KernelInv'
      /\ \A b : HeldAt(b)' = HeldAt(b)
      /\ now \in Nat /\ now' = now /\ skew' = skew /\ entries' = entries /\ changedAt' = changedAt
  BY ResolverLeavesKernel DEF clockVars, kernelVars
<1>2. dumpStart' = dumpStart /\ dumpStart \in Nat \ {0} /\ dumpStart <= now
  BY DEF EndDump, DumpInv, CacheInv
<1>3. Ttl \in Nat \ {0}
  BY ConntrackAssumption
<1>4. CASE DumpFailed
  <2>1. table' = None /\ dumpedAt' = 0 /\ dumpedWall' = 0 /\ refreshAt' = dumpStart + 10 * Ttl
    BY <1>4 DEF DumpFailed, ZeroTime
  <2>2. refreshAt' \in Nat
    BY <1>2, <1>3, <2>1
  <2> QED BY <1>1, <1>2, <2>1, <2>2 DEF CacheInv, ThrottleInv, DumpInv
<1>5. CASE DumpSucceeded
  <2>1. PICK dump \in SUBSET sinceDump : inDump \subseteq dump /\ table' = BuildTable(dump)
    BY <1>5 DEF DumpSucceeded
  <2>2. /\ dumpedAt' = dumpStart /\ dumpedWall' = dumpStartWall /\ refreshAt' = dumpStart + Ttl
    BY <1>5 DEF DumpSucceeded
  <2>3. IsFiniteSet(dump) /\ dump \subseteq Backends \cup {NoNat}
    BY <2>1, FS_Subset DEF DumpInv
  <2>4. /\ table' \in Backends \cup {None}
        /\ table' # None => dump = {table'}
    BY <2>1, <2>3, BuildTableFacts
  <2>5. table' # None => table' \in Backends /\ table' \in sinceDump
    BY <2>1, <2>4
  <2>6. table' # None => HeldAt(table)' >= dumpStart
    BY <1>1, <2>5 DEF DumpInv, HeldAt, clockVars, kernelVars
  <2>7. table' # None /\ changedAt < dumpStart => entries = {table'}
    BY <2>1, <2>4 DEF DumpInv
  <2>8. refreshAt' \in Nat
    BY <1>2, <1>3, <2>2
  <2>9. CacheInv'
    BY <1>1, <1>2, <2>2, <2>4, <2>6, <2>7, <2>8 DEF CacheInv, DumpInv
  <2>10. ThrottleInv' /\ DumpInv' /\ dumpStart >= calledAt
    BY <1>2, <2>2 DEF ThrottleInv, DumpInv
  <2>11. DumpFailed => table' = None /\ dumpedAt' = 0
    BY DEF DumpFailed, ZeroTime
  <2> QED BY <2>2, <2>5, <2>6, <2>9, <2>10, <2>11
<1> QED BY <1>4, <1>5

LEMMA CacheQuiet ==
  ASSUME ConntrackInv, UNCHANGED clockVars, UNCHANGED kernelVars, UNCHANGED cacheVars,
         dumpStart' \in Nat
  PROVE  CacheInv'
<1>1. \A b : HeldAt(b)' = HeldAt(b)
  BY ResolverLeavesKernel
<1> QED BY <1>1 DEF ConntrackInv, CacheInv, cacheVars, clockVars, kernelVars

LEMMA ResolveBeginKeeps ==
  ASSUME ConntrackInv, UNCHANGED clockVars, NEW inOrder \in BOOLEAN, NEW observed \in Nat,
         ResolveBegin(inOrder, observed)
  PROVE  ConntrackInv'
<1>1. /\ resolveAt = "idle" /\ original' = inOrder /\ notBefore' = observed /\ calledAt' = now
      /\ UNCHANGED kernelVars /\ UNCHANGED cacheVars
  BY DEF ResolveBegin
<1>2. ClockInv' /\ KernelInv' /\ now \in Nat
  BY <1>1, ResolverLeavesKernel
<1>3. ASSUME refreshAt # ZeroTime /\ now < refreshAt
      PROVE  ConntrackInv'
  <2>1. resolveAt' = "lookup" /\ UNCHANGED dumpVars
    BY <1>3 DEF ResolveBegin
  <2>2. CacheInv'
    BY <1>1, <2>1, CacheQuiet DEF dumpVars, ConntrackInv, CacheInv
  <2>3. ~Dumping /\ ~Dumping'
    BY <1>1, <2>1 DEF Dumping
  <2>4. ThrottleInv' /\ DumpInv'
    BY <1>1, <2>1, <2>3 DEF ConntrackInv, ThrottleInv, DumpInv, dumpVars, cacheVars
  <2>5. table # None => dumpedAt > now - Ttl
    BY <1>2, <1>3, ConntrackAssumption DEF ConntrackInv, CacheInv
  <2>6. CallInv'
    BY <1>1, <1>2, <2>1, <2>5 DEF CallInv, ResolveStates, cacheVars, clockVars
  <2> QED BY <1>2, <2>2, <2>4, <2>6 DEF ConntrackInv
<1>4. ASSUME ~(refreshAt # ZeroTime /\ now < refreshAt)
      PROVE  ConntrackInv'
  <2>1. resolveAt' = "refresh" /\ BeginDump
    BY <1>4 DEF ResolveBegin
  <2>2. CacheInv'
    BY <1>1, <1>2, <2>1, CacheQuiet DEF BeginDump
  <2>3. Dumping'
    BY <2>1 DEF Dumping
  <2>4. ThrottleInv' /\ DumpInv'
    BY <1>1, <1>2, <2>1, <2>3, BeginDumpKeeps DEF ThrottleInv
  <2>5. CallInv'
    BY <1>1, <1>2, <2>1 DEF CallInv, ResolveStates, clockVars
  <2> QED BY <1>2, <2>2, <2>4, <2>5 DEF ConntrackInv
<1> QED BY <1>3, <1>4

LEMMA RefreshDoneKeeps ==
  ASSUME ConntrackInv, UNCHANGED clockVars, RefreshDone
  PROVE  ConntrackInv'
<1>1. /\ resolveAt = "refresh" /\ resolveAt' = "lookup" /\ UNCHANGED kernelVars /\ UNCHANGED callVars
      /\ EndDump /\ (DumpFailed \/ DumpSucceeded) /\ Dumping /\ ~Dumping'
  BY DEF RefreshDone, Dumping
<1>2. ClockInv' /\ KernelInv'
  BY <1>1, ResolverLeavesKernel
<1>3. /\ CacheInv' /\ ThrottleInv' /\ DumpInv'
      /\ table' # None => dumpedAt' = dumpStart /\ dumpStart >= calledAt
  BY <1>1, DumpOutcome
<1>4. CallInv'
  BY <1>1, <1>3, ConntrackAssumption DEF ConntrackInv, CallInv, CacheInv, ResolveStates, callVars, clockVars
<1> QED BY <1>2, <1>3, <1>4 DEF ConntrackInv

LEMMA LookupKeeps ==
  ASSUME ConntrackInv, UNCHANGED clockVars, Lookup
  PROVE  ConntrackInv'
<1>1. /\ resolveAt = "lookup" /\ found' = InTable
      /\ UNCHANGED kernelVars /\ UNCHANGED cacheVars
      /\ UNCHANGED <<original, notBefore, calledAt, answer>>
  BY DEF Lookup
<1>2. /\ ClockInv' /\ KernelInv' /\ now \in Nat
      /\ \A b : HeldAt(b)' = HeldAt(b)
  BY <1>1, ResolverLeavesKernel
<1>3. found' # None => /\ found' = table /\ table' = table /\ table \in Backends /\ original
                       /\ HeldAt(table) >= dumpedAt /\ dumpedAt > calledAt - Ttl
  BY <1>1 DEF InTable, ConntrackInv, CacheInv, CallInv, cacheVars
<1>4. found' # None => Recent(found)'
  <2> SUFFICES ASSUME found' # None PROVE Recent(found)'
    OBVIOUS
  <2>1. HeldAt(table)' = HeldAt(table) /\ HeldAt(table) \in Nat
    BY <1>2, <1>3, HeldFacts DEF HeldAt, clockVars, kernelVars, cacheVars, ConntrackInv
  <2>2. HeldAt(found)' > calledAt - Ttl
    BY <1>1, <1>3, <2>1, ConntrackAssumption DEF ConntrackInv, CacheInv, CallInv, HeldAt
  <2> QED BY <1>1, <1>3, <2>2 DEF Recent
<1>5. CASE resolveAt' = "missDump" /\ BeginDump
  <2>1. CacheInv'
    BY <1>1, <1>2, <1>5, CacheQuiet DEF BeginDump
  <2>2. Dumping' /\ ThrottleInv'
    BY <1>5 DEF Dumping, ThrottleInv
  <2>3. calledAt' \in Nat /\ calledAt' <= now
    BY <1>1 DEF ConntrackInv, CallInv
  <2>4. DumpInv'
    BY <1>1, <1>5, <2>2, <2>3, BeginDumpKeeps
  <2>5. CallInv'
    BY <1>1, <1>4, <1>5 DEF ConntrackInv, CallInv, ResolveStates, clockVars
  <2> QED BY <1>2, <2>1, <2>2, <2>4, <2>5 DEF ConntrackInv
<1>6. CASE resolveAt' = "result" /\ UNCHANGED dumpVars
  <2>1. CacheInv'
    BY <1>1, <1>6, CacheQuiet DEF dumpVars, ConntrackInv, CacheInv
  <2>2. ~Dumping /\ ~Dumping'
    BY <1>1, <1>6 DEF Dumping
  <2>3. ThrottleInv' /\ DumpInv'
    BY <1>1, <1>6, <2>2 DEF ConntrackInv, ThrottleInv, DumpInv, dumpVars, cacheVars
  <2>4. CallInv'
    BY <1>1, <1>3, <1>4, <1>6 DEF ConntrackInv, CallInv, ResolveStates, clockVars
  <2> QED BY <1>2, <2>1, <2>3, <2>4 DEF ConntrackInv
<1> QED BY <1>5, <1>6 DEF Lookup

LEMMA MissDumpDoneKeeps ==
  ASSUME ConntrackInv, UNCHANGED clockVars, MissDumpDone
  PROVE  ConntrackInv'
<1>1. /\ resolveAt = "missDump" /\ resolveAt' = "result" /\ UNCHANGED kernelVars
      /\ UNCHANGED <<original, notBefore, calledAt, answer>>
      /\ EndDump /\ (DumpFailed \/ DumpSucceeded) /\ Dumping /\ ~Dumping'
      /\ \/ DumpFailed /\ UNCHANGED found
         \/ found' = (IF original THEN table' ELSE None)
  BY DEF MissDumpDone, Dumping
<1>2. /\ ClockInv' /\ KernelInv'
      /\ \A b : HeldAt(b)' = HeldAt(b)
  BY <1>1, ResolverLeavesKernel
<1>3. /\ CacheInv' /\ ThrottleInv' /\ DumpInv'
      /\ table' # None => /\ dumpedAt' = dumpStart /\ dumpStart >= calledAt
                          /\ table' \in Backends /\ HeldAt(table)' >= dumpStart
      /\ DumpFailed => table' = None /\ dumpedAt' = 0
  BY <1>1, DumpOutcome
<1>4. found' # None => Recent(found)' /\ (found' = table' \/ dumpedAt' = 0)
  <2>1. CASE DumpFailed /\ UNCHANGED found
    BY <1>1, <1>2, <1>3, <2>1 DEF ConntrackInv, CallInv, Recent, HeldAt, clockVars, kernelVars
  <2>2. CASE found' = (IF original THEN table' ELSE None)
    <3> SUFFICES ASSUME found' # None PROVE Recent(found)' /\ found' = table'
      OBVIOUS
    <3>1. original /\ found' = table'
      BY <2>2
    <3>2. /\ found' \in Backends /\ HeldAt(found)' >= dumpStart /\ dumpStart >= calledAt
          /\ dumpStart \in Nat /\ calledAt \in Nat
      BY <1>3, <3>1 DEF ConntrackInv, CacheInv, CallInv, HeldAt
    <3>3. HeldAt(found)' \in Nat
      BY <1>2, <3>2, WallClockAssumption DEF HeldAt, KernelInv, ClockInv
    <3>4. HeldAt(found)' > calledAt - Ttl
      BY <3>2, <3>3, ConntrackAssumption
    <3> QED BY <1>1, <3>1, <3>2, <3>4 DEF Recent
  <2> QED BY <1>1, <2>1, <2>2
<1>5. CallInv'
  BY <1>1, <1>4 DEF ConntrackInv, CallInv, ResolveStates, clockVars
<1> QED BY <1>2, <1>3, <1>5 DEF ConntrackInv

LEMMA ResultKeeps ==
  ASSUME ConntrackInv, UNCHANGED clockVars, Result \/ ResolveReturns
  PROVE  ConntrackInv'
<1>1. UNCHANGED kernelVars /\ UNCHANGED cacheVars /\ UNCHANGED dumpVars
  BY DEF Result, ResolveReturns
<1>2. ClockInv' /\ KernelInv' /\ \A b : HeldAt(b)' = HeldAt(b)
  BY <1>1, ResolverLeavesKernel
<1>3. CacheInv'
  BY <1>1, CacheQuiet DEF dumpVars, ConntrackInv, CacheInv
<1>4. ~Dumping /\ ~Dumping'
  BY DEF Result, ResolveReturns, Dumping
<1>5. ThrottleInv' /\ DumpInv'
  BY <1>1, <1>4 DEF ConntrackInv, ThrottleInv, DumpInv, dumpVars, cacheVars
<1>6. CASE Result
  <2>1. /\ resolveAt = "result" /\ resolveAt' = "returned"
        /\ UNCHANGED <<original, notBefore, calledAt, found, table, dumpedAt, dumpedWall>>
    BY <1>1, <1>6 DEF Result, cacheVars
  <2>2. answer' # None => answer' = found /\ ~IsStale /\ Recent(found)
    BY <1>6 DEF Result, ConntrackInv, CallInv
  <2>3. answer' # None => Recent(answer)'
    BY <1>2, <2>1, <2>2 DEF Recent, HeldAt, clockVars, kernelVars
  <2> QED BY <1>2, <1>3, <1>5, <2>1, <2>2, <2>3 DEF ConntrackInv, CallInv, ResolveStates, IsStale, clockVars
<1>7. CASE ResolveReturns
  <2>0. 0 <= now' /\ 0 \in Nat
    BY <1>2, WallClockAssumption DEF ClockInv
  <2>1. CallInv'
    BY <1>7, <2>0, Zenon DEF ResolveReturns, CallInv, ResolveStates, ZeroTime
  <2> QED BY <1>2, <1>3, <1>5, <2>1 DEF ConntrackInv
<1> QED BY <1>6, <1>7

(* How a step of the loop moves the resolver.                              *)
ResolverMoves ==
  \/ TimeStep
  \/ KernelStep
  \/ UNCHANGED clockVars /\ \E inOrder \in BOOLEAN, observed \in Nat : ResolveBegin(inOrder, observed)
  \/ UNCHANGED clockVars /\ (ConntrackStep \/ ResolveReturns)
  \/ UNCHANGED ctClocks

LEMMA ConntrackNext ==
  ASSUME ConntrackInv, ResolverMoves
  PROVE  ConntrackInv'
<1>1. CASE TimeStep \/ KernelStep
  BY <1>1, ConntrackEnvironment
<1>2. CASE UNCHANGED clockVars /\ \E inOrder \in BOOLEAN, observed \in Nat : ResolveBegin(inOrder, observed)
  BY <1>2, ResolveBeginKeeps
<1>3. CASE UNCHANGED clockVars /\ (ConntrackStep \/ ResolveReturns)
  BY <1>3, RefreshDoneKeeps, LookupKeeps, MissDumpDoneKeeps, ResultKeeps DEF ConntrackStep
<1>4. CASE UNCHANGED ctClocks
  BY <1>4 DEF ctClocks, clockVars, conntrackVars, kernelVars, cacheVars, dumpVars, callVars,
              ConntrackInv, ClockInv, KernelInv, CacheInv, ThrottleInv, DumpInv, CallInv, Dumping,
              HeldAt, Recent, IsStale
<1> QED BY <1>1, <1>2, <1>3, <1>4 DEF ResolverMoves

LEMMA ConntrackStart ==
  ASSUME ClockInit, ConntrackInit
  PROVE  ConntrackInv
<1>1. ClockInv /\ now \in Nat
  BY WallClockAssumption DEF ClockInit, ClockInv
<1>2. KernelInv
  BY <1>1, FS_EmptySet DEF ConntrackInit, KernelInv
<1>3. CacheInv /\ ThrottleInv /\ DumpInv
  BY <1>1 DEF ConntrackInit, CacheInv, ThrottleInv, DumpInv, Dumping, ZeroTime
<1>4. CallInv
  <2>1. 0 <= now /\ 0 \in Nat
    BY <1>1
  <2> QED BY <2>1, Zenon DEF ConntrackInit, CallInv, ResolveStates, ZeroTime
<1> QED BY <1>1, <1>2, <1>3, <1>4 DEF ConntrackInv

LEMMA ConntrackSound == ConntrackInv => MappingSound
<1> SUFFICES ASSUME ConntrackInv, resolveAt = "returned", answer # None
             PROVE  /\ original
                    /\ notBefore # ZeroTime /\ skew = 0 => HeldAt(answer) >= notBefore
                    /\ HeldAt(answer) > calledAt - Ttl
                    /\ changedAt < dumpedAt => entries = {answer}
  BY DEF MappingSound
<1>1. Recent(answer) /\ ~(dumpedWall < notBefore) /\ (answer = table \/ dumpedAt = 0)
  BY DEF ConntrackInv, CallInv, IsStale
<1>2. notBefore \in Nat /\ dumpedWall \in Nat /\ dumpedAt \in Nat /\ changedAt \in Nat
  BY DEF ConntrackInv, CallInv, CacheInv, KernelInv
<1>3. answer \in Backends /\ HeldAt(answer) \in Nat
  BY <1>1, HeldFacts DEF Recent, ConntrackInv
<1>4. ASSUME notBefore # 0, skew = 0
      PROVE  HeldAt(answer) >= notBefore
  <2>1. dumpedWall = dumpedAt /\ dumpedAt # 0 /\ answer = table
    BY <1>1, <1>2, <1>4 DEF ConntrackInv, CacheInv
  <2>2. HeldAt(answer) >= dumpedAt
    BY <2>1 DEF ConntrackInv, CacheInv
  <2> QED BY <1>1, <1>2, <1>3, <2>1, <2>2
<1>5. ASSUME changedAt < dumpedAt
      PROVE  entries = {answer}
  BY <1>1, <1>2, <1>5 DEF ConntrackInv, CacheInv
<1> QED BY <1>1, <1>4, <1>5 DEF Recent, ZeroTime

(* Two dumps are apart by at least the shorter of the two intervals.       *)
DumpApart ==
  DumpBegins /\ dumpStart # 0 =>
    now - dumpStart >= (IF dumpedAt = ZeroTime THEN 10 * Ttl
                        ELSE IF Ttl < MissRefresh THEN Ttl ELSE MissRefresh)

LEMMA DumpsApart ==
  ASSUME ConntrackInv, ResolverMoves
  PROVE  DumpApart
<1> SUFFICES ASSUME ~Dumping, resolveAt' \in {"refresh", "missDump"}, dumpStart # 0
             PROVE  now - dumpStart >= (IF dumpedAt = ZeroTime THEN 10 * Ttl
                                        ELSE IF Ttl < MissRefresh THEN Ttl ELSE MissRefresh)
  BY DEF DumpApart, DumpBegins
<1>1. /\ now \in Nat /\ dumpStart \in Nat /\ dumpedAt \in Nat /\ refreshAt \in Nat
      /\ Ttl \in Nat \ {0} /\ MissRefresh \in Nat \ {0}
  BY ClockFacts, ConntrackAssumption DEF ConntrackInv, CacheInv
<1>2. \/ dumpedAt = 0 /\ refreshAt = dumpStart + 10 * Ttl
      \/ dumpedAt = dumpStart /\ refreshAt = dumpStart + Ttl
  BY DEF ConntrackInv, ThrottleInv, CacheInv
<1>3. \/ ~(refreshAt # ZeroTime /\ now < refreshAt)
      \/ dumpedAt # ZeroTime /\ now - dumpedAt >= MissRefresh
  <2>1. CASE UNCHANGED clockVars /\ \E inOrder \in BOOLEAN, observed \in Nat : ResolveBegin(inOrder, observed)
    BY <2>1 DEF ResolveBegin
  <2>2. CASE ConntrackStep
    BY <2>2 DEF ConntrackStep, RefreshDone, Lookup, MissDumpDone, Result, MissDumpDue
  <2>3. CASE ResolveReturns
    BY <2>3 DEF ResolveReturns
  <2>4. CASE UNCHANGED resolveAt
    BY <2>4 DEF Dumping
  <2> QED BY <2>1, <2>2, <2>3, <2>4
          DEF ResolverMoves, TimeStep, KernelStep, KernelChange, ctClocks, conntrackVars
<1> HIDE DEF ConntrackInv
<1> QED BY <1>1, <1>2, <1>3 DEF ZeroTime

-----------------------------------------------------------------------------
(* The kernel adds images and ends them; what has been is never rewritten. *)
ImagesGrow ==
  /\ Len(images') \in Nat /\ Len(images') >= Len(images)
  /\ \A i \in 1..Len(images) :
       /\ i \in 1..Len(images') /\ images'[i] = images[i]
       /\ endedAt'[i] = endedAt[i] \/ endedAt'[i] = now

LEMMA NewImageKeeps ==
  ASSUME ImagesInv, now \in Nat, NEW g \in Nat, NEW c \in Containers \cup {NoContainer},
         NewImage(g, c),
         \/ g = Len(images) + 1
         \/ g = Generation(image) /\ image # 0 /\ c = images[image].container
  PROVE  ImagesInv' /\ ImagesGrow
<1> DEFINE n == Len(images)
<1>1. n \in Nat /\ [generation |-> g, container |-> c] \in ImageSet
  BY DEF ImagesInv, ImageSet
<1>2. /\ images' \in Seq(ImageSet) /\ Len(images') = n + 1 /\ image' = n + 1
      /\ \A i \in 1..n : images'[i] = images[i]
      /\ images'[n + 1] = [generation |-> g, container |-> c]
  BY <1>1 DEF NewImage, ImagesInv
<1>3. endedAt' = [i \in 1..n + 1 |-> IF i = image THEN now ELSE IF i > n THEN 0 ELSE endedAt[i]]
  BY DEF NewImage
<1>4. image \in 0..n
  BY <1>1 DEF ImagesInv
<1>5. /\ endedAt' \in [1..Len(images') -> Nat] /\ endedAt'[n + 1] = 0
      /\ \A i \in 1..n : endedAt'[i] = endedAt[i] \/ endedAt'[i] = now
  BY <1>1, <1>2, <1>3, <1>4 DEF ImagesInv
<1>6. /\ \A i \in 1..n : Generation(i)' = Generation(i) /\ Generation(i) \in 1..i
      /\ images'[n + 1].generation = g
  BY <1>1, <1>2 DEF Generation, ImagesInv
<1>7. /\ g \in 1..(n + 1) /\ (g # n + 1 => /\ g \in 1..n /\ Generation(g) = g
                                           /\ images[g].container = c)
      /\ \A i \in 1..n : Generation(i) <= g
  <2>1. CASE g = n + 1
    BY <1>1, <1>6, <2>1
  <2>2. CASE g = Generation(image) /\ image # 0 /\ c = images[image].container
    <3>1. image = n /\ image \in 1..n
      BY <1>1, <2>2 DEF ImagesInv
    <3>2. /\ g \in 1..n /\ images[g].container = c /\ Generation(g) = g
      BY <1>1, <2>2, <3>1 DEF ImagesInv
    <3>3. \A i \in 1..n : Generation(i) <= g
      BY <1>1, <2>2, <3>1 DEF ImagesInv
    <3> QED BY <1>1, <3>2, <3>3
  <2> QED BY <2>1, <2>2
<1>8. ASSUME NEW i \in 1..Len(images')
      PROVE  /\ Generation(i)' \in 1..i
             /\ images'[Generation(i)'].container = images'[i].container
             /\ images'[Generation(i)'].generation = Generation(i)'
  <2>1. CASE i \in 1..n
    <3>1. Generation(i)' = Generation(i) /\ Generation(i) \in 1..n /\ Generation(i) \in 1..i
      BY <1>1, <1>6, <2>1
    <3>2. /\ images[Generation(i)].container = images[i].container
          /\ images[Generation(i)].generation = Generation(i)
      BY <2>1 DEF ImagesInv, Generation
    <3> QED BY <1>2, <2>1, <3>1, <3>2
  <2>2. CASE i = n + 1
    BY <1>1, <1>2, <1>6, <1>7, <2>2 DEF Generation
  <2> QED BY <1>1, <1>2, <2>1, <2>2
<1>9. ASSUME NEW i \in 1..Len(images'), NEW j \in 1..Len(images'), i <= j
      PROVE  Generation(i)' <= Generation(j)'
  <2>1. CASE j = n + 1
    <3>1. Generation(j)' = g
      BY <1>6, <2>1 DEF Generation
    <3>2. i = n + 1 \/ i \in 1..n
      BY <1>1, <1>2
    <3>3. Generation(i)' = g \/ Generation(i)' <= g
      BY <1>6, <1>7, <3>2 DEF Generation
    <3> QED BY <3>1, <3>3
  <2>2. CASE j \in 1..n
    BY <1>1, <1>6, <1>9, <2>2 DEF ImagesInv
  <2> QED BY <1>1, <1>2, <2>1, <2>2
<1>10. image' = Len(images') /\ image' # 0 /\ endedAt'[image'] = 0
  BY <1>1, <1>2, <1>5
<1>11. ImagesInv'
  BY <1>2, <1>5, <1>8, <1>9, <1>10 DEF ImagesInv, Generation
<1>12. ImagesGrow
  BY <1>1, <1>2, <1>5 DEF ImagesGrow
<1> QED BY <1>11, <1>12

LEMMA ProcessChangeImages ==
  ASSUME ImagesInv, now \in Nat, ProcessChange
  PROVE  ImagesInv' /\ ImagesGrow
<1>1. Len(images) \in Nat /\ image \in 0..Len(images)
  BY DEF ImagesInv
<1>2. ASSUME image = 0, NEW c \in Containers \cup {NoContainer}, NewImage(Len(images) + 1, c)
      PROVE  ImagesInv' /\ ImagesGrow
  BY <1>1, <1>2, NewImageKeeps
<1>3. ASSUME image # 0, NewImage(Generation(image), images[image].container)
      PROVE  ImagesInv' /\ ImagesGrow
  <2>1. image \in 1..Len(images) /\ images[image] \in ImageSet
    BY <1>1, <1>3 DEF ImagesInv
  <2>2. Generation(image) \in Nat /\ images[image].container \in Containers \cup {NoContainer}
    BY <2>1 DEF ImageSet, Generation
  <2> QED BY <1>3, <2>2, NewImageKeeps
<1>4. ASSUME image # 0, image' = 0, endedAt' = [endedAt EXCEPT ![image] = now], UNCHANGED images
      PROVE  ImagesInv' /\ ImagesGrow
  <2>1. /\ endedAt' \in [1..Len(images') -> Nat]
        /\ \A i \in 1..Len(images) : endedAt'[i] = endedAt[i] \/ endedAt'[i] = now
    BY <1>4 DEF ImagesInv
  <2>2. ImagesInv'
    BY <1>4, <2>1 DEF ImagesInv, Generation
  <2>3. ImagesGrow
    BY <1>1, <1>4, <2>1 DEF ImagesGrow
  <2> QED BY <2>2, <2>3
<1> QED BY <1>2, <1>3, <1>4 DEF ProcessChange

(* A sound identity stays sound.                                           *)
LEMMA IdentityKept ==
  ASSUME ImagesInv, ImagesInv', ImagesGrow, now \in Nat, now' = now
  PROVE  \A id, at : at \in Int /\ OneGeneration(id, at) => OneGeneration(id, at)'
<1> SUFFICES ASSUME NEW id, NEW at \in Int, OneGeneration(id, at)
             PROVE  OneGeneration(id, at)'
  OBVIOUS
<1>1. \A i \in 1..Len(images) : Generation(i)' = Generation(i)
  BY DEF ImagesGrow, Generation
<1>2. endedAt'[id.comm] = 0 \/ endedAt'[id.comm] >= at
  BY DEF ImagesGrow, OneGeneration
<1> QED BY <1>1, <1>2 DEF ImagesGrow, OneGeneration

LEMMA NoIdentityTyped == NoIdentity \in IdentitySet /\ NoIdentity.start = 0
BY DEF NoIdentity, IdentitySet

LEMMA ProcessChangeKeeps ==
  ASSUME ProcessInv, now \in Nat, UNCHANGED clockVars, ProcessChange
  PROVE  ProcessInv'
<1>1. ImagesInv' /\ ImagesGrow /\ now' = now
  BY ProcessChangeImages DEF ProcessInv, clockVars
<1>2. \A id, at : at \in Int /\ OneGeneration(id, at) => OneGeneration(id, at)'
  BY <1>1, IdentityKept DEF ProcessInv
<1>3. UNCHANGED <<cache, lookupAt, lookupNow, draft, identity>>
  BY DEF ProcessChange
<1>4. /\ aliveIn \subseteq aliveIn' \/ lookupAt = "idle"
      /\ lookupAt # "idle" => Alive' \subseteq aliveIn'
  <2>1. ASSUME NEW g, NEW c, NewImage(g, c), Len(images) \in Nat, images \in Seq(ImageSet)
        PROVE  /\ lookupAt # "idle" => aliveIn \subseteq aliveIn'
               /\ lookupAt # "idle" => Alive' \subseteq aliveIn'
    <3>1. images'[Len(images) + 1] = [generation |-> g, container |-> c] /\ image' = Len(images) + 1
      BY <2>1 DEF NewImage
    <3>2. Alive' = {g}
      BY <2>1, <3>1 DEF Alive, Generation
    <3> QED BY <2>1, <3>2 DEF NewImage
  <2>2. Len(images) \in Nat /\ images \in Seq(ImageSet)
    BY DEF ProcessInv, ImagesInv
  <2> QED BY <2>1, <2>2 DEF ProcessChange, Alive, ProcessInv, LookupInv
<1>5. DraftInv'
  <2>1. Len(images) \in Nat /\ \A i \in 1..Len(images) : Generation(i)' = Generation(i)
    BY <1>1 DEF ImagesGrow, Generation, ProcessInv, ImagesInv
  <2>2. ASSUME lookupAt \in {"cmdline", "cgroup", "again"}
        PROVE  /\ draft.comm \in 1..Len(images') /\ draft.start = Generation(draft.comm)'
               /\ draft.start \in aliveIn'
               /\ endedAt'[draft.comm] = 0 \/ endedAt'[draft.comm] >= lookupNow
    <3>1. /\ draft.comm \in 1..Len(images) /\ draft.start = Generation(draft.comm)
          /\ draft.start \in aliveIn
          /\ endedAt[draft.comm] = 0 \/ endedAt[draft.comm] >= lookupNow
      BY <2>2 DEF ProcessInv, DraftInv
    <3>2. Generation(draft.comm)' = Generation(draft.comm)
      BY <1>1, <1>3, <3>1 DEF Generation, ImagesGrow
    <3>3. endedAt'[draft.comm] = 0 \/ endedAt'[draft.comm] >= lookupNow
      BY <1>1, <3>1 DEF ImagesGrow, ProcessInv, LookupInv
    <3> QED BY <1>1, <1>4, <2>2, <3>1, <3>2, <3>3 DEF ImagesGrow
  <2>3. ASSUME lookupAt \in {"cgroup", "again"}
        PROVE  draft.cmdline = 0 \/ draft.cmdline \in draft.comm..Len(images')
    BY <1>1, <2>1, <2>3 DEF ImagesGrow, ProcessInv, DraftInv
  <2>4. ASSUME lookupAt = "again"
        PROVE  \/ draft.container = NoContainer
               \/ \E i \in draft.comm..Len(images') : draft.container = images'[i].container
    <3>1. \/ draft.container = NoContainer
          \/ \E i \in draft.comm..Len(images) : draft.container = images[i].container
      BY <2>4 DEF ProcessInv, DraftInv
    <3>2. draft.comm \in 1..Len(images)
      BY <2>4 DEF ProcessInv, DraftInv
    <3>3. \A i \in draft.comm..Len(images) :
            i \in draft.comm..Len(images') /\ images'[i] = images[i]
      BY <1>1, <2>1, <3>2 DEF ImagesGrow
    <3> QED BY <3>1, <3>3
  <2> QED BY <1>3, <2>2, <2>3, <2>4 DEF DraftInv
<1>6. LookupInv'
  <2>1. cache # NoIdentity => OneGeneration(cache, cache.expiresAt - ProcessTtl)'
    <3> SUFFICES ASSUME cache # NoIdentity PROVE OneGeneration(cache, cache.expiresAt - ProcessTtl)'
      OBVIOUS
    <3>1. PICK c, at : c = cache /\ at = cache.expiresAt - ProcessTtl
      OBVIOUS
    <3>2. OneGeneration(c, at) /\ at \in Int
      BY <3>1, ProcessAssumption DEF ProcessInv, LookupInv, IdentitySet
    <3>3. OneGeneration(c, at)'
      BY <1>2, <3>2
    <3> QED BY <1>3, <3>1, <3>3
  <2>2. lookupAt = "returned" /\ identity # NoIdentity =>
          OneGeneration(identity, lookupNow - ProcessTtl)' /\ identity.start \in aliveIn'
    <3> SUFFICES ASSUME lookupAt = "returned", identity # NoIdentity
                 PROVE  OneGeneration(identity, lookupNow - ProcessTtl)'
      BY <1>4 DEF ProcessInv, LookupInv
    <3>1. PICK c, at : c = identity /\ at = lookupNow - ProcessTtl
      OBVIOUS
    <3>2. OneGeneration(c, at) /\ at \in Int
      BY <3>1, ProcessAssumption DEF ProcessInv, LookupInv
    <3>3. OneGeneration(c, at)'
      BY <1>2, <3>2
    <3> QED BY <1>3, <3>1, <3>3
  <2> QED BY <1>1, <1>3, <1>4, <2>1, <2>2 DEF ProcessInv, LookupInv
<1> QED BY <1>1, <1>5, <1>6 DEF ProcessInv

(* Lookup begins, and reads the files one after the other.                 *)
LEMMA ImagesQuiet ==
  ASSUME ProcessInv, UNCHANGED clockVars, UNCHANGED procVars
  PROVE  /\ ImagesInv' /\ now' = now /\ Alive' = Alive
         /\ \A i : Generation(i)' = Generation(i)
         /\ \A id, at : OneGeneration(id, at)' <=> OneGeneration(id, at)
BY DEF ProcessInv, ImagesInv, clockVars, procVars, Alive, Generation, OneGeneration

LEMMA ReturnKeeps ==
  ASSUME ProcessInv, UNCHANGED clockVars, UNCHANGED procVars, UNCHANGED <<lookupNow, aliveIn, draft>>,
         lookupAt # "idle",
         lookupAt' = "returned",
         cache' \in IdentitySet, identity' \in IdentitySet,
         cache' # NoIdentity => OneGeneration(cache', cache'.expiresAt - ProcessTtl),
         identity' # NoIdentity =>
           OneGeneration(identity', lookupNow - ProcessTtl) /\ identity'.start \in aliveIn
  PROVE  ProcessInv'
<1>1. /\ ImagesInv' /\ now' = now /\ Alive' = Alive
      /\ \A id, at : OneGeneration(id, at)' <=> OneGeneration(id, at)
  BY ImagesQuiet
<1>2. DraftInv'
  BY DEF DraftInv
<1>3. cache' # NoIdentity => OneGeneration(cache, cache.expiresAt - ProcessTtl)'
  <2>1. PICK c, at : c = cache' /\ at = cache'.expiresAt - ProcessTtl
    OBVIOUS
  <2>2. OneGeneration(c, at)' <=> OneGeneration(c, at)
    BY <1>1
  <2> QED BY <2>1, <2>2
<1>4. identity' # NoIdentity => OneGeneration(identity, lookupNow - ProcessTtl)'
  <2>1. PICK c, at : c = identity' /\ at = lookupNow - ProcessTtl
    OBVIOUS
  <2>2. OneGeneration(c, at)' <=> OneGeneration(c, at)
    BY <1>1
  <2> QED BY <2>1, <2>2
<1>5. LookupInv'
  BY <1>1, <1>3, <1>4 DEF LookupInv, LookupStates, ProcessInv
<1> QED BY <1>1, <1>2, <1>5 DEF ProcessInv

LEMMA LookupFailsKeeps ==
  ASSUME ProcessInv, UNCHANGED clockVars, lookupAt # "idle", LookupFails
  PROVE  ProcessInv'
<1>1. cache' = NoIdentity /\ identity' = NoIdentity
  BY DEF LookupFails, Return
<1> QED BY <1>1, ReturnKeeps, NoIdentityTyped DEF LookupFails, Return

LEMMA LookupHitKeeps ==
  ASSUME ProcessInv, UNCHANGED clockVars, LookupHit, now \in Nat
  PROVE  ProcessInv'
<1>1. lookupAt = "hit" /\ cache # NoIdentity /\ lookupNow < cache.expiresAt
  BY DEF LookupHit, ProcessInv, LookupInv
<1>2. CASE image = 0
  BY <1>1, <1>2, LookupFailsKeeps DEF LookupHit
<1>3. ASSUME image # 0, Generation(image) = cache.start
      PROVE  ProcessInv'
  <2>1. /\ identity' = cache /\ lookupAt' = "returned"
        /\ UNCHANGED procVars /\ UNCHANGED <<cache, draft, lookupNow, aliveIn>>
    BY <1>3 DEF LookupHit, Return
  <2>2. cache.start \in aliveIn
    BY <1>1, <1>3 DEF ProcessInv, LookupInv, Alive
  <2>3. OneGeneration(cache, lookupNow - ProcessTtl)
    <3>1. OneGeneration(cache, cache.expiresAt - ProcessTtl)
      BY <1>1 DEF ProcessInv, LookupInv
    <3>2. lookupNow \in Nat /\ cache.expiresAt \in Nat /\ ProcessTtl \in Nat
      BY ProcessAssumption DEF ProcessInv, LookupInv, IdentitySet
    <3>3. endedAt[cache.comm] \in Nat
      BY <3>1 DEF OneGeneration, ProcessInv, ImagesInv
    <3>4. lookupNow - ProcessTtl <= now
      BY <3>2 DEF ProcessInv, LookupInv
    <3>5. endedAt[cache.comm] = 0 \/ endedAt[cache.comm] >= lookupNow - ProcessTtl
      BY <1>1, <3>1, <3>2, <3>3 DEF OneGeneration
    <3> QED BY <3>1, <3>4, <3>5 DEF OneGeneration
  <2>4. cache \in IdentitySet /\ OneGeneration(cache, cache.expiresAt - ProcessTtl)
    BY <1>1 DEF ProcessInv, LookupInv
  <2> QED BY <1>1, <2>1, <2>2, <2>3, <2>4, ReturnKeeps
<1>4. ASSUME image # 0, Generation(image) # cache.start
      PROVE  ProcessInv'
  <2>1. /\ lookupAt' = "stat" /\ UNCHANGED procVars
        /\ UNCHANGED <<cache, draft, lookupNow, aliveIn, identity>>
    BY <1>4 DEF LookupHit
  <2>2. /\ ImagesInv' /\ now' = now /\ Alive' = Alive
    BY <2>1, ImagesQuiet
  <2>3. DraftInv'
    BY <2>1 DEF DraftInv
  <2>4. OneGeneration(cache, cache.expiresAt - ProcessTtl)'
    BY <1>1, <2>1 DEF ProcessInv, LookupInv, OneGeneration, Generation, clockVars, procVars
  <2>5. LookupInv'
    BY <1>1, <2>1, <2>2, <2>4 DEF ProcessInv, LookupInv, LookupStates
  <2> QED BY <2>2, <2>3, <2>5 DEF ProcessInv
<1> QED BY <1>2, <1>3, <1>4

(* The steps that leave cache and identity alone.                          *)
LEMMA ReadingKeeps ==
  ASSUME ProcessInv, UNCHANGED clockVars, UNCHANGED procVars, UNCHANGED <<cache, lookupNow, aliveIn, identity>>,
         lookupAt # "idle", draft' \in IdentitySet, DraftInv',
         lookupAt' \in {"cmdline", "cgroup", "again"}
  PROVE  ProcessInv'
<1>1. /\ ImagesInv' /\ now' = now /\ Alive' = Alive
  BY ImagesQuiet
<1>2. cache # NoIdentity => OneGeneration(cache, cache.expiresAt - ProcessTtl)'
  BY DEF ProcessInv, LookupInv, OneGeneration, Generation, clockVars, procVars
<1>3. LookupInv'
  BY <1>1, <1>2 DEF ProcessInv, LookupInv, LookupStates
<1> QED BY <1>1, <1>3 DEF ProcessInv

LEMMA ReadStatKeeps ==
  ASSUME ProcessInv, UNCHANGED clockVars, ReadStat
  PROVE  ProcessInv'
<1>1. lookupAt = "stat"
  BY DEF ReadStat
<1>2. CASE image = 0
  BY <1>1, <1>2, LookupFailsKeeps DEF ReadStat
<1>3. CASE image # 0
  <2>1. /\ draft' = [NoIdentity EXCEPT !.start = Generation(image), !.comm = image]
        /\ lookupAt' = "cmdline" /\ UNCHANGED procVars
        /\ UNCHANGED <<cache, lookupNow, aliveIn, identity>>
    BY <1>3 DEF ReadStat
  <2>2. image \in 1..Len(images) /\ endedAt[image] = 0 /\ Generation(image) \in Nat /\ Len(images) \in Nat
    BY <1>3 DEF ProcessInv, ImagesInv
  <2>3. draft' \in IdentitySet /\ draft'.start = Generation(image) /\ draft'.comm = image
    <3>1. draft' = [start |-> Generation(image), comm |-> image, cmdline |-> 0,
                    container |-> NoContainer, expiresAt |-> 0]
      BY <2>1 DEF NoIdentity
    <3>2. image \in Nat
      BY <2>2
    <3> QED BY <2>2, <3>1, <3>2 DEF IdentitySet
  <2>4. Generation(image) \in aliveIn
    BY <1>1, <1>3 DEF ProcessInv, LookupInv, Alive
  <2>5. DraftInv'
    BY <2>1, <2>2, <2>3, <2>4 DEF DraftInv, Generation, procVars
  <2> QED BY <1>1, <2>1, <2>3, <2>5, ReadingKeeps
<1> QED BY <1>2, <1>3

LEMMA ReadFileKeeps ==
  ASSUME ProcessInv, UNCHANGED clockVars, ReadCmdline \/ ReadCgroup
  PROVE  ProcessInv'
<1>1. /\ lookupAt \in {"cmdline", "cgroup"} /\ lookupAt' \in {"cgroup", "again"}
      /\ UNCHANGED procVars /\ UNCHANGED <<cache, lookupNow, aliveIn, identity>>
  BY DEF ReadCmdline, ReadCgroup
<1>2. /\ draft \in IdentitySet /\ draft.comm \in 1..Len(images) /\ draft.start = Generation(draft.comm)
      /\ draft.start \in aliveIn
      /\ endedAt[draft.comm] = 0 \/ endedAt[draft.comm] >= lookupNow
  BY <1>1 DEF ProcessInv, DraftInv, LookupInv
<1>3. image = 0 \/ (image = Len(images) /\ image \in draft.comm..Len(images) /\ images[image] \in ImageSet)
  BY <1>2 DEF ProcessInv, ImagesInv
<1>4. Len(images) \in Nat
  BY DEF ProcessInv, ImagesInv
<1>5. CASE ReadCmdline
  <2>1. lookupAt' = "cgroup" /\ draft' = [draft EXCEPT !.cmdline = image]
    BY <1>5 DEF ReadCmdline
  <2>2. /\ draft' \in IdentitySet /\ draft'.start = draft.start /\ draft'.comm = draft.comm
        /\ draft'.cmdline = image
    BY <1>2, <1>3, <1>4, <2>1 DEF IdentitySet
  <2>3. DraftInv'
    BY <1>1, <1>2, <1>3, <2>1, <2>2 DEF DraftInv, Generation, procVars
  <2> QED BY <1>1, <2>1, <2>2, <2>3, ReadingKeeps
<1>6. CASE ReadCgroup
  <2>1. /\ lookupAt = "cgroup" /\ lookupAt' = "again"
        /\ draft' = [draft EXCEPT !.container = IF image = 0 THEN NoContainer ELSE images[image].container]
    BY <1>6 DEF ReadCgroup
  <2>2. (IF image = 0 THEN NoContainer ELSE images[image].container) \in Containers \cup {NoContainer}
    BY <1>3 DEF ImageSet
  <2>3. /\ draft' \in IdentitySet /\ draft'.start = draft.start /\ draft'.comm = draft.comm
        /\ draft'.cmdline = draft.cmdline
        /\ draft'.container = IF image = 0 THEN NoContainer ELSE images[image].container
    BY <1>2, <2>1, <2>2 DEF IdentitySet
  <2>4. draft.cmdline = 0 \/ draft.cmdline \in draft.comm..Len(images)
    BY <2>1 DEF ProcessInv, DraftInv
  <2>5. DraftInv'
    BY <1>1, <1>2, <1>3, <2>1, <2>3, <2>4 DEF DraftInv, Generation, procVars
  <2> QED BY <1>1, <2>1, <2>3, <2>5, ReadingKeeps
<1> QED BY <1>5, <1>6

(* The second look at the start time makes it one generation.              *)
LEMMA AgainKeeps ==
  ASSUME ProcessInv, UNCHANGED clockVars, ReadStatAgain, now \in Nat
  PROVE  ProcessInv'
<1>1. lookupAt = "again"
  BY DEF ReadStatAgain
<1>2. CASE image = 0 \/ Generation(image) # draft.start
  BY <1>1, <1>2, LookupFailsKeeps DEF ReadStatAgain
<1>3. CASE ~(image = 0 \/ Generation(image) # draft.start)
  <2>1. /\ identity' = draft /\ lookupAt' = "returned"
        /\ cache' = [draft EXCEPT !.expiresAt = lookupNow + ProcessTtl] \/ cache' = NoIdentity
        /\ UNCHANGED procVars /\ UNCHANGED <<draft, lookupNow, aliveIn>>
    BY <1>3 DEF ReadStatAgain, Assembled, Return
  <2>2. /\ draft \in IdentitySet /\ draft.comm \in 1..Len(images) /\ draft.start = Generation(draft.comm)
        /\ draft.start \in aliveIn
        /\ endedAt[draft.comm] = 0 \/ endedAt[draft.comm] >= lookupNow
        /\ draft.cmdline = 0 \/ draft.cmdline \in draft.comm..Len(images)
        /\ \/ draft.container = NoContainer
           \/ \E i \in draft.comm..Len(images) : draft.container = images[i].container
        /\ lookupNow \in Nat /\ lookupNow <= now
    BY <1>1 DEF ProcessInv, DraftInv, LookupInv
  <2>3. image = Len(images) /\ image \in 1..Len(images) /\ Len(images) \in Nat
    BY <1>3 DEF ProcessInv, ImagesInv
  <2>4. \A i \in draft.comm..Len(images) :
          /\ i \in 1..Len(images) /\ Generation(i) = draft.start
          /\ images[draft.start].container = images[i].container
    <3> SUFFICES ASSUME NEW i \in draft.comm..Len(images)
                 PROVE  /\ i \in 1..Len(images) /\ Generation(i) = draft.start
                        /\ images[draft.start].container = images[i].container
      OBVIOUS
    <3>1. i \in 1..Len(images) /\ draft.comm <= i /\ i <= image
      BY <2>2, <2>3
    <3>2. Generation(draft.comm) <= Generation(i) /\ Generation(i) <= Generation(image)
      BY <2>2, <2>3, <3>1 DEF ProcessInv, ImagesInv
    <3>3. /\ Generation(i) \in 1..i /\ Generation(draft.comm) \in 1..draft.comm
          /\ images[Generation(i)].container = images[i].container
      BY <2>2, <3>1 DEF ProcessInv, ImagesInv
    <3>4. Generation(i) = draft.start
      BY <1>3, <2>2, <3>1, <3>2, <3>3
    <3> QED BY <3>1, <3>3, <3>4
  <2>5. draft.start \in 1..Len(images)
    BY <2>2 DEF ProcessInv, ImagesInv
  <2>6. draft.container \in {NoContainer, images[draft.start].container}
    BY <2>2, <2>4
  <2>7. draft.cmdline # 0 => draft.cmdline \in 1..Len(images) /\ Generation(draft.cmdline) = draft.start
    BY <2>2, <2>4
  <2>8. endedAt[draft.comm] \in Nat /\ ProcessTtl \in Nat
    BY <2>2, ProcessAssumption DEF ProcessInv, ImagesInv
  <2>9. OneGeneration(draft, lookupNow) /\ OneGeneration(draft, lookupNow - ProcessTtl)
    BY <2>2, <2>5, <2>6, <2>7, <2>8 DEF OneGeneration
  <2>10. PICK c : c = [draft EXCEPT !.expiresAt = lookupNow + ProcessTtl]
    OBVIOUS
  <2>11. /\ c \in IdentitySet /\ c.start = draft.start /\ c.comm = draft.comm /\ c.cmdline = draft.cmdline
         /\ c.container = draft.container /\ c.expiresAt = lookupNow + ProcessTtl
    BY <2>2, <2>8, <2>10 DEF IdentitySet
  <2>12. OneGeneration(c, c.expiresAt - ProcessTtl)
    <3>1. c.expiresAt - ProcessTtl = lookupNow
      BY <2>2, <2>8, <2>11
    <3> QED BY <2>9, <2>11, <3>1 DEF OneGeneration
  <2>13. cache' = c \/ cache' = NoIdentity
    BY <2>1, <2>10
  <2>14. cache' \in IdentitySet /\ (cache' # NoIdentity => OneGeneration(cache', cache'.expiresAt - ProcessTtl))
    BY <2>11, <2>12, <2>13, NoIdentityTyped
  <2> QED BY <1>1, <2>1, <2>2, <2>9, <2>14, ReturnKeeps
<1> QED BY <1>2, <1>3

LEMMA LookupBeginKeeps ==
  ASSUME ProcessInv, UNCHANGED clockVars, now \in Nat, LookupBegin \/ LookupReturns
  PROVE  ProcessInv'
<1>1. UNCHANGED procVars /\ UNCHANGED cache
  BY DEF LookupBegin, LookupReturns
<1>2. ImagesInv' /\ now' = now /\ Alive' = Alive
  BY <1>1, ImagesQuiet
<1>3. cache # NoIdentity => OneGeneration(cache, cache.expiresAt - ProcessTtl)'
  BY <1>1 DEF ProcessInv, LookupInv, OneGeneration, Generation, clockVars, procVars
<1>4. CASE LookupBegin
  <2>1. /\ lookupNow' = now /\ aliveIn' = Alive /\ UNCHANGED <<draft, identity>>
        /\ \/ lookupAt' = "hit" /\ cache # NoIdentity /\ now < cache.expiresAt
           \/ lookupAt' = "stat"
    BY <1>4 DEF LookupBegin
  <2>2. DraftInv'
    BY <2>1 DEF DraftInv
  <2>3. LookupInv'
    BY <1>1, <1>2, <1>3, <2>1 DEF ProcessInv, LookupInv, LookupStates
  <2> QED BY <1>2, <2>2, <2>3 DEF ProcessInv
<1>5. CASE LookupReturns
  <2>1. lookupAt' = "idle" /\ lookupNow' = 0 /\ draft' = NoIdentity /\ identity' = NoIdentity
    BY <1>5 DEF LookupReturns
  <2>2. DraftInv'
    BY <2>1 DEF DraftInv
  <2>3. LookupInv'
    BY <1>1, <1>2, <1>3, <2>1, NoIdentityTyped DEF ProcessInv, LookupInv, LookupStates
  <2> QED BY <1>2, <2>2, <2>3 DEF ProcessInv
<1> QED BY <1>4, <1>5

LEMMA ProcessTime ==
  ASSUME ProcessInv, UNCHANGED processVars, now \in Nat, now' \in Nat, now' >= now
  PROVE  ProcessInv'
<1>1. /\ UNCHANGED <<image, images, endedAt, cache, lookupAt, lookupNow, draft, aliveIn, identity>>
  BY DEF processVars, procVars
<1>2. ImagesInv' /\ DraftInv' /\ Alive' = Alive
  BY <1>1 DEF ProcessInv, ImagesInv, DraftInv, Generation, Alive
<1>3. cache # NoIdentity => OneGeneration(cache, cache.expiresAt - ProcessTtl)'
  <2>1. cache # NoIdentity => cache.expiresAt - ProcessTtl \in Int
    BY ProcessAssumption DEF ProcessInv, LookupInv, IdentitySet
  <2> QED BY <1>1, <2>1 DEF ProcessInv, LookupInv, OneGeneration, Generation
<1>4. lookupAt = "returned" /\ identity # NoIdentity => OneGeneration(identity, lookupNow - ProcessTtl)'
  <2>1. lookupNow - ProcessTtl \in Int
    BY ProcessAssumption DEF ProcessInv, LookupInv
  <2> QED BY <1>1, <2>1 DEF ProcessInv, LookupInv, OneGeneration, Generation
<1>5. LookupInv'
  BY <1>1, <1>2, <1>3, <1>4 DEF ProcessInv, LookupInv
<1> QED BY <1>2, <1>5 DEF ProcessInv

ProcessMoves ==
  \/ UNCHANGED processVars
  \/ UNCHANGED clockVars /\ (ProcessChange \/ LookupBegin \/ ProcessStep \/ LookupReturns)

LEMMA ProcessNext ==
  ASSUME ClockInv, ProcessInv, TimeStep \/ UNCHANGED clockVars, ProcessMoves
  PROVE  ProcessInv'
<1>1. now \in Nat /\ now' \in Nat /\ now' >= now
  BY ClockFacts, ClockNext, WallClockAssumption DEF ClockInv
<1> QED BY <1>1, ProcessTime, ProcessChangeKeeps, LookupBeginKeeps, LookupHitKeeps, ReadStatKeeps,
           ReadFileKeeps, AgainKeeps DEF ProcessMoves, ProcessStep

LEMMA ProcessStart ==
  ASSUME ProcessInit, now \in Nat
  PROVE  ProcessInv
BY NoIdentityTyped DEF ProcessInit, ProcessInv, ImagesInv, DraftInv, LookupInv, LookupStates

LEMMA ProcessSound == ProcessInv => IdentitySound
BY DEF ProcessInv, LookupInv, OneGeneration, IdentitySound

-----------------------------------------------------------------------------
LEMMA PodOfFacts ==
  ASSUME PodsInv, NEW matches \in SUBSET podIndex, NEW at \in Nat
  PROVE  /\ PodOf(matches, at) \in MaybePods
         /\ PodOf(matches, at) # NoPod =>
              PodOf(matches, at) \in matches /\ PodOf(matches, at).created <= at
         /\ Cardinality(matches) # 1 => PodOf(matches, at) = NoPod
<1>1. IsFiniteSet(matches) /\ matches \subseteq Pods
  BY FS_Subset DEF PodsInv
<1>2. CASE podsStopped \/ Cardinality(matches) # 1
  BY <1>2 DEF PodOf, MaybePods
<1>3. CASE ~(podsStopped \/ Cardinality(matches) # 1)
  <2>1. PICK x : matches = {x}
    BY <1>1, <1>3, FS_Singleton
  <2>2. PodOf(matches, at) = IF at < x.created THEN NoPod ELSE x
    BY <1>3, <2>1 DEF PodOf
  <2>3. x \in Pods /\ x.created \in Nat
    BY <1>1, <2>1, PodAssumption
  <2> QED BY <1>3, <2>1, <2>2, <2>3 DEF MaybePods
<1> QED BY <1>2, <1>3

LEMMA PodByAddressFacts ==
  ASSUME PodsInv, NEW address, NEW at \in Nat
  PROVE  /\ PodByAddress(address, at) \in MaybePods
         /\ PodByAddress(address, at) # NoPod =>
              /\ PodByAddress(address, at).address = address
              /\ PodByAddress(address, at).created <= at
         /\ Cardinality({p \in podIndex : p.address = address}) # 1 => PodByAddress(address, at) = NoPod
<1> DEFINE matches == {p \in podIndex : p.address = address}
           pod == PodOf(matches, at)
<1>1. matches \in SUBSET podIndex
  OBVIOUS
<1> HIDE DEF matches
<1>2. /\ pod \in MaybePods
      /\ pod # NoPod => pod \in matches /\ pod.created <= at
      /\ Cardinality(matches) # 1 => pod = NoPod
  BY <1>1, PodOfFacts
<1>3. PodByAddress(address, at) = IF pod # NoPod /\ pod.hostNetwork THEN NoPod ELSE pod
  BY DEF PodByAddress, matches
<1>4. \A p \in matches : p.address = address
  BY DEF matches
<1> HIDE DEF pod
<1> QED BY <1>2, <1>3, <1>4 DEF MaybePods, matches

LEMMA PodByContainerFacts ==
  ASSUME PodsInv, NEW container, NEW at \in Nat
  PROVE  /\ PodByContainer(container, at) \in MaybePods
         /\ PodByContainer(container, at) # NoPod =>
              /\ PodByContainer(container, at) \in Pods
              /\ PodByContainer(container, at).container = container
              /\ PodByContainer(container, at).created <= at
<1> DEFINE matches == {p \in podIndex : p.container = container}
           pod == PodOf(matches, at)
<1>1. matches \in SUBSET podIndex
  OBVIOUS
<1>2. \A p \in matches : p.container = container /\ p \in Pods
  BY DEF PodsInv
<1>3. PodByContainer(container, at) = pod
  BY DEF PodByContainer
<1> HIDE DEF matches
<1>4. /\ pod \in MaybePods
      /\ pod # NoPod => pod \in matches /\ pod.created <= at
  BY <1>1, PodOfFacts
<1> HIDE DEF pod
<1> QED BY <1>2, <1>3, <1>4

-----------------------------------------------------------------------------
(* What the loop's invariant reads besides the loop's own state.           *)
worldVars == <<now, skew, podIndex, podChangedAt, images>>

LEMMA LoopQuiet ==
  ASSUME LoopInv, UNCHANGED <<loopAt, obs>>, UNCHANGED worldVars
  PROVE  LoopInv'
<1>1. PodsInv' /\ ObsInv'
  BY DEF LoopInv, PodsInv, ObsInv, worldVars, Wall
<1>2. WrittenPodsInv'
  BY DEF LoopInv, WrittenPodsInv, OldEnough, SourceAddress, worldVars
<1> QED BY <1>1, <1>2 DEF LoopInv

LEMMA LoopTick ==
  ASSUME ClockInv, LoopInv, UNCHANGED <<loopAt, obs, podIndex, podChangedAt, images>>,
         TimeStep, skew' = skew \/ loopAt = "idle"
  PROVE  LoopInv'
<1>1. now \in Nat /\ now' \in Nat /\ now' >= now /\ skew \in Nat
  BY ClockFacts, ClockNext, WallClockAssumption DEF ClockInv
<1>2. loopAt # "idle" => obs.observedAt <= Wall'
  BY <1>1 DEF LoopInv, ObsInv, ObsSet, Wall
<1>3. PodsInv' /\ ObsInv'
  BY <1>2 DEF LoopInv, PodsInv, ObsInv
<1>4. WrittenPodsInv'
  BY DEF LoopInv, WrittenPodsInv, OldEnough, SourceAddress
<1> QED BY <1>3, <1>4 DEF LoopInv

LEMMA LoopImages ==
  ASSUME LoopInv, UNCHANGED <<loopAt, obs, podIndex, podChangedAt, now, skew>>, ImagesGrow,
         Len(images) \in Nat
  PROVE  LoopInv'
<1>1. obs.process # NoIdentity =>
        /\ obs.process.start \in 1..Len(images) /\ obs.process.start \in 1..Len(images')
        /\ images'[obs.process.start] = images[obs.process.start]
  BY DEF LoopInv, ObsInv, ImagesGrow
<1>2. PodsInv' /\ ObsInv'
  BY <1>1 DEF LoopInv, PodsInv, ObsInv, Wall
<1>3. WrittenPodsInv'
  BY <1>1 DEF LoopInv, WrittenPodsInv, OldEnough, SourceAddress
<1> QED BY <1>2, <1>3 DEF LoopInv

LEMMA LoopPods ==
  ASSUME ClockInv, LoopInv, UNCHANGED <<loopAt, obs, now, skew, images>>,
         PodChange \/ PodsStop, loopAt \in {"observer", "source", "destination"}
  PROVE  LoopInv'
<1>1. CASE PodsStop
  BY <1>1, LoopQuiet DEF PodsStop, worldVars
<1>2. CASE PodChange
  <2>1. PICK p \in Pods : podIndex' = IF p \in podIndex THEN podIndex \ {p} ELSE podIndex \cup {p}
    BY <1>2 DEF PodChange
  <2>2. podChangedAt' = Wall /\ Wall \in Nat
    BY <1>2, ClockFacts DEF PodChange
  <2>3. PodsInv'
    BY <2>1, <2>2, FS_AddElement, FS_RemoveElement DEF LoopInv, PodsInv
  <2>4. ~(podChangedAt' < obs.observedAt)
    BY <2>2 DEF LoopInv, ObsInv, ObsSet
  <2>5. ObsInv'
    BY DEF LoopInv, ObsInv, Wall
  <2>6. WrittenPodsInv'
    BY <2>4 DEF LoopInv, WrittenPodsInv, OldEnough
  <2> QED BY <2>3, <2>5, <2>6 DEF LoopInv
<1> QED BY <1>1, <1>2

(* The fields that no step but Capture and Written touches.                *)
ObsFixed ==
  /\ obs' \in ObsSet
  /\ obs'.kind = obs.kind /\ (obs'.inOrder <=> obs.inOrder) /\ obs'.observedAt = obs.observedAt

ResolvedFixed ==
  obs'.sourceResolved = obs.sourceResolved /\ obs'.destinationResolved = obs.destinationResolved

PodsFixed ==
  /\ obs'.observerPod = obs.observerPod /\ obs'.sourcePod = obs.sourcePod
  /\ obs'.destinationPod = obs.destinationPod

LEMMA ResolvedFields ==
  ASSUME obs \in ObsSet, NEW b \in Backends \cup {None}
  PROVE  /\ obs' = [obs EXCEPT !.destinationResolved = b] =>
              /\ ObsFixed /\ PodsFixed /\ obs'.process = obs.process
              /\ obs'.sourceResolved = obs.sourceResolved /\ obs'.destinationResolved = b
         /\ obs' = [obs EXCEPT !.sourceResolved = b] =>
              /\ ObsFixed /\ PodsFixed /\ obs'.process = obs.process
              /\ obs'.destinationResolved = obs.destinationResolved /\ obs'.sourceResolved = b
BY DEF ObsSet, ObsFixed, PodsFixed

LEMMA ProcessFields ==
  ASSUME obs \in ObsSet, NEW id \in IdentitySet, obs' = [obs EXCEPT !.process = id]
  PROVE  ObsFixed /\ PodsFixed /\ ResolvedFixed /\ obs'.process = id
BY DEF ObsSet, ObsFixed, PodsFixed, ResolvedFixed

LEMMA PodFields ==
  ASSUME obs \in ObsSet, NEW p \in MaybePods
  PROVE  /\ obs' = [obs EXCEPT !.observerPod = p] =>
              /\ ObsFixed /\ ResolvedFixed /\ obs'.process = obs.process
              /\ obs'.observerPod = p /\ obs'.sourcePod = obs.sourcePod
              /\ obs'.destinationPod = obs.destinationPod
         /\ obs' = [obs EXCEPT !.sourcePod = p] =>
              /\ ObsFixed /\ ResolvedFixed /\ obs'.process = obs.process
              /\ obs'.observerPod = obs.observerPod /\ obs'.sourcePod = p
              /\ obs'.destinationPod = obs.destinationPod
         /\ obs' = [obs EXCEPT !.destinationPod = p] =>
              /\ ObsFixed /\ ResolvedFixed /\ obs'.process = obs.process
              /\ obs'.observerPod = obs.observerPod /\ obs'.sourcePod = obs.sourcePod
              /\ obs'.destinationPod = p
BY DEF ObsSet, ObsFixed, ResolvedFixed

LEMMA FreshObservation ==
  ASSUME NEW kind \in {"connect", "sample"}, NEW inOrder \in BOOLEAN, NEW at \in Nat,
         obs' = NewObservation(kind, inOrder, at)
  PROVE  /\ obs' \in ObsSet /\ obs'.observedAt = at /\ obs'.sourceResolved = None
         /\ obs'.destinationResolved = None /\ obs'.process = NoIdentity
         /\ obs'.observerPod = NoPod /\ obs'.sourcePod = NoPod /\ obs'.destinationPod = NoPod
BY NoIdentityTyped DEF NewObservation, ObsSet, MaybePods

(* A new observation, and its end.                                         *)
LEMMA CaptureKeeps ==
  ASSUME ClockInv, LoopInv, UNCHANGED worldVars, Capture \/ Written
  PROVE  LoopInv'
<1>1. Wall' = Wall /\ Wall \in Nat
  BY ClockFacts DEF worldVars, Wall
<1>2. PICK kind \in {"connect", "sample"}, inOrder \in BOOLEAN, at \in Nat :
        /\ obs' = NewObservation(kind, inOrder, at)
        /\ loopAt' \in {"captured", "idle"} /\ at <= Wall
  <2>1. CASE Capture
    <3>1. PICK kind \in {"connect", "sample"}, order \in BOOLEAN :
            obs' = NewObservation(kind, order \/ kind = "connect", Wall)
      BY <2>1 DEF Capture
    <3>2. (order \/ kind = "connect") \in BOOLEAN /\ Wall <= Wall
      BY <1>1
    <3> QED BY <1>1, <2>1, <3>1, <3>2 DEF Capture
  <2>2. CASE Written
    <3>1. "sample" \in {"connect", "sample"} /\ TRUE \in BOOLEAN /\ 0 \in Nat /\ 0 <= Wall
      BY <1>1
    <3> QED BY <2>2, <3>1 DEF Written, NoObservation, ZeroTime
  <2> QED BY <2>1, <2>2
<1>3. /\ obs' \in ObsSet /\ obs'.observedAt = at /\ obs'.sourceResolved = None
      /\ obs'.destinationResolved = None /\ obs'.process = NoIdentity
      /\ obs'.observerPod = NoPod /\ obs'.sourcePod = NoPod /\ obs'.destinationPod = NoPod
  BY <1>2, FreshObservation
<1>4. PodsInv'
  BY DEF LoopInv, PodsInv, worldVars
<1>5. ObsInv'
  BY <1>1, <1>2, <1>3 DEF ObsInv
<1>6. WrittenPodsInv'
  BY <1>2, <1>3 DEF WrittenPodsInv, OldEnough
<1> QED BY <1>2, <1>3, <1>4, <1>5, <1>6 DEF LoopInv, LoopStates

(* Steps before the Pods are looked up.                                    *)
Early == {"captured", "resolve", "reverse", "resolved", "attach", "pending", "retry", "observer"}

LEMMA EarlyKeeps ==
  ASSUME LoopInv, UNCHANGED worldVars, loopAt \in Early, loopAt' \in Early, ObsFixed, PodsFixed,
         obs'.process = obs.process
           \/ obs'.process = NoIdentity
           \/ /\ obs'.process.start \in 1..Len(images)
              /\ obs'.process.container \in {NoContainer, images[obs'.process.start].container},
         obs.kind = "connect" \/ loopAt' \in {"captured", "resolve", "reverse", "resolved"}
           => obs'.sourceResolved = None,
         loopAt' \in {"pending", "retry"} => obs.kind = "connect",
         loopAt' \in {"reverse", "resolved"} => obs.kind = "sample" /\ obs'.destinationResolved = None,
         None \in {obs'.sourceResolved, obs'.destinationResolved}
  PROVE  LoopInv'
<1>1. PodsInv' /\ Wall' = Wall
  BY DEF LoopInv, PodsInv, worldVars, Wall
<1>2. obs'.process # NoIdentity =>
       /\ obs'.process.start \in 1..Len(images')
       /\ obs'.process.container \in {NoContainer, images'[obs'.process.start].container}
  BY DEF LoopInv, ObsInv, worldVars
<1>3. ObsInv'
  BY <1>1, <1>2 DEF LoopInv, ObsInv, ObsFixed, Early
<1>4. WrittenPodsInv'
  BY DEF LoopInv, WrittenPodsInv, OldEnough, ObsFixed, PodsFixed, Early
<1> QED BY <1>1, <1>3, <1>4 DEF LoopInv, LoopStates, Early, ObsFixed

LEMMA CallResolverKeeps ==
  ASSUME LoopInv, UNCHANGED worldVars, UNCHANGED obs,
         \/ loopAt = "captured" /\ loopAt' = "resolve"
         \/ loopAt = "reverse" /\ loopAt' = "resolved"
         \/ loopAt = "pending" /\ loopAt' \in {"retry", "observer"}
  PROVE  LoopInv'
<1>1. ObsFixed /\ PodsFixed
  BY DEF ObsFixed, PodsFixed, LoopInv
<1> QED BY <1>1, EarlyKeeps DEF LoopInv, ObsInv, Early

LEMMA AnswerTyped ==
  ASSUME ConntrackInv, ResolveReturns
  PROVE  answer \in Backends \cup {None}
BY DEF ConntrackInv, CallInv, ResolveReturns, Recent

LEMMA TakeKeeps ==
  ASSUME ConntrackInv, LoopInv, UNCHANGED worldVars, TakeDestination \/ TakeSource \/ TakeRetried
  PROVE  LoopInv'
<1>1. answer \in Backends \cup {None} /\ obs \in ObsSet
  BY AnswerTyped DEF TakeDestination, TakeSource, TakeRetried, LoopInv
<1>2. CASE TakeDestination
  <2>1. /\ loopAt = "resolve" /\ obs' = [obs EXCEPT !.destinationResolved = answer]
        /\ loopAt' = IF answer = None /\ obs.kind = "sample" THEN "reverse" ELSE "attach"
    BY <1>2 DEF TakeDestination
  <2>2. /\ ObsFixed /\ PodsFixed /\ obs'.process = obs.process
        /\ obs'.sourceResolved = obs.sourceResolved /\ obs'.destinationResolved = answer
    BY <1>1, <2>1, ResolvedFields
  <2>3. obs.sourceResolved = None
    BY <2>1 DEF LoopInv, ObsInv
  <2> QED BY <2>1, <2>2, <2>3, EarlyKeeps DEF Early
<1>3. CASE TakeSource
  <2>1. /\ loopAt = "resolved" /\ obs' = [obs EXCEPT !.sourceResolved = answer]
        /\ loopAt' = "attach"
    BY <1>3 DEF TakeSource
  <2>2. /\ ObsFixed /\ PodsFixed /\ obs'.process = obs.process
        /\ obs'.destinationResolved = obs.destinationResolved
    BY <1>1, <2>1, ResolvedFields
  <2>3. obs.destinationResolved = None /\ obs.kind # "connect"
    BY <2>1 DEF LoopInv, ObsInv
  <2> QED BY <2>1, <2>2, <2>3, EarlyKeeps DEF Early
<1>4. CASE TakeRetried
  <2>1. /\ loopAt = "retry" /\ obs' = [obs EXCEPT !.destinationResolved = answer]
        /\ loopAt' \in {"observer", "pending"}
    BY <1>4 DEF TakeRetried
  <2>2. /\ ObsFixed /\ PodsFixed /\ obs'.process = obs.process
        /\ obs'.sourceResolved = obs.sourceResolved
    BY <1>1, <2>1, ResolvedFields
  <2>3. obs.kind = "connect" /\ obs.sourceResolved = None
    BY <2>1 DEF LoopInv, ObsInv
  <2> QED BY <2>1, <2>2, <2>3, EarlyKeeps DEF Early
<1> QED BY <1>2, <1>3, <1>4

LEMMA AttachKeeps ==
  ASSUME ProcessInv, LoopInv, UNCHANGED worldVars, TakeProcess \/ AttachNothing
  PROVE  LoopInv'
<1>1. PICK id \in IdentitySet :
        /\ Attached(id)
        /\ id # NoIdentity => /\ id.start \in 1..Len(images)
                              /\ id.container \in {NoContainer, images[id.start].container}
  <2>1. CASE TakeProcess
    <3>1. identity \in IdentitySet /\ Attached(identity) /\ lookupAt = "returned"
      BY <2>1 DEF TakeProcess, LookupReturns, ProcessInv, LookupInv
    <3> QED BY <3>1 DEF ProcessInv, LookupInv, OneGeneration
  <2>2. CASE AttachNothing
    BY <2>2, NoIdentityTyped DEF AttachNothing
  <2> QED BY <2>1, <2>2
<1>2. /\ loopAt = "attach" /\ obs \in ObsSet
      /\ obs' = [obs EXCEPT !.process = id] /\ loopAt' \in {"pending", "observer"}
      /\ loopAt' = "pending" => obs.kind = "connect"
  BY <1>1 DEF TakeProcess, AttachNothing, Attached, LoopInv
<1>3. ObsFixed /\ PodsFixed /\ ResolvedFixed /\ obs'.process = id
  BY <1>2, ProcessFields
<1>4. /\ None \in {obs'.sourceResolved, obs'.destinationResolved}
      /\ obs.kind = "connect" => obs'.sourceResolved = None
  BY <1>3 DEF ResolvedFixed, LoopInv, ObsInv
<1> QED BY <1>1, <1>2, <1>3, <1>4, EarlyKeeps DEF Early

(* The three Pod lookups.                                                  *)
LEMMA LateKeeps ==
  ASSUME LoopInv, UNCHANGED worldVars, ObsFixed, ResolvedFixed, obs'.process = obs.process,
         loopAt \in {"observer", "source", "destination"},
         loopAt' \in {"source", "destination", "written"}
  PROVE  ObsInv' /\ PodsInv' /\ SourceAddress' = SourceAddress
<1>1. PodsInv' /\ Wall' = Wall
  BY DEF LoopInv, PodsInv, worldVars, Wall
<1>2. ObsInv'
  BY <1>1 DEF LoopInv, ObsInv, ObsFixed, ResolvedFixed, worldVars
<1>3. SourceAddress' = SourceAddress
  BY DEF SourceAddress, ResolvedFixed, ObsFixed
<1> QED BY <1>1, <1>2, <1>3

LEMMA EnrichObserverKeeps ==
  ASSUME LoopInv, UNCHANGED worldVars, EnrichObserver
  PROVE  LoopInv'
<1> DEFINE pod == IF obs.process = NoIdentity THEN NoPod
                  ELSE PodByContainer(obs.process.container, obs.observedAt)
<1>1. /\ loopAt = "observer" /\ loopAt' = "source" /\ obs' = [obs EXCEPT !.observerPod = pod]
      /\ obs \in ObsSet /\ obs.observedAt \in Nat
  BY DEF EnrichObserver, LoopInv, ObsSet
<1>2. /\ pod \in MaybePods
      /\ pod # NoPod => /\ obs.process # NoIdentity /\ pod \in Pods
                        /\ pod.container = obs.process.container /\ pod.created <= obs.observedAt
  BY <1>1, PodByContainerFacts DEF LoopInv, MaybePods
<1> HIDE DEF pod
<1>3. /\ ObsFixed /\ ResolvedFixed /\ obs'.process = obs.process
      /\ obs'.observerPod = pod /\ obs'.sourcePod = obs.sourcePod
      /\ obs'.destinationPod = obs.destinationPod
  BY <1>1, <1>2, PodFields
<1>4. ObsInv' /\ PodsInv'
  BY <1>1, <1>3, LateKeeps
<1>5. pod # NoPod => images[obs.process.start].container = pod.container
  BY <1>2, EnrichmentAssumption DEF LoopInv, ObsInv
<1>6. WrittenPodsInv'
  BY <1>1, <1>2, <1>3, <1>5 DEF LoopInv, WrittenPodsInv, OldEnough, ObsFixed, worldVars
<1> QED BY <1>1, <1>3, <1>4, <1>6 DEF LoopInv, LoopStates, ObsFixed

LEMMA EnrichSourceKeeps ==
  ASSUME LoopInv, UNCHANGED worldVars, EnrichSource
  PROVE  LoopInv'
<1> DEFINE pod == PodByAddress(SourceAddress, obs.observedAt)
<1>1. /\ loopAt = "source" /\ loopAt' = "destination" /\ obs' = [obs EXCEPT !.sourcePod = pod]
      /\ obs \in ObsSet /\ obs.observedAt \in Nat
  BY DEF EnrichSource, LoopInv, ObsSet
<1>2. /\ pod \in MaybePods
      /\ pod # NoPod => pod.created <= obs.observedAt
      /\ Cardinality({p \in podIndex : p.address = SourceAddress}) # 1 => pod = NoPod
  BY <1>1, PodByAddressFacts DEF LoopInv
<1> HIDE DEF pod
<1>3. /\ ObsFixed /\ ResolvedFixed /\ obs'.process = obs.process
      /\ obs'.observerPod = obs.observerPod /\ obs'.sourcePod = pod
      /\ obs'.destinationPod = obs.destinationPod
  BY <1>1, <1>2, PodFields
<1>4. ObsInv' /\ PodsInv' /\ SourceAddress' = SourceAddress
  BY <1>1, <1>3, LateKeeps
<1>5. Cardinality({p \in podIndex' : p.address = SourceAddress'}) # 1 => pod = NoPod
  BY <1>2, <1>4 DEF worldVars
<1>6. WrittenPodsInv'
  BY <1>1, <1>2, <1>3, <1>5 DEF LoopInv, WrittenPodsInv, OldEnough, ObsFixed, worldVars
<1> QED BY <1>1, <1>3, <1>4, <1>6 DEF LoopInv, LoopStates, ObsFixed

LEMMA EnrichDestinationKeeps ==
  ASSUME LoopInv, UNCHANGED worldVars, EnrichDestination
  PROVE  LoopInv'
<1> DEFINE pod == PodByAddress(DestinationAddress, obs.observedAt)
<1>1. /\ loopAt = "destination" /\ loopAt' = "written" /\ obs' = [obs EXCEPT !.destinationPod = pod]
      /\ obs \in ObsSet /\ obs.observedAt \in Nat
  BY DEF EnrichDestination, LoopInv, ObsSet
<1>2. /\ pod \in MaybePods
      /\ pod # NoPod => pod.created <= obs.observedAt /\ pod.address = DestinationAddress
  BY <1>1, PodByAddressFacts DEF LoopInv
<1> HIDE DEF pod
<1>3. /\ ObsFixed /\ ResolvedFixed /\ obs'.process = obs.process
      /\ obs'.observerPod = obs.observerPod /\ obs'.sourcePod = obs.sourcePod
      /\ obs'.destinationPod = pod
  BY <1>1, <1>2, PodFields
<1>4. ObsInv' /\ PodsInv' /\ SourceAddress' = SourceAddress
  BY <1>1, <1>3, LateKeeps
<1>5. pod # NoPod /\ obs'.destinationResolved # None => pod.address = obs'.destinationResolved
  BY <1>2, <1>3 DEF DestinationAddress, ResolvedFixed
<1>6. WrittenPodsInv'
  BY <1>1, <1>2, <1>3, <1>4, <1>5 DEF LoopInv, WrittenPodsInv, OldEnough, ObsFixed, worldVars
<1> QED BY <1>1, <1>3, <1>4, <1>6 DEF LoopInv, LoopStates, ObsFixed

-----------------------------------------------------------------------------
(* What each step of the loop does to the three parts.                     *)
LEMMA StepMoves ==
  ASSUME LoopInv, Next
  PROVE  ResolverMoves /\ ProcessMoves /\ (TimeStep \/ UNCHANGED clockVars)
<1>1. (IF obs.kind = "connect" THEN obs.observedAt ELSE ZeroTime) \in Nat /\ obs.inOrder \in BOOLEAN
      /\ (~obs.inOrder) \in BOOLEAN
  BY DEF LoopInv, ObsSet, ZeroTime
<1>2. ASSUME NEW order \in BOOLEAN, NEW at, CallResolver(order, at)
      PROVE  ResolverMoves /\ ProcessMoves /\ UNCHANGED clockVars
  BY <1>1, <1>2 DEF CallResolver, ResolverMoves, ProcessMoves
<1>3. CASE CallResolve \/ CallReverse \/ Retry
  BY <1>1, <1>2, <1>3 DEF CallResolve, CallReverse, Retry
<1>4. CASE TakeDestination \/ TakeSource \/ TakeRetried
  BY <1>4 DEF TakeDestination, TakeSource, TakeRetried, ResolverMoves, ProcessMoves
<1>5. CASE Capture \/ AttachNothing \/ StopWaiting \/ EnrichObserver \/ EnrichSource
           \/ EnrichDestination \/ Written
  BY <1>5 DEF Capture, AttachNothing, StopWaiting, EnrichObserver, EnrichSource, EnrichDestination,
              Written, LoopOnly, ResolverMoves, ProcessMoves, ctClocks
<1>6. CASE CallLookup \/ TakeProcess
  BY <1>6 DEF CallLookup, TakeProcess, ResolverMoves, ProcessMoves, ctClocks
<1>7. CASE ResolverStep
  BY <1>7 DEF ResolverStep, ResolverMoves, ProcessMoves
<1>8. CASE LookupStep
  BY <1>8 DEF LookupStep, ResolverMoves, ProcessMoves, ctClocks
<1>9. CASE Tick
  BY <1>9 DEF Tick, TimeStep, ResolverMoves, ProcessMoves
<1>10. CASE Outside
  BY <1>10 DEF Outside, TimeStep, KernelStep, ResolverMoves, ProcessMoves, ctClocks
<1> QED BY <1>3, <1>4, <1>5, <1>6, <1>7, <1>8, <1>9, <1>10 DEF Next, LoopStep

LEMMA LoopNext ==
  ASSUME EnrichmentInv, Next
  PROVE  LoopInv'
<1> USE DEF EnrichmentInv
<1>1. ClockInv
  BY DEF ConntrackInv
<1>2. CASE CallResolve \/ CallReverse \/ Retry \/ StopWaiting
  <2>1. UNCHANGED worldVars /\ UNCHANGED obs
    BY <1>2 DEF CallResolve, CallReverse, Retry, StopWaiting, CallResolver, LoopOnly, worldVars,
                clockVars, podVars, processVars, procVars
  <2> QED BY <1>2, <2>1, CallResolverKeeps DEF CallResolve, CallReverse, Retry, StopWaiting, CallResolver
<1>3. CASE TakeDestination \/ TakeSource \/ TakeRetried
  BY <1>3, TakeKeeps DEF TakeDestination, TakeSource, TakeRetried, worldVars, clockVars, podVars,
                         processVars, procVars
<1>4. CASE Capture \/ Written
  BY <1>1, <1>4, CaptureKeeps DEF Capture, Written, LoopOnly, worldVars, clockVars, podVars,
                                  processVars, procVars
<1>5. CASE TakeProcess \/ AttachNothing
  BY <1>5, AttachKeeps DEF TakeProcess, AttachNothing, LookupReturns, LoopOnly, worldVars, clockVars,
                           podVars, processVars, procVars
<1>6. CASE EnrichObserver \/ EnrichSource \/ EnrichDestination
  <2>1. UNCHANGED worldVars
    BY <1>6 DEF EnrichObserver, EnrichSource, EnrichDestination, LoopOnly, worldVars, clockVars,
                podVars, processVars, procVars
  <2> QED BY <1>6, <2>1, EnrichObserverKeeps, EnrichSourceKeeps, EnrichDestinationKeeps
<1>7. CASE CallLookup \/ ResolverStep \/ LookupStep
  <2>1. UNCHANGED worldVars /\ UNCHANGED <<loopAt, obs>>
    BY <1>7 DEF CallLookup, LookupBegin, ResolverStep, LookupStep, ProcessStep, LookupHit, ReadStat,
                ReadCmdline, ReadCgroup, ReadStatAgain, LookupFails, Assembled, worldVars, clockVars,
                podVars, processVars, procVars, loopVars
  <2> QED BY <2>1, LoopQuiet
<1>8. CASE Tick
  <2>1. /\ UNCHANGED <<loopAt, obs, podIndex, podChangedAt, images>>
        /\ TimeStep /\ skew' = skew
    BY <1>8 DEF Tick, TimeStep, Advance, loopVars, podVars, processVars, procVars
  <2> QED BY <1>1, <2>1, LoopTick
<1>9. CASE Outside
  <2>1. UNCHANGED <<loopAt, obs>>
    BY <1>9 DEF Outside, loopVars
  <2>2. CASE KernelChange /\ UNCHANGED <<clockVars, processVars, podVars>>
    BY <2>1, <2>2, LoopQuiet DEF worldVars, clockVars, podVars, processVars, procVars
  <2>3. CASE ProcessChange /\ UNCHANGED <<clockVars, conntrackVars, podVars>>
    <3>1. ImagesGrow /\ Len(images) \in Nat
      BY <1>1, <2>3, ProcessChangeImages, ClockFacts DEF ProcessInv, ImagesInv
    <3> QED BY <2>1, <2>3, <3>1, LoopImages DEF clockVars, podVars
  <2>4. CASE /\ loopAt \in {"observer", "source", "destination"}
             /\ PodChange \/ PodsStop
             /\ UNCHANGED <<clockVars, conntrackVars, processVars>>
    BY <1>1, <2>1, <2>4, LoopPods DEF clockVars, processVars, procVars
  <2>5. CASE loopAt = "idle" /\ SetBack /\ UNCHANGED <<conntrackVars, processVars, podVars>>
    BY <1>1, <2>1, <2>5, LoopTick DEF TimeStep, podVars, processVars, procVars
  <2> QED BY <1>9, <2>2, <2>3, <2>4, <2>5 DEF Outside
<1> QED BY <1>2, <1>3, <1>4, <1>5, <1>6, <1>7, <1>8, <1>9 DEF Next, LoopStep

LEMMA EnrichmentStart ==
  ASSUME Init
  PROVE  EnrichmentInv
<1>1. ConntrackInv /\ ClockInv /\ now \in Nat /\ Wall = now
  BY ConntrackStart, ClockFacts DEF Init, ConntrackInv, ClockInit
<1>2. ProcessInv
  BY <1>1, ProcessStart DEF Init
<1>3. /\ obs \in ObsSet /\ obs.observedAt = 0 /\ obs.sourceResolved = None
      /\ obs.destinationResolved = None /\ obs.process = NoIdentity /\ obs.kind = "sample"
      /\ obs.observerPod = NoPod /\ obs.sourcePod = NoPod /\ obs.destinationPod = NoPod
  BY NoIdentityTyped DEF Init, NoObservation, NewObservation, ZeroTime, ObsSet, MaybePods
<1>4. PodsInv
  BY FS_EmptySet DEF Init, PodInit, PodsInv
<1>5. ObsInv /\ WrittenPodsInv
  BY <1>3 DEF Init, ObsInv, WrittenPodsInv, OldEnough
<1>6. LoopInv
  BY <1>3, <1>4, <1>5 DEF Init, LoopInv, LoopStates
<1> QED BY <1>1, <1>2, <1>6 DEF EnrichmentInv

LEMMA EnrichmentStep ==
  ASSUME EnrichmentInv, [Next]_vars
  PROVE  EnrichmentInv'
<1>1. CASE Next
  <2>1. ResolverMoves /\ ProcessMoves /\ (TimeStep \/ UNCHANGED clockVars)
    BY <1>1, StepMoves DEF EnrichmentInv
  <2>2. ConntrackInv'
    BY <2>1, ConntrackNext DEF EnrichmentInv
  <2>3. ProcessInv'
    BY <2>1, ProcessNext DEF EnrichmentInv, ConntrackInv
  <2>4. LoopInv'
    BY <1>1, LoopNext
  <2> QED BY <2>2, <2>3, <2>4 DEF EnrichmentInv
<1>2. CASE UNCHANGED vars
  <2>1. UNCHANGED clockVars /\ UNCHANGED conntrackVars /\ UNCHANGED processVars
    BY <1>2 DEF vars
  <2>2. ConntrackInv'
    BY <2>1, ConntrackNext DEF ResolverMoves, ctClocks, EnrichmentInv
  <2>3. ProcessInv'
    BY <2>1, ProcessNext DEF ProcessMoves, EnrichmentInv, ConntrackInv
  <2>4. LoopInv'
    BY <1>2, LoopQuiet DEF vars, worldVars, clockVars, processVars, procVars, podVars, loopVars, EnrichmentInv
  <2> QED BY <2>2, <2>3, <2>4 DEF EnrichmentInv
<1> QED BY <1>1, <1>2

LEMMA EnrichmentInvariant == Spec => []EnrichmentInv
BY EnrichmentStart, EnrichmentStep, PTL DEF Spec

(* A backend that ResolveAfter returns was the kernel's answer recently    *)
(* enough, whatever changed while a dump was read, failed or was refused.  *)
THEOREM MappingsAreSound == Spec => []MappingSound
<1>1. EnrichmentInv => MappingSound
  BY ConntrackSound DEF EnrichmentInv
<1> QED BY <1>1, EnrichmentInvariant, PTL

(* Netlink is not hammered, whatever the lookups ask for.                  *)
THEOREM DumpsAreThrottled == Spec => DumpsThrottled
<1>1. ASSUME EnrichmentInv, [Next]_vars
      PROVE  [DumpApart]_conntrackVars
  <2>1. CASE Next
    <3>1. ResolverMoves
      BY <1>1, <2>1, StepMoves DEF EnrichmentInv
    <3>2. DumpApart
      BY <1>1, <3>1, DumpsApart DEF EnrichmentInv
    <3> QED BY <3>2
  <2>2. CASE UNCHANGED vars
    BY <2>2 DEF vars
  <2> QED BY <1>1, <2>1, <2>2
<1>2. EnrichmentInv /\ [Next]_vars => [DumpBegins /\ dumpStart # 0 =>
       now - dumpStart >= (IF dumpedAt = ZeroTime THEN 10 * Ttl
                           ELSE IF Ttl < MissRefresh THEN Ttl ELSE MissRefresh)]_conntrackVars
  BY <1>1 DEF DumpApart
<1> QED BY <1>2, EnrichmentInvariant, PTL DEF Spec, DumpsThrottled

(* What is written about an observation holds together, although each part *)
(* was read at another time from another cache.                            *)
THEOREM AttributionsAreSound == Spec => []AttributionSound
<1>1. EnrichmentInv => AttributionSound
  <2> SUFFICES ASSUME EnrichmentInv PROVE AttributionSound
    OBVIOUS
  <2>1. IdentitySound
    BY ProcessSound DEF EnrichmentInv
  <2>2. ASSUME loopAt = "written"
        PROVE  /\ \A p \in {obs.observerPod, obs.sourcePod, obs.destinationPod} \ {NoPod} :
                    p.created <= obs.observedAt
               /\ obs.observerPod # NoPod =>
                    images[obs.process.start].container = obs.observerPod.container
               /\ None \in {obs.sourceResolved, obs.destinationResolved}
               /\ obs.destinationPod # NoPod /\ obs.destinationResolved # None =>
                    obs.destinationPod.address = obs.destinationResolved
               /\ podChangedAt < obs.observedAt
                    /\ Cardinality({p \in podIndex : p.address = SourceAddress}) # 1 =>
                    obs.sourcePod = NoPod
    BY <2>2 DEF EnrichmentInv, LoopInv, ObsInv, WrittenPodsInv, OldEnough
  <2> QED BY <2>1, <2>2 DEF AttributionSound
<1> QED BY <1>1, EnrichmentInvariant, PTL
=============================================================================
