--------------------------- MODULE ProcessResolver --------------------------
(***************************************************************************)
(* process.Resolver (internal/process/process.go): the identity behind a   *)
(* PID, read from several files of /proc one after the other and cached.   *)
(*                                                                         *)
(* One PID is followed.  The kernel is external: processes come and go     *)
(* under the PID and may exec.  An image is what a process runs between    *)
(* two execs and determines comm and cmdline; a generation is named by its *)
(* first image, which stands for its start time, and has one container.    *)
(* Start times are taken to be distinct: the PID is not reused within a    *)
(* clock tick.                                                             *)
(***************************************************************************)
EXTENDS WallClock, Sequences

CONSTANTS
  Containers,    \* container IDs; NoContainer is a process of the host
  NoContainer,
  ProcessTtl

ASSUME ProcessAssumption == ProcessTtl \in Nat \ {0} /\ NoContainer \notin Containers

VARIABLES
  image,         \* the PID's current image, 0 if there is no process
  images,        \* history: generation and container of each image
  endedAt,       \* history: when each image was replaced or exited, 0 if not yet
  cache,         \* cache[pid]: an identity with expiresAt, or NoIdentity
  lookupAt,      \* Lookup: "idle", "hit", "stat", "cmdline", "cgroup", "again",
                 \* "returned"
  lookupNow,     \* its now
  draft,         \* the identity being assembled
  aliveIn,       \* history: generations that had the PID since Lookup began
  identity       \* what Lookup returned

procVars == <<image, images, endedAt>>
processVars == <<procVars, cache, lookupAt, lookupNow, draft, aliveIn, identity>>

NoIdentity == [start |-> 0, comm |-> 0, cmdline |-> 0, container |-> NoContainer, expiresAt |-> 0]

Generation(i) == images[i].generation
Alive == IF image = 0 THEN {} ELSE {Generation(image)}

ProcessInit ==
  /\ image = 0 /\ images = <<>> /\ endedAt = <<>>
  /\ cache = NoIdentity /\ draft = NoIdentity /\ identity = NoIdentity
  /\ lookupAt = "idle" /\ lookupNow = 0 /\ aliveIn = {}

(* External: fork, exec and exit.                                          *)
NewImage(generation, container) ==
  /\ image' = Len(images) + 1
  /\ images' = Append(images, [generation |-> generation, container |-> container])
  /\ endedAt' = [i \in 1..Len(images) + 1 |-> IF i = image THEN now
                                              ELSE IF i > Len(images) THEN 0 ELSE endedAt[i]]
  /\ aliveIn' = IF lookupAt = "idle" THEN {} ELSE aliveIn \cup {generation}

ProcessChange ==
  /\ \/ /\ image = 0
        /\ \E c \in Containers \cup {NoContainer} : NewImage(Len(images) + 1, c)
     \/ image # 0 /\ NewImage(Generation(image), images[image].container)
     \/ /\ image # 0
        /\ image' = 0
        /\ endedAt' = [endedAt EXCEPT ![image] = now]
        /\ UNCHANGED <<images, aliveIn>>
  /\ UNCHANGED <<cache, lookupAt, lookupNow, draft, identity>>

-----------------------------------------------------------------------------
LookupBegin ==
  /\ lookupAt = "idle"
  /\ lookupNow' = now
  /\ aliveIn' = Alive
  /\ lookupAt' = IF cache # NoIdentity /\ now < cache.expiresAt THEN "hit" ELSE "stat"
  /\ UNCHANGED <<procVars, cache, draft, identity>>

Return(result) ==
  /\ identity' = result
  /\ lookupAt' = "returned"

(* Any /proc file that cannot be read: the entry is deleted.               *)
LookupFails ==
  /\ cache' = NoIdentity
  /\ Return(NoIdentity)
  /\ UNCHANGED <<procVars, draft, lookupNow, aliveIn>>

(* A cache hit is good only if the start time is still the same.           *)
LookupHit ==
  /\ lookupAt = "hit"
  /\ IF image = 0 THEN LookupFails
     ELSE /\ IF Generation(image) = cache.start THEN Return(cache)
             ELSE lookupAt' = "stat" /\ UNCHANGED identity
          /\ UNCHANGED <<procVars, cache, draft, lookupNow, aliveIn>>

(* readProcess.  A cmdline or cgroup that cannot be read is left out.      *)
ReadStat ==
  /\ lookupAt = "stat"
  /\ IF image = 0 THEN LookupFails
     ELSE /\ draft' = [NoIdentity EXCEPT !.start = Generation(image), !.comm = image]
          /\ lookupAt' = "cmdline"
          /\ UNCHANGED <<procVars, cache, lookupNow, aliveIn, identity>>

ReadCmdline ==
  /\ lookupAt = "cmdline"
  /\ draft' = [draft EXCEPT !.cmdline = image]
  /\ lookupAt' = "cgroup"
  /\ UNCHANGED <<procVars, cache, lookupNow, aliveIn, identity>>

ReadCgroup ==
  /\ lookupAt = "cgroup"
  /\ draft' = [draft EXCEPT !.container = IF image = 0 THEN NoContainer ELSE images[image].container]
  /\ lookupAt' = "again"
  /\ UNCHANGED <<procVars, cache, lookupNow, aliveIn, identity>>

(* The second look at the start time, and the entry in the cache if there  *)
(* is room between the entries of other PIDs.  Mutant: only that the PID   *)
(* still exists is looked at.                                              *)
Assembled ==
  /\ Return(draft)
  /\ \/ cache' = [draft EXCEPT !.expiresAt = lookupNow + ProcessTtl]
     \/ cache' = NoIdentity
  /\ UNCHANGED <<procVars, draft, lookupNow, aliveIn>>

ReadStatAgainByPid ==
  /\ lookupAt = "again"
  /\ IF image = 0 THEN LookupFails ELSE Assembled

ReadStatAgain ==
  /\ lookupAt = "again"
  /\ IF image = 0 \/ Generation(image) # draft.start THEN LookupFails ELSE Assembled

LookupReturns ==
  /\ lookupAt = "returned"
  /\ lookupAt' = "idle" /\ lookupNow' = 0 /\ aliveIn' = {}
  /\ draft' = NoIdentity /\ identity' = NoIdentity
  /\ UNCHANGED <<procVars, cache>>

ProcessStep == LookupHit \/ ReadStat \/ ReadCmdline \/ ReadCgroup \/ ReadStatAgain

-----------------------------------------------------------------------------
(* An identity that Lookup returns is one generation's, although its parts *)
(* come from different files or from the cache: start time, comm, cmdline  *)
(* and container belong to a process that had the PID during the call, and *)
(* comm was its name no longer than ProcessTtl before it (a cached entry   *)
(* survives an exec).                                                      *)
IdentitySound ==
  lookupAt = "returned" /\ identity # NoIdentity =>
    /\ identity.start \in aliveIn
    /\ Generation(identity.comm) = identity.start
    /\ identity.cmdline # 0 => Generation(identity.cmdline) = identity.start
    /\ identity.container \in {NoContainer, images[identity.start].container}
    /\ endedAt[identity.comm] = 0 \/ endedAt[identity.comm] >= lookupNow - ProcessTtl
=============================================================================
