-------------------------- MODULE ConntrackResolver -------------------------
(***************************************************************************)
(* conntrack.Resolver (internal/conntrack/conntrack.go): a cached dump of  *)
(* the kernel's connection table, renewed after ttl and on a miss, from    *)
(* which the event loop reads the backend of a translated connection.      *)
(*                                                                         *)
(* One original tuple is followed.  Its entries in the kernel are the      *)
(* sources of their reply tuples: a backend, or NoNat when the destination *)
(* was not rewritten; two of them belong to two zones.  The kernel is      *)
(* external.  A dump is no snapshot: it holds what was there all the time, *)
(* nothing that never was, and any part of the rest.                       *)
(***************************************************************************)
EXTENDS WallClock, FiniteSets

CONSTANTS
  Backends,
  Ttl,
  MissRefresh   \* newResolver: ttl / 10, but at least 20 ms and at most 25 ms

NoNat == "noNat"
None == "none"

ASSUME ConntrackAssumption ==
  /\ Ttl \in Nat \ {0} /\ MissRefresh \in Nat \ {0}
  /\ NoNat \notin Backends /\ None \notin Backends

VARIABLES
  entries,        \* the kernel's table for the tuple
  changedAt,      \* history: when it changed last
  releasedAt,     \* history: when a backend was removed from it last
  table,          \* Resolver.table for the tuple
  dumpedAt, dumpedWall,   \* the two readings of Resolver.dumpedAt
  refreshAt,
  resolveAt,      \* ResolveAfter: "idle", "refresh", "lookup", "missDump",
                  \* "result", "returned"
  original,       \* is the tuple asked for in its original order?
  notBefore,      \* observedAt, or the zero time
  calledAt,       \* history: when it was called
  found,          \* its local variables resolved and ok
  dumpStart,      \* now in the refresh functions: start of the last dump
  dumpStartWall,
  inDump,         \* entries that were there since the dump began
  sinceDump,      \* entries that were there at some time since then
  answer

kernelVars == <<entries, changedAt, releasedAt>>
cacheVars == <<table, dumpedAt, dumpedWall, refreshAt>>
dumpVars == <<dumpStart, dumpStartWall, inDump, sinceDump>>
callVars == <<original, notBefore, calledAt, found, answer>>
conntrackVars == <<kernelVars, cacheVars, dumpVars, callVars, resolveAt>>

Dumping == resolveAt \in {"refresh", "missDump"}

ConntrackInit ==
  /\ entries = {} /\ changedAt = 0 /\ releasedAt = [b \in Backends |-> 0]
  /\ table = None /\ dumpedAt = ZeroTime /\ dumpedWall = ZeroTime /\ refreshAt = ZeroTime
  /\ resolveAt = "idle" /\ original = FALSE /\ notBefore = ZeroTime /\ calledAt = 0
  /\ found = None /\ answer = None
  /\ dumpStart = 0 /\ dumpStartWall = 0 /\ inDump = {} /\ sinceDump = {}

(* External: a connection with this tuple begins or ends in some zone.     *)
KernelChange ==
  /\ \E e \in Backends \cup {NoNat} :
       /\ entries' = IF e \in entries THEN entries \ {e} ELSE entries \cup {e}
       /\ releasedAt' = [b \in Backends |-> IF b = e THEN now ELSE releasedAt[b]]
  /\ Cardinality(entries') <= 2
  /\ changedAt' = now
  /\ inDump' = IF Dumping THEN inDump \cap entries' ELSE inDump
  /\ sinceDump' = IF Dumping THEN sinceDump \cup entries' ELSE sinceDump
  /\ UNCHANGED <<cacheVars, dumpStart, dumpStartWall, callVars, resolveAt>>

-----------------------------------------------------------------------------
(* Two reply tuples for one original are no proof of either.               *)
BuildTable(dump) ==
  IF Cardinality(dump) = 1 /\ dump # {NoNat} THEN CHOOSE e \in dump : TRUE ELSE None

BeginDump ==
  /\ dumpStart' = now /\ dumpStartWall' = Wall
  /\ inDump' = entries /\ sinceDump' = entries

(* ResolveAfter up to refreshLocked; mu is held until it returns.          *)
ResolveBegin(inOrder, observed) ==
  /\ resolveAt = "idle"
  /\ original' = inOrder /\ notBefore' = observed /\ calledAt' = now
  /\ IF refreshAt # ZeroTime /\ now < refreshAt
     THEN resolveAt' = "lookup" /\ UNCHANGED dumpVars
     ELSE resolveAt' = "refresh" /\ BeginDump
  /\ UNCHANGED <<kernelVars, cacheVars, found, answer>>

(* A failed dump invalidates what is cached.                               *)
DumpFailed ==
  /\ table' = None
  /\ dumpedAt' = ZeroTime /\ dumpedWall' = ZeroTime
  /\ refreshAt' = dumpStart + 10 * Ttl

DumpSucceeded ==
  /\ \E dump \in SUBSET sinceDump : inDump \subseteq dump /\ table' = BuildTable(dump)
  /\ dumpedAt' = dumpStart /\ dumpedWall' = dumpStartWall
  /\ refreshAt' = dumpStart + Ttl

EndDump == dumpStartWall' = 0 /\ inDump' = {} /\ sinceDump' = {} /\ UNCHANGED dumpStart

RefreshDone ==
  /\ resolveAt = "refresh"
  /\ DumpFailed \/ DumpSucceeded
  /\ EndDump
  /\ resolveAt' = "lookup"
  /\ UNCHANGED <<kernelVars, callVars>>

(* refreshOnMissLocked, its early returns.  Mutant: every miss dumps.      *)
MissDumpDueAtOnce ==
  /\ dumpedAt # ZeroTime
  /\ ~(refreshAt # ZeroTime /\ now < refreshAt /\ refreshAt - now > Ttl)

MissDumpDue ==
  /\ dumpedAt # ZeroTime
  /\ now - dumpedAt >= MissRefresh
  /\ ~(refreshAt # ZeroTime /\ now < refreshAt /\ refreshAt - now > Ttl)

IsStale == dumpedWall < notBefore
InTable == IF original THEN table ELSE None

Lookup ==
  /\ resolveAt = "lookup"
  /\ found' = InTable
  /\ IF (InTable = None \/ IsStale) /\ MissDumpDue
     THEN resolveAt' = "missDump" /\ BeginDump
     ELSE resolveAt' = "result" /\ UNCHANGED dumpVars
  /\ UNCHANGED <<kernelVars, cacheVars, original, notBefore, calledAt, answer>>

(* After a failed dump the variables still hold what was found before.     *)
MissDumpDone ==
  /\ resolveAt = "missDump"
  /\ \/ DumpFailed /\ UNCHANGED found
     \/ DumpSucceeded /\ found' = (IF original THEN table' ELSE None)
  /\ EndDump
  /\ resolveAt' = "result"
  /\ UNCHANGED <<kernelVars, original, notBefore, calledAt, answer>>

(* Mutant: the age of the dump is not tested again.                        *)
ResultUnchecked ==
  /\ resolveAt = "result"
  /\ answer' = found
  /\ resolveAt' = "returned"
  /\ UNCHANGED <<kernelVars, cacheVars, dumpVars, original, notBefore, calledAt, found>>

Result ==
  /\ resolveAt = "result"
  /\ answer' = IF found = None \/ IsStale THEN None ELSE found
  /\ resolveAt' = "returned"
  /\ UNCHANGED <<kernelVars, cacheVars, dumpVars, original, notBefore, calledAt, found>>

ResolveReturns ==
  /\ resolveAt = "returned"
  /\ resolveAt' = "idle"
  /\ original' = FALSE /\ notBefore' = ZeroTime /\ calledAt' = 0
  /\ found' = None /\ answer' = None
  /\ UNCHANGED <<kernelVars, cacheVars, dumpVars>>

ConntrackStep == RefreshDone \/ Lookup \/ MissDumpDone \/ Result

-----------------------------------------------------------------------------
(***************************************************************************)
(* Properties.                                                             *)
(***************************************************************************)
HeldAt(b) == IF b \in entries THEN now ELSE releasedAt[b]

(* A backend that is returned was the kernel's answer recently enough,     *)
(* whatever changed while a dump was read, failed or was refused: for a    *)
(* new connection not before it was observed, unless the wall clock was    *)
(* set back, and otherwise at most Ttl before the call.  It is the only    *)
(* entry if nothing has changed since the dump: conflicting zones prove    *)
(* nothing.                                                                *)
MappingSound ==
  resolveAt = "returned" /\ answer # None =>
    /\ original
    /\ notBefore # ZeroTime /\ skew = 0 => HeldAt(answer) >= notBefore
    /\ HeldAt(answer) > calledAt - Ttl
    /\ changedAt < dumpedAt => entries = {answer}

(* Netlink is not hammered: dumps start at least MissRefresh (or Ttl, if   *)
(* that is shorter) after each other, and after a failed one ten times     *)
(* Ttl, although a miss in between asks for one at every lookup.           *)
DumpBegins == ~Dumping /\ (resolveAt' \in {"refresh", "missDump"})

DumpsThrottled ==
  [][DumpBegins /\ dumpStart # 0 =>
       now - dumpStart >= (IF dumpedAt = ZeroTime THEN 10 * Ttl
                           ELSE IF Ttl < MissRefresh THEN Ttl ELSE MissRefresh)]_conntrackVars
=============================================================================
