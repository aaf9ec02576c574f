----------------------------- MODULE FlowStream -----------------------------
(***************************************************************************)
(* flow.Stream (internal/flow/stream.go, window.go): the streaming window  *)
(* aggregation of L4 observations.                                         *)
(*                                                                         *)
(* A window is keyed by its start and by the identity of the observed flow *)
(* (tuple, translated endpoints, process, pods: one model value).          *)
(* ObservationCount, LastObservedAt and the RTT distribution are updated   *)
(* the way the code updates them; Jitter is another such distribution.     *)
(* The remaining metrics are sums over the observations, for which the     *)
(* model keeps the set of those that contributed.                          *)
(*                                                                         *)
(* The operations are operators on the stream record, so that Pipeline,    *)
(* which composes the stream with the event loop, uses the same            *)
(* definitions on the same variables.                                      *)
(***************************************************************************)
EXTENDS Distribution, FiniteSetsExt, Sums

CONSTANTS
  Ids,               \* serial numbers that tell observations apart
  Identities,        \* what keyFor reads besides the time
  Times,             \* instants; ZeroTime is the zero time.Time
  Rtts,              \* the RTTs an observation may carry: no measurement, or one
  WindowSize,        \* StreamConfig.WindowSize
  AllowedLateness,   \* StreamConfig.AllowedLateness
  MaxWindows         \* StreamConfig.MaxWindows, once its default is applied

(* NewStream refuses the other configurations.                             *)
ASSUME StreamConfigAssumption ==
  /\ Times \subseteq Nat
  /\ \A i \in Ids : \A r \in Rtts[i] :
       r = NoSamples \/ (r = PointDistribution(r.sum) /\ r.sum \in Nat)
  /\ WindowSize \in Nat \ {0}
  /\ AllowedLateness \in Nat
  /\ MaxWindows \in Nat \ {0}

ZeroTime == 0

Observation ==
  UNION {[id : {i}, identity : Identities, at : Times, rtt : Rtts[i]] : i \in Ids}

Key == [start : Nat, identity : Identities]

Window == [count : Nat, last : Nat, rtt : Distributions, members : SUBSET Observation]

(* ObservedAt.Truncate(windowSize) and the grouping identity.              *)
KeyFor(o) ==
  [start |-> (o.at \div WindowSize) * WindowSize, identity |-> o.identity]

WindowEnd(k) == k.start + WindowSize

NewWindow == [count |-> 0, last |-> ZeroTime, rtt |-> NoSamples, members |-> {}]

(* Mutant of Window.add: the counter is decremented.                       *)
AddToWindowDecrement(w, o) ==
  [count |-> w.count - 1, last |-> o.at, rtt |-> Merge(w.rtt, o.rtt),
   members |-> w.members \cup {o}]

(* Window.add                                                              *)
AddToWindow(w, o) ==
  [count   |-> w.count + 1,
   last    |-> IF w.last = ZeroTime \/ o.at > w.last THEN o.at ELSE w.last,
   rtt     |-> Merge(w.rtt, o.rtt),
   members |-> w.members \cup {o}]

(***************************************************************************)
(* Aggregate, the batch form: one window per key of the observations, its  *)
(* RTT the statistics of all their measurements.                           *)
(***************************************************************************)
Group(S, k) == {o \in S : KeyFor(o) = k}

Statistics(S) ==
  LET measured == {o \in S : o.rtt # NoSamples}
      values == {o.rtt.sum : o \in measured} IN
  IF measured = {} THEN NoSamples
  ELSE [count |-> Cardinality(measured),
        sum   |-> Total([o \in measured |-> o.rtt.sum], measured),
        min   |-> Min(values),
        max   |-> Max(values)]

Aggregate(S) ==
  [k \in {KeyFor(o) : o \in S} |->
     [count   |-> Cardinality(Group(S, k)),
      last    |-> CHOOSE t \in {o.at : o \in Group(S, k)} :
                    \A o \in Group(S, k) : o.at <= t,
      rtt     |-> Statistics(Group(S, k)),
      members |-> Group(S, k)]]

-----------------------------------------------------------------------------
VARIABLES
  stream,    \* flow.Stream: [windows, watermark, hasWatermark, finished]
  accepted,  \* history: the observations Add returned nil for
  emitted    \* history: the windows Flush and Finish returned

streamVars == <<stream, accepted, emitted>>

Emission == [key : Key, window : Window, partial : BOOLEAN]

StreamTypeOK ==
  /\ stream.windows \in [DOMAIN stream.windows -> Window]
  /\ DOMAIN stream.windows \subseteq Key
  /\ IsFiniteSet(DOMAIN stream.windows)
  /\ stream = [windows      |-> stream.windows,
               watermark    |-> stream.watermark,
               hasWatermark |-> stream.hasWatermark,
               finished     |-> stream.finished]
  /\ stream.watermark \in Int
  /\ stream.hasWatermark \in BOOLEAN
  /\ stream.finished \in BOOLEAN
  /\ accepted \in SUBSET Observation
  /\ IsFiniteSet(accepted)
  /\ emitted \in SUBSET Emission

NewStream ==
  [windows      |-> [k \in {} |-> NewWindow],
   watermark    |-> ZeroTime,
   hasWatermark |-> FALSE,
   finished     |-> FALSE]

StreamInit ==
  /\ stream = NewStream
  /\ accepted = {}
  /\ emitted = {}

-----------------------------------------------------------------------------
(* Mutants: a window that ends exactly at the watermark still accepts; the
   capacity test is off by one.                                            *)
IsLateExclusive(s, o) == s.hasWatermark /\ WindowEnd(KeyFor(o)) < s.watermark

IsFullOffByOne(s, o) ==
  /\ KeyFor(o) \notin DOMAIN s.windows
  /\ Cardinality(DOMAIN s.windows) > MaxWindows

(* Add's early returns.                                                    *)
IsLate(s, o) == s.hasWatermark /\ WindowEnd(KeyFor(o)) <= s.watermark

IsFull(s, o) ==
  /\ KeyFor(o) \notin DOMAIN s.windows
  /\ Cardinality(DOMAIN s.windows) >= MaxWindows

AddError(s, o) ==
  IF s.finished THEN "ErrStreamClosed"
  ELSE IF o.at = ZeroTime THEN "observation time is required"
  ELSE IF IsLate(s, o) THEN "ErrLateObservation"
  ELSE IF IsFull(s, o) THEN "ErrWindowCapacity"
  ELSE "nil"

(* The window an accepted observation goes to, created when it is new.     *)
WindowsWith(s, o) ==
  [k \in DOMAIN s.windows \cup {KeyFor(o)} |->
     IF k = KeyFor(o)
     THEN AddToWindow(IF k \in DOMAIN s.windows THEN s.windows[k] ELSE NewWindow, o)
     ELSE s.windows[k]]

Added(s, o) ==
  [windows      |-> WindowsWith(s, o),
   watermark    |-> s.watermark,
   hasWatermark |-> s.hasWatermark,
   finished     |-> s.finished]

(* Mutants: the watermark follows the caller's clock; a window that ends at
   the watermark stays.                                                    *)
AdvancedByClock(s, now) == now - AllowedLateness

DueExclusive(s, now) ==
  {k \in DOMAIN s.windows :
     s.hasWatermark /\ WindowEnd(k) < now - AllowedLateness}

(* Flush: the watermark only moves forward, and takes with it every window *)
(* that ends by then.                                                      *)
Advanced(s, now) ==
  LET watermark == now - AllowedLateness IN
  IF ~s.hasWatermark \/ watermark > s.watermark THEN watermark ELSE s.watermark

Due(s, now) == {k \in DOMAIN s.windows : WindowEnd(k) <= Advanced(s, now)}

Flushed(s, now) ==
  [windows      |-> [k \in DOMAIN s.windows \ Due(s, now) |-> s.windows[k]],
   watermark    |-> Advanced(s, now),
   hasWatermark |-> TRUE,
   finished     |-> s.finished]

(* The windows of the keys K as they are handed to the caller.             *)
Emissions(s, K, isPartial) ==
  {[key |-> k, window |-> s.windows[k], partial |-> isPartial] : k \in K}

(* Finish: a Flush, then what is left as partial windows; terminal.        *)
Finished(s, now) ==
  [windows      |-> NewStream.windows,
   watermark    |-> Advanced(s, now),
   hasWatermark |-> TRUE,
   finished     |-> TRUE]

FinishEmissions(s, now) ==
  Emissions(s, Due(s, now), FALSE)
    \cup Emissions(s, DOMAIN s.windows \ Due(s, now), TRUE)

-----------------------------------------------------------------------------
(***************************************************************************)
(* The operations.                                                         *)
(***************************************************************************)
Add(o) ==
  /\ AddError(stream, o) = "nil"
  /\ stream' = Added(stream, o)
  /\ accepted' = accepted \cup {o}
  /\ UNCHANGED emitted

Reject(o) ==
  /\ AddError(stream, o) # "nil"
  /\ UNCHANGED streamVars

Flush(now) ==
  /\ stream' = Flushed(stream, now)
  /\ emitted' = emitted \cup Emissions(stream, Due(stream, now), FALSE)
  /\ UNCHANGED accepted

Finish(now) ==
  /\ ~stream.finished
  /\ stream' = Finished(stream, now)
  /\ emitted' = emitted \cup FinishEmissions(stream, now)
  /\ UNCHANGED accepted

(* A second Finish returns nothing.                                        *)
FinishAgain(now) ==
  /\ stream.finished
  /\ UNCHANGED streamVars

(* A caller hands each observation to Add once; Pipeline is shown to keep  *)
(* that promise.                                                           *)
StreamNext ==
  \/ \E o \in Observation \ accepted : Add(o)
  \/ \E o \in Observation \ accepted : Reject(o)
  \/ \E now \in Times : Flush(now)
  \/ \E now \in Times : Finish(now)
  \/ \E now \in Times : FinishAgain(now)

StreamSpec == StreamInit /\ [][StreamNext]_streamVars

-----------------------------------------------------------------------------
(***************************************************************************)
(* Safety.                                                                 *)
(***************************************************************************)

(* The windows still active and the windows already emitted are together   *)
(* the batch aggregation of the accepted observations: no observation is   *)
(* lost, counted twice, or split over two windows of one key, however Add  *)
(* and Flush interleave and whichever direction the caller's clock moves.  *)
(* This is what makes a window the caller received final.                  *)
MatchesAggregate ==
  LET batch == Aggregate(accepted) IN
  /\ DOMAIN batch = DOMAIN stream.windows \cup {e.key : e \in emitted}
  /\ \A k \in DOMAIN stream.windows : stream.windows[k] = batch[k]
  /\ \A e \in emitted : e.window = batch[e.key]

(* A key is emitted at most once, and never becomes active again after it  *)
(* was: the late check of Add guards a window that Flush removed.          *)
EmittedOnce ==
  /\ \A e, f \in emitted : e.key = f.key => e = f
  /\ \A e \in emitted : e.key \notin DOMAIN stream.windows

(* Between calls no active window is overdue, so that nothing that should  *)
(* have been flushed waits for the next one; and only a window whose       *)
(* interval has passed the watermark is presented as complete.             *)
WatermarkSeparates ==
  /\ \A k \in DOMAIN stream.windows :
       stream.hasWatermark => WindowEnd(k) > stream.watermark
  /\ \A e \in emitted :
       ~e.partial => stream.hasWatermark /\ WindowEnd(e.key) <= stream.watermark

(* The memory bound of the stream, at its limit.                           *)
WindowsBounded == Cardinality(DOMAIN stream.windows) <= MaxWindows

(* The watermark never moves back, even when the caller's clock does, and  *)
(* a finished stream neither emits nor accepts anything.                   *)
WatermarkMonotone ==
  [][/\ stream.hasWatermark => stream'.hasWatermark /\ stream'.watermark >= stream.watermark
     /\ stream.finished => stream'.windows = stream.windows /\ emitted' = emitted]_streamVars
=============================================================================
