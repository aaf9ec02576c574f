----------------------- MODULE PipelineParts_proofs -------------------------
(***************************************************************************)
(* Proofs about the parts that Pipeline composes: FlowStream, for every    *)
(* configuration of the stream and every sequence of calls, and after it   *)
(* DnsCorrelator.                                                          *)
(***************************************************************************)
EXTENDS FlowStream, DnsCorrelator, FiniteSetTheorems, TLAPS

-----------------------------------------------------------------------------
(***************************************************************************)
(* Facts about the operators.                                              *)
(***************************************************************************)

(* What an observation is made of; its RTT is a distribution.              *)
LEMMA ObservationFacts ==
  ASSUME NEW o \in Observation
  PROVE  o.at \in Times /\ o.identity \in Identities /\ o.rtt \in Distributions
<1>1. PICK i \in Ids : o \in [id : {i}, identity : Identities, at : Times, rtt : Rtts[i]]
  BY DEF Observation
<1>2. o.at \in Times /\ o.identity \in Identities /\ o.rtt \in Rtts[i]
  BY <1>1
<1>3. o.rtt = NoSamples \/ (o.rtt = PointDistribution(o.rtt.sum) /\ o.rtt.sum \in Nat)
  BY <1>2, StreamConfigAssumption
<1>4. ASSUME NEW v \in Nat PROVE PointDistribution(v) \in Distributions
  BY DEF PointDistribution, Distributions
<1>5. NoSamples \in Distributions
  BY DEF Distributions
<1> QED BY <1>2, <1>3, <1>4, <1>5

(* Merging distributions gives a distribution.                             *)
LEMMA MergeType ==
  ASSUME NEW d \in Distributions, NEW e \in Distributions
  PROVE  Merge(d, e) \in Distributions
<1>1. CASE d.count = 0 \/ e.count = 0
  BY <1>1 DEF Merge
<1>2. CASE d.count # 0 /\ e.count # 0
  <2>1. d \in [count : Nat \ {0}, sum : Nat, min : Nat, max : Nat]
    BY <1>2 DEF Distributions, NoSamples
  <2>2. e \in [count : Nat \ {0}, sum : Nat, min : Nat, max : Nat]
    BY <1>2 DEF Distributions, NoSamples
  <2> QED BY <1>2, <2>1, <2>2 DEF Merge, Distributions
<1> QED BY <1>1, <1>2

(* Distribution.Merge does not depend on the order of its arguments, on    *)
(* how a sequence of merges is grouped, or on windows without a            *)
(* measurement: the RTT of a window is a function of its observations.     *)
THEOREM MergeOrderIndependent ==
  ASSUME NEW d \in Distributions, NEW e \in Distributions, NEW f \in Distributions
  PROVE  /\ Merge(d, e) = Merge(e, d)
         /\ Merge(Merge(d, e), f) = Merge(d, Merge(e, f))
         /\ Merge(d, NoSamples) = d
<1> DEFINE Measured == [count : Nat \ {0}, sum : Nat, min : Nat, max : Nat]
<1>1. \A x \in Distributions : x = NoSamples \/ (x \in Measured /\ x.count # 0)
  BY DEF Distributions
<1>2. \A x, y \in Measured : Merge(x, y) \in Measured /\ Merge(x, y) = Merge(y, x)
  BY DEF Merge
<1>3. \A x, y, z \in Measured : Merge(Merge(x, y), z) = Merge(x, Merge(y, z))
  <2> TAKE x \in Measured, y \in Measured, z \in Measured
  <2> DEFINE least(a, b) == IF b < a THEN b ELSE a
             most(a, b) == IF b > a THEN b ELSE a
             sums(a, b) == [count |-> a.count + b.count, sum |-> a.sum + b.sum,
                            min |-> least(a.min, b.min), max |-> most(a.max, b.max)]
  <2>1. \A a, b \in Measured : Merge(a, b) = sums(a, b) /\ sums(a, b) \in Measured
    BY DEF Merge
  <2>2. sums(sums(x, y), z) = sums(x, sums(y, z))
    OBVIOUS
  <2> HIDE DEF sums, Measured
  <2> QED BY <2>1, <2>2
<1>4. \A x \in Distributions : Merge(x, NoSamples) = x /\ Merge(NoSamples, x) = x
  BY <1>1 DEF Merge, NoSamples
<1> HIDE DEF Measured
<1>5. Merge(d, e) = Merge(e, d)
  BY <1>1, <1>2, <1>4
<1>6. Merge(Merge(d, e), f) = Merge(d, Merge(e, f))
  <2>1. CASE d = NoSamples
    BY <2>1, <1>4, MergeType
  <2>2. CASE e = NoSamples
    BY <2>2, <1>4
  <2>3. CASE f = NoSamples
    BY <2>3, <1>4, MergeType
  <2>4. CASE d \in Measured /\ e \in Measured /\ f \in Measured
    BY <2>4, <1>3
  <2> QED BY <1>1, <2>1, <2>2, <2>3, <2>4
<1> QED BY <1>4, <1>5, <1>6

(* The window of an observation starts at or before it and ends after it.  *)
LEMMA KeyForFacts ==
  ASSUME NEW o \in Observation
  PROVE  /\ KeyFor(o) \in Key
         /\ KeyFor(o).start <= o.at
         /\ o.at < WindowEnd(KeyFor(o))
<1>1. o.at \in Nat /\ WindowSize \in Nat \ {0} /\ o.identity \in Identities
  BY StreamConfigAssumption, ObservationFacts
<1>2. /\ o.at \div WindowSize \in Nat
      /\ (o.at \div WindowSize) * WindowSize \in Nat
      /\ (o.at \div WindowSize) * WindowSize <= o.at
      /\ o.at < (o.at \div WindowSize) * WindowSize + WindowSize
  <2>1. /\ o.at = WindowSize * (o.at \div WindowSize) + (o.at % WindowSize)
        /\ o.at \div WindowSize \in Int
        /\ 0 <= o.at % WindowSize /\ o.at % WindowSize < WindowSize
    BY <1>1
  <2>2. o.at \div WindowSize \in Nat
    BY <1>1, Z3
  <2> DEFINE d == o.at \div WindowSize
             r == o.at % WindowSize
  <2>3. /\ d \in Nat /\ r \in Int /\ 0 <= r /\ r < WindowSize
        /\ o.at = WindowSize * d + r
    BY <1>1, <2>1, <2>2
  <2> HIDE DEF d, r
  <2>4. /\ d * WindowSize \in Nat /\ d * WindowSize <= o.at
        /\ o.at < d * WindowSize + WindowSize
    BY <1>1, <2>3
  <2> QED BY <2>2, <2>4 DEF d
<1> QED BY <1>1, <1>2 DEF KeyFor, Key, WindowEnd

(* Adding an observation to a well-formed window gives a well-formed one.  *)
LEMMA AddToWindowType ==
  ASSUME NEW w \in Window, NEW o \in Observation
  PROVE  AddToWindow(w, o) \in Window
<1>1. o.at \in Nat /\ o.rtt \in Distributions
  BY StreamConfigAssumption, ObservationFacts
<1>2. /\ w.count \in Nat /\ w.last \in Nat /\ w.rtt \in Distributions
      /\ w.members \in SUBSET Observation
  BY DEF Window
<1>3. w.members \cup {o} \in SUBSET Observation
  BY <1>2
<1>4. Merge(w.rtt, o.rtt) \in Distributions
  BY <1>1, <1>2, MergeType
<1> QED BY <1>1, <1>2, <1>3, <1>4 DEF AddToWindow, Window

(* The watermark that Flush leaves never lies before the previous one.     *)
LEMMA AdvancedFacts ==
  ASSUME StreamTypeOK, NEW now \in Times
  PROVE  /\ Advanced(stream, now) \in Int
         /\ stream.hasWatermark => Advanced(stream, now) >= stream.watermark
         /\ Advanced(stream, now) >= now - AllowedLateness
BY StreamConfigAssumption DEF StreamTypeOK, Advanced

-----------------------------------------------------------------------------
(***************************************************************************)
(* Type correctness.                                                       *)
(***************************************************************************)
LEMMA StreamTypeInit == StreamInit => StreamTypeOK
<1> SUFFICES ASSUME StreamInit PROVE StreamTypeOK
  OBVIOUS
<1>1. IsFiniteSet({})
  BY FS_EmptySet
<1>2. stream = NewStream /\ accepted = {} /\ emitted = {}
  BY DEF StreamInit
<1>3. stream.windows \in [DOMAIN stream.windows -> Window] /\ DOMAIN stream.windows = {}
  BY <1>2 DEF NewStream
<1> QED BY <1>1, <1>2, <1>3 DEF StreamTypeOK, NewStream, ZeroTime

LEMMA StreamTypeNext == StreamTypeOK /\ [StreamNext]_streamVars => StreamTypeOK'
<1> SUFFICES ASSUME StreamTypeOK, [StreamNext]_streamVars PROVE StreamTypeOK'
  OBVIOUS
<1>1. ASSUME NEW o \in Observation \ accepted, Add(o) PROVE StreamTypeOK'
  <2>1. WindowsWith(stream, o) \in [DOMAIN stream.windows \cup {KeyFor(o)} -> Window]
    <3>1. NewWindow \in Window
      BY DEF NewWindow, Window, ZeroTime, Distributions
    <3> QED BY <3>1, AddToWindowType DEF WindowsWith, StreamTypeOK
  <2>2. IsFiniteSet(DOMAIN stream.windows \cup {KeyFor(o)})
    BY FS_AddElement DEF StreamTypeOK
  <2>3. IsFiniteSet(accepted \cup {o})
    BY FS_AddElement DEF StreamTypeOK
  <2>4. DOMAIN WindowsWith(stream, o) = DOMAIN stream.windows \cup {KeyFor(o)}
    BY DEF WindowsWith
  <2> QED BY <1>1, <2>1, <2>2, <2>3, <2>4, KeyForFacts DEF Add, Added, StreamTypeOK
<1>2. ASSUME NEW o \in Observation \ accepted, Reject(o) PROVE StreamTypeOK'
  BY <1>2 DEF Reject, StreamTypeOK, streamVars
<1>3. ASSUME NEW K \in SUBSET DOMAIN stream.windows, NEW p \in BOOLEAN
      PROVE  Emissions(stream, K, p) \in SUBSET Emission
  BY DEF Emissions, Emission, StreamTypeOK
<1>4. ASSUME NEW now \in Times
      PROVE  Due(stream, now) \in SUBSET DOMAIN stream.windows
  BY DEF Due
<1>5. ASSUME NEW now \in Times, Flush(now) PROVE StreamTypeOK'
  <2>1. IsFiniteSet(DOMAIN stream.windows \ Due(stream, now))
    BY FS_Subset DEF StreamTypeOK
  <2>2. Emissions(stream, Due(stream, now), FALSE) \in SUBSET Emission
    BY <1>3, <1>4
  <2>3. /\ stream'.windows \in [DOMAIN stream'.windows -> Window]
        /\ DOMAIN stream'.windows = DOMAIN stream.windows \ Due(stream, now)
    BY <1>5 DEF Flush, Flushed, StreamTypeOK
  <2> QED BY <1>5, <2>1, <2>2, <2>3, AdvancedFacts DEF Flush, Flushed, StreamTypeOK
<1>6. ASSUME NEW now \in Times, Finish(now) PROVE StreamTypeOK'
  <2>1. FinishEmissions(stream, now) \in SUBSET Emission
    BY <1>3, <1>4 DEF FinishEmissions
  <2>2. /\ stream'.windows \in [DOMAIN stream'.windows -> Window]
        /\ DOMAIN stream'.windows = {}
    BY <1>6 DEF Finish, Finished, NewStream
  <2> QED BY <1>6, <2>1, <2>2, AdvancedFacts, FS_EmptySet
          DEF Finish, Finished, StreamTypeOK
<1>7. ASSUME NEW now \in Times, FinishAgain(now) PROVE StreamTypeOK'
  BY <1>7 DEF FinishAgain, StreamTypeOK, streamVars
<1>8. CASE UNCHANGED streamVars
  BY <1>8 DEF StreamTypeOK, streamVars
<1> QED BY <1>1, <1>2, <1>5, <1>6, <1>7, <1>8 DEF StreamNext

(* Type correctness of the stream (Stream, Window and its emissions).      *)
THEOREM StreamTypeCorrect == StreamSpec => []StreamTypeOK
BY StreamTypeInit, StreamTypeNext, PTL DEF StreamSpec

-----------------------------------------------------------------------------
(***************************************************************************)
(* A window is emitted once.  EmittedOnce is not inductive: that Add does  *)
(* not reopen an emitted window follows from where the watermark lies when *)
(* it was emitted complete (WatermarkSeparates), and from the stream being *)
(* finished, and empty, when it was emitted partial.                       *)
(***************************************************************************)
PartialOnlyAtEnd ==
  /\ \A e \in emitted : e.partial => stream.finished
  /\ stream.finished => DOMAIN stream.windows = {}

StreamInv ==
  /\ StreamTypeOK
  /\ WatermarkSeparates
  /\ PartialOnlyAtEnd
  /\ EmittedOnce

LEMMA StreamInvInit == StreamInit => StreamInv
BY StreamTypeInit DEF StreamInit, StreamInv, WatermarkSeparates, PartialOnlyAtEnd,
   EmittedOnce, NewStream

(* The key of an observation that Add accepts was not emitted before.      *)
LEMMA AcceptedIsOpen ==
  ASSUME StreamInv, NEW o \in Observation, AddError(stream, o) = "nil"
  PROVE  /\ ~stream.finished
         /\ o.at # ZeroTime
         /\ stream.hasWatermark => WindowEnd(KeyFor(o)) > stream.watermark
         /\ \A e \in emitted : e.key # KeyFor(o)
<1>1. ~stream.finished /\ o.at # ZeroTime /\ ~IsLate(stream, o)
  BY DEF AddError
<1>2. WindowEnd(KeyFor(o)) \in Int /\ stream.watermark \in Int
  BY KeyForFacts, StreamConfigAssumption DEF StreamInv, StreamTypeOK, WindowEnd, Key
<1>3. stream.hasWatermark => WindowEnd(KeyFor(o)) > stream.watermark
  BY <1>1, <1>2 DEF IsLate
<1>4. ASSUME NEW e \in emitted PROVE e.key # KeyFor(o)
  <2>1. ~e.partial
    BY <1>1 DEF StreamInv, PartialOnlyAtEnd
  <2>2. stream.hasWatermark /\ WindowEnd(e.key) <= stream.watermark
    BY <2>1 DEF StreamInv, WatermarkSeparates
  <2> QED BY <1>2, <1>3, <2>2
<1> QED BY <1>1, <1>3, <1>4

LEMMA StreamInvNext == StreamInv /\ [StreamNext]_streamVars => StreamInv'
<1> SUFFICES ASSUME StreamInv, [StreamNext]_streamVars PROVE StreamInv'
  OBVIOUS
<1>0. StreamTypeOK /\ StreamTypeOK'
  BY StreamTypeNext DEF StreamInv
<1>1. ASSUME NEW o \in Observation \ accepted, Add(o) PROVE StreamInv'
  <2>1. /\ DOMAIN stream'.windows = DOMAIN stream.windows \cup {KeyFor(o)}
        /\ stream'.watermark = stream.watermark
        /\ stream'.hasWatermark = stream.hasWatermark
        /\ stream'.finished = stream.finished
        /\ emitted' = emitted
        /\ AddError(stream, o) = "nil"
    BY <1>1 DEF Add, Added, WindowsWith
  <2>2. /\ ~stream.finished
        /\ stream.hasWatermark => WindowEnd(KeyFor(o)) > stream.watermark
        /\ \A e \in emitted : e.key # KeyFor(o)
    BY <2>1, AcceptedIsOpen
  <2>3. WatermarkSeparates'
    BY <2>1, <2>2 DEF StreamInv, WatermarkSeparates
  <2>4. PartialOnlyAtEnd'
    BY <2>1, <2>2 DEF StreamInv, PartialOnlyAtEnd
  <2>5. EmittedOnce'
    BY <2>1, <2>2 DEF StreamInv, EmittedOnce
  <2> QED BY <1>0, <2>3, <2>4, <2>5 DEF StreamInv
<1>2. ASSUME UNCHANGED streamVars PROVE StreamInv'
  BY <1>2 DEF StreamInv, streamVars, StreamTypeOK, WatermarkSeparates, PartialOnlyAtEnd, EmittedOnce
<1>3. ASSUME NEW now \in Times, Flush(now) PROVE StreamInv'
  <2>1. /\ DOMAIN stream'.windows = DOMAIN stream.windows \ Due(stream, now)
        /\ stream'.watermark = Advanced(stream, now)
        /\ stream'.hasWatermark = TRUE
        /\ stream'.finished = stream.finished
        /\ emitted' = emitted \cup Emissions(stream, Due(stream, now), FALSE)
    BY <1>3 DEF Flush, Flushed
  <2>2. /\ Advanced(stream, now) \in Int
        /\ stream.hasWatermark => Advanced(stream, now) >= stream.watermark
    BY <1>0, AdvancedFacts
  <2>3. ASSUME NEW e \in emitted'
        PROVE  \/ e \in emitted
               \/ /\ e.key \in Due(stream, now) /\ e.partial = FALSE
                  /\ e = [key |-> e.key, window |-> stream.windows[e.key], partial |-> FALSE]
    BY <2>1 DEF Emissions
  <2>4. ASSUME NEW k \in DOMAIN stream.windows PROVE WindowEnd(k) \in Int
    BY <1>0, StreamConfigAssumption DEF StreamTypeOK, Key, WindowEnd
  <2>5. ASSUME NEW e \in emitted PROVE WindowEnd(e.key) \in Int
    BY <1>0, StreamConfigAssumption DEF StreamTypeOK, Emission, Key, WindowEnd
  <2>6. WatermarkSeparates'
    <3>1. ASSUME NEW k \in DOMAIN stream'.windows PROVE WindowEnd(k) > stream'.watermark
      BY <2>1, <2>2, <2>4 DEF Due
    <3>2. ASSUME NEW e \in emitted', ~e.partial PROVE WindowEnd(e.key) <= stream'.watermark
      <4>1. CASE e \in emitted
        <5>1. stream.hasWatermark /\ WindowEnd(e.key) <= stream.watermark
          BY <3>2, <4>1 DEF StreamInv, WatermarkSeparates
        <5>2. stream.watermark \in Int
          BY <1>0 DEF StreamTypeOK
        <5> QED BY <2>1, <2>2, <2>5, <4>1, <5>1, <5>2
      <4>2. CASE e.key \in Due(stream, now)
        BY <2>1, <4>2 DEF Due
      <4> QED BY <2>3, <4>1, <4>2
    <3> QED BY <2>1, <3>1, <3>2 DEF WatermarkSeparates
  <2>7. PartialOnlyAtEnd'
    BY <2>1, <2>3 DEF StreamInv, PartialOnlyAtEnd
  <2>8. EmittedOnce'
    <3>1. Due(stream, now) \subseteq DOMAIN stream.windows
      BY DEF Due
    <3>2. \A e \in emitted : e.key \notin DOMAIN stream.windows
      BY DEF StreamInv, EmittedOnce
    <3>3. \A e, f \in emitted : e.key = f.key => e = f
      BY DEF StreamInv, EmittedOnce
    <3>4. \A e \in emitted' : e.key \notin DOMAIN stream'.windows
      BY <2>1, <2>3, <3>2
    <3>5. ASSUME NEW e \in emitted', NEW f \in emitted', e.key = f.key PROVE e = f
      BY <2>3, <3>1, <3>2, <3>3, <3>5
    <3> QED BY <3>4, <3>5 DEF EmittedOnce
  <2> QED BY <1>0, <2>6, <2>7, <2>8 DEF StreamInv
<1>4. ASSUME NEW now \in Times, Finish(now) PROVE StreamInv'
  <2>1. /\ DOMAIN stream'.windows = {}
        /\ stream'.watermark = Advanced(stream, now)
        /\ stream'.hasWatermark = TRUE
        /\ stream'.finished = TRUE
        /\ emitted' = emitted \cup FinishEmissions(stream, now)
    BY <1>4 DEF Finish, Finished, NewStream
  <2>2. /\ Advanced(stream, now) \in Int
        /\ stream.hasWatermark => Advanced(stream, now) >= stream.watermark
    BY <1>0, AdvancedFacts
  <2>3. ASSUME NEW e \in emitted'
        PROVE  \/ e \in emitted
               \/ /\ e.key \in Due(stream, now) /\ e.partial = FALSE
                  /\ e = [key |-> e.key, window |-> stream.windows[e.key], partial |-> FALSE]
               \/ /\ e.key \in DOMAIN stream.windows \ Due(stream, now) /\ e.partial = TRUE
                  /\ e = [key |-> e.key, window |-> stream.windows[e.key], partial |-> TRUE]
    <3>1. CASE e \in Emissions(stream, Due(stream, now), FALSE)
      BY <3>1 DEF Emissions
    <3>2. CASE e \in Emissions(stream, DOMAIN stream.windows \ Due(stream, now), TRUE)
      BY <3>2 DEF Emissions
    <3> QED BY <2>1, <3>1, <3>2 DEF FinishEmissions
  <2>4. ASSUME NEW e \in emitted PROVE WindowEnd(e.key) \in Int
    BY <1>0, StreamConfigAssumption DEF StreamTypeOK, Emission, Key, WindowEnd
  <2>5. WatermarkSeparates'
    <3>1. ASSUME NEW e \in emitted', ~e.partial PROVE WindowEnd(e.key) <= stream'.watermark
      <4>1. CASE e \in emitted
        <5>1. stream.hasWatermark /\ WindowEnd(e.key) <= stream.watermark
          BY <3>1, <4>1 DEF StreamInv, WatermarkSeparates
        <5>2. stream.watermark \in Int
          BY <1>0 DEF StreamTypeOK
        <5> QED BY <2>1, <2>2, <2>4, <4>1, <5>1, <5>2
      <4>2. CASE e \notin emitted
        <5>1. e.key \in Due(stream, now)
          BY <2>3, <3>1, <4>2
        <5> QED BY <2>1, <5>1 DEF Due
      <4> QED BY <4>1, <4>2
    <3> QED BY <2>1, <3>1 DEF WatermarkSeparates
  <2>6. PartialOnlyAtEnd'
    BY <2>1 DEF PartialOnlyAtEnd
  <2>7. EmittedOnce'
    <3>1. \A e \in emitted : e.key \notin DOMAIN stream.windows
      BY DEF StreamInv, EmittedOnce
    <3>2. \A e, f \in emitted : e.key = f.key => e = f
      BY DEF StreamInv, EmittedOnce
    <3>3. ASSUME NEW e \in emitted', NEW f \in emitted', e.key = f.key PROVE e = f
      BY <2>3, <3>1, <3>2, <3>3 DEF Due
    <3> QED BY <2>1, <3>3 DEF EmittedOnce
  <2> QED BY <1>0, <2>5, <2>6, <2>7 DEF StreamInv
<1> QED BY <1>1, <1>2, <1>3, <1>4 DEF StreamNext, Reject, FinishAgain

(* Every window key is emitted at most once and never reopened, whatever   *)
(* the order of Add, Flush and Finish and whatever times they are given.   *)
THEOREM StreamEmitsOnce == StreamSpec => []EmittedOnce
<1>1. StreamInv => EmittedOnce
  BY DEF StreamInv
<1> QED BY <1>1, StreamInvInit, StreamInvNext, PTL DEF StreamSpec

(* No overdue window stays active, and only an interval the watermark has  *)
(* passed is presented as complete.                                        *)
THEOREM StreamWatermarkSeparates == StreamSpec => []WatermarkSeparates
<1>1. StreamInv => WatermarkSeparates
  BY DEF StreamInv
<1> QED BY <1>1, StreamInvInit, StreamInvNext, PTL DEF StreamSpec

-----------------------------------------------------------------------------
(***************************************************************************)
(* The memory bound and the watermark.                                     *)
(***************************************************************************)
LEMMA WindowsBoundedNext ==
  StreamTypeOK /\ WindowsBounded /\ [StreamNext]_streamVars => WindowsBounded'
<1> SUFFICES ASSUME StreamTypeOK, WindowsBounded, [StreamNext]_streamVars PROVE WindowsBounded'
  OBVIOUS
<1>0. /\ IsFiniteSet(DOMAIN stream.windows)
      /\ Cardinality(DOMAIN stream.windows) \in Nat
      /\ MaxWindows \in Nat \ {0}
  BY FS_CardinalityType, StreamConfigAssumption DEF StreamTypeOK
<1>1. ASSUME NEW o \in Observation \ accepted, Add(o) PROVE WindowsBounded'
  <2>1. DOMAIN stream'.windows = DOMAIN stream.windows \cup {KeyFor(o)}
    BY <1>1 DEF Add, Added, WindowsWith
  <2>2. KeyFor(o) \in DOMAIN stream.windows \/ Cardinality(DOMAIN stream.windows) < MaxWindows
    BY <1>0, <1>1 DEF Add, AddError, IsFull
  <2>3. Cardinality(DOMAIN stream.windows \cup {KeyFor(o)})
          = IF KeyFor(o) \in DOMAIN stream.windows THEN Cardinality(DOMAIN stream.windows)
            ELSE Cardinality(DOMAIN stream.windows) + 1
    BY <1>0, FS_AddElement
  <2> QED BY <1>0, <2>1, <2>2, <2>3 DEF WindowsBounded
<1>2. ASSUME NEW now \in Times, Flush(now) PROVE WindowsBounded'
  <2>1. DOMAIN stream'.windows = DOMAIN stream.windows \ Due(stream, now)
    BY <1>2 DEF Flush, Flushed
  <2>2. DOMAIN stream'.windows \in SUBSET DOMAIN stream.windows
    BY <2>1
  <2>3. /\ Cardinality(DOMAIN stream'.windows) <= Cardinality(DOMAIN stream.windows)
        /\ Cardinality(DOMAIN stream'.windows) \in Nat
    BY <1>0, <2>2, FS_Subset, FS_CardinalityType
  <2> QED BY <1>0, <2>3 DEF WindowsBounded
<1>3. ASSUME NEW now \in Times, Finish(now) PROVE WindowsBounded'
  <2>1. DOMAIN stream'.windows = {}
    BY <1>3 DEF Finish, Finished, NewStream
  <2> QED BY <1>0, <2>1, FS_EmptySet DEF WindowsBounded
<1>4. CASE UNCHANGED streamVars
  BY <1>4 DEF streamVars, WindowsBounded
<1> QED BY <1>1, <1>2, <1>3, <1>4 DEF StreamNext, Reject, FinishAgain

(* The stream never holds more than MaxWindows windows.                    *)
THEOREM StreamWindowsBounded == StreamSpec => []WindowsBounded
<1>1. StreamInit => WindowsBounded
  BY FS_EmptySet, StreamConfigAssumption DEF StreamInit, NewStream, WindowsBounded
<1> QED
  BY <1>1, StreamTypeInit, StreamTypeNext, WindowsBoundedNext, PTL DEF StreamSpec

(* The watermark never moves back, and a finished stream is final.         *)
THEOREM StreamWatermarkMonotone == StreamSpec => WatermarkMonotone
<1> DEFINE Forward ==
      /\ stream.hasWatermark => stream'.hasWatermark /\ stream'.watermark >= stream.watermark
      /\ stream.finished => stream'.windows = stream.windows /\ emitted' = emitted
<1>1. StreamInv /\ [StreamNext]_streamVars => [Forward]_streamVars
  <2> SUFFICES ASSUME StreamInv, StreamNext PROVE Forward
    OBVIOUS
  <2>0. StreamTypeOK
    BY DEF StreamInv
  <2>1. ASSUME NEW o \in Observation \ accepted, Add(o) PROVE Forward
    BY <2>0, <2>1 DEF Add, Added, AddError, StreamTypeOK
  <2>2. ASSUME NEW now \in Times, Flush(now) PROVE Forward
    <3>1. stream'.hasWatermark /\ stream'.watermark = Advanced(stream, now)
      BY <2>2 DEF Flush, Flushed
    <3>2. ASSUME stream.finished PROVE stream'.windows = stream.windows /\ emitted' = emitted
      <4>1. DOMAIN stream.windows = {} /\ Due(stream, now) = {}
        BY <3>2 DEF StreamInv, PartialOnlyAtEnd, Due
      <4>2. stream'.windows = stream.windows
        BY <2>0, <2>2, <4>1 DEF Flush, Flushed, StreamTypeOK
      <4>3. emitted' = emitted
        BY <2>2, <4>1 DEF Flush, Emissions
      <4> QED BY <4>2, <4>3
    <3> QED BY <2>0, <3>1, <3>2, AdvancedFacts
  <2>3. ASSUME NEW now \in Times, Finish(now) PROVE Forward
    BY <2>0, <2>3, AdvancedFacts DEF Finish, Finished
  <2>4. CASE UNCHANGED streamVars
    BY <2>0, <2>4 DEF streamVars, StreamTypeOK
  <2> QED BY <2>1, <2>2, <2>3, <2>4 DEF StreamNext, Reject, FinishAgain
<1> QED BY <1>1, StreamInvInit, StreamInvNext, PTL DEF StreamSpec, WatermarkMonotone

-----------------------------------------------------------------------------
(***************************************************************************)
(* The stream computes the batch aggregation.  A window is changed by one  *)
(* observation at a time, the batch form is defined on the whole group:    *)
(* the lemmas say what one more observation adds to each of its parts.     *)
(* Ascertained holds what makes those parts well defined: the CHOOSE of a  *)
(* greatest or least element finds one, and the sums are finite.           *)
(***************************************************************************)
WithRtt(S) == {o \in S : o.rtt # NoSamples}
RttValues(S) == {o.rtt.sum : o \in WithRtt(S)}
RttUnits(S) == Units([o \in WithRtt(S) |-> o.rtt.sum], WithRtt(S))
AtValues(S) == {o.at : o \in S}

HasLeast(V) == \E v \in V : \A u \in V : v <= u
HasGreatest(V) == \E v \in V : \A u \in V : u <= v

Ascertained(S) ==
  /\ S \in SUBSET Observation
  /\ IsFiniteSet(S)
  /\ IsFiniteSet(RttUnits(S))
  /\ S # {} => HasGreatest(AtValues(S))
  /\ WithRtt(S) # {} => HasLeast(RttValues(S)) /\ HasGreatest(RttValues(S))

(* The window that Aggregate makes of a group.                             *)
BatchWindow(S) ==
  [count   |-> Cardinality(S),
   last    |-> CHOOSE t \in {o.at : o \in S} : \A o \in S : o.at <= t,
   rtt     |-> Statistics(S),
   members |-> S]

(* An observation carries no RTT, or one measurement.                      *)
LEMMA RttFacts ==
  ASSUME NEW o \in Observation
  PROVE  o.rtt = NoSamples \/ (o.rtt = PointDistribution(o.rtt.sum) /\ o.rtt.sum \in Nat)
<1>1. PICK i \in Ids : o \in [id : {i}, identity : Identities, at : Times, rtt : Rtts[i]]
  BY DEF Observation
<1>2. o.rtt \in Rtts[i]
  BY <1>1
<1> QED BY <1>2, StreamConfigAssumption

(* One more summand adds its value to a sum.                               *)
LEMMA TotalWith ==
  ASSUME NEW S, NEW o, o \notin S, NEW f, NEW g, \A x \in S : g[x] = f[x],
         IsFiniteSet(Units(f, S)), g[o] \in Nat
  PROVE  /\ IsFiniteSet(Units(g, S \cup {o}))
         /\ Total(g, S \cup {o}) = Total(f, S) + g[o]
<1> DEFINE new == {o} \X (1..g[o])
<1>1. Units(g, S \cup {o}) = Units(f, S) \cup new
  BY DEF Units
<1>2. Units(f, S) \cap new = {}
  BY DEF Units
<1>3. IsFiniteSet(1..g[o]) /\ Cardinality(1..g[o]) = g[o]
  BY FS_Interval
<1>4. IsFiniteSet({o}) /\ Cardinality({o}) = 1
  BY FS_Singleton
<1>5. IsFiniteSet(new) /\ Cardinality(new) = g[o]
  <2>1. IsFiniteSet(new) /\ Cardinality(new) = Cardinality({o}) * Cardinality(1..g[o])
    BY <1>3, <1>4, FS_Product
  <2>2. 1 * g[o] = g[o]
    OBVIOUS
  <2> QED BY <1>3, <1>4, <2>1, <2>2
<1> HIDE DEF new
<1>6. /\ IsFiniteSet(Units(f, S) \cup new)
      /\ Cardinality(Units(f, S) \cup new)
           = Cardinality(Units(f, S)) + Cardinality(new) - Cardinality(Units(f, S) \cap new)
  BY <1>5, FS_Union
<1>7. Cardinality(Units(f, S)) \in Nat
  BY FS_CardinalityType
<1>8. Cardinality(Units(f, S) \cap new) = 0
  BY <1>2, FS_EmptySet
<1>9. Cardinality(Units(f, S) \cup new) = Cardinality(Units(f, S)) + g[o]
  BY <1>5, <1>6, <1>7, <1>8
<1> QED BY <1>1, <1>6, <1>9 DEF Total

(* What the CHOOSE of Min, Max and of the last time of a group finds.      *)
LEMMA MinIs ==
  ASSUME NEW V \in SUBSET Int, NEW v \in V, \A u \in V : v <= u
  PROVE  Min(V) = v
<1>1. Min(V) \in V /\ \A u \in V : Min(V) <= u
  BY DEF Min
<1>2. PICK m \in V : m = Min(V)
  BY <1>1
<1>3. m <= v /\ v <= m /\ m \in Int /\ v \in Int
  BY <1>1, <1>2
<1>4. m = v
  BY <1>3
<1> QED BY <1>2, <1>4

LEMMA MaxIs ==
  ASSUME NEW V \in SUBSET Int, NEW v \in V, \A u \in V : u <= v
  PROVE  Max(V) = v
<1>1. \A u \in V : v >= u
  OBVIOUS
<1>2. Max(V) \in V /\ \A u \in V : Max(V) >= u
  BY <1>1 DEF Max
<1>3. PICK m \in V : m = Max(V)
  BY <1>2
<1>4. m >= v /\ v >= m /\ m \in Int /\ v \in Int
  BY <1>1, <1>2, <1>3
<1>5. m = v
  BY <1>4
<1> QED BY <1>3, <1>5

(* A value more: the least and the greatest are the old ones or the value. *)
LEMMA GreatestWith ==
  ASSUME NEW V, HasGreatest(V), NEW v, V \cup {v} \subseteq Nat
  PROVE  /\ HasGreatest(V \cup {v})
         /\ Max(V \cup {v}) = IF v > Max(V) THEN v ELSE Max(V)
<1>1. PICK m \in V : \A u \in V : u <= m
  BY DEF HasGreatest
<1>2. V \in SUBSET Int /\ V \cup {v} \in SUBSET Int /\ m \in Nat /\ v \in Nat
  OBVIOUS
<1>3. Max(V) = m
  BY <1>1, <1>2, MaxIs
<1>4. CASE v > m
  <2>1. v \in V \cup {v} /\ \A u \in V \cup {v} : u <= v
    BY <1>1, <1>2, <1>4
  <2>2. Max(V \cup {v}) = v
    BY <1>2, <2>1, MaxIs
  <2> QED BY <1>3, <1>4, <2>1, <2>2 DEF HasGreatest
<1>5. CASE ~(v > m)
  <2>1. m \in V \cup {v} /\ \A u \in V \cup {v} : u <= m
    BY <1>1, <1>2, <1>5
  <2>2. Max(V \cup {v}) = m
    BY <1>2, <2>1, MaxIs
  <2> QED BY <1>3, <1>5, <2>1, <2>2 DEF HasGreatest
<1> QED BY <1>4, <1>5

LEMMA LeastWith ==
  ASSUME NEW V, HasLeast(V), NEW v, V \cup {v} \subseteq Nat
  PROVE  /\ HasLeast(V \cup {v})
         /\ Min(V \cup {v}) = IF v < Min(V) THEN v ELSE Min(V)
<1>1. PICK m \in V : \A u \in V : m <= u
  BY DEF HasLeast
<1>2. V \in SUBSET Int /\ V \cup {v} \in SUBSET Int /\ m \in Nat /\ v \in Nat
  OBVIOUS
<1>3. Min(V) = m
  BY <1>1, <1>2, MinIs
<1>4. CASE v < m
  <2>1. v \in V \cup {v} /\ \A u \in V \cup {v} : v <= u
    BY <1>1, <1>2, <1>4
  <2>2. Min(V \cup {v}) = v
    BY <1>2, <2>1, MinIs
  <2> QED BY <1>3, <1>4, <2>1, <2>2 DEF HasLeast
<1>5. CASE ~(v < m)
  <2>1. m \in V \cup {v} /\ \A u \in V \cup {v} : m <= u
    BY <1>1, <1>2, <1>5
  <2>2. Min(V \cup {v}) = m
    BY <1>2, <2>1, MinIs
  <2> QED BY <1>3, <1>5, <2>1, <2>2 DEF HasLeast
<1> QED BY <1>4, <1>5

LEMMA LastIs ==
  ASSUME NEW S \in SUBSET Observation, NEW t \in AtValues(S), \A u \in AtValues(S) : u <= t
  PROVE  BatchWindow(S).last = t
<1>1. \A u \in AtValues(S) : u \in Int
  <2>1. \A o \in S : o.at \in Nat
    BY ObservationFacts, StreamConfigAssumption
  <2> QED BY <2>1 DEF AtValues
<1> DEFINE l == CHOOSE s \in {o.at : o \in S} : \A o \in S : o.at <= s
<1>2. \E s \in {o.at : o \in S} : \A o \in S : o.at <= s
  BY DEF AtValues
<1>3. l \in {o.at : o \in S} /\ \A o \in S : o.at <= l
  BY <1>2
<1> HIDE DEF l
<1>4. l \in AtValues(S) /\ t <= l
  BY <1>3 DEF AtValues
<1>5. l = t
  BY <1>1, <1>4
<1> QED BY <1>5 DEF l, BatchWindow

(* One more observation of a group.                                        *)
LEMMA AscertainedWith ==
  ASSUME NEW S, Ascertained(S), NEW o \in Observation, o \notin S
  PROVE  Ascertained(S \cup {o})
<1> DEFINE T == S \cup {o}
<1>1. T \in SUBSET Observation
  BY DEF Ascertained
<1>2. IsFiniteSet(T)
  BY FS_AddElement DEF Ascertained
<1>3. \A x \in T : x.at \in Nat
  BY <1>1, ObservationFacts, StreamConfigAssumption
<1>4. \A x \in WithRtt(T) : x.rtt.sum \in Nat
  BY <1>1, RttFacts DEF WithRtt
<1>5. IsFiniteSet(RttUnits(T))
  <2>1. CASE o.rtt = NoSamples
    <3>1. WithRtt(T) = WithRtt(S)
      BY <2>1 DEF WithRtt
    <3> QED BY <3>1 DEF RttUnits, Ascertained
  <2>2. CASE o.rtt # NoSamples
    <3>1. WithRtt(T) = WithRtt(S) \cup {o} /\ o \notin WithRtt(S)
      BY <2>2 DEF WithRtt
    <3> DEFINE f == [x \in WithRtt(S) |-> x.rtt.sum]
               g == [x \in WithRtt(T) |-> x.rtt.sum]
    <3>2. (\A x \in WithRtt(S) : g[x] = f[x]) /\ g[o] \in Nat
      BY <1>4, <3>1
    <3>3. IsFiniteSet(Units(f, WithRtt(S)))
      BY DEF RttUnits, Ascertained
    <3> HIDE DEF f, g
    <3>4. IsFiniteSet(Units(g, WithRtt(S) \cup {o}))
      BY <3>1, <3>2, <3>3, TotalWith
    <3> QED BY <3>1, <3>4 DEF g, RttUnits
  <2> QED BY <2>1, <2>2
<1>6. HasGreatest(AtValues(T))
  <2>1. AtValues(T) = AtValues(S) \cup {o.at}
    BY DEF AtValues
  <2>2. AtValues(T) \subseteq Nat
    BY <1>3 DEF AtValues
  <2>3. S = {} \/ HasGreatest(AtValues(S))
    BY DEF Ascertained
  <2>4. CASE S = {}
    BY <2>1, <2>2, <2>4 DEF HasGreatest, AtValues
  <2>5. CASE HasGreatest(AtValues(S))
    BY <2>1, <2>2, <2>5, GreatestWith
  <2> QED BY <2>3, <2>4, <2>5
<1>7. ASSUME WithRtt(T) # {}
      PROVE  HasLeast(RttValues(T)) /\ HasGreatest(RttValues(T))
  <2>1. RttValues(T) \subseteq Nat
    BY <1>4 DEF RttValues
  <2>2. CASE o.rtt = NoSamples
    <3>1. WithRtt(T) = WithRtt(S)
      BY <2>2 DEF WithRtt
    <3> QED BY <1>7, <3>1 DEF RttValues, Ascertained
  <2>3. CASE o.rtt # NoSamples
    <3>1. WithRtt(T) = WithRtt(S) \cup {o}
      BY <2>3 DEF WithRtt
    <3>2. RttValues(T) = RttValues(S) \cup {o.rtt.sum}
      BY <3>1 DEF RttValues
    <3>3. WithRtt(S) = {} \/ (HasLeast(RttValues(S)) /\ HasGreatest(RttValues(S)))
      BY DEF Ascertained
    <3>4. CASE WithRtt(S) = {}
      <4>1. RttValues(T) = {o.rtt.sum} /\ o.rtt.sum \in Nat
        BY <1>4, <3>1, <3>2, <3>4 DEF RttValues
      <4> QED BY <4>1 DEF HasLeast, HasGreatest
    <3>5. CASE HasLeast(RttValues(S)) /\ HasGreatest(RttValues(S))
      BY <2>1, <3>2, <3>5, GreatestWith, LeastWith
    <3> QED BY <3>3, <3>4, <3>5
  <2> QED BY <2>2, <2>3
<1> QED BY <1>1, <1>2, <1>5, <1>6, <1>7 DEF Ascertained

(* Merging a measurement into the statistics of a group gives the          *)
(* statistics of the group with it.                                        *)
LEMMA StatisticsWith ==
  ASSUME NEW S, Ascertained(S), NEW o \in Observation, o \notin S
  PROVE  Statistics(S \cup {o}) = Merge(Statistics(S), o.rtt)
<1> DEFINE T == S \cup {o}
           M == WithRtt(S)
           f == [x \in M |-> x.rtt.sum]
<1>1. \A U : Statistics(U) =
        IF WithRtt(U) = {} THEN NoSamples
        ELSE [count |-> Cardinality(WithRtt(U)),
              sum   |-> Total([x \in WithRtt(U) |-> x.rtt.sum], WithRtt(U)),
              min   |-> Min(RttValues(U)),
              max   |-> Max(RttValues(U))]
  BY DEF Statistics, WithRtt, RttValues
<1>2. IsFiniteSet(M) /\ Cardinality(M) \in Nat /\ (Cardinality(M) = 0 <=> M = {})
  <2>1. M \in SUBSET S
    BY DEF WithRtt
  <2>2. IsFiniteSet(M)
    BY <2>1, FS_Subset DEF Ascertained
  <2> QED BY <2>2, FS_CardinalityType, FS_EmptySet
<1>3. CASE o.rtt = NoSamples
  <2>1. WithRtt(T) = M /\ RttValues(T) = RttValues(S)
    BY <1>3 DEF WithRtt, RttValues
  <2>2. Statistics(T) = Statistics(S)
    BY <1>1, <2>1
  <2>3. CASE M = {}
    <3>1. Statistics(S) = NoSamples
      BY <1>1, <2>3
    <3> QED BY <1>3, <2>2, <3>1 DEF Merge, NoSamples
  <2>4. CASE M # {}
    <3>1. Statistics(S).count = Cardinality(M)
      BY <1>1, <2>4
    <3>2. Statistics(S).count # 0 /\ o.rtt.count = 0
      BY <1>2, <1>3, <2>4, <3>1 DEF NoSamples
    <3> QED BY <2>2, <3>2 DEF Merge
  <2> QED BY <2>3, <2>4
<1>4. CASE o.rtt # NoSamples
  <2> DEFINE v == o.rtt.sum
             g == [x \in WithRtt(T) |-> x.rtt.sum]
  <2>1. v \in Nat /\ o.rtt = [count |-> 1, sum |-> v, min |-> v, max |-> v]
    BY <1>4, RttFacts DEF PointDistribution
  <2>2. WithRtt(T) = M \cup {o} /\ o \notin M
    BY <1>4 DEF WithRtt
  <2>3. RttValues(T) = RttValues(S) \cup {v}
    BY <2>2 DEF RttValues
  <2>4. RttValues(T) \subseteq Nat
    BY RttFacts DEF RttValues, WithRtt, Ascertained
  <2>5. Cardinality(WithRtt(T)) = Cardinality(M) + 1
    BY <1>2, <2>2, FS_AddElement
  <2>6. Total(g, WithRtt(T)) = Total(f, M) + v
    <3>1. (\A x \in M : g[x] = f[x]) /\ g[o] = v /\ g[o] \in Nat /\ o \notin M
      BY <2>1, <2>2
    <3>2. IsFiniteSet(Units(f, M))
      BY DEF RttUnits, Ascertained
    <3> HIDE DEF f, g, M, v
    <3>3. Total(g, M \cup {o}) = Total(f, M) + g[o]
      BY ONLY <3>1, <3>2, TotalWith
    <3> QED BY <2>2, <3>1, <3>3
  <2>7. Statistics(T) = [count |-> Cardinality(M) + 1, sum |-> Total(f, M) + v,
                         min |-> Min(RttValues(T)), max |-> Max(RttValues(T))]
    <3>1. WithRtt(T) # {}
      BY <2>2
    <3> QED BY <1>1, <2>5, <2>6, <3>1
  <2>8. CASE M = {}
    <3>1. Statistics(S) = NoSamples
      BY <1>1, <2>8
    <3>2. RttValues(T) = {v}
      BY <2>3, <2>8 DEF RttValues
    <3>3. Min({v}) = v /\ Max({v}) = v
      BY <2>1, MinIs, MaxIs
    <3>4. Total(f, M) = 0
      BY <2>8, FS_EmptySet DEF Total, Units
    <3>5. Cardinality(M) = 0
      BY <1>2, <2>8
    <3> HIDE DEF f, M, v
    <3>6. Statistics(T) = [count |-> 1, sum |-> v, min |-> v, max |-> v]
      BY <2>1, <2>7, <3>2, <3>3, <3>4, <3>5
    <3>7. Merge(NoSamples, o.rtt) = o.rtt
      BY DEF Merge, NoSamples
    <3> QED BY <2>1, <3>1, <3>6, <3>7
  <2>9. CASE M # {}
    <3> DEFINE d == Statistics(S)
    <3>1. /\ d.count = Cardinality(M) /\ d.sum = Total(f, M)
          /\ d.min = Min(RttValues(S)) /\ d.max = Max(RttValues(S))
      BY <1>1, <2>9
    <3>2. HasLeast(RttValues(S)) /\ HasGreatest(RttValues(S))
      BY <2>9 DEF Ascertained
    <3> HIDE DEF f, M, v, d
    <3>3. /\ Max(RttValues(T)) = (IF v > d.max THEN v ELSE d.max)
          /\ Min(RttValues(T)) = (IF v < d.min THEN v ELSE d.min)
      <4> DEFINE V == RttValues(S)
      <4>1. V \cup {v} \subseteq Nat /\ HasLeast(V) /\ HasGreatest(V)
        BY <2>3, <2>4, <3>2
      <4> HIDE DEF V
      <4>2. Max(V \cup {v}) = IF v > Max(V) THEN v ELSE Max(V)
        BY ONLY <4>1, GreatestWith
      <4>3. Min(V \cup {v}) = IF v < Min(V) THEN v ELSE Min(V)
        BY ONLY <4>1, LeastWith
      <4> QED BY <2>3, <3>1, <4>2, <4>3 DEF V
    <3>4. d.count # 0 /\ o.rtt.count # 0 /\ o.rtt.count = 1 /\ o.rtt.sum = v
          /\ o.rtt.min = v /\ o.rtt.max = v
      BY <1>2, <2>1, <2>9, <3>1
    <3>5. Merge(d, o.rtt) = [count |-> d.count + 1, sum |-> d.sum + v,
                             min |-> IF v < d.min THEN v ELSE d.min,
                             max |-> IF v > d.max THEN v ELSE d.max]
      BY <3>4 DEF Merge
    <3>6. Statistics(T) = Merge(d, o.rtt)
      BY <2>7, <3>1, <3>3, <3>5
    <3> QED BY <3>6 DEF d
  <2> QED BY <2>8, <2>9
<1> QED BY <1>3, <1>4

(* Window.add computes the window of a group from the one without it.      *)
LEMMA BatchWith ==
  ASSUME NEW S, Ascertained(S), NEW o \in Observation, o \notin S
  PROVE  BatchWindow(S \cup {o})
           = AddToWindow(IF S = {} THEN NewWindow ELSE BatchWindow(S), o)
<1> DEFINE T == S \cup {o}
           w == IF S = {} THEN NewWindow ELSE BatchWindow(S)
<1>1. S \in SUBSET Observation /\ T \in SUBSET Observation /\ IsFiniteSet(S)
  BY DEF Ascertained
<1>2. w.count = Cardinality(S) /\ w.members = S /\ w.rtt = Statistics(S)
  BY FS_EmptySet DEF BatchWindow, NewWindow, Statistics
<1>3. Cardinality(T) = Cardinality(S) + 1
  BY <1>1, FS_AddElement
<1>4. Statistics(T) = Merge(Statistics(S), o.rtt)
  BY StatisticsWith
<1>5. \A x \in T : x.at \in Nat
  BY <1>1, ObservationFacts, StreamConfigAssumption
<1>6. AtValues(T) = AtValues(S) \cup {o.at}
  BY DEF AtValues
<1>7. BatchWindow(T).last = IF w.last = ZeroTime \/ o.at > w.last THEN o.at ELSE w.last
  <2>1. CASE S = {}
    <3>1. w.last = ZeroTime
      BY <2>1 DEF NewWindow
    <3>2. AtValues(T) = {o.at}
      BY <2>1 DEF AtValues
    <3>3. o.at \in AtValues(T) /\ \A u \in AtValues(T) : u <= o.at
      BY <1>5, <3>2
    <3>4. BatchWindow(T).last = o.at
      BY <1>1, <3>3, LastIs
    <3> QED BY <3>1, <3>4
  <2>2. CASE S # {}
    <3>1. PICK t \in AtValues(S) : \A u \in AtValues(S) : u <= t
      BY <2>2 DEF Ascertained, HasGreatest
    <3>2. w.last = t
      BY <1>1, <2>2, <3>1, LastIs
    <3>3. AtValues(T) \subseteq Nat /\ t \in Nat /\ o.at \in Nat
      BY <1>5, <1>6 DEF AtValues
    <3> DEFINE m == IF t = ZeroTime \/ o.at > t THEN o.at ELSE t
    <3>4. m \in AtValues(T)
      BY <1>6
    <3>5. \A u \in AtValues(T) : u <= m
      BY <1>6, <3>1, <3>3 DEF ZeroTime
    <3> HIDE DEF m
    <3>6. BatchWindow(T).last = m
      BY <1>1, <3>4, <3>5, LastIs
    <3> QED BY <3>2, <3>6 DEF m
  <2> QED BY <2>1, <2>2
<1>8. BatchWindow(T) = [count |-> Cardinality(T), last |-> BatchWindow(T).last,
                        rtt |-> Statistics(T), members |-> T]
  BY DEF BatchWindow
<1> HIDE DEF w
<1>9. BatchWindow(T) = AddToWindow(w, o)
  BY <1>2, <1>3, <1>4, <1>7, <1>8 DEF AddToWindow
<1> QED BY <1>9 DEF w

(* EmittedOnce and what it rests on are part of the invariant: an          *)
(* observation whose window was already emitted would open a second one.   *)
AggregateInv ==
  /\ StreamInv
  /\ MatchesAggregate
  /\ \A k \in Key : Ascertained(Group(accepted, k))

LEMMA AggregateFacts ==
  ASSUME NEW S
  PROVE  /\ DOMAIN Aggregate(S) = {KeyFor(o) : o \in S}
         /\ \A k : k \in DOMAIN Aggregate(S) <=> Group(S, k) # {}
         /\ \A k \in DOMAIN Aggregate(S) : Aggregate(S)[k] = BatchWindow(Group(S, k))
<1>1. DOMAIN Aggregate(S) = {KeyFor(o) : o \in S}
  BY DEF Aggregate
<1>2. \A k : k \in {KeyFor(o) : o \in S} <=> Group(S, k) # {}
  BY DEF Group
<1>3. \A k \in {KeyFor(o) : o \in S} : Aggregate(S)[k] = BatchWindow(Group(S, k))
  BY DEF Aggregate, BatchWindow
<1> QED BY <1>1, <1>2, <1>3

LEMMA AggregateInvInit == StreamInit => AggregateInv
<1> SUFFICES ASSUME StreamInit PROVE AggregateInv
  OBVIOUS
<1>1. accepted = {} /\ emitted = {} /\ DOMAIN stream.windows = {}
  BY DEF StreamInit, NewStream
<1>2. MatchesAggregate
  <2>1. DOMAIN Aggregate({}) = {}
    BY DEF Aggregate
  <2> QED BY <1>1, <2>1 DEF MatchesAggregate
<1>3. ASSUME NEW k \in Key PROVE Ascertained(Group(accepted, k))
  <2>1. Group(accepted, k) = {} /\ WithRtt({}) = {} /\ RttUnits({}) = {}
    BY <1>1 DEF Group, WithRtt, RttUnits, Units
  <2> QED BY <2>1, FS_EmptySet DEF Ascertained
<1> QED BY <1>2, <1>3, StreamInvInit DEF AggregateInv

LEMMA KeyEmitted ==
  ASSUME NEW K, NEW k \in K, NEW p
  PROVE  \E e \in Emissions(stream, K, p) : e.key = k
<1> DEFINE e == [key |-> k, window |-> stream.windows[k], partial |-> p]
<1>1. e \in Emissions(stream, K, p)
  BY DEF Emissions
<1>2. e.key = k
  OBVIOUS
<1> QED BY <1>1, <1>2

(* Windows that Flush or Finish returns are those that were active.        *)
LEMMA EmissionKeepsAggregate ==
  ASSUME AggregateInv, UNCHANGED accepted,
         NEW K \in SUBSET DOMAIN stream.windows,
         DOMAIN stream'.windows = DOMAIN stream.windows \ K,
         \A k \in DOMAIN stream'.windows : stream'.windows[k] = stream.windows[k],
         \A e \in emitted' : e \in emitted \/ (e.key \in K /\ e.window = stream.windows[e.key]),
         emitted \subseteq emitted',
         \A k \in K : \E e \in emitted' : e.key = k
  PROVE  MatchesAggregate'
<1> DEFINE batch == Aggregate(accepted)
<1>1. /\ DOMAIN batch = DOMAIN stream.windows \cup {e.key : e \in emitted}
      /\ \A k \in DOMAIN stream.windows : stream.windows[k] = batch[k]
      /\ \A e \in emitted : e.window = batch[e.key]
  BY DEF AggregateInv, MatchesAggregate
<1>2. Aggregate(accepted') = batch
  OBVIOUS
<1> HIDE DEF batch
<1>3. DOMAIN batch = DOMAIN stream'.windows \cup {e.key : e \in emitted'}
  BY <1>1
<1>4. \A k \in DOMAIN stream'.windows : stream'.windows[k] = batch[k]
  BY <1>1
<1>5. \A e \in emitted' : e.window = batch[e.key]
  BY <1>1
<1> QED BY <1>2, <1>3, <1>4, <1>5 DEF MatchesAggregate

LEMMA AggregateInvNext == AggregateInv /\ [StreamNext]_streamVars => AggregateInv'
<1> SUFFICES ASSUME AggregateInv, [StreamNext]_streamVars PROVE AggregateInv'
  OBVIOUS
<1>0. StreamInv /\ StreamInv'
  BY StreamInvNext DEF AggregateInv
<1>1. ASSUME NEW o \in Observation \ accepted, Add(o) PROVE AggregateInv'
  <2> DEFINE key == KeyFor(o)
             G(k) == Group(accepted, k)
             old == Aggregate(accepted)
             batch == Aggregate(accepted \cup {o})
  <2>1. /\ AddError(stream, o) = "nil" /\ accepted' = accepted \cup {o} /\ emitted' = emitted
        /\ stream'.windows = WindowsWith(stream, o)
    BY <1>1 DEF Add, Added
  <2>2. \A e \in emitted : e.key # key
    BY <1>0, <2>1, AcceptedIsOpen
  <2>3. key \in Key
    BY KeyForFacts
  <2>4. \A k : Group(accepted \cup {o}, k) = IF k = key THEN G(k) \cup {o} ELSE G(k)
    BY DEF Group
  <2>5. o \notin G(key) /\ Ascertained(G(key))
    BY <2>3 DEF Group, AggregateInv
  <2>6. \A k \in Key : Ascertained(Group(accepted', k))
    <3> SUFFICES ASSUME NEW k \in Key PROVE Ascertained(Group(accepted \cup {o}, k))
      BY <2>1
    <3>1. CASE k = key
      BY <2>4, <2>5, <3>1, AscertainedWith
    <3>2. CASE k # key
      BY <2>4, <3>2 DEF AggregateInv
    <3> QED BY <3>1, <3>2
  <2>7. /\ DOMAIN old = DOMAIN stream.windows \cup {e.key : e \in emitted}
        /\ \A k \in DOMAIN stream.windows : stream.windows[k] = old[k]
        /\ \A e \in emitted : e.window = old[e.key]
    BY DEF AggregateInv, MatchesAggregate
  <2>8. DOMAIN batch = DOMAIN old \cup {key}
    <3>1. DOMAIN batch = {KeyFor(x) : x \in accepted \cup {o}}
      BY AggregateFacts
    <3>2. DOMAIN old = {KeyFor(x) : x \in accepted}
      BY AggregateFacts
    <3> QED BY <3>1, <3>2
  <2>9. \A k \in DOMAIN old : k # key => batch[k] = old[k]
    <3> SUFFICES ASSUME NEW k \in DOMAIN old, k # key PROVE batch[k] = old[k]
      OBVIOUS
    <3>1. k \in DOMAIN batch
      BY <2>8
    <3>2. batch[k] = BatchWindow(Group(accepted \cup {o}, k)) /\ old[k] = BatchWindow(G(k))
      BY <3>1, AggregateFacts
    <3> QED BY <2>4, <3>2
  <2>10. batch[key] = AddToWindow(IF key \in DOMAIN stream.windows THEN stream.windows[key]
                                  ELSE NewWindow, o)
    <3>1. key \in DOMAIN stream.windows <=> key \in DOMAIN old
      BY <2>2, <2>7
    <3>2. key \in DOMAIN old <=> G(key) # {}
      BY AggregateFacts
    <3>3. key \in DOMAIN stream.windows => stream.windows[key] = BatchWindow(G(key))
      BY <2>7, <3>1, AggregateFacts
    <3>4. batch[key] = BatchWindow(G(key) \cup {o})
      <4>1. key \in DOMAIN batch
        BY <2>8
      <4>2. batch[key] = BatchWindow(Group(accepted \cup {o}, key))
        BY <4>1, AggregateFacts
      <4> QED BY <2>4, <4>2
    <3>5. BatchWindow(G(key) \cup {o})
            = AddToWindow(IF G(key) = {} THEN NewWindow ELSE BatchWindow(G(key)), o)
      BY <2>5, BatchWith
    <3> HIDE DEF key, G, old, batch
    <3> QED BY <3>1, <3>2, <3>3, <3>4, <3>5
  <2> HIDE DEF batch, old, G
  <2>11. /\ DOMAIN stream'.windows = DOMAIN stream.windows \cup {key}
         /\ \A k \in DOMAIN stream.windows : k # key => stream'.windows[k] = stream.windows[k]
         /\ stream'.windows[key] = AddToWindow(IF key \in DOMAIN stream.windows
                                               THEN stream.windows[key] ELSE NewWindow, o)
    BY <2>1 DEF WindowsWith
  <2> HIDE DEF key
  <2>12. DOMAIN batch = DOMAIN stream'.windows \cup {e.key : e \in emitted}
    BY <2>7, <2>8, <2>11
  <2>13. \A k \in DOMAIN stream'.windows : stream'.windows[k] = batch[k]
    BY <2>7, <2>9, <2>10, <2>11
  <2>14. \A e \in emitted : e.window = batch[e.key]
    BY <2>2, <2>7, <2>9
  <2>15. MatchesAggregate'
    BY <2>1, <2>12, <2>13, <2>14 DEF batch, MatchesAggregate
  <2> QED BY <1>0, <2>6, <2>15 DEF AggregateInv
<1>2. ASSUME NEW now \in Times, Flush(now) PROVE AggregateInv'
  <2> DEFINE K == Due(stream, now)
  <2>1. /\ UNCHANGED accepted
        /\ DOMAIN stream'.windows = DOMAIN stream.windows \ K
        /\ \A k \in DOMAIN stream'.windows : stream'.windows[k] = stream.windows[k]
        /\ emitted' = emitted \cup Emissions(stream, K, FALSE)
    BY <1>2 DEF Flush, Flushed
  <2>2. K \in SUBSET DOMAIN stream.windows
    BY DEF Due
  <2> HIDE DEF K
  <2>3. \A e \in emitted' : e \in emitted \/ (e.key \in K /\ e.window = stream.windows[e.key])
    BY <2>1 DEF Emissions
  <2>4. ASSUME NEW k \in K PROVE \E e \in emitted' : e.key = k
    <3>1. \E e \in Emissions(stream, K, FALSE) : e.key = k
      BY KeyEmitted
    <3> QED BY <2>1, <3>1
  <2>5. MatchesAggregate'
    BY <2>1, <2>2, <2>3, <2>4, EmissionKeepsAggregate
  <2> QED BY <1>0, <2>1, <2>5 DEF AggregateInv
<1>3. ASSUME NEW now \in Times, Finish(now) PROVE AggregateInv'
  <2> DEFINE K == DOMAIN stream.windows
             D == Due(stream, now)
  <2>1. /\ UNCHANGED accepted
        /\ DOMAIN stream'.windows = {}
        /\ emitted' = emitted \cup (Emissions(stream, D, FALSE) \cup Emissions(stream, K \ D, TRUE))
    BY <1>3 DEF Finish, Finished, FinishEmissions, NewStream
  <2>2. D \in SUBSET K
    BY DEF Due
  <2> HIDE DEF K, D
  <2>3. ASSUME NEW e \in emitted'
        PROVE  e \in emitted \/ (e.key \in K /\ e.window = stream.windows[e.key])
    <3>1. CASE e \in Emissions(stream, D, FALSE)
      BY <2>2, <3>1 DEF Emissions
    <3>2. CASE e \in Emissions(stream, K \ D, TRUE)
      BY <3>2 DEF Emissions
    <3> QED BY <2>1, <3>1, <3>2
  <2>4. ASSUME NEW k \in K PROVE \E e \in emitted' : e.key = k
    <3>1. CASE k \in D
      BY <2>1, <3>1, KeyEmitted
    <3>2. CASE k \notin D
      BY <2>1, <3>2, KeyEmitted
    <3> QED BY <3>1, <3>2
  <2>5. K \in SUBSET DOMAIN stream.windows /\ DOMAIN stream'.windows = DOMAIN stream.windows \ K
    BY <2>1 DEF K
  <2>6. MatchesAggregate'
    BY <2>1, <2>3, <2>4, <2>5, EmissionKeepsAggregate
  <2> QED BY <1>0, <2>1, <2>6 DEF AggregateInv
<1>4. ASSUME UNCHANGED streamVars PROVE AggregateInv'
  BY <1>0, <1>4 DEF AggregateInv, streamVars, MatchesAggregate
<1> QED BY <1>1, <1>2, <1>3, <1>4 DEF StreamNext, Reject, FinishAgain

(* The windows that Add, Flush and Finish keep and return are together     *)
(* exactly what Aggregate computes from the accepted observations: count,  *)
(* last time, RTT statistics and members, for every sequence of calls.     *)
THEOREM StreamMatchesAggregate == StreamSpec => []MatchesAggregate
<1>1. AggregateInv => MatchesAggregate
  BY DEF AggregateInv
<1> QED BY <1>1, AggregateInvInit, AggregateInvNext, PTL DEF StreamSpec

(* Once Finish was called, what was handed out is the batch result: one    *)
(* window for each of its keys and no other, complete or partial.          *)
FinishedOutput ==
  stream.finished =>
    {<<e.key, e.window>> : e \in emitted}
      = {<<k, Aggregate(accepted)[k]>> : k \in DOMAIN Aggregate(accepted)}

(* Finish leaves nothing behind: after it the emissions are the batch      *)
(* aggregation of every observation that Add accepted.                     *)
THEOREM StreamFinishedOutput == StreamSpec => []FinishedOutput
<1>1. AggregateInv => FinishedOutput
  <2> SUFFICES ASSUME AggregateInv, stream.finished
               PROVE  {<<e.key, e.window>> : e \in emitted}
                        = {<<k, Aggregate(accepted)[k]>> : k \in DOMAIN Aggregate(accepted)}
    BY DEF FinishedOutput
  <2>1. DOMAIN stream.windows = {}
    BY DEF AggregateInv, StreamInv, PartialOnlyAtEnd
  <2>2. /\ DOMAIN Aggregate(accepted) = {e.key : e \in emitted}
        /\ \A e \in emitted : e.window = Aggregate(accepted)[e.key]
    BY <2>1 DEF AggregateInv, MatchesAggregate
  <2> QED BY <2>2
<1> QED BY <1>1, AggregateInvInit, AggregateInvNext, PTL DEF StreamSpec

-----------------------------------------------------------------------------
(***************************************************************************)
(* DnsCorrelator.  Process ages out queries and then correlates, Finish    *)
(* ages out and then closes the rest: the invariant is stated of three     *)
(* values rather than of the variables, so that it can be followed through *)
(* the parts of a call.                                                    *)
(***************************************************************************)
Outcomes == {"no_response", "incomplete/state_capacity", "incomplete/capture_ended",
             "response", "parse_failed"}

Transactions == [query : Nat, response : Nat, outcome : Outcomes, latency : Int]

(* Datagrams are numbered, and no number beyond n was seen yet.            *)
CapturedOK(cap, n) ==
  /\ n \in Nat
  /\ cap \subseteq Fragment
  /\ \A f, g \in cap : f.id = g.id => f = g
  /\ \A f \in cap : f.id <= n

PendingOK(q, cap) ==
  /\ IsFiniteSet(DOMAIN q)
  /\ Cardinality(DOMAIN q) <= MaxPending
  /\ q = [k \in DOMAIN q |-> q[k]]
  /\ \A k \in DOMAIN q : q[k] \in cap /\ q[k].type = "query" /\ q[k].key = k

ReportedOK(rep, n) ==
  /\ rep \subseteq Transactions
  /\ \A t \in rep : t.query <= n /\ t.response <= n

(* ClosedOnce, NoneDisappears and LatencySound of any three values.        *)
Once(q, rep) ==
  /\ \A t, u \in rep :
       \/ t = u
       \/ /\ t.query = None \/ t.query # u.query
          /\ t.response = None \/ t.response # u.response
  /\ \A k \in DOMAIN q : \A t \in rep : t.query # q[k].id

Covers(q, rep, first, f) ==
  /\ first.type = "query" /\ first.key = f.key /\ first.id < f.id
  /\ \/ \E k \in DOMAIN q : first = q[k]
     \/ \E t \in rep : t.query = first.id /\ (t.response = None \/ t.response > f.id)

Present(q, rep, cap, f) ==
  IF f.type = "query"
  THEN \/ \E k \in DOMAIN q : f = q[k]
       \/ \E t \in rep : t.query = f.id
       \/ \E first \in cap : Covers(q, rep, first, f)
  ELSE \E t \in rep : t.response = f.id

MeasuredBy(t, q, r) ==
  /\ q.id = t.query /\ q.type = "query"
  /\ r.id = t.response /\ r.type = "response"
  /\ q.key = r.key /\ q.id < r.id
  /\ 0 < q.ts /\ q.ts <= r.ts
  /\ t.latency = (r.ts - q.ts) \div NanosPerMicro

Measured(rep, cap) ==
  \A t \in rep : t.latency # Unmeasured => \E q, r \in cap : MeasuredBy(t, q, r)

DnsInvOf(q, rep, cap, n) ==
  /\ CapturedOK(cap, n)
  /\ PendingOK(q, cap)
  /\ ReportedOK(rep, n)
  /\ Once(q, rep)
  /\ \A f \in cap : Present(q, rep, cap, f)
  /\ Measured(rep, cap)

-----------------------------------------------------------------------------
(* Expire, and the end of the capture: queries K leave without an answer.  *)
LEMMA CloseUnanswered ==
  ASSUME NEW q, NEW rep, NEW cap, NEW n, DnsInvOf(q, rep, cap, n),
         NEW K \in SUBSET DOMAIN q, NEW outcome \in Outcomes
  PROVE  DnsInvOf(Without(q, K), rep \cup NoResponse(q, K, outcome), cap, n)
<1> DEFINE p == Without(q, K)
           new == NoResponse(q, K, outcome)
<1> USE DnsConfigAssumption
<1>1. /\ DOMAIN p = DOMAIN q \ K
      /\ \A k \in DOMAIN p : p[k] = q[k]
      /\ p = [k \in DOMAIN p |-> p[k]]
  BY DEF Without
<1>2. \A t \in new : \E k \in K : t = Transaction(q[k].id, None, outcome, Unmeasured)
  BY DEF NoResponse
<1>3. \A k \in K : \E t \in new : t = Transaction(q[k].id, None, outcome, Unmeasured)
  BY DEF NoResponse
<1>4. /\ \A k \in DOMAIN q : /\ q[k] \in cap /\ q[k].type = "query" /\ q[k].key = k
                             /\ q[k].id \in Nat \ {0} /\ q[k].id <= n
      /\ \A k, l \in DOMAIN q : q[k].id = q[l].id => k = l
  BY DEF DnsInvOf, PendingOK, CapturedOK, Fragment
<1>5. PendingOK(p, cap)
  <2>1. IsFiniteSet(DOMAIN p) /\ Cardinality(DOMAIN p) <= Cardinality(DOMAIN q)
    BY <1>1, FS_Subset DEF DnsInvOf, PendingOK
  <2>2. Cardinality(DOMAIN p) \in Nat /\ Cardinality(DOMAIN q) \in Nat
    BY <2>1, FS_CardinalityType DEF DnsInvOf, PendingOK
  <2> QED BY <2>1, <2>2, <1>1 DEF DnsInvOf, PendingOK
<1>6. ReportedOK(rep \cup new, n)
  BY <1>2, <1>4 DEF DnsInvOf, ReportedOK, Transactions, Transaction, None, Unmeasured, CapturedOK
<1>7. Once(p, rep \cup new)
  <2>1. \A t, u \in new : t = u \/ t.query # u.query
    BY <1>2, <1>4 DEF Transaction
  <2>2. \A t \in new : t.response = None /\ \A u \in rep : t.query # u.query
    BY <1>2 DEF Transaction, DnsInvOf, Once
  <2>3. \A k \in DOMAIN p : \A t \in new : t.query # p[k].id
    BY <1>1, <1>2, <1>4 DEF Transaction
  <2> QED BY <2>1, <2>2, <2>3, <1>1 DEF DnsInvOf, Once
<1>8. ASSUME NEW f \in cap PROVE Present(p, rep \cup new, cap, f)
  <2>1. ASSUME NEW g, NEW k \in DOMAIN q, g = q[k]
        PROVE  \/ \E l \in DOMAIN p : g = p[l]
               \/ \E t \in rep \cup new : t.query = g.id /\ t.response = None
    BY <2>1, <1>1, <1>3 DEF Transaction
  <2>2. ASSUME NEW first \in cap, Covers(q, rep, first, f)
        PROVE  Covers(p, rep \cup new, first, f)
    BY <2>1, <2>2 DEF Covers
  <2>3. Present(q, rep, cap, f)
    BY DEF DnsInvOf
  <2> QED BY <2>1, <2>2, <2>3 DEF Present
<1>9. Measured(rep \cup new, cap)
  BY <1>2 DEF DnsInvOf, Measured, Transaction
<1> QED BY <1>5, <1>6, <1>7, <1>8, <1>9 DEF DnsInvOf

(* A new datagram leaves what is known about the earlier ones alone, when  *)
(* the queries of q go on waiting in p or are closed by it.                *)
LEMMA EarlierStayPresent ==
  ASSUME NEW q, NEW p, NEW rep, NEW new, NEW cap, NEW n, DnsInvOf(q, rep, cap, n),
         NEW f \in Fragment, f.id > n,
         \A k \in DOMAIN q :
           \/ k \in DOMAIN p /\ p[k] = q[k]
           \/ \E t \in new : t.query = q[k].id /\ t.response = f.id
  PROVE  \A g \in cap : Present(p, rep \cup new, cap \cup {f}, g)
<1> SUFFICES ASSUME NEW g \in cap PROVE Present(p, rep \cup new, cap \cup {f}, g)
  OBVIOUS
<1>1. g.id \in Nat /\ g.id <= n /\ n \in Nat /\ f.id \in Nat /\ f.id > g.id
  BY DnsConfigAssumption DEF DnsInvOf, CapturedOK, Fragment
<1>2. ASSUME NEW first \in cap, Covers(q, rep, first, g)
      PROVE  Covers(p, rep \cup new, first, g)
  BY <1>1, <1>2 DEF Covers
<1>3. Present(q, rep, cap, g)
  BY DEF DnsInvOf
<1> QED BY <1>2, <1>3 DEF Present

LEMMA CapturedGrows ==
  ASSUME NEW cap, NEW n, CapturedOK(cap, n), NEW f \in Fragment, f.id > n
  PROVE  CapturedOK(cap \cup {f}, f.id)
BY DnsConfigAssumption DEF CapturedOK, Fragment

LEMMA MeasuredGrows ==
  ASSUME NEW rep, NEW cap, NEW f, Measured(rep, cap)
  PROVE  Measured(rep, cap \cup {f})
BY DEF Measured

(* A datagram that leaves the pending queries alone and is reported with   *)
(* at most its own number: an unparseable one, an unmatched response, a    *)
(* retransmission, or a query at the limit.                                *)
LEMMA ReportAlone ==
  ASSUME NEW q, NEW rep, NEW cap, NEW n, DnsInvOf(q, rep, cap, n),
         NEW f \in Fragment, f.id > n, NEW new \in SUBSET Transactions,
         \A t, u \in new : t = u,
         \A t \in new : /\ t.query \in {None, f.id} /\ t.response \in {None, f.id}
                        /\ t.latency = Unmeasured,
         Present(q, rep \cup new, cap \cup {f}, f)
  PROVE  DnsInvOf(q, rep \cup new, cap \cup {f}, f.id)
<1>1. f.id \in Nat /\ n \in Nat /\ f.id > n /\ f.id # 0
  BY DnsConfigAssumption DEF DnsInvOf, CapturedOK, Fragment
<1>2. CapturedOK(cap \cup {f}, f.id)
  BY CapturedGrows DEF DnsInvOf
<1>3. PendingOK(q, cap \cup {f})
  BY DEF DnsInvOf, PendingOK
<1>4. ReportedOK(rep \cup new, f.id)
  BY <1>1 DEF DnsInvOf, ReportedOK, None, Transactions
<1>5. Once(q, rep \cup new)
  <2>1. \A t \in rep : t.query # f.id /\ t.response # f.id
    BY <1>1 DEF DnsInvOf, ReportedOK, Transactions
  <2>2. \A k \in DOMAIN q : q[k].id \in Nat /\ q[k].id # 0 /\ q[k].id # f.id
    BY <1>1, DnsConfigAssumption DEF DnsInvOf, PendingOK, CapturedOK, Fragment
  <2> QED BY <2>1, <2>2 DEF DnsInvOf, Once, None
<1>6. \A g \in cap \cup {f} : Present(q, rep \cup new, cap \cup {f}, g)
  BY EarlierStayPresent
<1>7. Measured(rep \cup new, cap \cup {f})
  BY MeasuredGrows DEF DnsInvOf, Measured
<1> QED BY <1>2, <1>3, <1>4, <1>5, <1>6, <1>7 DEF DnsInvOf

LEMMA QueryAccepted ==
  ASSUME NEW q, NEW rep, NEW cap, NEW n, DnsInvOf(q, rep, cap, n),
         NEW f \in Fragment, f.id > n, f.type = "query"
  PROVE  DnsInvOf(AcceptQuery(q, f).queries, rep \cup AcceptQuery(q, f).out, cap \cup {f}, f.id)
<1>1. f.id \in Nat /\ n \in Nat /\ f.id > n /\ f.id # 0
  BY DnsConfigAssumption DEF DnsInvOf, CapturedOK, Fragment
<1>2. CASE f.key \in DOMAIN q
  <2>1. q[f.key] \in cap /\ q[f.key].type = "query" /\ q[f.key].key = f.key
         /\ q[f.key].id \in Nat /\ q[f.key].id < f.id
    BY <1>1, <1>2, DnsConfigAssumption DEF DnsInvOf, PendingOK, CapturedOK, Fragment
  <2>2. Covers(q, rep \cup {}, q[f.key], f)
    BY <1>2, <2>1 DEF Covers
  <2>3. Present(q, rep \cup {}, cap \cup {f}, f)
    BY <2>1, <2>2 DEF Present
  <2>4. DnsInvOf(q, rep \cup {}, cap \cup {f}, f.id)
    BY <2>3, ReportAlone
  <2> QED BY <2>4, <1>2 DEF AcceptQuery
<1>3. CASE f.key \notin DOMAIN q /\ Cardinality(DOMAIN q) >= MaxPending
  <2> DEFINE t == Transaction(f.id, None, "incomplete/state_capacity", Unmeasured)
  <2>1. t \in Transactions /\ t.query = f.id /\ t.response = None /\ t.latency = Unmeasured
    BY <1>1 DEF Transaction, Transactions, Outcomes, None, Unmeasured
  <2>2. Present(q, rep \cup {t}, cap \cup {f}, f)
    BY <2>1 DEF Present
  <2>3. DnsInvOf(q, rep \cup {t}, cap \cup {f}, f.id)
    BY <2>1, <2>2, ReportAlone
  <2> QED BY <2>3, <1>3 DEF AcceptQuery
<1>4. CASE f.key \notin DOMAIN q /\ ~(Cardinality(DOMAIN q) >= MaxPending)
  <2> DEFINE p == [k \in DOMAIN q \cup {f.key} |-> IF k = f.key THEN f ELSE q[k]]
  <2>1. /\ DOMAIN p = DOMAIN q \cup {f.key}
        /\ p[f.key] = f
        /\ \A k \in DOMAIN q : p[k] = q[k]
        /\ p = [k \in DOMAIN p |-> p[k]]
    BY <1>4
  <2> HIDE DEF p
  <2>2. CapturedOK(cap \cup {f}, f.id)
    BY CapturedGrows DEF DnsInvOf
  <2>3. PendingOK(p, cap \cup {f})
    <3>1. IsFiniteSet(DOMAIN q) /\ Cardinality(DOMAIN q) \in Nat
      BY FS_CardinalityType DEF DnsInvOf, PendingOK
    <3>2. IsFiniteSet(DOMAIN p) /\ Cardinality(DOMAIN p) = Cardinality(DOMAIN q) + 1
      <4> DEFINE D == DOMAIN q
      <4>1. IsFiniteSet(D) /\ f.key \notin D
        BY <3>1, <1>4
      <4> HIDE DEF D
      <4>2. IsFiniteSet(D \cup {f.key}) /\ Cardinality(D \cup {f.key}) = Cardinality(D) + 1
        BY <4>1, FS_AddElement
      <4> QED BY <4>2, <2>1 DEF D
    <3>3. Cardinality(DOMAIN p) <= MaxPending
      BY <3>1, <3>2, <1>4, DnsConfigAssumption
    <3> QED BY <3>2, <3>3, <2>1 DEF DnsInvOf, PendingOK
  <2>4. ReportedOK(rep, f.id)
    BY <1>1 DEF DnsInvOf, ReportedOK, Transactions
  <2>5. Once(p, rep)
    <3>1. \A t \in rep : t.query # f.id
      BY <1>1 DEF DnsInvOf, ReportedOK, Transactions
    <3> QED BY <3>1, <2>1 DEF DnsInvOf, Once
  <2>6. \A g \in cap \cup {f} : Present(p, rep \cup {}, cap \cup {f}, g)
    <3>1. Present(p, rep \cup {}, cap \cup {f}, f)
      BY <2>1 DEF Present
    <3> QED BY <3>1, <2>1, EarlierStayPresent
  <2>7. Measured(rep, cap \cup {f})
    BY MeasuredGrows DEF DnsInvOf
  <2>8. rep \cup {} = rep
    OBVIOUS
  <2>9. DnsInvOf(p, rep, cap \cup {f}, f.id)
    BY <2>2, <2>3, <2>4, <2>5, <2>6, <2>7, <2>8 DEF DnsInvOf
  <2> QED BY <2>8, <2>9, <1>4 DEF AcceptQuery, p
<1> QED BY <1>2, <1>3, <1>4

LEMMA ResponseAccepted ==
  ASSUME NEW q, NEW rep, NEW cap, NEW n, DnsInvOf(q, rep, cap, n),
         NEW f \in Fragment, f.id > n, f.type = "response"
  PROVE  DnsInvOf(AcceptResponse(q, f).queries, rep \cup AcceptResponse(q, f).out,
                  cap \cup {f}, f.id)
<1>1. f.id \in Nat /\ n \in Nat /\ f.id > n /\ f.id # 0
  BY DnsConfigAssumption DEF DnsInvOf, CapturedOK, Fragment
<1>2. CASE f.key \notin DOMAIN q
  <2> DEFINE t == Transaction(None, f.id, "response", Unmeasured)
  <2>1. t \in Transactions /\ t.query = None /\ t.response = f.id /\ t.latency = Unmeasured
    BY <1>1 DEF Transaction, Transactions, Outcomes, None, Unmeasured
  <2>2. Present(q, rep \cup {t}, cap \cup {f}, f)
    BY <2>1 DEF Present
  <2>3. DnsInvOf(q, rep \cup {t}, cap \cup {f}, f.id)
    BY <2>1, <2>2, ReportAlone
  <2> QED BY <2>3, <1>2 DEF AcceptResponse
<1>3. CASE f.key \in DOMAIN q
  <2> DEFINE first == q[f.key]
             t == Transaction(first.id, f.id, "response", Latency(first, f))
             p == Without(q, {f.key})
  <2>1. /\ first \in cap /\ first \in Fragment /\ first.type = "query" /\ first.key = f.key
        /\ first.id \in Nat /\ first.id # 0 /\ first.id < f.id
        /\ first.ts \in Nat /\ f.ts \in Nat
    BY <1>1, <1>3, DnsConfigAssumption DEF DnsInvOf, PendingOK, CapturedOK, Fragment
  <2>2. /\ DOMAIN p = DOMAIN q \ {f.key}
        /\ \A k \in DOMAIN p : p[k] = q[k]
        /\ p = [k \in DOMAIN p |-> p[k]]
    BY DEF Without
  <2>3. Latency(first, f) \in Int
    BY <2>1, DnsConfigAssumption DEF Latency, Unmeasured
  <2>4. t \in Transactions /\ t.query = first.id /\ t.response = f.id /\ t.latency = Latency(first, f)
    BY <1>1, <2>1, <2>3 DEF Transaction, Transactions, Outcomes
  <2> HIDE DEF t, p
  <2>5. CapturedOK(cap \cup {f}, f.id)
    BY CapturedGrows DEF DnsInvOf
  <2>6. PendingOK(p, cap \cup {f})
    <3>1. IsFiniteSet(DOMAIN p) /\ Cardinality(DOMAIN p) <= Cardinality(DOMAIN q)
      BY <2>2, FS_Subset DEF DnsInvOf, PendingOK
    <3>2. Cardinality(DOMAIN p) \in Nat /\ Cardinality(DOMAIN q) \in Nat
      BY <3>1, FS_CardinalityType DEF DnsInvOf, PendingOK
    <3> QED BY <3>1, <3>2, <2>2, DnsConfigAssumption DEF DnsInvOf, PendingOK
  <2>7. ReportedOK(rep \cup {t}, f.id)
    BY <1>1, <2>1, <2>4 DEF DnsInvOf, ReportedOK, Transactions
  <2>8. Once(p, rep \cup {t})
    <3>1. \A u \in rep : u.query # first.id /\ u.response # f.id
      BY <1>1, <1>3 DEF DnsInvOf, Once, ReportedOK, Transactions
    <3>2. \A k \in DOMAIN p : p[k].id # first.id
      BY <1>3, <2>2 DEF DnsInvOf, PendingOK, CapturedOK
    <3> QED BY <3>1, <3>2, <2>2, <2>4 DEF DnsInvOf, Once
  <2>9. \A g \in cap \cup {f} : Present(p, rep \cup {t}, cap \cup {f}, g)
    <3>1. Present(p, rep \cup {t}, cap \cup {f}, f)
      BY <2>4 DEF Present
    <3> QED BY <3>1, <2>2, <2>4, EarlierStayPresent
  <2>10. Measured(rep \cup {t}, cap \cup {f})
    <3>1. t.latency # Unmeasured => MeasuredBy(t, first, f)
      BY <2>1, <2>4 DEF Latency, MeasuredBy
    <3> QED BY <3>1, <2>1, MeasuredGrows DEF DnsInvOf, Measured
  <2>11. DnsInvOf(p, rep \cup {t}, cap \cup {f}, f.id)
    BY <2>5, <2>6, <2>7, <2>8, <2>9, <2>10 DEF DnsInvOf
  <2> QED BY <2>11, <1>3 DEF AcceptResponse, p, t
<1> QED BY <1>2, <1>3
LEMMA DatagramProcessed ==
  ASSUME NEW q, NEW rep, NEW cap, NEW n, DnsInvOf(q, rep, cap, n),
         NEW f \in Fragment, f.id > n
  PROVE  DnsInvOf(ProcessFragment(q, f).queries, rep \cup ProcessFragment(q, f).out,
                  cap \cup {f}, f.id)
<1> DEFINE aged == Aged(q, f.at)
           young == Without(q, aged)
           old == NoResponse(q, aged, "no_response")
           before == rep \cup old
<1>1. aged \in SUBSET DOMAIN q
  BY DEF Aged
<1>2. DnsInvOf(young, before, cap, n)
  BY <1>1, CloseUnanswered DEF Outcomes
<1>3. f.type \in DatagramTypes /\ f.id \in Nat
  BY DnsConfigAssumption DEF Fragment
<1> HIDE DEF aged, young, old, before
<1>4. CASE f.type = "query"
  <2>1. DnsInvOf(AcceptQuery(young, f).queries, before \cup AcceptQuery(young, f).out,
                 cap \cup {f}, f.id)
    BY <1>2, <1>4, QueryAccepted
  <2>2. /\ ProcessFragment(q, f).queries = AcceptQuery(young, f).queries
        /\ rep \cup ProcessFragment(q, f).out = before \cup AcceptQuery(young, f).out
    BY <1>4 DEF ProcessFragment, before, old, young, aged
  <2> QED BY <2>1, <2>2
<1>5. CASE f.type = "response"
  <2>1. DnsInvOf(AcceptResponse(young, f).queries, before \cup AcceptResponse(young, f).out,
                 cap \cup {f}, f.id)
    BY <1>2, <1>5, ResponseAccepted
  <2>2. /\ ProcessFragment(q, f).queries = AcceptResponse(young, f).queries
        /\ rep \cup ProcessFragment(q, f).out = before \cup AcceptResponse(young, f).out
    BY <1>5 DEF ProcessFragment, before, old, young, aged
  <2> QED BY <2>1, <2>2
<1>6. CASE f.type = "malformed"
  <2> DEFINE t == Transaction(None, f.id, "parse_failed", Unmeasured)
  <2>1. t \in Transactions /\ t.query = None /\ t.response = f.id /\ t.latency = Unmeasured
    BY <1>3 DEF Transaction, Transactions, Outcomes, None, Unmeasured
  <2>2. Present(young, before \cup {t}, cap \cup {f}, f)
    BY <1>6, <2>1 DEF Present
  <2>3. DnsInvOf(young, before \cup {t}, cap \cup {f}, f.id)
    BY <1>2, <2>1, <2>2, ReportAlone
  <2>4. /\ ProcessFragment(q, f).queries = young
        /\ rep \cup ProcessFragment(q, f).out = before \cup {t}
    BY <1>6 DEF ProcessFragment, before, old, young, aged
  <2> QED BY <2>3, <2>4
<1> QED BY <1>3, <1>4, <1>5, <1>6 DEF DatagramTypes

LEMMA CaptureFinished ==
  ASSUME NEW q, NEW rep, NEW cap, NEW n, DnsInvOf(q, rep, cap, n), NEW now
  PROVE  DnsInvOf(Without(q, DOMAIN q), rep \cup FinishOut(q, now), cap, n)
<1> DEFINE aged == Aged(q, now)
           rest == DOMAIN q \ aged
           young == Without(q, aged)
           before == rep \cup NoResponse(q, aged, "no_response")
           last == NoResponse(young, rest, "incomplete/capture_ended")
<1>1. aged \in SUBSET DOMAIN q
  BY DEF Aged
<1>2. DnsInvOf(young, before, cap, n)
  BY <1>1, CloseUnanswered DEF Outcomes
<1>3. DOMAIN young = rest /\ \A k \in rest : young[k] = q[k]
  BY DEF Without
<1>4. DnsInvOf(Without(young, rest), before \cup last, cap, n)
  <2> HIDE DEF young, before, rest
  <2> QED BY <1>2, <1>3, CloseUnanswered DEF Outcomes, last
<1>5. Without(young, rest) = Without(q, DOMAIN q)
  BY <1>1, <1>3 DEF Without
<1>6. last = NoResponse(q, rest, "incomplete/capture_ended")
  BY <1>3 DEF NoResponse
<1> QED BY <1>4, <1>5, <1>6 DEF FinishOut

-----------------------------------------------------------------------------
(* The inductive invariant of the module: Process numbers the datagrams it *)
(* is given, so none beyond their count was seen.                          *)
DnsInv ==
  /\ IsFiniteSet(captured)
  /\ DnsInvOf(queries, reported, captured, Cardinality(captured))

LEMMA DnsInvImplies ==
  ASSUME NEW n, DnsInvOf(queries, reported, captured, n)
  PROVE  DatagramsAccounted /\ LatencySound
<1>1. ClosedOnce
  BY DEF DnsInvOf, Once, ClosedOnce
<1>2. NoneDisappears
  BY DEF DnsInvOf, Present, Covers, NoneDisappears, StandsFor
<1>3. Cardinality(DOMAIN queries) <= MaxPending
  BY DEF DnsInvOf, PendingOK
<1>4. LatencySound
  BY DEF DnsInvOf, Measured, MeasuredBy, LatencySound
<1> QED BY <1>1, <1>2, <1>3, <1>4 DEF DatagramsAccounted

LEMMA DnsInvInitially == DnsInit => DnsInv
<1> SUFFICES ASSUME DnsInit PROVE DnsInv
  OBVIOUS
<1>1. IsFiniteSet({}) /\ Cardinality({}) = 0
  BY FS_EmptySet
<1>2. DOMAIN queries = {} /\ queries = [k \in DOMAIN queries |-> queries[k]]
  BY DEF DnsInit
<1>3. CapturedOK(captured, 0) /\ ReportedOK(reported, 0)
  BY DEF DnsInit, CapturedOK, ReportedOK
<1>4. PendingOK(queries, captured)
  BY <1>1, <1>2, DnsConfigAssumption DEF PendingOK
<1>5. Once(queries, reported) /\ Measured(reported, captured)
       /\ \A f \in captured : Present(queries, reported, captured, f)
  BY <1>2 DEF DnsInit, Once, Measured
<1> QED BY <1>1, <1>3, <1>4, <1>5 DEF DnsInit, DnsInv, DnsInvOf

LEMMA DnsInvPreserved == DnsInv /\ [DnsNext]_dnsVars => DnsInv'
<1> SUFFICES ASSUME DnsInv, [DnsNext]_dnsVars PROVE DnsInv'
  OBVIOUS
<1>1. ASSUME NEW f \in Fragment, f.id = Cardinality(captured) + 1, Process(f)
      PROVE  DnsInv'
  <2>1. Cardinality(captured) \in Nat
    BY FS_CardinalityType DEF DnsInv
  <2>2. f \notin captured
    BY <1>1, <2>1 DEF DnsInv, DnsInvOf, CapturedOK
  <2>3. IsFiniteSet(captured') /\ Cardinality(captured') = f.id
    BY <1>1, <2>2, FS_AddElement DEF DnsInv, Process
  <2>4. f.id > Cardinality(captured)
    BY <1>1, <2>1
  <2>5. DnsInvOf(ProcessFragment(queries, f).queries, reported \cup ProcessFragment(queries, f).out,
                 captured \cup {f}, f.id)
    BY <2>4, DatagramProcessed DEF DnsInv
  <2> QED BY <1>1, <2>3, <2>5 DEF DnsInv, Process
<1>2. ASSUME NEW now \in Instants, Expire(now)
      PROVE  DnsInv'
  <2>1. Aged(queries, now) \in SUBSET DOMAIN queries
    BY DEF Aged
  <2>2. DnsInvOf(Without(queries, Aged(queries, now)),
                 reported \cup NoResponse(queries, Aged(queries, now), "no_response"),
                 captured, Cardinality(captured))
    BY <2>1, CloseUnanswered DEF DnsInv, Outcomes
  <2> QED BY <1>2, <2>2 DEF DnsInv, Expire
<1>3. ASSUME NEW now \in Instants, FinishDns(now)
      PROVE  DnsInv'
  <2>1. DnsInvOf(Without(queries, DOMAIN queries), reported \cup FinishOut(queries, now),
                 captured, Cardinality(captured))
    BY CaptureFinished DEF DnsInv
  <2> QED BY <1>3, <2>1 DEF DnsInv, FinishDns
<1>4. CASE FlushDns
  <2>1. DnsInvOf(Without(queries, DOMAIN queries),
                 reported \cup NoResponse(queries, DOMAIN queries, "no_response"),
                 captured, Cardinality(captured))
    BY CloseUnanswered DEF DnsInv, Outcomes
  <2> QED BY <1>4, <2>1 DEF DnsInv, FlushDns
<1>5. CASE UNCHANGED dnsVars
  BY <1>5 DEF DnsInv, dnsVars
<1> QED BY <1>1, <1>2, <1>3, <1>4, <1>5 DEF DnsNext

(* However queries, retransmissions, responses and expiries follow each    *)
(* other, and for every limit and timeout, Process, Expire, Flush and      *)
(* Finish account for every datagram once and keep within MaxPending.      *)
THEOREM DnsAccountsForDatagrams == DnsSpec => []DatagramsAccounted
<1>1. DnsInv => DatagramsAccounted
  BY DnsInvImplies DEF DnsInv
<1> QED BY <1>1, DnsInvInitially, DnsInvPreserved, PTL DEF DnsSpec

(* A latency in a transaction of Process is the difference of two recorded,*)
(* ordered kernel timestamps, those of the question's first capture and of *)
(* the response that closed it.                                            *)
THEOREM DnsLatencySound == DnsSpec => []LatencySound
<1>1. DnsInv => LatencySound
  BY DnsInvImplies DEF DnsInv
<1> QED BY <1>1, DnsInvInitially, DnsInvPreserved, PTL DEF DnsSpec
=============================================================================
