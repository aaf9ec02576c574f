-------------------------- MODULE Pipeline_proofs ---------------------------
(***************************************************************************)
(* Proofs about Pipeline, for every capacity, every limit on the events    *)
(* and every interleaving of the pump, the loop, the clock and the sinks.  *)
(***************************************************************************)
EXTENDS Pipeline, PipelineParts_proofs, SequenceTheorems

-----------------------------------------------------------------------------
(***************************************************************************)
(* The inductive invariant, in the parts the proofs name.                  *)
(***************************************************************************)
PumpPlaces == {"loop", "read", "accept", "send", "done"}
Cancelling == {"finish", "stop", "interrupt", "join"}
Deferred   == {"dnsFinish", "close", "done"}
LoopPlaces == {"select", "encode", "expire", "flush", "exit"} \cup Cancelling \cup Deferred

PipelineTypeOK ==
  /\ clock \in Times
  /\ pumpAt \in PumpPlaces /\ hand \in Event /\ count \in Nat
  /\ channel \in Seq(Event) /\ unsent \in Seq(Event) /\ tail \in Seq(Event)
  /\ outstanding \in Seq(Times) /\ cutoff \in Times /\ ended \in BOOLEAN
  /\ stop \in BOOLEAN /\ interrupted \in BOOLEAN
  /\ loopAt \in LoopPlaces /\ afterWork \in {"select", "expire", "exit"}
  /\ streamNil \in BOOLEAN /\ cancelled \in BOOLEAN
  /\ returning \in BOOLEAN /\ failed \in BOOLEAN
  /\ generation \in [Flows -> Ids \cup {Unresolved}]
  /\ reads \in Seq(Event) /\ shown \in Seq(Times) /\ delivered \in Nat

(* Where cancellation stands: before close(stop) nothing was drained or    *)
(* held back; after the join the pump is gone and the tail is all there is.*)
CancelInv ==
  /\ ~stop => unsent = <<>> /\ tail = <<>> /\ ~cancelled
  /\ unsent # <<>> => pumpAt = "done"
  /\ loopAt \in {"finish", "stop"} => ~stop
  /\ loopAt \in {"interrupt", "join"} => stop /\ ~cancelled /\ tail = <<>>
  /\ stop /\ loopAt \notin Cancelling => pumpAt = "done" /\ channel = <<>> /\ unsent = <<>>
  /\ stop /\ loopAt \notin Cancelling /\ ~returning => cancelled

(* Every read is delivered or in flight, in order, with its stamp pinned.  *)
Numbered ==
  /\ \A i \in 1..Len(reads) :
       reads[i].id = i /\ ~IsErr(reads[i]) /\ reads[i].subject \in Subjects(reads[i].kind)
  /\ pumpAt = "accept" /\ ~IsErr(hand) =>
       hand.id = Len(reads) + 1 /\ hand.subject \in Subjects(hand.kind)

(* The clock had shown a stamp before it was taken; and so for the events  *)
(* on their way, the failure of the last Read included.                    *)
Stamped ==
  /\ Len(shown) = Len(reads) + 1
  /\ \A i \in 1..Len(reads) : 0 < reads[i].at /\ reads[i].at <= shown[i]
  /\ 0 < clock /\ clock <= shown[Len(shown)]
  /\ \A j \in 1..Len(outstanding) : outstanding[j] <= shown[delivered + j]

FlightInv ==
  /\ delivered <= Len(reads)
  /\ Len(InFlight) \in {Len(reads) - delivered, Len(reads) - delivered + 1}
  /\ \A i \in 1..(Len(reads) - delivered) : InFlight[i] = reads[delivered + i]
  /\ Len(InFlight) = Len(reads) - delivered + 1 =>
       /\ IsErr(InFlight[Len(InFlight)])
       /\ pumpAt = "done" \/ (pumpAt = "send" /\ IsErr(hand))
  /\ Len(outstanding) = Len(InFlight)
  /\ \A i \in 1..Len(InFlight) : outstanding[i] = InFlight[i].at

(* How the loop ends.                                                      *)
LoopInv ==
  /\ loopAt \in {"select", "encode", "expire", "flush", "exit"} => ~returning
  /\ loopAt \in Deferred => returning
  /\ failed => loopAt = "exit" \/ returning
  /\ streamNil => pumpAt = "done" /\ InFlight = <<>>
  /\ loopAt # "encode" /\ ~failed => work = {}
  /\ loopAt = "encode" /\ afterWork = "exit" => streamNil /\ pending = {}
  /\ (loopAt = "exit" \/ returning) /\ ~failed => streamNil /\ pending = {}

(* When the loop asks for the watermark the capture was not cancelled: if  *)
(* it has ended, the pump accepted its last event, at the cutoff.          *)
Sweeping ==
  loopAt \in {"expire", "flush"} \/ (loopAt = "encode" /\ afterWork = "expire")

LastAccepted ==
  \/ pumpAt = "done"
  \/ pumpAt = "send" /\ (IsErr(hand) \/ (MaxEvents > 0 /\ count + 1 = MaxEvents))
  \/ pumpAt = "loop" /\ MaxEvents > 0 /\ count = MaxEvents

EndInv ==
  /\ Sweeping => ~stop
  /\ ended /\ ~stop /\ loopAt # "stop" => LastAccepted /\ cutoff <= shown[Len(shown)]

(* An L4 event the loop has taken is in exactly one of three places.       *)
L4Kinds == {"connect", "sample"}

Item == [id : Ids, flow : Flows, at : Times, attempts : Nat]

Represents(r) ==
  /\ r.id \in 1..delivered
  /\ reads[r.id].kind \in L4Kinds
  /\ r.flow = reads[r.id].subject
  /\ r.at = reads[r.id].at

Distinct(S) == \A r, s \in S : r.id = s.id => r = s
Apart(S, T) == \A r \in S, s \in T : r.id # s.id

RecordInv ==
  /\ pending \subseteq Item
  /\ \A r \in work : r.via \in Ids \cup {Unresolved} /\ Represents(r)
  /\ \A r \in pending : Represents(r)
  /\ \A r \in encoded : Represents(r)
  /\ Distinct(work) /\ Distinct(pending) /\ Distinct(encoded)
  /\ Apart(work, pending) /\ Apart(work, encoded) /\ Apart(pending, encoded)
  /\ \A i \in 1..delivered :
       reads[i].kind \in L4Kinds => \E r \in work \cup pending \cup encoded : r.id = i
  /\ \A o \in accepted : \E r \in encoded : r.id = o.id

(* The clock had shown the watermark, the lateness included, before a read *)
(* that is still to come or whose record is not written yet.               *)
Behind(i) ==
  stream.hasWatermark =>
    \E k \in 1..i : stream.watermark + AllowedLateness <= shown[k]

Open(i) ==
  \/ i > delivered
  \/ reads[i].kind \in L4Kinds /\ \A r \in encoded : r.id # i

WatermarkInv ==
  /\ stream.watermark \in Int
  /\ ~returning => ~stream.finished /\ \A i \in 1..Len(shown) : Open(i) => Behind(i)

(* A pending DNS query is a query the loop has taken, and no answer to it  *)
(* was taken since.                                                        *)
Answers(i, k, n) ==
  reads[i].kind = "dns_response" /\ reads[i].id > n /\ reads[i].subject = k

Awaits(k, q) ==
  /\ q.id \in 1..delivered
  /\ reads[q.id].subject = k
  /\ q.at = reads[q.id].at
  /\ \A i \in 1..delivered : ~Answers(i, k, q.id)

QueryInv == \A k \in DOMAIN queries : Awaits(k, queries[k])

(* A query reported as unanswered has waited in vain: every answer that    *)
(* was captured came after the clock had shown the end of its time, and so *)
(* will one that is still to come.                                         *)
InVain(n) ==
  /\ n \in 1..delivered
  /\ \A i \in 1..Len(reads) : Answers(i, reads[n].subject, n) => TimeoutShown(n, i)
  /\ pumpAt = "done" \/ TimeoutShown(n, Len(shown))

UnansweredInv ==
  ~failed => \A t \in reported : t.outcome = "no_response" => InVain(t.query)

PipelineInv ==
  /\ PipelineTypeOK
  /\ CancelInv
  /\ Numbered
  /\ Stamped
  /\ FlightInv
  /\ LoopInv
  /\ EndInv

-----------------------------------------------------------------------------
(***************************************************************************)
(* The events in flight: what each step does to their sequence.            *)
(***************************************************************************)
LEMMA HeadTailConcat ==
  ASSUME NEW S, NEW s \in Seq(S), NEW t \in Seq(S), s # <<>>
  PROVE  /\ s \o t # <<>>
         /\ Head(s \o t) = Head(s)
         /\ Tail(s \o t) = Tail(s) \o t
<1>1. /\ s \o t \in Seq(S)
      /\ Len(s \o t) = Len(s) + Len(t)
      /\ \A i \in 1..(Len(s) + Len(t)) :
           (s \o t)[i] = IF i <= Len(s) THEN s[i] ELSE t[i - Len(s)]
  BY ConcatProperties
<1>2. Len(s) \in Nat \ {0} /\ Len(t) \in Nat
  BY EmptySeq, LenProperties
<1>3. s \o t # <<>>
  BY <1>1, <1>2
<1>4. Tail(s) \in Seq(S) /\ Tail(s \o t) \in Seq(S)
  BY <1>1, <1>3, HeadTailProperties
<1>5. /\ Tail(s) \o t \in Seq(S)
      /\ Len(Tail(s) \o t) = Len(Tail(s)) + Len(t)
      /\ \A i \in 1..(Len(Tail(s)) + Len(t)) :
           (Tail(s) \o t)[i] = IF i <= Len(Tail(s)) THEN Tail(s)[i] ELSE t[i - Len(Tail(s))]
  BY <1>4, ConcatProperties
<1>6. /\ Len(Tail(s)) = Len(s) - 1
      /\ \A i \in 1..Len(Tail(s)) : Tail(s)[i] = s[i + 1]
      /\ Len(Tail(s \o t)) = Len(s \o t) - 1
      /\ \A i \in 1..Len(Tail(s \o t)) : Tail(s \o t)[i] = (s \o t)[i + 1]
  BY <1>1, <1>3, HeadTailProperties
<1>7. Tail(s \o t) = Tail(s) \o t
  <2>1. Len(Tail(s \o t)) = Len(Tail(s) \o t)
    BY <1>1, <1>2, <1>5, <1>6
  <2>2. \A i \in 1..Len(Tail(s \o t)) : Tail(s \o t)[i] = (Tail(s) \o t)[i]
    BY <1>1, <1>2, <1>5, <1>6
  <2> QED BY <1>4, <1>5, <2>1, <2>2, SeqEqual
<1>8. Head(s \o t) = Head(s)
  BY <1>1, <1>2
<1> QED BY <1>3, <1>7, <1>8

LEMMA InFlightType ==
  PipelineTypeOK => InFlight \in Seq(Event)
  BY ConcatProperties DEF PipelineTypeOK, InFlight

(* accept puts the stamped event last.                                     *)
LEMMA AcceptJoinsFlight ==
  ASSUME PipelineTypeOK, PumpAccept
  PROVE  /\ [hand EXCEPT !.at = clock] \in Event
         /\ InFlight' = Append(InFlight, [hand EXCEPT !.at = clock])
<1> DEFINE queued == tail \o channel \o unsent
           stamped == [hand EXCEPT !.at = clock]
<1>1. stamped \in Event
  BY DEF PipelineTypeOK, Event
<1>2. queued \in Seq(Event)
  BY ConcatProperties DEF PipelineTypeOK
<1>3. InFlight = queued \o <<>>
  BY DEF PumpAccept, InFlight
<1>4. InFlight = queued
  BY <1>2, <1>3, ConcatEmptySeq
<1>5. InFlight' = queued \o <<stamped>>
  BY DEF PumpAccept, PumpUnchanged, InFlight
<1>6. Append(queued, stamped) = queued \o <<stamped>>
  BY <1>1, <1>2, AppendIsConcat
<1> QED BY <1>1, <1>4, <1>5, <1>6

(* The send, the event held back and the drain only move events along.     *)
LEMMA SendKeepsFlight ==
  ASSUME PipelineTypeOK, CancelInv, PumpSend
  PROVE  InFlight' = InFlight
<1>1. unsent = <<>> /\ unsent' = <<>> /\ tail' = tail /\ channel' = Append(channel, hand)
  BY DEF CancelInv, PumpSend, PumpUnchanged
<1>2. pumpAt = "send" /\ pumpAt' # "send"
  BY DEF PumpSend
<1>3. InFlight = tail \o channel \o <<>> \o <<hand>>
  BY <1>1, <1>2 DEF InFlight
<1>4. InFlight' = tail \o Append(channel, hand) \o <<>> \o <<>>
  BY <1>1, <1>2 DEF InFlight
<1>5. /\ tail \in Seq(Event) /\ channel \in Seq(Event) /\ hand \in Event
      /\ <<hand>> \in Seq(Event)
  BY DEF PipelineTypeOK
<1>6. Append(channel, hand) = channel \o <<hand>> /\ Append(channel, hand) \in Seq(Event)
  BY <1>5, AppendIsConcat, AppendProperties
<1>7. tail \o channel \in Seq(Event) /\ tail \o Append(channel, hand) \in Seq(Event)
  BY <1>5, <1>6, ConcatProperties
<1>8. InFlight = (tail \o channel) \o <<hand>>
  BY <1>3, <1>7, ConcatEmptySeq
<1>9. InFlight' = tail \o (channel \o <<hand>>)
  BY <1>4, <1>6, <1>7, ConcatEmptySeq
<1>10. (tail \o channel) \o <<hand>> = tail \o (channel \o <<hand>>)
  BY <1>5, ConcatAssociative
<1> QED BY <1>8, <1>9, <1>10

LEMMA StoppedKeepsFlight ==
  ASSUME PipelineTypeOK, CancelInv, PumpStopped
  PROVE  InFlight' = InFlight
<1>1. unsent = <<>> /\ unsent' = <<hand>> /\ tail' = tail /\ channel' = channel
  BY DEF CancelInv, PumpStopped, PumpUnchanged
<1>2. InFlight = (tail \o channel) \o <<>> \o <<hand>>
  BY <1>1 DEF InFlight, PumpStopped
<1>3. InFlight' = (tail \o channel) \o <<hand>> \o <<>>
  BY <1>1 DEF InFlight, PumpStopped
<1>4. tail \o channel \in Seq(Event) /\ <<hand>> \in Seq(Event)
  BY ConcatProperties DEF PipelineTypeOK
<1>5. (tail \o channel) \o <<hand>> \in Seq(Event)
  BY <1>4, ConcatProperties
<1>6. (tail \o channel) \o <<>> = tail \o channel
  BY <1>4, ConcatEmptySeq
<1>7. (tail \o channel) \o <<hand>> \o <<>> = (tail \o channel) \o <<hand>>
  BY <1>5, ConcatEmptySeq
<1> QED BY <1>2, <1>3, <1>6, <1>7

LEMMA JoinKeepsFlight ==
  ASSUME PipelineTypeOK, CancelInv, CancelJoin
  PROVE  InFlight' = InFlight
<1>1. /\ tail = <<>> /\ tail' = channel \o unsent /\ channel' = <<>> /\ unsent' = <<>>
      /\ pumpAt = "done" /\ pumpAt' = "done"
  BY DEF CancelInv, CancelJoin, OthersIdle, envVars, pumpVars, Drained, Goto
<1>2. InFlight = <<>> \o channel \o unsent \o <<>>
  BY <1>1 DEF InFlight
<1>3. InFlight' = (channel \o unsent) \o <<>> \o <<>> \o <<>>
  BY <1>1 DEF InFlight
<1>4. channel \in Seq(Event) /\ channel \o unsent \in Seq(Event)
  BY ConcatProperties DEF PipelineTypeOK
<1>5. <<>> \o channel = channel /\ (channel \o unsent) \o <<>> = channel \o unsent
  BY <1>4, ConcatEmptySeq
<1> QED BY <1>2, <1>3, <1>5

(* The loop takes the oldest event in flight.                              *)
LEMMA TakeLeavesFlight ==
  ASSUME PipelineTypeOK, CancelInv, LoopInv, Take(Head(Source))
  PROVE  /\ InFlight # <<>>
         /\ Head(Source) = Head(InFlight)
         /\ InFlight' = Tail(InFlight)
<1> DEFINE rest == IF pumpAt = "send" THEN <<hand>> ELSE <<>>
<1>1. /\ tail \in Seq(Event) /\ channel \in Seq(Event) /\ unsent \in Seq(Event)
      /\ rest \in Seq(Event) /\ <<>> \in Seq(Event)
  BY DEF PipelineTypeOK
<1>2. InFlight = tail \o channel \o unsent \o rest
  BY DEF InFlight
<1>3. InFlight' = tail' \o channel' \o unsent \o rest
  BY DEF InFlight, Take, OthersIdle, envVars, pumpVars
<1> HIDE DEF rest
<1>4. CASE cancelled
  <2>1. tail # <<>> /\ Source = tail /\ tail' = Tail(tail) /\ channel' = channel
    BY <1>4 DEF Take, Source
  <2> DEFINE a == tail \o channel
             b == a \o unsent
  <2>2. a \in Seq(Event) /\ a # <<>> /\ Head(a) = Head(tail) /\ Tail(a) = Tail(tail) \o channel
    BY <1>1, <2>1, HeadTailConcat, ConcatProperties
  <2> HIDE DEF a
  <2>3. b \in Seq(Event) /\ b # <<>> /\ Head(b) = Head(a) /\ Tail(b) = Tail(a) \o unsent
    BY <1>1, <2>2, HeadTailConcat, ConcatProperties
  <2> HIDE DEF b
  <2>4. b \o rest # <<>> /\ Head(b \o rest) = Head(b) /\ Tail(b \o rest) = Tail(b) \o rest
    BY <1>1, <2>3, HeadTailConcat
  <2>5. InFlight = b \o rest /\ InFlight' = Tail(b) \o rest
    BY <1>2, <1>3, <2>1, <2>2, <2>3 DEF a, b
  <2> QED BY <2>1, <2>2, <2>3, <2>4, <2>5
<1>5. CASE ~cancelled
  <2>1. channel # <<>> /\ Source = channel /\ channel' = Tail(channel) /\ tail' = tail
    BY <1>5 DEF Take, Source
  <2>2. tail = <<>>
    BY <1>5 DEF Take, Selecting, CancelInv, LoopInv, Cancelling
  <2> DEFINE b == channel \o unsent
  <2>3. /\ b \in Seq(Event) /\ b # <<>> /\ Head(b) = Head(channel)
        /\ Tail(b) = Tail(channel) \o unsent
    BY <1>1, <2>1, HeadTailConcat, ConcatProperties
  <2>4. <<>> \o channel = channel /\ <<>> \o Tail(channel) = Tail(channel)
    BY <1>1, <2>1, ConcatEmptySeq, HeadTailProperties
  <2> HIDE DEF b
  <2>5. b \o rest # <<>> /\ Head(b \o rest) = Head(b) /\ Tail(b \o rest) = Tail(b) \o rest
    BY <1>1, <2>3, HeadTailConcat
  <2>6. InFlight = b \o rest /\ InFlight' = Tail(b) \o rest
    BY <1>2, <1>3, <2>1, <2>2, <2>3, <2>4 DEF b
  <2> QED BY <2>1, <2>3, <2>5, <2>6
<1> QED BY <1>4, <1>5

-----------------------------------------------------------------------------
(***************************************************************************)
(* The steps, sorted by what they do to the capture: the clock's, the      *)
(* pump's, the receives that take an event, the steps of cancel, and those *)
(* that leave the capture alone.                                           *)
(***************************************************************************)
captureVars ==
  <<clock, pumpVars, progressVars, queueVars, cancelVars, reads, shown, delivered>>

ClockMoves == Tick \/ SetBack

ReceiveEvent ==
  \/ ReceiveError
  \/ ReceiveL7
  \/ ReceiveUnconvertible
  \/ ReceiveDns
  \/ ReceiveSample
  \/ ReceiveConnect

Quiet ==
  \/ SinkFails
  \/ ReceiveClosed
  \/ LoopEncode
  \/ SelectSinkFailed
  \/ SelectTick
  \/ LoopExpire
  \/ LoopFlush
  \/ LoopEnds
  \/ FinalizePending
  \/ SelectCancel
  \/ Exit
  \/ DnsFinish
  \/ CloseOutput
  \/ UNCHANGED vars

LEMMA StepKinds ==
  [Next]_vars <=> ClockMoves \/ Pump \/ ReceiveEvent \/ Cancel \/ Quiet
  BY DEF Next, ClockMoves, Loop, Receive, ReceiveEvent, Quiet, Done

LEMMA QuietKeepsCapture ==
  ASSUME Quiet
  PROVE  UNCHANGED captureVars /\ UNCHANGED generation /\ InFlight' = InFlight
<1>1. UNCHANGED captureVars /\ UNCHANGED generation
  <2>1. ASSUME SinkFails \/ LoopEncode \/ SelectSinkFailed \/ SelectTick
        PROVE  UNCHANGED captureVars /\ UNCHANGED generation
    BY <2>1 DEF SinkFails, LoopEncode, SelectSinkFailed, SelectTick, OthersIdle, envVars,
                captureVars
  <2>2. ASSUME LoopExpire \/ LoopFlush \/ LoopEnds \/ FinalizePending \/ SelectCancel
        PROVE  UNCHANGED captureVars /\ UNCHANGED generation
    BY <2>2 DEF LoopExpire, LoopFlush, LoopEnds, FinalizePending, SelectCancel, OthersIdle, envVars,
                captureVars
  <2>3. ASSUME ReceiveClosed \/ Exit \/ DnsFinish \/ CloseOutput \/ UNCHANGED vars
        PROVE  UNCHANGED captureVars /\ UNCHANGED generation
    BY <2>3 DEF ReceiveClosed, Exit, DnsFinish, CloseOutput, OthersIdle, envVars, captureVars, vars
  <2> QED BY <2>1, <2>2, <2>3 DEF Quiet
<1>2. InFlight' = InFlight
  BY <1>1 DEF captureVars, pumpVars, queueVars, InFlight
<1> QED BY <1>1, <1>2

LEMMA ReceiveTakes ==
  ReceiveEvent => Take(Head(Source))
  BY DEF ReceiveEvent, ReceiveError, ReceiveL7, ReceiveUnconvertible, ReceiveDns,
         ReceiveSample, ReceiveConnect

(* Where an event that was taken sends the loop.                           *)
LEMMA ReceiveMoves ==
  ASSUME ReceiveEvent
  PROVE  /\ loopAt = "select" /\ ~cancelled' = ~cancelled /\ returning' = returning
         /\ \/ loopAt' \in {"select", "encode"} /\ failed' = failed
            \/ loopAt' = "exit" /\ failed'
         /\ loopAt' = "encode" => afterWork' = "select"
         /\ afterWork' \in {afterWork, "select"}
         /\ loopAt' # "encode" => work' \in {work, {}}
         /\ IsErr(Head(Source)) => streamNil'
         /\ ~IsErr(Head(Source)) => streamNil' = streamNil
<1>1. Take(Head(Source))
  BY ReceiveTakes
<1>2. loopAt = "select" /\ cancelled' = cancelled /\ returning' = returning
  BY <1>1 DEF Take, Selecting
<1>3. CASE ReceiveError
  BY <1>2, <1>3 DEF ReceiveError, Goto
<1>4. CASE ReceiveL7
  BY <1>2, <1>4 DEF ReceiveL7, EncodeThen, Goto, Return, IsErr
<1>5. CASE ReceiveUnconvertible
  BY <1>2, <1>5 DEF ReceiveUnconvertible, Return, IsErr
<1>6. CASE ReceiveDns
  BY <1>2, <1>6 DEF ReceiveDns, EncodeThen, Goto, Return, IsErr
<1>7. CASE ReceiveSample
  BY <1>2, <1>7 DEF ReceiveSample, EncodeAll, Goto, IsErr
<1>8. CASE ReceiveConnect
  BY <1>2, <1>8 DEF ReceiveConnect, EncodeAll, Goto, IsErr
<1> QED BY <1>3, <1>4, <1>5, <1>6, <1>7, <1>8 DEF ReceiveEvent

(* Where the retry tick and the end of the waits send it.                  *)
LEMMA SettleMoves ==
  ASSUME NEW records, NEW place, EncodeAll(records, place)
  PROVE  /\ loopAt' \in {place, "encode"} /\ failed' = failed /\ afterWork' = place
         /\ work' = records /\ (loopAt' # "encode" => work' = {})
  BY DEF EncodeAll, Goto

LEMMA TickMoves ==
  ASSUME SelectTick
  PROVE  /\ loopAt = "select" /\ ~cancelled /\ loopAt' \in {"expire", "encode"}
         /\ afterWork' = "expire" /\ (loopAt' # "encode" => work' = {})
         /\ UNCHANGED <<failed, streamNil, cancelled, returning>>
<1>1. PICK records : EncodeAll(records, "expire")
  BY DEF SelectTick
<1> QED BY <1>1, SettleMoves DEF SelectTick, Selecting

LEMMA FinalizeMoves ==
  ASSUME FinalizePending
  PROVE  /\ loopAt = "select" /\ cancelled /\ streamNil /\ loopAt' \in {"exit", "encode"}
         /\ afterWork' = "exit" /\ (loopAt' # "encode" => work' = {}) /\ pending' = {}
         /\ UNCHANGED <<failed, streamNil, cancelled, returning>>
  BY SettleMoves DEF FinalizePending

LEMMA ConstantFacts ==
  /\ Times = 0..MaxClock /\ Times \subseteq Nat /\ MaxClock \in Nat \ {0}
  /\ Ids = 1..MaxReads /\ MaxReads \in Nat
  /\ Kinds \subseteq {"connect", "sample", "dns_query", "dns_response", "l7", "unconvertible"}
  BY PipelineAssumption

(***************************************************************************)
(* Types.                                                                  *)
(***************************************************************************)
LEMMA NoEventType ==
  /\ NoEvent \in Event
  /\ \A kind \in {"error", "eof"} : [NoEvent EXCEPT !.kind = kind] \in Event
<1>1. 0 \in Times
  BY ConstantFacts
<1> QED BY <1>1 DEF NoEvent, Event, NoSubject

LEMMA PipelineTypeInit ==
  Init => PipelineTypeOK
<1> SUFFICES ASSUME Init PROVE PipelineTypeOK
  OBVIOUS
<1>1. clock \in Times /\ cutoff \in Times
  BY ConstantFacts DEF Init
<1>2. hand \in Event
  BY NoEventType DEF Init
<1>3. generation \in [Flows -> Ids \cup {Unresolved}]
  BY DEF Init
<1>4. pumpAt \in PumpPlaces /\ loopAt \in LoopPlaces
  BY DEF Init, PumpPlaces, LoopPlaces
<1>5. /\ channel \in Seq(Event) /\ unsent \in Seq(Event) /\ tail \in Seq(Event)
      /\ outstanding \in Seq(Times) /\ reads \in Seq(Event)
  BY EmptySeq DEF Init
<1>7. shown \in Seq(Times)
  <2>1. 1 \in Times /\ shown = <<1>>
    BY ConstantFacts DEF Init
  <2> QED BY <2>1
<1>6. /\ ended = FALSE /\ stop = FALSE /\ interrupted = FALSE /\ streamNil = FALSE
      /\ cancelled = FALSE /\ returning = FALSE /\ failed = FALSE
      /\ count = 0 /\ delivered = 0 /\ afterWork = "select"
  BY DEF Init
<1> QED BY <1>1, <1>2, <1>3, <1>4, <1>5, <1>6, <1>7 DEF PipelineTypeOK

LEMMA PipelineTypeNext ==
  ASSUME PipelineTypeOK, CancelInv, LoopInv, FlightInv, Stamped, [Next]_vars
  PROVE  PipelineTypeOK'
<1> USE DEF PipelineTypeOK
<1>1. CASE ClockMoves
  <2>1. clock' \in Times
    BY <1>1, ConstantFacts DEF ClockMoves, Tick, SetBack
  <2>2. shown' \in Seq(Times)
    <3>1. shown' = [shown EXCEPT ![Len(shown)] = clock'] \/ shown' = shown
      BY <1>1 DEF ClockMoves, Tick, SetBack
    <3>2. Len(shown) \in 1..Len(shown)
      BY LenProperties DEF Stamped
    <3>3. [shown EXCEPT ![Len(shown)] = clock'] \in Seq(Times)
      BY <2>1, <3>2, ExceptSeq
    <3> QED BY <3>1, <3>3
  <2> QED
    BY <1>1, <2>1, <2>2 DEF ClockMoves, Tick, SetBack, pumpVars, progressVars, queueVars,
                            cancelVars, loopVars
<1>2. CASE Pump
  <2>1. /\ UNCHANGED <<clock, tail, stop, interrupted, loopAt, afterWork, streamNil>>
        /\ UNCHANGED <<cancelled, returning, failed, delivered>>
    BY <1>2 DEF Pump, PumpLoop, PumpRead, PumpReadError, PumpAccept, PumpSend, PumpStopped,
                PumpUnchanged, cancelVars, loopVars
  <2>2. CASE PumpLoop
    BY <2>1, <2>2 DEF PumpLoop, PumpPlaces, progressVars
  <2>3. CASE PumpReadError
    <3>1. hand' \in Event
      BY <2>3, NoEventType DEF PumpReadError
    <3> QED BY <2>1, <2>3, <3>1 DEF PumpReadError, PumpPlaces, progressVars
  <2>4. CASE PumpAccept
    <3>1. hand' \in Event
      BY <2>4, AcceptJoinsFlight DEF PumpAccept
    <3>2. outstanding' \in Seq(Times)
      BY <2>4, AppendProperties DEF PumpAccept
    <3>3. reads' \in Seq(Event) /\ shown' \in Seq(Times)
      <4>1. CASE IsErr(hand)
        BY <2>4, <4>1 DEF PumpAccept
      <4>2. CASE ~IsErr(hand)
        <5>1. reads' = Append(reads, hand') /\ shown' = Append(shown, clock)
          BY <2>4, <4>2 DEF PumpAccept
        <5> QED BY <3>1, <5>1, AppendProperties
      <4> QED BY <4>1, <4>2
    <3> QED BY <2>1, <2>4, <3>1, <3>2, <3>3 DEF PumpAccept, PumpPlaces
  <2>5. CASE PumpSend
    <3>1. channel' \in Seq(Event)
      BY <2>5, AppendProperties DEF PumpSend
    <3> QED BY <2>1, <2>5, <3>1 DEF PumpSend, PumpPlaces, progressVars
  <2>6. CASE PumpStopped
    BY <2>1, <2>6 DEF PumpStopped, PumpPlaces, progressVars
  <2>7. ASSUME NEW kind \in Kinds, NEW subject \in Subjects(kind), PumpRead(kind, subject)
        PROVE  PipelineTypeOK'
    <3>1. Len(reads) + 1 \in Ids
      BY <2>7, ConstantFacts DEF PumpRead
    <3>2. hand' \in Event
      BY <2>7, <3>1, ConstantFacts DEF PumpRead, Event, Subjects
    <3>3. generation' \in [Flows -> Ids \cup {Unresolved}]
      BY <2>7, <3>1 DEF PumpRead, Subjects
    <3> QED BY <2>1, <2>7, <3>2, <3>3 DEF PumpRead, PumpPlaces, progressVars
  <2> QED BY <1>2, <2>2, <2>3, <2>4, <2>5, <2>6, <2>7 DEF Pump
<1>3. CASE ReceiveEvent
  <2>1. Take(Head(Source))
    BY <1>3, ReceiveTakes
  <2>2. /\ UNCHANGED <<clock, pumpAt, hand, count, unsent, cutoff, ended, stop, interrupted>>
        /\ UNCHANGED <<generation, reads, shown, cancelled, returning>>
    BY <2>1 DEF Take, OthersIdle, envVars, pumpVars, cancelVars
  <2>3. channel' \in Seq(Event) /\ tail' \in Seq(Event)
    BY <2>1, HeadTailProperties DEF Take, Source
  <2>4. outstanding' \in Seq(Times)
    <3>1. InFlight # <<>> /\ InFlight \in Seq(Event)
      BY <2>1, TakeLeavesFlight, InFlightType
    <3>2. outstanding # <<>>
      BY <3>1, EmptySeq DEF FlightInv
    <3> QED BY <2>1, <3>2, HeadTailProperties DEF Take
  <2>5. delivered' \in Nat
    BY <2>1 DEF Take
  <2>6. loopAt' \in LoopPlaces /\ failed' \in BOOLEAN
    BY <1>3, ReceiveMoves DEF LoopPlaces
  <2>7. afterWork' \in {"select", "expire", "exit"} /\ streamNil' \in BOOLEAN
    BY <1>3, ReceiveMoves
  <2> QED BY <2>2, <2>3, <2>4, <2>5, <2>6, <2>7
<1>4. CASE Cancel
  <2>1. CASE CancelFinish
    BY <2>1 DEF CancelFinish, Goto, OthersIdle, envVars, pumpVars, queueVars, cancelVars, loopVars,
                CaptureTime, LoopPlaces, Cancelling
  <2>2. CASE CancelStop
    BY <2>2 DEF CancelStop, Goto, OthersIdle, envVars, pumpVars, queueVars, progressVars, loopVars,
                LoopPlaces, Cancelling
  <2>3. CASE CancelInterrupt
    BY <2>3 DEF CancelInterrupt, Goto, OthersIdle, envVars, pumpVars, queueVars, progressVars,
                loopVars, LoopPlaces, Cancelling
  <2>4. CASE CancelJoin
    <3>1. tail' \in Seq(Event)
      BY <2>4, ConcatProperties DEF CancelJoin, Drained
    <3>2. channel' \in Seq(Event) /\ unsent' \in Seq(Event)
      BY <2>4 DEF CancelJoin
    <3>3. loopAt' \in LoopPlaces /\ UNCHANGED failed
      BY <2>4 DEF CancelJoin, Goto, LoopPlaces, Deferred
    <3>4. cancelled' \in BOOLEAN /\ streamNil' \in BOOLEAN
      BY <2>4 DEF CancelJoin
    <3> QED BY <2>4, <3>1, <3>2, <3>3, <3>4
            DEF CancelJoin, OthersIdle, envVars, pumpVars, progressVars, cancelVars
  <2> QED BY <1>4, <2>1, <2>2, <2>3, <2>4 DEF Cancel
<1>5. CASE Quiet
  <2>1. UNCHANGED captureVars /\ UNCHANGED generation
    BY <1>5, QuietKeepsCapture
  <2> USE <2>1 DEF captureVars, pumpVars, progressVars, queueVars, cancelVars, LoopPlaces,
                   Cancelling, Deferred
  <2>2. CASE SinkFails \/ UNCHANGED vars
    BY <2>2 DEF SinkFails, vars, loopVars
  <2>3. CASE ReceiveClosed
    BY <2>3 DEF ReceiveClosed
  <2>4. CASE LoopEncode
    BY <2>4 DEF LoopEncode, EncodeThen, Goto, Return
  <2>5. CASE SelectSinkFailed \/ LoopExpire \/ LoopFlush \/ LoopEnds
    BY <2>5 DEF SelectSinkFailed, LoopExpire, LoopFlush, LoopEnds, EncodeThen, Goto, Return,
                loopVars
  <2>6. CASE SelectTick \/ FinalizePending
    BY <2>6 DEF SelectTick, FinalizePending, EncodeAll, Goto
  <2>7. CASE SelectCancel \/ Exit \/ DnsFinish \/ CloseOutput
    BY <2>7 DEF SelectCancel, Exit, DnsFinish, CloseOutput, Goto, loopVars
  <2> QED BY <1>5, <2>2, <2>3, <2>4, <2>5, <2>6, <2>7 DEF Quiet
<1> QED BY <1>1, <1>2, <1>3, <1>4, <1>5, StepKinds

(***************************************************************************)
(* Cancellation, and how the loop ends.                                    *)
(***************************************************************************)
LEMMA CancelNext ==
  ASSUME PipelineTypeOK, CancelInv, LoopInv, [Next]_vars
  PROVE  CancelInv'
<1>1. CASE ClockMoves
  BY <1>1 DEF ClockMoves, Tick, SetBack, CancelInv, pumpVars, queueVars, cancelVars, loopVars
<1>2. CASE Pump
  <2>1. UNCHANGED <<tail, stop, cancelled, returning, loopAt>> /\ pumpAt # "done"
    BY <1>2 DEF Pump, PumpLoop, PumpRead, PumpReadError, PumpAccept, PumpSend, PumpStopped,
                PumpUnchanged, cancelVars, loopVars
  <2>2. unsent = <<>> /\ (stop => loopAt \in Cancelling)
    BY <2>1 DEF CancelInv
  <2>3. CASE PumpStopped
    BY <2>1, <2>2, <2>3 DEF CancelInv, PumpStopped
  <2>4. CASE ~PumpStopped
    <3>1. unsent' = unsent
      BY <1>2, <2>4 DEF Pump, PumpLoop, PumpRead, PumpReadError, PumpAccept, PumpSend
    <3> QED BY <2>1, <2>2, <3>1 DEF CancelInv
  <2> QED BY <2>3, <2>4
<1>3. CASE ReceiveEvent
  <2>1. Take(Head(Source))
    BY <1>3, ReceiveTakes
  <2>2. /\ UNCHANGED <<pumpAt, unsent, stop, cancelled, returning>>
        /\ cancelled => channel' = channel
        /\ ~cancelled => tail' = tail
        /\ loopAt = "select"
    BY <2>1 DEF Take, Selecting, OthersIdle, envVars, pumpVars, cancelVars
  <2>3. loopAt' \in {"select", "encode", "exit"}
    BY <1>3, ReceiveMoves
  <2>4. ~returning
    BY <2>2 DEF LoopInv
  <2> QED BY <2>2, <2>3, <2>4 DEF CancelInv, Cancelling
<1>4. CASE Cancel
  <2>1. CASE CancelFinish
    BY <2>1 DEF CancelFinish, CancelInv, Goto, OthersIdle, envVars, pumpVars, queueVars, cancelVars,
                loopVars, Cancelling
  <2>2. CASE CancelStop
    BY <2>2 DEF CancelStop, CancelInv, Goto, OthersIdle, envVars, pumpVars, queueVars, loopVars,
                Cancelling
  <2>3. CASE CancelInterrupt
    BY <2>3 DEF CancelInterrupt, CancelInv, Goto, OthersIdle, envVars, pumpVars, queueVars,
                loopVars, Cancelling
  <2>4. CASE CancelJoin
    <3>1. /\ stop /\ stop' /\ pumpAt' = "done" /\ channel' = <<>> /\ unsent' = <<>>
          /\ loopAt' \in {"dnsFinish", "select"} /\ returning' = returning
          /\ ~returning => cancelled'
      BY <2>4 DEF CancelJoin, CancelInv, Goto, OthersIdle, envVars, pumpVars, cancelVars
    <3> QED BY <3>1 DEF CancelInv
  <2> QED BY <1>4, <2>1, <2>2, <2>3, <2>4 DEF Cancel
<1>5. CASE Quiet
  <2>1. UNCHANGED captureVars
    BY <1>5, QuietKeepsCapture
  <2> USE <2>1 DEF captureVars, pumpVars, queueVars, cancelVars, CancelInv, LoopInv, Cancelling,
                   Deferred
  <2>2. CASE SinkFails \/ UNCHANGED vars
    BY <2>2 DEF SinkFails, vars, loopVars
  <2>3. CASE ReceiveClosed
    BY <2>3 DEF ReceiveClosed
  <2>4. CASE LoopEncode
    BY <2>4 DEF LoopEncode, EncodeThen, Goto, Return, PipelineTypeOK
  <2>5. CASE SelectSinkFailed \/ LoopExpire \/ LoopFlush \/ LoopEnds
    BY <2>5 DEF SelectSinkFailed, LoopExpire, LoopFlush, LoopEnds, EncodeThen, Goto, Return,
                loopVars, Selecting
  <2>6. CASE SelectTick \/ FinalizePending
    BY <2>6, TickMoves, FinalizeMoves
  <2>7. CASE SelectCancel
    BY <2>7 DEF SelectCancel, Goto, loopVars, Selecting
  <2>8. CASE Exit
    BY <2>8 DEF Exit, Goto
  <2>9. CASE DnsFinish \/ CloseOutput
    BY <2>9 DEF DnsFinish, CloseOutput, Goto, loopVars
  <2> QED BY <1>5, <2>2, <2>3, <2>4, <2>5, <2>6, <2>7, <2>8, <2>9 DEF Quiet
<1> QED BY <1>1, <1>2, <1>3, <1>4, <1>5, StepKinds

(* A closed or failed stream has delivered everything.                     *)
LEMMA ClosedIsEmpty ==
  ASSUME PipelineTypeOK, CancelInv, LoopInv, ReceiveClosed
  PROVE  pumpAt = "done" /\ InFlight = <<>>
<1>1. ~returning /\ Source = <<>> /\ (cancelled \/ pumpAt = "done") /\ loopAt = "select"
  BY DEF ReceiveClosed, Selecting, LoopInv
<1>2. pumpAt = "done" /\ tail = <<>> /\ channel = <<>> /\ unsent = <<>>
  BY <1>1 DEF CancelInv, Cancelling, Source
<1>3. InFlight = <<>> \o <<>> \o <<>> \o <<>>
  BY <1>2 DEF InFlight
<1> QED BY <1>2, <1>3, ConcatEmptySeq, EmptySeq

LEMMA ErrorIsLast ==
  ASSUME PipelineTypeOK, CancelInv, LoopInv, Numbered, FlightInv, ReceiveError
  PROVE  pumpAt = "done" /\ Tail(InFlight) = <<>>
<1>1. IsErr(Head(Source)) /\ Take(Head(Source))
  BY DEF ReceiveError
<1>2. InFlight # <<>> /\ Head(Source) = Head(InFlight) /\ InFlight \in Seq(Event)
  BY <1>1, TakeLeavesFlight, InFlightType
<1>3. Len(InFlight) \in Nat \ {0} /\ Head(InFlight) = InFlight[1]
  BY <1>2, EmptySeq
<1>4. Len(reads) \in Nat /\ delivered \in Nat /\ delivered <= Len(reads)
  BY DEF PipelineTypeOK, FlightInv
<1>5. Len(reads) = delivered
  <2> SUFFICES ASSUME Len(reads) # delivered PROVE FALSE
    OBVIOUS
  <2>1. 1 \in 1..(Len(reads) - delivered) /\ delivered + 1 \in 1..Len(reads)
    BY <1>4
  <2>2. InFlight[1] = reads[delivered + 1]
    BY <2>1 DEF FlightInv
  <2>3. ~IsErr(reads[delivered + 1])
    BY <2>1 DEF Numbered
  <2> QED BY <1>1, <1>2, <1>3, <2>2, <2>3
<1>6. Len(InFlight) = 1
  BY <1>3, <1>4, <1>5 DEF FlightInv
<1>7. Tail(InFlight) \in Seq(Event) /\ Len(Tail(InFlight)) = 0
  BY <1>2, <1>6, HeadTailProperties
<1>8. pumpAt = "done"
  <2> SUFFICES ASSUME pumpAt = "send" PROVE FALSE
    BY <1>4, <1>5, <1>6 DEF FlightInv
  <2>1. ~cancelled /\ channel # <<>>
    BY <1>1 DEF Take, Selecting, CancelInv, Source, Cancelling
  <2>2. Len(InFlight) = Len(tail \o channel \o unsent) + 1
    BY ConcatProperties DEF InFlight, PipelineTypeOK
  <2>3. Len(tail \o channel \o unsent) = Len(tail) + Len(channel) + Len(unsent)
    BY ConcatProperties DEF PipelineTypeOK
  <2>4. Len(channel) \in Nat \ {0} /\ Len(tail) \in Nat /\ Len(unsent) \in Nat
    BY <2>1, EmptySeq, LenProperties DEF PipelineTypeOK
  <2> QED BY <1>6, <2>2, <2>3, <2>4
<1> QED BY <1>7, <1>8, EmptySeq

LEMMA LoopNext ==
  ASSUME PipelineTypeOK, CancelInv, LoopInv, Numbered, FlightInv, [Next]_vars
  PROVE  LoopInv'
<1>1. CASE ClockMoves
  <2>1. UNCHANGED <<pumpVars, queueVars, loopVars, loopAt, failed>>
    BY <1>1 DEF ClockMoves, Tick, SetBack
  <2>2. InFlight' = InFlight
    BY <2>1 DEF InFlight, pumpVars, queueVars
  <2> QED BY <2>1, <2>2 DEF LoopInv, pumpVars, loopVars
<1>2. CASE Pump
  <2>1. UNCHANGED <<loopVars, loopAt, failed>> /\ pumpAt # "done"
    BY <1>2 DEF Pump, PumpLoop, PumpRead, PumpReadError, PumpAccept, PumpSend, PumpStopped,
                PumpUnchanged
  <2> QED BY <2>1 DEF LoopInv, loopVars
<1>3. CASE ReceiveEvent
  <2>1. Take(Head(Source))
    BY <1>3, ReceiveTakes
  <2>2. ~streamNil /\ loopAt = "select" /\ ~returning /\ ~failed /\ work = {}
    BY <2>1 DEF Take, Selecting, LoopInv
  <2>3. pumpAt' = pumpAt /\ InFlight' = Tail(InFlight)
    BY <2>1, TakeLeavesFlight DEF Take, OthersIdle, envVars, pumpVars
  <2>4. streamNil' => pumpAt' = "done" /\ InFlight' = <<>>
    <3>1. CASE IsErr(Head(Source))
      <4>1. ReceiveError
        BY <1>3, <3>1 DEF ReceiveEvent, ReceiveError, ReceiveL7, ReceiveUnconvertible, ReceiveDns,
                          ReceiveSample, ReceiveConnect, IsErr
      <4> QED BY <2>3, <4>1, ErrorIsLast
    <3>2. CASE ~IsErr(Head(Source))
      BY <1>3, <2>2, <3>2, ReceiveMoves
    <3> QED BY <3>1, <3>2
  <2>5. /\ returning' = returning
        /\ \/ loopAt' \in {"select", "encode"} /\ failed' = failed
           \/ loopAt' = "exit" /\ failed'
        /\ loopAt' = "encode" => afterWork' = "select"
        /\ loopAt' # "encode" => work' \in {work, {}}
    BY <1>3, ReceiveMoves
  <2> QED BY <2>2, <2>4, <2>5 DEF LoopInv, Deferred
<1>4. CASE Cancel
  <2> USE DEF LoopInv, Deferred
  <2>1. CASE CancelJoin
    <3>1. InFlight' = InFlight
      BY <2>1, JoinKeepsFlight
    <3> QED BY <2>1, <3>1 DEF CancelJoin, Goto, OthersIdle, envVars, pumpVars, PipelineTypeOK
  <2>2. CASE CancelFinish \/ CancelStop \/ CancelInterrupt
    <3>1. /\ UNCHANGED <<pumpVars, queueVars, loopVars, failed>>
          /\ loopAt \in Cancelling /\ loopAt' \in Cancelling
      BY <2>2 DEF CancelFinish, CancelStop, CancelInterrupt, Goto, OthersIdle, envVars, Cancelling
    <3>2. InFlight' = InFlight
      BY <3>1 DEF InFlight, pumpVars, queueVars
    <3> QED BY <3>1, <3>2 DEF Cancelling, pumpVars, loopVars
  <2> QED BY <1>4, <2>1, <2>2 DEF Cancel
<1>5. CASE Quiet
  <2>1. UNCHANGED captureVars /\ InFlight' = InFlight
    BY <1>5, QuietKeepsCapture
  <2>2. pumpAt' = pumpAt
    BY <2>1 DEF captureVars, pumpVars
  <2> USE <2>1, <2>2 DEF LoopInv, Deferred
  <2>3. CASE SinkFails \/ UNCHANGED vars
    BY <2>3 DEF SinkFails, vars, loopVars
  <2>4. CASE ReceiveClosed
    BY <2>4, ClosedIsEmpty DEF ReceiveClosed, Selecting
  <2>5. CASE LoopEncode
    BY <2>5 DEF LoopEncode, EncodeThen, Goto, Return, PipelineTypeOK
  <2>6. CASE SelectSinkFailed \/ LoopExpire \/ LoopFlush \/ LoopEnds
    BY <2>6 DEF SelectSinkFailed, LoopExpire, LoopFlush, LoopEnds, EncodeThen, Goto, Return,
                loopVars, Selecting
  <2>7. CASE SelectTick \/ FinalizePending
    BY <2>7, TickMoves, FinalizeMoves
  <2>8. CASE SelectCancel \/ Exit
    BY <2>8 DEF SelectCancel, Exit, Goto, loopVars, Selecting, PipelineTypeOK
  <2>9. CASE DnsFinish \/ CloseOutput
    BY <2>9 DEF DnsFinish, CloseOutput, Goto, loopVars
  <2> QED BY <1>5, <2>3, <2>4, <2>5, <2>6, <2>7, <2>8, <2>9 DEF Quiet
<1> QED BY <1>1, <1>2, <1>3, <1>4, <1>5, StepKinds

(***************************************************************************)
(* The history of the reads: numbered and stamped in order.                *)
(***************************************************************************)
LEMMA OthersKeepReads ==
  ASSUME [Next]_vars, ~PumpAccept
  PROVE  reads' = reads /\ (~Tick => shown' = shown)
<1>1. CASE ClockMoves
  BY <1>1 DEF ClockMoves, Tick, SetBack
<1>2. CASE Pump
  BY <1>2 DEF Pump, PumpLoop, PumpRead, PumpReadError, PumpSend, PumpStopped
<1>3. CASE ReceiveEvent
  BY <1>3, ReceiveTakes DEF Take, OthersIdle, envVars
<1>4. CASE Cancel
  BY <1>4 DEF Cancel, CancelFinish, CancelStop, CancelInterrupt, CancelJoin, OthersIdle, envVars
<1>5. CASE Quiet
  BY <1>5, QuietKeepsCapture DEF captureVars
<1> QED BY <1>1, <1>2, <1>3, <1>4, <1>5, StepKinds

LEMMA AcceptAppends ==
  ASSUME PipelineTypeOK, PumpAccept, ~IsErr(hand)
  PROVE  /\ Len(reads') = Len(reads) + 1
         /\ \A i \in 1..Len(reads) : reads'[i] = reads[i]
         /\ reads'[Len(reads) + 1] = [hand EXCEPT !.at = clock]
         /\ reads'[Len(reads) + 1].at = clock
         /\ reads'[Len(reads) + 1].id = hand.id
         /\ reads'[Len(reads) + 1].kind = hand.kind
         /\ reads'[Len(reads) + 1].subject = hand.subject
<1>1. [hand EXCEPT !.at = clock] \in Event /\ hand \in Event
  BY AcceptJoinsFlight DEF PipelineTypeOK
<1>2. reads' = Append(reads, [hand EXCEPT !.at = clock]) /\ reads \in Seq(Event)
  BY DEF PumpAccept, PipelineTypeOK
<1>3. reads'[Len(reads) + 1] = [hand EXCEPT !.at = clock]
  BY <1>1, <1>2, AppendProperties
<1> QED BY <1>1, <1>2, <1>3, AppendProperties DEF Event

LEMMA NumberedNext ==
  ASSUME PipelineTypeOK, Numbered, [Next]_vars
  PROVE  Numbered'
<1>1. Len(reads) \in Nat
  BY DEF PipelineTypeOK
<1>2. CASE PumpAccept
  <2>1. CASE IsErr(hand)
    BY <1>2, <2>1 DEF PumpAccept, Numbered
  <2>2. CASE ~IsErr(hand)
    <3>1. pumpAt = "accept" /\ pumpAt' # "accept"
      BY <1>2 DEF PumpAccept
    <3>2. hand.id = Len(reads) + 1 /\ hand.subject \in Subjects(hand.kind)
      BY <2>2, <3>1 DEF Numbered
    <3>3. ASSUME NEW i \in 1..Len(reads')
          PROVE  /\ reads'[i].id = i /\ ~IsErr(reads'[i])
                 /\ reads'[i].subject \in Subjects(reads'[i].kind)
      <4>1. CASE i \in 1..Len(reads)
        BY <1>2, <2>2, <4>1, AcceptAppends DEF Numbered
      <4>2. CASE i = Len(reads) + 1
        BY <1>2, <2>2, <3>2, <4>2, AcceptAppends DEF IsErr
      <4> QED BY <1>1, <1>2, <2>2, <3>3, <4>1, <4>2, AcceptAppends
    <3> QED BY <3>1, <3>3 DEF Numbered
  <2> QED BY <2>1, <2>2
<1>3. CASE ~PumpAccept
  <2>1. reads' = reads
    BY <1>3, OthersKeepReads
  <2>2. CASE \E kind \in Kinds : \E subject \in Subjects(kind) : PumpRead(kind, subject)
    BY <2>1, <2>2 DEF PumpRead, Numbered
  <2>3. CASE PumpReadError
    <3>1. IsErr(hand')
      BY <2>3 DEF PumpReadError, NoEvent, IsErr
    <3> QED BY <2>1, <3>1 DEF Numbered, IsErr
  <2>4. CASE PumpLoop \/ PumpSend \/ PumpStopped
    BY <2>1, <2>4 DEF PumpLoop, PumpSend, PumpStopped, Numbered
  <2>5. CASE ClockMoves \/ ReceiveEvent \/ Cancel \/ Quiet
    <3>1. UNCHANGED pumpVars
      BY <2>5, QuietKeepsCapture, ReceiveTakes
      DEF ClockMoves, Tick, SetBack, Take, Cancel, CancelFinish, CancelStop, CancelInterrupt,
          CancelJoin, OthersIdle, envVars, captureVars
    <3> QED BY <2>1, <3>1 DEF Numbered, pumpVars
  <2> QED BY <1>3, <2>2, <2>3, <2>4, <2>5, StepKinds DEF Pump
<1> QED BY <1>2, <1>3

(* What the clock has shown stays, and only grows.                         *)
LEMMA ShownGrows ==
  ASSUME PipelineTypeOK, Stamped, [Next]_vars
  PROVE  /\ Len(shown) \in Nat /\ Len(shown) <= Len(shown') /\ Len(shown') \in Nat
         /\ \A k \in 1..Len(shown) :
              shown[k] \in Nat /\ shown'[k] \in Nat /\ shown[k] <= shown'[k]
<1>1. /\ Len(shown) \in Nat \ {0} /\ clock \in Nat /\ \A k \in 1..Len(shown) : shown[k] \in Nat
  <2>1. \A k \in 1..Len(shown) : shown[k] \in Times
    BY ElementOfSeq DEF PipelineTypeOK
  <2>2. Len(shown) \in Nat /\ Len(reads) \in Nat
    BY LenProperties DEF PipelineTypeOK
  <2> QED BY <2>1, <2>2, ConstantFacts DEF PipelineTypeOK, Stamped
<1>2. CASE Tick
  <2>1. CASE shown[Len(shown)] < clock + 1
    <3>1. shown' = [shown EXCEPT ![Len(shown)] = clock + 1]
      BY <1>2, <2>1 DEF Tick
    <3>2. Len(shown') = Len(shown) /\ DOMAIN shown = 1..Len(shown)
      BY <3>1, LenProperties DEF PipelineTypeOK
    <3>3. ASSUME NEW k \in 1..Len(shown)
          PROVE  shown'[k] = IF k = Len(shown) THEN clock + 1 ELSE shown[k]
      BY <3>1, <3>2
    <3> QED BY <1>1, <2>1, <3>2, <3>3
  <2>2. CASE ~(shown[Len(shown)] < clock + 1)
    <3>1. shown' = shown
      BY <1>2, <2>2 DEF Tick
    <3> QED BY <1>1, <3>1
  <2> QED BY <2>1, <2>2
<1>3. CASE PumpAccept /\ ~IsErr(hand)
  BY <1>1, <1>3, AppendProperties DEF PumpAccept, PipelineTypeOK
<1>4. CASE ~Tick /\ ~(PumpAccept /\ ~IsErr(hand))
  <2>1. shown' = shown
    BY <1>4, OthersKeepReads DEF PumpAccept
  <2> QED BY <1>1, <2>1
<1> QED BY <1>2, <1>3, <1>4

(***************************************************************************)
(* The reads and the events in flight.                                     *)
(***************************************************************************)
LEMMA FlightAccepted ==
  ASSUME PipelineTypeOK, FlightInv, PumpAccept
  PROVE  FlightInv'
<1> DEFINE stamped == [hand EXCEPT !.at = clock]
<1>1. stamped \in Event /\ InFlight' = Append(InFlight, stamped) /\ InFlight \in Seq(Event)
  BY AcceptJoinsFlight, InFlightType
<1>2. /\ Len(InFlight') = Len(InFlight) + 1 /\ InFlight'[Len(InFlight) + 1] = stamped
      /\ \A i \in 1..Len(InFlight) : InFlight'[i] = InFlight[i]
      /\ Len(InFlight) \in Nat
  BY <1>1, AppendProperties
<1>3. stamped.at = clock /\ stamped.kind = hand.kind
  BY DEF PipelineTypeOK, Event
<1>4. /\ Len(outstanding') = Len(outstanding) + 1
      /\ outstanding'[Len(outstanding) + 1] = clock
      /\ \A i \in 1..Len(outstanding) : outstanding'[i] = outstanding[i]
  BY AppendProperties DEF PumpAccept, PipelineTypeOK
<1>5. /\ Len(outstanding') = Len(InFlight')
      /\ \A i \in 1..Len(InFlight') : outstanding'[i] = InFlight'[i].at
  <2>1. Len(outstanding) = Len(InFlight)
    BY DEF FlightInv
  <2>2. \A i \in 1..Len(InFlight) : outstanding[i] = InFlight[i].at
    BY DEF FlightInv
  <2> HIDE DEF stamped
  <2> QED BY <1>2, <1>3, <1>4, <2>1, <2>2
<1>6. /\ Len(reads) \in Nat /\ delivered \in Nat /\ delivered <= Len(reads)
      /\ delivered' = delivered
  BY DEF PipelineTypeOK, FlightInv, PumpAccept, PumpUnchanged
<1>7. Len(InFlight) = Len(reads) - delivered
  BY <1>2, <1>6 DEF FlightInv, PumpAccept
<1>8. pumpAt' = "send" /\ hand' = stamped
  BY DEF PumpAccept
<1>9. CASE IsErr(hand)
  <2>1. reads' = reads
    BY <1>9 DEF PumpAccept
  <2>2. IsErr(InFlight'[Len(InFlight')]) /\ IsErr(hand')
    BY <1>2, <1>3, <1>8, <1>9 DEF IsErr
  <2>3. \A i \in 1..(Len(reads) - delivered) : InFlight'[i] = reads[delivered + i]
    BY <1>2, <1>7 DEF FlightInv
  <2> QED BY <1>2, <1>5, <1>6, <1>7, <1>8, <2>1, <2>2, <2>3 DEF FlightInv
<1>10. CASE ~IsErr(hand)
  <2>1. /\ Len(reads') = Len(reads) + 1
        /\ \A i \in 1..Len(reads) : reads'[i] = reads[i]
        /\ reads'[Len(reads) + 1] = stamped
    BY <1>10, AcceptAppends
  <2>2. ASSUME NEW i \in 1..(Len(reads') - delivered)
        PROVE  InFlight'[i] = reads'[delivered + i]
    <3>1. CASE i \in 1..(Len(reads) - delivered)
      <4>1. InFlight[i] = reads[delivered + i]
        BY <3>1 DEF FlightInv
      <4>2. i \in 1..Len(InFlight) /\ delivered + i \in 1..Len(reads)
        BY <1>6, <1>7, <3>1
      <4> QED BY <1>2, <2>1, <4>1, <4>2
    <3>2. CASE i = Len(reads) - delivered + 1
      BY <1>2, <1>6, <1>7, <2>1, <3>2
    <3> QED BY <1>6, <2>1, <3>1, <3>2
  <2> QED BY <1>2, <1>5, <1>6, <1>7, <2>1, <2>2 DEF FlightInv
<1> QED BY <1>9, <1>10

LEMMA FlightTaken ==
  ASSUME PipelineTypeOK, CancelInv, LoopInv, Numbered, FlightInv, Take(Head(Source))
  PROVE  FlightInv'
<1>1. /\ InFlight # <<>> /\ InFlight \in Seq(Event) /\ Head(Source) = Head(InFlight)
      /\ InFlight' = Tail(InFlight)
  BY TakeLeavesFlight, InFlightType
<1>2. Len(InFlight) \in Nat \ {0} /\ Head(InFlight) = InFlight[1]
  BY <1>1, EmptySeq
<1>3. /\ Len(InFlight') = Len(InFlight) - 1
      /\ \A i \in 1..Len(InFlight') : InFlight'[i] = InFlight[i + 1]
  BY <1>1, HeadTailProperties
<1>4. outstanding \in Seq(Times) /\ Len(outstanding) = Len(InFlight) /\ outstanding # <<>>
  BY <1>2 DEF PipelineTypeOK, FlightInv
<1>5. /\ Len(outstanding') = Len(outstanding) - 1
      /\ \A i \in 1..Len(outstanding') : outstanding'[i] = outstanding[i + 1]
  BY <1>4, HeadTailProperties DEF Take
<1>6. /\ Len(outstanding') = Len(InFlight')
      /\ \A i \in 1..Len(InFlight') : outstanding'[i] = InFlight'[i].at
  BY <1>2, <1>3, <1>4, <1>5 DEF FlightInv
<1>7. /\ Len(reads) \in Nat /\ delivered \in Nat /\ delivered <= Len(reads)
      /\ UNCHANGED <<reads, pumpAt, hand>>
  BY DEF PipelineTypeOK, FlightInv, Take, OthersIdle, envVars, pumpVars
<1>8. CASE Len(reads) = delivered
  <2>1. Len(InFlight) = 1 /\ IsErr(InFlight[1])
    BY <1>2, <1>8 DEF FlightInv
  <2>2. delivered' = delivered
    BY <1>1, <1>2, <2>1 DEF Take
  <2> QED BY <1>3, <1>6, <1>7, <1>8, <2>1, <2>2 DEF FlightInv
<1>9. CASE Len(reads) # delivered
  <2>a. 1 \in 1..(Len(reads) - delivered) /\ delivered + 1 \in 1..Len(reads)
    BY <1>7, <1>9
  <2>1. InFlight[1] = reads[delivered + 1] /\ ~IsErr(reads[delivered + 1])
    BY <2>a DEF FlightInv, Numbered
  <2>2. delivered' = delivered + 1
    BY <1>1, <1>2, <2>1 DEF Take
  <2>3. \A i \in 1..(Len(reads) - delivered) : InFlight[i] = reads[delivered + i]
    BY DEF FlightInv
  <2>4. ASSUME NEW i \in 1..(Len(reads) - (delivered + 1))
        PROVE  InFlight'[i] = reads[delivered + 1 + i]
    <3>1. InFlight[i + 1] = reads[delivered + (i + 1)]
      BY <1>7, <2>3
    <3>2. i \in 1..Len(InFlight')
      BY <1>3, <1>7 DEF FlightInv
    <3> QED BY <1>3, <1>7, <3>1, <3>2
  <2>5. Len(InFlight') \in Nat /\ (Len(InFlight') # 0 => InFlight'[Len(InFlight')] = InFlight[Len(InFlight)])
    BY <1>2, <1>3
  <2> QED BY <1>3, <1>6, <1>7, <1>9, <2>2, <2>4, <2>5 DEF FlightInv
<1> QED BY <1>8, <1>9

LEMMA FlightNext ==
  ASSUME PipelineTypeOK, CancelInv, LoopInv, Numbered, FlightInv, [Next]_vars
  PROVE  FlightInv'
<1>1. ASSUME InFlight' = InFlight, UNCHANGED <<reads, delivered, outstanding>>,
             \/ UNCHANGED <<pumpAt, hand>>
             \/ pumpAt # "send" /\ pumpAt # "done"
             \/ pumpAt = "send" /\ pumpAt' \in {"loop", "done"} /\ hand' = hand
                   /\ (IsErr(hand) => pumpAt' = "done")
      PROVE  FlightInv'
  BY <1>1 DEF FlightInv
<1>2. CASE ClockMoves
  <2>1. UNCHANGED <<pumpAt, hand, channel, unsent, tail, reads, delivered, outstanding>>
    BY <1>2 DEF ClockMoves, Tick, SetBack, pumpVars, queueVars, progressVars
  <2>2. InFlight' = InFlight
    BY <2>1 DEF InFlight
  <2> QED BY <1>1, <2>1, <2>2
<1>3. CASE Pump
  <2>1. CASE PumpAccept
    BY <2>1, FlightAccepted
  <2>2. CASE PumpSend
    BY <1>1, <2>2, SendKeepsFlight DEF PumpSend, PumpUnchanged, progressVars
  <2>3. CASE PumpStopped
    BY <1>1, <2>3, StoppedKeepsFlight DEF PumpStopped, PumpUnchanged, progressVars
  <2>4. CASE \/ PumpLoop
             \/ \E kind \in Kinds : \E subject \in Subjects(kind) : PumpRead(kind, subject)
             \/ PumpReadError
    <3>1. /\ UNCHANGED <<channel, unsent, tail, reads, delivered, outstanding>>
          /\ pumpAt # "send" /\ pumpAt' # "send" /\ pumpAt # "done"
      BY <2>4 DEF PumpLoop, PumpRead, PumpReadError, PumpUnchanged, progressVars
    <3>2. InFlight' = InFlight
      BY <3>1 DEF InFlight
    <3> QED BY <1>1, <3>1, <3>2
  <2> QED BY <1>3, <2>1, <2>2, <2>3, <2>4 DEF Pump
<1>4. CASE ReceiveEvent
  BY <1>4, ReceiveTakes, FlightTaken
<1>5. CASE Cancel
  <2>1. UNCHANGED <<pumpAt, hand, reads, delivered, outstanding>>
    BY <1>5 DEF Cancel, CancelFinish, CancelStop, CancelInterrupt, CancelJoin, OthersIdle, envVars,
                progressVars, pumpVars
  <2>2. CASE CancelJoin
    BY <1>1, <2>1, <2>2, JoinKeepsFlight
  <2>3. CASE CancelFinish \/ CancelStop \/ CancelInterrupt
    <3>1. UNCHANGED <<channel, unsent, tail>>
      BY <2>3 DEF CancelFinish, CancelStop, CancelInterrupt, queueVars
    <3>2. InFlight' = InFlight
      BY <2>1, <3>1 DEF InFlight
    <3> QED BY <1>1, <2>1, <3>2
  <2> QED BY <1>5, <2>2, <2>3 DEF Cancel
<1>6. CASE Quiet
  BY <1>1, <1>6, QuietKeepsCapture DEF captureVars, pumpVars, progressVars
<1> QED BY <1>2, <1>3, <1>4, <1>5, <1>6, StepKinds

(***************************************************************************)
(* The stamps, what the clock has shown, and the end of the capture.       *)
(***************************************************************************)
LEMMA StampedNext ==
  ASSUME PipelineTypeOK, CancelInv, LoopInv, Numbered, FlightInv, Stamped, PipelineTypeOK',
         [Next]_vars
  PROVE  Stamped'
<1>1. /\ Len(reads) \in Nat /\ clock \in Nat /\ clock' \in Nat /\ delivered \in Nat
      /\ Len(outstanding) \in Nat
      /\ \A i \in 1..Len(reads) : reads[i].at \in Nat
      /\ \A j \in 1..Len(outstanding) : outstanding[j] \in Nat
  <2>1. \A i \in 1..Len(reads) : reads[i] \in Event
    BY ElementOfSeq DEF PipelineTypeOK
  <2>2. \A e \in Event : e.at \in Nat
    BY ConstantFacts DEF Event
  <2>3. clock \in Nat /\ clock' \in Nat /\ Len(reads) \in Nat /\ delivered \in Nat
    BY ConstantFacts DEF PipelineTypeOK
  <2>4. Len(outstanding) \in Nat /\ \A j \in 1..Len(outstanding) : outstanding[j] \in Times
    BY ElementOfSeq, LenProperties DEF PipelineTypeOK
  <2> QED BY <2>1, <2>2, <2>3, <2>4, ConstantFacts
<1>2. /\ Len(shown) \in Nat /\ Len(shown') \in Nat
      /\ \A k \in 1..Len(shown) :
           shown[k] \in Nat /\ shown'[k] \in Nat /\ shown[k] <= shown'[k]
  BY ShownGrows
<1>3. /\ Len(shown) = Len(reads) + 1
      /\ \A i \in 1..Len(reads) : 0 < reads[i].at /\ reads[i].at <= shown[i]
      /\ 0 < clock /\ clock <= shown[Len(shown)]
      /\ \A j \in 1..Len(outstanding) : outstanding[j] <= shown[delivered + j]
  BY DEF Stamped
<1>4. /\ delivered <= Len(reads)
      /\ Len(outstanding) \in {Len(reads) - delivered, Len(reads) - delivered + 1}
  BY DEF FlightInv
<1>5. \A j \in 1..Len(outstanding) : delivered + j \in 1..Len(shown)
  BY <1>1, <1>3, <1>4
<1>6. CASE PumpAccept
  <2>1. /\ Len(outstanding') = Len(outstanding) + 1 /\ outstanding'[Len(outstanding) + 1] = clock
        /\ \A j \in 1..Len(outstanding) : outstanding'[j] = outstanding[j]
        /\ delivered' = delivered /\ clock' = clock
    BY <1>6, AppendProperties DEF PumpAccept, PumpUnchanged, PipelineTypeOK
  <2>2. delivered + Len(outstanding) + 1 = Len(shown)
    BY <1>1, <1>3, <1>4, <1>6 DEF FlightInv, PumpAccept
  <2>3. \A j \in 1..Len(outstanding') : outstanding'[j] <= shown'[delivered + j]
    <3> TAKE j \in 1..Len(outstanding')
    <3>1. CASE j \in 1..Len(outstanding)
      <4>1. outstanding[j] <= shown[delivered + j] /\ shown[delivered + j] <= shown'[delivered + j]
        BY <1>2, <1>3, <1>5, <3>1
      <4> QED BY <1>1, <1>2, <1>5, <2>1, <3>1, <4>1
    <3>2. CASE j = Len(outstanding) + 1
      <4>1. Len(shown) \in 1..Len(shown) /\ delivered + j = Len(shown)
        BY <1>1, <1>3, <2>2, <3>2
      <4> QED BY <1>1, <1>2, <1>3, <2>1, <3>2, <4>1
    <3> QED BY <1>1, <2>1, <3>1, <3>2
  <2>4. CASE IsErr(hand)
    <3>1. reads' = reads /\ shown' = shown
      BY <1>6, <2>4 DEF PumpAccept
    <3> QED BY <1>3, <2>1, <2>3, <3>1 DEF Stamped
  <2>5. CASE ~IsErr(hand)
    <3>1. /\ Len(reads') = Len(reads) + 1
          /\ \A i \in 1..Len(reads) : reads'[i] = reads[i]
          /\ reads'[Len(reads) + 1].at = clock
      BY <1>6, <2>5, AcceptAppends
    <3>2. /\ Len(shown') = Len(shown) + 1 /\ shown'[Len(shown) + 1] = clock
          /\ \A k \in 1..Len(shown) : shown'[k] = shown[k]
      BY <1>6, <2>5, AppendProperties DEF PumpAccept, PipelineTypeOK
    <3>3. \A i \in 1..Len(reads') : 0 < reads'[i].at /\ reads'[i].at <= shown'[i]
      BY <1>1, <1>2, <1>3, <3>1, <3>2
    <3> QED BY <1>1, <1>3, <2>1, <2>3, <3>1, <3>2, <3>3 DEF Stamped
  <2> QED BY <2>4, <2>5
<1>7. CASE ~PumpAccept
  <2>1. reads' = reads /\ Len(shown') = Len(shown)
    <3>1. CASE Tick
      <4>1. Len(shown') = Len(shown)
        BY <3>1, LenProperties DEF Tick, PipelineTypeOK
      <4> QED BY <1>7, <4>1, OthersKeepReads
    <3> QED BY <1>7, <3>1, OthersKeepReads
  <2>2. \A i \in 1..Len(reads) : 0 < reads[i].at /\ reads[i].at <= shown'[i]
    BY <1>1, <1>2, <1>3
  <2>3. 0 < clock' /\ clock' <= shown'[Len(shown)]
    <3>1. CASE Tick
      <4>1. Len(shown) \in DOMAIN shown /\ shown[Len(shown)] \in Nat
        <5>1. DOMAIN shown = 1..Len(shown)
          BY LenProperties DEF PipelineTypeOK
        <5>2. Len(shown) \in 1..Len(shown)
          BY <1>1, <1>3
        <5> QED BY <1>2, <5>1, <5>2
      <4>2. clock' = clock + 1
        BY <3>1 DEF Tick
      <4>3. CASE shown[Len(shown)] < clock'
        BY <1>1, <1>3, <3>1, <4>1, <4>2, <4>3 DEF Tick
      <4>4. CASE ~(shown[Len(shown)] < clock')
        BY <1>1, <1>3, <3>1, <4>1, <4>2, <4>4 DEF Tick
      <4> QED BY <4>3, <4>4
    <3>2. CASE SetBack
      BY <1>1, <1>2, <1>3, <3>2 DEF SetBack
    <3>3. CASE ~Tick /\ ~SetBack
      <4>1. clock' = clock
        <5>1. CASE Pump
          BY <5>1 DEF Pump, PumpLoop, PumpRead, PumpReadError, PumpAccept, PumpSend, PumpStopped,
                      PumpUnchanged
        <5>2. CASE ReceiveEvent
          BY <5>2, ReceiveTakes DEF Take, OthersIdle, envVars
        <5>3. CASE Cancel
          BY <5>3 DEF Cancel, CancelFinish, CancelStop, CancelInterrupt, CancelJoin, OthersIdle,
                      envVars
        <5>4. CASE Quiet
          BY <5>4, QuietKeepsCapture DEF captureVars
        <5> QED BY <3>3, <5>1, <5>2, <5>3, <5>4, StepKinds DEF ClockMoves
      <4> QED BY <1>1, <1>2, <1>3, <4>1
    <3> QED BY <3>1, <3>2, <3>3
  <2>4. \A j \in 1..Len(outstanding') : outstanding'[j] <= shown'[delivered' + j]
    <3>1. CASE ReceiveEvent
      <4>1. Take(Head(Source)) /\ FlightInv' /\ shown' = shown
        BY <1>7, <3>1, ReceiveTakes, FlightTaken, OthersKeepReads DEF Take, OthersIdle, envVars
      <4>2. outstanding # <<>>
        BY <4>1, TakeLeavesFlight, InFlightType, EmptySeq DEF FlightInv
      <4>3. /\ Len(outstanding') = Len(outstanding) - 1
            /\ \A j \in 1..Len(outstanding') : outstanding'[j] = outstanding[j + 1]
        BY <4>1, <4>2, HeadTailProperties DEF Take, PipelineTypeOK
      <4>4. CASE delivered' = delivered + 1
        <5> SUFFICES ASSUME NEW j \in 1..Len(outstanding')
                     PROVE  outstanding'[j] <= shown'[delivered' + j]
          OBVIOUS
        <5>1. j + 1 \in 1..Len(outstanding) /\ delivered + (j + 1) = (delivered + 1) + j
          BY <1>1, <4>3
        <5>2. outstanding[j + 1] <= shown[delivered + (j + 1)]
          BY <1>3, <5>1
        <5> QED BY <4>1, <4>3, <4>4, <5>1, <5>2
      <4>5. CASE IsErr(Head(Source))
        <5>1. ReceiveError
          BY <3>1, <4>5
          DEF ReceiveEvent, ReceiveL7, ReceiveUnconvertible, ReceiveDns, ReceiveSample,
              ReceiveConnect, IsErr
        <5>2. InFlight' = <<>>
          BY <4>1, <5>1, ErrorIsLast, TakeLeavesFlight
        <5>3. Len(outstanding') = 0
          BY <4>1, <5>2, EmptySeq DEF FlightInv
        <5> QED BY <5>3
      <4> QED BY <4>1, <4>4, <4>5 DEF Take
    <3>2. CASE ~ReceiveEvent
      <4>1. outstanding' = outstanding /\ delivered' = delivered
        <5>1. CASE ClockMoves
          BY <5>1 DEF ClockMoves, Tick, SetBack, progressVars
        <5>2. CASE Pump
          BY <1>7, <5>2 DEF Pump, PumpLoop, PumpRead, PumpReadError, PumpSend, PumpStopped,
                      PumpUnchanged, progressVars
        <5>3. CASE Cancel
          BY <5>3 DEF Cancel, CancelFinish, CancelStop, CancelInterrupt, CancelJoin, progressVars
        <5>4. CASE Quiet
          BY <5>4, QuietKeepsCapture DEF captureVars, progressVars
        <5> QED BY <3>2, <5>1, <5>2, <5>3, <5>4, StepKinds
      <4> SUFFICES ASSUME NEW j \in 1..Len(outstanding)
                   PROVE  outstanding[j] <= shown'[delivered + j]
        BY <4>1
      <4>2. outstanding[j] <= shown[delivered + j] /\ delivered + j \in 1..Len(shown)
        BY <1>3, <1>5
      <4>3. PICK k \in 1..Len(shown) : k = delivered + j
        BY <4>2
      <4>4. shown[k] \in Nat /\ shown'[k] \in Nat /\ shown[k] <= shown'[k]
        BY <1>2
      <4>5. outstanding[j] <= shown'[k]
        BY <1>1, <4>2, <4>3, <4>4
      <4> QED BY <4>3, <4>5
    <3> QED BY <3>1, <3>2
  <2> QED BY <1>3, <2>1, <2>2, <2>3, <2>4 DEF Stamped
<1> QED BY <1>6, <1>7

LEMMA EndNext ==
  ASSUME PipelineTypeOK, CancelInv, LoopInv, Stamped, EndInv, Stamped', PipelineTypeOK',
         [Next]_vars
  PROVE  EndInv'
<1>1. /\ Len(shown) \in Nat \ {0} /\ clock \in Nat /\ cutoff \in Nat
      /\ Len(shown) <= Len(shown') /\ Len(shown') \in Nat
      /\ \A k \in 1..Len(shown) :
           shown[k] \in Nat /\ shown'[k] \in Nat /\ shown[k] <= shown'[k]
  <2>1. Len(reads) \in Nat /\ clock \in Nat /\ cutoff \in Nat
    BY ConstantFacts DEF PipelineTypeOK
  <2> QED BY <2>1, ShownGrows DEF Stamped
<1>2. Len(shown) \in 1..Len(shown)
  BY <1>1
<1>3. CASE ClockMoves
  <2>1. UNCHANGED <<pumpAt, hand, count, cutoff, ended, stop, loopAt, afterWork>>
    BY <1>3 DEF ClockMoves, Tick, SetBack, pumpVars, progressVars, cancelVars, loopVars
  <2>2. Len(shown') = Len(shown)
    BY <1>3, OthersKeepReads, LenProperties DEF ClockMoves, Tick, SetBack, PipelineTypeOK
  <2>3. cutoff <= shown[Len(shown)] => cutoff <= shown'[Len(shown)]
    BY <1>1, <1>2
  <2> QED BY <2>1, <2>2, <2>3 DEF EndInv, Sweeping, LastAccepted
<1>4. CASE PumpAccept
  <2>1. UNCHANGED <<count, stop, loopAt, afterWork, clock>>
    BY <1>4 DEF PumpAccept, PumpUnchanged, cancelVars, loopVars
  <2>2. Sweeping' => ~stop'
    BY <2>1 DEF EndInv, Sweeping
  <2>3. ASSUME ended', ~stop', loopAt' # "stop"
        PROVE  LastAccepted' /\ cutoff' <= shown'[Len(shown')]
    <3>1. ~ended
      BY <1>4, <2>1, <2>3 DEF EndInv, LastAccepted, PumpAccept
    <3>2. /\ IsErr(hand) \/ (MaxEvents > 0 /\ count + 1 = MaxEvents)
          /\ cutoff' = clock /\ pumpAt' = "send" /\ hand' = [hand EXCEPT !.at = clock]
      BY <1>4, <2>3, <3>1 DEF PumpAccept
    <3>3. IsErr(hand) => IsErr(hand')
      BY <3>2 DEF IsErr, PipelineTypeOK, Event
    <3>4. clock <= shown'[Len(shown')]
      BY <2>1 DEF Stamped
    <3> QED BY <2>1, <3>2, <3>3, <3>4 DEF LastAccepted
  <2> QED BY <2>2, <2>3 DEF EndInv
<1>5. CASE Pump /\ ~PumpAccept
  <2>1. UNCHANGED <<cutoff, ended, stop, loopAt, afterWork, shown>>
    BY <1>5 DEF Pump, PumpLoop, PumpRead, PumpReadError, PumpSend, PumpStopped, PumpUnchanged,
                progressVars, cancelVars, loopVars
  <2>2. LastAccepted => LastAccepted'
    BY <1>5 DEF Pump, PumpLoop, PumpRead, PumpReadError, PumpSend, PumpStopped, LastAccepted
  <2> QED BY <2>1, <2>2 DEF EndInv, Sweeping
<1>6. ASSUME UNCHANGED <<pumpAt, hand, count, cutoff, ended, stop, shown>>,
             loopAt = "stop" => loopAt' = "stop", Sweeping' => ~stop
      PROVE  EndInv'
  BY <1>6 DEF EndInv, LastAccepted
<1>7. CASE ReceiveEvent
  <2>1. /\ UNCHANGED <<pumpAt, hand, count, cutoff, ended, stop, shown>>
        /\ loopAt = "select"
    BY <1>7, ReceiveTakes DEF Take, Selecting, OthersIdle, envVars, pumpVars, cancelVars
  <2>2. ~Sweeping'
    BY <1>7, ReceiveMoves DEF Sweeping
  <2> QED BY <1>6, <2>1, <2>2
<1>8. CASE Cancel
  <2>1. CASE CancelFinish
    BY <2>1 DEF CancelFinish, Goto, EndInv, Sweeping
  <2>2. CASE CancelStop
    BY <2>2 DEF CancelStop, Goto, EndInv, Sweeping
  <2>3. CASE CancelInterrupt \/ CancelJoin
    <3>1. stop /\ stop' = stop /\ loopAt' \in {"join", "dnsFinish", "select"}
      BY <2>3 DEF CancelInterrupt, CancelJoin, Goto, cancelVars, CancelInv
    <3> QED BY <3>1 DEF EndInv, Sweeping
  <2> QED BY <1>8, <2>1, <2>2, <2>3 DEF Cancel
<1>9. CASE Quiet
  <2>1. UNCHANGED <<pumpAt, hand, count, cutoff, ended, stop, shown>>
    BY <1>9, QuietKeepsCapture DEF captureVars, pumpVars, progressVars, cancelVars
  <2>2. CASE SinkFails \/ UNCHANGED vars
    BY <1>6, <2>1, <2>2 DEF SinkFails, vars, loopVars, EndInv, Sweeping
  <2>3. CASE SelectTick
    <3>1. loopAt = "select" /\ ~cancelled
      BY <2>3, TickMoves
    <3>2. ~stop
      BY <3>1 DEF CancelInv, LoopInv, Cancelling
    <3> QED BY <1>6, <2>1, <3>1, <3>2
  <2>4. CASE LoopEncode
    <3>1. /\ loopAt = "encode" /\ afterWork' = afterWork
          /\ loopAt' \in {afterWork, "encode", "exit"}
      BY <2>4 DEF LoopEncode, EncodeThen, Goto, Return
    <3>2. Sweeping' => Sweeping
      BY <3>1 DEF Sweeping, PipelineTypeOK
    <3> QED BY <1>6, <2>1, <3>1, <3>2 DEF EndInv
  <2>5. CASE LoopExpire
    BY <1>6, <2>1, <2>5 DEF LoopExpire, EncodeThen, Goto, Return, EndInv, Sweeping
  <2>6. CASE LoopFlush \/ SelectSinkFailed \/ LoopEnds \/ SelectCancel \/ Exit \/ DnsFinish
               \/ CloseOutput
    <3>1. loopAt # "stop" /\ loopAt' \in {"select", "exit", "finish", "dnsFinish", "close", "done"}
      BY <2>6 DEF LoopFlush, SelectSinkFailed, LoopEnds, SelectCancel, Exit, DnsFinish,
                  CloseOutput, EncodeThen, Goto, Return, Selecting
    <3> QED BY <1>6, <2>1, <3>1 DEF Sweeping
  <2>7. CASE FinalizePending
    BY <1>6, <2>1, <2>7, FinalizeMoves DEF Sweeping
  <2>8. CASE ReceiveClosed
    <3>1. loopAt' = loopAt /\ loopAt = "select"
      BY <2>8 DEF ReceiveClosed, Selecting
    <3> QED BY <1>6, <2>1, <3>1 DEF Sweeping
  <2> QED BY <1>9, <2>2, <2>3, <2>4, <2>5, <2>6, <2>7, <2>8 DEF Quiet
<1> QED BY <1>3, <1>4, <1>5, <1>7, <1>8, <1>9, StepKinds

-----------------------------------------------------------------------------
LEMMA PipelineInvInit ==
  Init => PipelineInv
<1> SUFFICES ASSUME Init PROVE PipelineInv
  OBVIOUS
<1>1. PipelineTypeOK
  BY PipelineTypeInit
<1>2. InFlight = <<>> /\ Len(InFlight) = 0
  <2>1. InFlight = <<>> \o <<>> \o <<>> \o <<>>
    BY DEF Init, InFlight
  <2> QED BY <2>1, ConcatEmptySeq, EmptySeq
<1>3. CancelInv /\ LoopInv
  BY <1>2 DEF Init, CancelInv, LoopInv, Deferred, Cancelling
<1>4. Numbered /\ FlightInv /\ EndInv
  BY <1>2 DEF Init, Numbered, FlightInv, EndInv, Sweeping
<1>5. Stamped
  BY DEF Init, Stamped
<1> QED BY <1>1, <1>3, <1>4, <1>5 DEF PipelineInv

LEMMA PipelineInvNext ==
  PipelineInv /\ [Next]_vars => PipelineInv'
<1> SUFFICES ASSUME PipelineInv, [Next]_vars PROVE PipelineInv'
  OBVIOUS
<1>1. /\ PipelineTypeOK /\ CancelInv /\ Numbered /\ Stamped /\ FlightInv /\ LoopInv
      /\ EndInv
  BY DEF PipelineInv
<1>2. PipelineTypeOK'
  BY <1>1, PipelineTypeNext
<1>3. CancelInv' /\ LoopInv'
  BY <1>1, CancelNext, LoopNext
<1>4. Numbered' /\ Stamped' /\ FlightInv'
  BY <1>1, <1>2, NumberedNext, StampedNext, FlightNext
<1>5. EndInv'
  BY <1>1, <1>2, <1>4, EndNext
<1> QED BY <1>2, <1>3, <1>4, <1>5 DEF PipelineInv

LEMMA PipelineInvariant == Spec => []PipelineInv
  BY PipelineInvInit, PipelineInvNext, PTL DEF Spec

(* However the pump, the loop and a cancellation interleave, every event   *)
(* Read returned is processed once and in order or still on its way to the *)
(* loop, and its stamp holds the watermark back until the loop takes it.   *)
THEOREM PipelineAccountsForReads == Spec => []CaptureAccounted
<1>1. PipelineInv => CaptureAccounted
  <2> SUFFICES ASSUME PipelineInv PROVE CaptureAccounted
    OBVIOUS
  <2>1. PipelineTypeOK /\ FlightInv /\ InFlight \in Seq(Event)
    BY InFlightType DEF PipelineInv
  <2>2. outstanding \in Seq(Times) /\ DOMAIN outstanding = 1..Len(outstanding)
    BY <2>1, LenProperties DEF PipelineTypeOK
  <2>3. outstanding = [i \in 1..Len(InFlight) |-> InFlight[i].at]
    BY <2>1, <2>2, LenProperties DEF FlightInv
  <2>4. Len(reads) \in Nat /\ delivered \in Nat
    BY <2>1 DEF PipelineTypeOK
  <2> QED BY <2>1, <2>3, <2>4 DEF CaptureAccounted, FlightInv
<1> QED BY <1>1, PipelineInvariant, PTL

-----------------------------------------------------------------------------
(***************************************************************************)
(* The records: an L4 event the loop took waits, is being written or was   *)
(* written, and is in one of these places only.                            *)
(***************************************************************************)
LEMMA ReadFacts ==
  ASSUME PipelineInv, NEW i \in 1..Len(reads)
  PROVE  /\ reads[i] \in Event /\ reads[i].id = i /\ ~IsErr(reads[i])
         /\ reads[i].at \in Times /\ reads[i].at \in Nat /\ 0 < reads[i].at
         /\ reads[i].at <= shown[i]
         /\ i \in Ids
         /\ reads[i].kind \in L4Kinds => reads[i].subject \in Flows
<1>1. reads[i] \in Event
  BY ElementOfSeq DEF PipelineInv, PipelineTypeOK
<1>2. reads[i].id = i /\ ~IsErr(reads[i]) /\ reads[i].subject \in Subjects(reads[i].kind)
  BY DEF PipelineInv, Numbered
<1>3. reads[i].at \in Times /\ reads[i].id \in Ids \cup {0}
  BY <1>1 DEF Event
<1>4. i # 0
  BY DEF PipelineInv, PipelineTypeOK
<1>5. 0 < reads[i].at /\ reads[i].at <= shown[i]
  BY DEF PipelineInv, Stamped
<1> QED BY <1>1, <1>2, <1>3, <1>4, <1>5, ConstantFacts DEF Subjects, L4Kinds

LEMMA ReadsKept ==
  ASSUME PipelineInv, [Next]_vars
  PROVE  /\ Len(reads) \in Nat /\ Len(reads) <= Len(reads') /\ Len(reads') \in Nat
         /\ \A i \in 1..Len(reads) : reads'[i] = reads[i]
<1>1. PipelineTypeOK /\ Len(reads) \in Nat
  BY DEF PipelineInv, PipelineTypeOK
<1>2. CASE PumpAccept /\ ~IsErr(hand)
  BY <1>1, <1>2, AcceptAppends
<1>3. CASE ~(PumpAccept /\ ~IsErr(hand))
  <2>1. reads' = reads
    BY <1>3, OthersKeepReads DEF PumpAccept
  <2> QED BY <1>1, <2>1
<1> QED BY <1>2, <1>3

(* The event that was taken is the next one that was read.                 *)
LEMMA TakenIsNext ==
  ASSUME PipelineInv, Take(Head(Source)), ~IsErr(Head(Source))
  PROVE  /\ delivered + 1 \in 1..Len(reads) /\ delivered \in Nat
         /\ Head(Source) = reads[delivered + 1]
         /\ delivered' = delivered + 1 /\ reads' = reads
         /\ ~returning /\ ~failed /\ work = {} /\ loopAt = "select"
<1>1. PipelineTypeOK /\ CancelInv /\ LoopInv /\ FlightInv
  BY DEF PipelineInv
<1>2. /\ InFlight # <<>> /\ InFlight \in Seq(Event) /\ Head(Source) = Head(InFlight)
  BY <1>1, TakeLeavesFlight, InFlightType
<1>3. Len(InFlight) \in Nat \ {0} /\ Head(InFlight) = InFlight[1]
  BY <1>2, EmptySeq
<1>4. Len(reads) \in Nat /\ delivered \in Nat /\ delivered <= Len(reads)
  BY <1>1 DEF PipelineTypeOK, FlightInv
<1>5. Len(reads) # delivered
  BY <1>1, <1>2, <1>3, <1>4 DEF FlightInv
<1>6. 1 \in 1..(Len(reads) - delivered) /\ delivered + 1 \in 1..Len(reads)
  BY <1>4, <1>5
<1>7. InFlight[1] = reads[delivered + 1]
  BY <1>1, <1>6 DEF FlightInv
<1>8. delivered' = delivered + 1 /\ reads' = reads /\ loopAt = "select"
  BY DEF Take, OthersIdle, envVars, Selecting
<1>9. ~returning /\ ~failed /\ work = {}
  BY <1>1, <1>8 DEF LoopInv
<1> QED BY <1>2, <1>3, <1>4, <1>6, <1>7, <1>8, <1>9

(* Steps that move no record: the loop may have taken an event of another  *)
(* kind.                                                                   *)
LEMMA RecordsKept ==
  ASSUME PipelineInv, RecordInv, [Next]_vars,
         UNCHANGED <<work, pending, encoded, accepted>>,
         \/ delivered' = delivered
         \/ delivered' = delivered + 1 /\ delivered + 1 \in 1..Len(reads)
              /\ reads[delivered + 1].kind \notin L4Kinds
  PROVE  RecordInv'
<1>1. /\ Len(reads) \in Nat /\ delivered \in Nat /\ delivered <= Len(reads)
      /\ \A i \in 1..Len(reads) : reads'[i] = reads[i]
  BY ReadsKept DEF PipelineInv, PipelineTypeOK, FlightInv
<1>2. ASSUME NEW r, Represents(r)
      PROVE  r.id \in 1..delivered' /\ reads'[r.id].kind \in L4Kinds
             /\ r.flow = reads'[r.id].subject /\ r.at = reads'[r.id].at
  BY <1>1, <1>2 DEF Represents
<1>3. ASSUME NEW i \in 1..delivered', reads'[i].kind \in L4Kinds
      PROVE  \E r \in work \cup pending \cup encoded : r.id = i
  <2>1. i \in 1..delivered /\ reads'[i] = reads[i]
    BY <1>1, <1>3
  <2> QED BY <1>3, <2>1 DEF RecordInv
<1> QED BY <1>2, <1>3 DEF RecordInv, Represents, Distinct, Apart

LEMMA RecordFields ==
  \A i, via, reason :
    /\ Record(i, via, reason).id = i.id
    /\ Record(i, via, reason).flow = i.flow
    /\ Record(i, via, reason).at = i.at
    /\ Record(i, via, reason).via = via
  BY DEF Record

LEMMA RecordsEncoded ==
  ASSUME PipelineInv, RecordInv, LoopEncode
  PROVE  RecordInv'
<1>1. PICK r \in work :
        /\ accepted' \in {accepted, accepted \cup {ObservationOf(r)}}
        /\ encoded' = encoded \cup {r} /\ work' = work \ {r}
  BY DEF LoopEncode, Add, Reject, streamVars
<1>2. UNCHANGED <<pending, reads, delivered>> /\ ObservationOf(r).id = r.id
  BY DEF LoopEncode, OthersIdle, envVars, ObservationOf
<1>3. \A x : Represents(x) => Represents(x)'
  BY <1>2 DEF Represents
<1>4. /\ \A x \in work' : x.via \in Ids \cup {Unresolved} /\ Represents(x)
      /\ \A x \in pending' : Represents(x)
      /\ \A x \in encoded' : Represents(x)
  BY <1>1, <1>2 DEF RecordInv
<1>5. Distinct(work') /\ Distinct(pending') /\ Distinct(encoded')
  BY <1>1, <1>2 DEF RecordInv, Distinct, Apart
<1>6. Apart(work', pending') /\ Apart(work', encoded') /\ Apart(pending', encoded')
  BY <1>1, <1>2 DEF RecordInv, Distinct, Apart
<1>7. \A i \in 1..delivered' :
        reads'[i].kind \in L4Kinds => \E x \in work' \cup pending' \cup encoded' : x.id = i
  BY <1>1, <1>2 DEF RecordInv
<1>8. \A o \in accepted' : \E x \in encoded' : x.id = o.id
  BY <1>1, <1>2 DEF RecordInv
<1> QED BY <1>2, <1>3, <1>4, <1>5, <1>6, <1>7, <1>8 DEF RecordInv, Distinct, Apart

(* Some of those that wait are written now, the others wait on.            *)
LEMMA RecordsSettled ==
  ASSUME PipelineInv, RecordInv, work = {}, NEW settled \in SUBSET pending,
         NEW via \in [settled -> Ids \cup {Unresolved}], NEW reason,
         work' = {Record(i, via[i], reason) : i \in settled},
         \/ pending' = Retried(settled)
         \/ pending' = {} /\ settled = pending,
         UNCHANGED <<encoded, accepted, reads, delivered>>
  PROVE  RecordInv'
<1>1. \A i \in pending : /\ i \in Item /\ i.id \in Ids /\ i.flow \in Flows /\ i.at \in Times
                         /\ i.attempts \in Nat
  BY DEF RecordInv, Item
<1>2. \A r \in work' : \E i \in settled :
        r.id = i.id /\ r.flow = i.flow /\ r.at = i.at /\ r.via = via[i]
          /\ r = Record(i, via[i], reason)
  BY RecordFields
<1>3. \A i \in settled : \E r \in work' : r.id = i.id
  <2> TAKE i \in settled
  <2>1. Record(i, via[i], reason) \in work'
    OBVIOUS
  <2> QED BY <2>1, RecordFields
<1> DEFINE again(i) == [i EXCEPT !.attempts = @ + 1]
<1>4. \A i \in pending : /\ again(i) \in Item /\ again(i).id = i.id
                         /\ again(i).flow = i.flow /\ again(i).at = i.at
  BY <1>1 DEF Item
<1>a. \/ pending' = {again(i) : i \in pending \ settled}
      \/ pending' = {} /\ settled = pending
  BY DEF Retried
<1> HIDE DEF again
<1>5. \A p \in pending' : p \in Item /\ \E i \in pending \ settled :
        p.id = i.id /\ p.flow = i.flow /\ p.at = i.at /\ p = again(i)
  BY <1>4, <1>a
<1>6. \A i \in pending \ settled : \E p \in pending' : p.id = i.id
  BY <1>4, <1>a
<1>7. \A x, y : (Represents(x) /\ y.id = x.id /\ y.flow = x.flow /\ y.at = x.at)
                  => Represents(y)'
  BY DEF Represents
<1>8. /\ pending' \subseteq Item
      /\ \A r \in work' : r.via \in Ids \cup {Unresolved} /\ Represents(r)'
      /\ \A r \in pending' : Represents(r)'
      /\ \A r \in encoded' : Represents(r)'
  BY <1>2, <1>5, <1>7 DEF RecordInv
<1>9. Distinct(work') /\ Distinct(pending') /\ Distinct(encoded')
  BY <1>2, <1>5 DEF RecordInv, Distinct
<1>10. Apart(work', pending') /\ Apart(work', encoded') /\ Apart(pending', encoded')
  BY <1>2, <1>5 DEF RecordInv, Distinct, Apart
<1>11. ASSUME NEW i \in 1..delivered', reads'[i].kind \in L4Kinds
       PROVE  \E r \in work' \cup pending' \cup encoded' : r.id = i
  <2>1. PICK r \in pending \cup encoded : r.id = i
    BY <1>11 DEF RecordInv
  <2> QED BY <1>3, <1>6, <2>1
<1>12. \A o \in accepted' : \E r \in encoded' : r.id = o.id
  BY DEF RecordInv
<1> QED BY <1>8, <1>9, <1>10, <1>11, <1>12 DEF RecordInv, Distinct, Apart

LEMMA ResolveType ==
  ASSUME PipelineInv, NEW f \in Flows
  PROVE  /\ Resolve(f) \subseteq Ids \cup {Unresolved}
         /\ \A item : item.flow = f => ResolveAfter(item) \subseteq Ids \cup {Unresolved}
<1>1. \A i \in 1..Len(reads) : i \in Ids
  BY ReadFacts
<1>2. Tracked(f) \subseteq Ids \cup {Unresolved}
  BY <1>1 DEF Tracked, PipelineInv, PipelineTypeOK
<1> QED BY <1>2 DEF Resolve, ResolveAfter

LEMMA RecordsTicked ==
  ASSUME PipelineInv, RecordInv, SelectTick
  PROVE  RecordInv'
<1>1. PICK v \in [pending -> Ids \cup {Unresolved}], overdue \in SUBSET pending :
        LET settled == {i \in pending : v[i] # Unresolved \/ i \in overdue} IN
        /\ pending' = Retried(settled)
        /\ work' = {Record(i, v[i], "retry_deadline") : i \in settled}
  BY DEF SelectTick, EncodeAll
<1> DEFINE settled == {i \in pending : v[i] # Unresolved \/ i \in overdue}
           via == [i \in settled |-> v[i]]
<1>2. settled \in SUBSET pending /\ via \in [settled -> Ids \cup {Unresolved}]
  OBVIOUS
<1>3. work' = {Record(i, via[i], "retry_deadline") : i \in settled}
  BY <1>1
<1>4. pending' = Retried(settled)
  BY <1>1
<1>5. UNCHANGED <<encoded, accepted, reads, delivered>> /\ work = {}
  BY TickMoves DEF SelectTick, OthersIdle, envVars, outVars, streamVars, PipelineInv, LoopInv
<1> HIDE DEF settled, via
<1> QED BY <1>2, <1>3, <1>4, <1>5, RecordsSettled

LEMMA RecordsFinalized ==
  ASSUME PipelineInv, RecordInv, FinalizePending
  PROVE  RecordInv'
<1> DEFINE via == [i \in pending |-> Unresolved]
<1>1. work' = {Record(i, via[i], "capture_ended") : i \in pending} /\ pending' = {}
  BY DEF FinalizePending, EncodeAll, CaptureEnded
<1>2. via \in [pending -> Ids \cup {Unresolved}]
  OBVIOUS
<1>3. UNCHANGED <<encoded, accepted, reads, delivered>> /\ work = {}
  BY FinalizeMoves DEF FinalizePending, OthersIdle, envVars, outVars, streamVars, PipelineInv,
                       LoopInv
<1> HIDE DEF via
<1> QED BY <1>1, <1>2, <1>3, RecordsSettled

(* A new observation is written at once or waits; those it supersedes are  *)
(* written.                                                                *)
LEMMA RecordsReceived ==
  ASSUME PipelineInv, RecordInv, Take(Head(Source)), Head(Source).kind \in L4Kinds,
         NEW superseded \in SUBSET pending,
         NEW item, item.id = Head(Source).id, item.flow = Head(Source).subject,
         item.at = Head(Source).at,
         NEW via \in Ids \cup {Unresolved}, NEW reason, NEW waits \in BOOLEAN,
         waits => item \in Item,
         pending' = IF waits THEN (pending \ superseded) \cup {item} ELSE pending \ superseded,
         work' = {Record(i, Unresolved, "tuple_reused") : i \in superseded}
                   \cup (IF waits THEN {} ELSE {Record(item, via, reason)}),
         UNCHANGED <<encoded, accepted>>
  PROVE  RecordInv'
<1>0. ~IsErr(Head(Source))
  BY DEF IsErr, L4Kinds
<1>1. /\ delivered + 1 \in 1..Len(reads) /\ delivered \in Nat
      /\ Head(Source) = reads[delivered + 1]
      /\ delivered' = delivered + 1 /\ reads' = reads /\ work = {}
  BY <1>0, TakenIsNext
<1>2. item.id = delivered + 1
  BY <1>1, ReadFacts
<1>3. /\ item.flow = reads[item.id].subject /\ item.at = reads[item.id].at
      /\ reads[item.id].kind \in L4Kinds
  BY <1>1, <1>2
<1>4. \A r \in pending \cup encoded : Represents(r) /\ r.id # item.id /\ r.id \in 1..delivered
  BY <1>1, <1>2 DEF RecordInv, Represents
<1>5. \A x, y : (Represents(x) /\ y.id = x.id /\ y.flow = x.flow /\ y.at = x.at)
                  => Represents(y)'
  BY <1>1 DEF Represents
<1>6. \A y : (y.id = item.id /\ y.flow = item.flow /\ y.at = item.at) => Represents(y)'
  BY <1>1, <1>2, <1>3 DEF Represents
<1>7. \A r \in work' :
        \/ \E i \in superseded : r.id = i.id /\ r.flow = i.flow /\ r.at = i.at
              /\ r.via = Unresolved /\ r = Record(i, Unresolved, "tuple_reused")
        \/ ~waits /\ r.id = item.id /\ r.flow = item.flow /\ r.at = item.at /\ r.via = via
              /\ r = Record(item, via, reason)
  BY RecordFields
<1>8. \A r \in pending' : r \in pending \ superseded \/ (waits /\ r = item)
  OBVIOUS
<1>9. /\ pending' \subseteq Item
      /\ \A r \in work' : r.via \in Ids \cup {Unresolved} /\ Represents(r)'
      /\ \A r \in pending' : Represents(r)'
      /\ \A r \in encoded' : Represents(r)'
  <2>1. \A r \in work' : r.via \in Ids \cup {Unresolved} /\ Represents(r)'
    BY <1>4, <1>5, <1>6, <1>7
  <2>2. \A r \in pending' : Represents(r)'
    BY <1>4, <1>5, <1>6, <1>8
  <2>3. \A r \in encoded' : Represents(r)'
    BY <1>4, <1>5
  <2> QED BY <1>8, <2>1, <2>2, <2>3 DEF RecordInv
<1>10. Distinct(work') /\ Distinct(pending') /\ Distinct(encoded')
  <2>1. Distinct(work')
    BY <1>4, <1>7 DEF RecordInv, Distinct
  <2>2. Distinct(pending')
    BY <1>4, <1>8 DEF RecordInv, Distinct
  <2> QED BY <2>1, <2>2 DEF RecordInv
<1>11. Apart(work', pending') /\ Apart(work', encoded') /\ Apart(pending', encoded')
  <2>1. Apart(work', pending')
    BY <1>4, <1>7, <1>8 DEF RecordInv, Distinct, Apart
  <2>2. Apart(work', encoded')
    BY <1>4, <1>7 DEF RecordInv, Apart
  <2>3. Apart(pending', encoded')
    BY <1>4, <1>8 DEF RecordInv, Apart
  <2> QED BY <2>1, <2>2, <2>3
<1>12. ASSUME NEW i \in 1..delivered', reads'[i].kind \in L4Kinds
       PROVE  \E r \in work' \cup pending' \cup encoded' : r.id = i
  <2>1. CASE i = item.id
    <3>1. CASE waits
      BY <2>1, <3>1
    <3>2. CASE ~waits
      <4>1. Record(item, via, reason) \in work'
        BY <3>2
      <4> QED BY <2>1, <4>1, RecordFields
    <3> QED BY <3>1, <3>2
  <2>2. CASE i # item.id
    <3>1. PICK r \in pending \cup encoded : r.id = i
      BY <1>1, <1>2, <1>12, <2>2 DEF RecordInv
    <3>2. CASE r \in superseded
      <4>1. Record(r, Unresolved, "tuple_reused") \in work'
        BY <3>2
      <4> QED BY <3>1, <4>1, RecordFields
    <3> QED BY <3>1, <3>2
  <2> QED BY <2>1, <2>2
<1>13. \A o \in accepted' : \E r \in encoded' : r.id = o.id
  BY DEF RecordInv
<1> QED BY <1>9, <1>10, <1>11, <1>12, <1>13 DEF RecordInv, Distinct, Apart

LEMMA RecordNext ==
  ASSUME PipelineInv, RecordInv, [Next]_vars
  PROVE  RecordInv'
<1>1. CASE ClockMoves
  BY <1>1, RecordsKept DEF ClockMoves, Tick, SetBack, loopVars, outVars, streamVars
<1>2. CASE Pump
  <2>1. UNCHANGED <<work, pending, encoded, accepted, delivered>>
    BY <1>2 DEF Pump, PumpLoop, PumpRead, PumpReadError, PumpAccept, PumpSend, PumpStopped,
                PumpUnchanged, loopVars, outVars, streamVars
  <2> QED BY <2>1, RecordsKept
<1>3. CASE ReceiveEvent
  <2>1. Take(Head(Source))
    BY <1>3, ReceiveTakes
  <2>2. CASE ReceiveError
    <3>1. UNCHANGED <<work, pending, encoded, accepted, delivered>>
      BY <2>2 DEF ReceiveError, Take, outVars, streamVars
    <3> QED BY <3>1, RecordsKept
  <2>3. CASE ReceiveL7 \/ ReceiveUnconvertible \/ ReceiveDns
    <3>1. /\ UNCHANGED <<work, pending, encoded, accepted>>
          /\ Head(Source).kind \in {"l7", "unconvertible", "dns_query", "dns_response"}
      BY <2>3 DEF ReceiveL7, ReceiveUnconvertible, ReceiveDns, outVars, streamVars
    <3>2. ~IsErr(Head(Source)) /\ Head(Source).kind \notin L4Kinds
      BY <3>1 DEF IsErr, L4Kinds
    <3> QED BY <2>1, <3>1, <3>2, TakenIsNext, RecordsKept
  <2>4. ASSUME Head(Source).kind \in L4Kinds
        PROVE  /\ Head(Source).subject \in Flows /\ Head(Source).id \in Ids
               /\ Head(Source).at \in Times
    <3>1. ~IsErr(Head(Source))
      BY <2>4 DEF IsErr, L4Kinds
    <3>2. Head(Source) = reads[delivered + 1] /\ delivered + 1 \in 1..Len(reads)
      BY <2>1, <3>1, TakenIsNext
    <3> QED BY <2>4, <3>2, ReadFacts
  <2>5. CASE ReceiveSample
    <3>1. Head(Source).kind \in L4Kinds
      BY <2>5 DEF ReceiveSample, L4Kinds
    <3> DEFINE item == [id |-> Head(Source).id, flow |-> Head(Source).subject,
                        at |-> Head(Source).at]
    <3>2. PICK via \in Resolve(Head(Source).subject) : work' = {Record(item, via, "")}
      BY <2>5 DEF ReceiveSample, EncodeAll
    <3>3. via \in Ids \cup {Unresolved}
      BY <2>4, <3>1, ResolveType
    <3>4. UNCHANGED <<pending, encoded, accepted>>
      BY <2>5 DEF ReceiveSample, outVars, streamVars
    <3>5. work' = {Record(i, Unresolved, "tuple_reused") : i \in {}}
                    \cup (IF FALSE THEN {} ELSE {Record(item, via, "")})
      BY <3>2
    <3>6. pending' = IF FALSE THEN (pending \ {}) \cup {item} ELSE pending \ {}
      BY <3>4
    <3>7. item.id = Head(Source).id /\ item.flow = Head(Source).subject
            /\ item.at = Head(Source).at
      OBVIOUS
    <3> HIDE DEF item
    <3> QED BY <2>1, <3>1, <3>3, <3>4, <3>5, <3>6, <3>7, RecordsReceived
  <2>6. CASE ReceiveConnect
    <3>1. Head(Source).kind \in L4Kinds
      BY <2>6 DEF ReceiveConnect, L4Kinds
    <3> DEFINE item == [id |-> Head(Source).id, flow |-> Head(Source).subject,
                        at |-> Head(Source).at, attempts |-> 1]
               superseded == Superseded(Head(Source).subject)
               waits(via) == via = Unresolved
                               /\ Cardinality(pending \ superseded) < MaxResolutions
    <3>2. PICK via \in ResolveAfter(item) :
            /\ pending' = IF waits(via) THEN (pending \ superseded) \cup {item}
                          ELSE pending \ superseded
            /\ work' = {Record(i, Unresolved, "tuple_reused") : i \in superseded}
                          \cup (IF waits(via) THEN {} ELSE {Record(item, via, "queue_full")})
      BY <2>6 DEF ReceiveConnect, EncodeAll
    <3>3. via \in Ids \cup {Unresolved}
      BY <2>4, <3>1, ResolveType
    <3>4. UNCHANGED <<encoded, accepted>>
      BY <2>6 DEF ReceiveConnect, outVars, streamVars
    <3>5. superseded \in SUBSET pending
      BY DEF Superseded
    <3>6. /\ item \in Item /\ item.id = Head(Source).id /\ item.flow = Head(Source).subject
          /\ item.at = Head(Source).at
      BY <2>4, <3>1 DEF Item
    <3>7. waits(via) \in BOOLEAN
      OBVIOUS
    <3> HIDE DEF item, superseded, waits
    <3> QED BY <2>1, <3>1, <3>2, <3>3, <3>4, <3>5, <3>6, <3>7, RecordsReceived
  <2> QED BY <1>3, <2>2, <2>3, <2>5, <2>6 DEF ReceiveEvent
<1>4. CASE Cancel
  <2>1. UNCHANGED <<work, pending, encoded, accepted, delivered>>
    BY <1>4 DEF Cancel, CancelFinish, CancelStop, CancelInterrupt, CancelJoin, loopVars, outVars,
                streamVars
  <2> QED BY <2>1, RecordsKept
<1>5. CASE Quiet
  <2>1. CASE LoopEncode
    BY <2>1, RecordsEncoded
  <2>2. CASE SelectTick
    BY <2>2, RecordsTicked
  <2>3. CASE FinalizePending
    BY <2>3, RecordsFinalized
  <2>4. CASE ~LoopEncode /\ ~SelectTick /\ ~FinalizePending
    <3>1. UNCHANGED <<work, pending, encoded, accepted, delivered>>
      BY <1>5, <2>4 DEF Quiet, SinkFails, ReceiveClosed, SelectSinkFailed, LoopExpire, LoopFlush,
                        Flush, LoopEnds, SelectCancel, Exit, DnsFinish, CloseOutput, Finish, vars,
                        loopVars, outVars, streamVars
    <3> QED BY <3>1, RecordsKept
  <2> QED BY <2>1, <2>2, <2>3, <2>4
<1> QED BY <1>1, <1>2, <1>3, <1>4, <1>5, StepKinds

LEMMA RecordInvariant == Spec => []RecordInv
<1>1. Init => RecordInv
  <2> SUFFICES ASSUME Init PROVE RecordInv
    OBVIOUS
  <2>1. work = {} /\ pending = {} /\ encoded = {} /\ accepted = {} /\ delivered = 0
    BY DEF Init, StreamInit
  <2> QED BY <2>1 DEF RecordInv, Distinct, Apart
<1>2. PipelineInv /\ RecordInv /\ [Next]_vars => RecordInv'
  BY RecordNext
<1> QED BY <1>1, <1>2, PipelineInvariant, PTL DEF Spec

(* A run that returns without an error of the loop has processed every     *)
(* event it captured and has written one record for each L4 event, however *)
(* the retries, superseding connects and the cancellation interleaved.     *)
THEOREM PipelineLosesNothing == Spec => []NothingLost
<1>1. PipelineInv /\ RecordInv => NothingLost
  <2> SUFFICES ASSUME PipelineInv, RecordInv, loopAt = "done", ~failed
               PROVE  /\ delivered = Len(reads)
                      /\ {r.id : r \in encoded} = L4Reads
                      /\ Cardinality(encoded) = Cardinality(L4Reads)
    BY DEF NothingLost
  <2>1. returning /\ streamNil /\ InFlight = <<>> /\ pending = {} /\ work = {}
    BY DEF PipelineInv, LoopInv, Deferred
  <2>2. Len(InFlight) = 0 /\ Len(reads) \in Nat /\ delivered \in Nat
    BY <2>1, EmptySeq DEF PipelineInv, PipelineTypeOK
  <2>3. delivered = Len(reads)
    BY <2>2 DEF PipelineInv, FlightInv
  <2>4. \A r \in encoded : r.id \in L4Reads
    BY <2>3 DEF RecordInv, Represents, L4Reads, L4Kinds
  <2>5. \A i \in L4Reads : \E r \in encoded : r.id = i
    BY <2>1, <2>3 DEF RecordInv, L4Reads, L4Kinds
  <2>6. Cardinality(encoded) = Cardinality(L4Reads)
    <3> DEFINE f == [r \in encoded |-> r.id]
    <3>1. IsFiniteSet(L4Reads)
      <4>1. IsFiniteSet(1..Len(reads))
        BY <2>2, FS_Interval
      <4>2. L4Reads \subseteq 1..Len(reads)
        BY DEF L4Reads
      <4> QED BY <4>1, <4>2, FS_Subset
    <3>2. f \in Injection(encoded, L4Reads)
      BY <2>4 DEF Injection, IsInjective, RecordInv, Distinct
    <3>3. f \in Surjection(encoded, L4Reads)
      BY <2>4, <2>5 DEF Surjection
    <3> QED BY <3>1, <3>2, <3>3, FS_Injection
  <2> QED BY <2>3, <2>4, <2>5, <2>6
<1> QED BY <1>1, PipelineInvariant, RecordInvariant, PTL

-----------------------------------------------------------------------------
(***************************************************************************)
(* The loop's use of the window stream.                                    *)
(***************************************************************************)
LEMMA CaptureTimeType ==
  ASSUME PipelineInv
  PROVE  CaptureTime \in Times /\ CaptureTime \in Nat
  BY ConstantFacts DEF PipelineInv, PipelineTypeOK, CaptureTime

(* A record that is about to be written gives a new observation.           *)
LEMMA ObservationIsNew ==
  ASSUME PipelineInv, RecordInv, NEW r \in work
  PROVE  /\ ObservationOf(r) \in Observation \ accepted
         /\ ObservationOf(r).at = reads[r.id].at
         /\ r.id \in 1..Len(reads) /\ Open(r.id)
<1>1. /\ r.id \in 1..delivered /\ r.via \in Ids \cup {Unresolved}
      /\ reads[r.id].kind \in L4Kinds /\ r.flow = reads[r.id].subject
      /\ r.at = reads[r.id].at
  BY DEF RecordInv, Represents
<1>2. r.id \in 1..Len(reads)
  BY <1>1 DEF PipelineInv, PipelineTypeOK, FlightInv
<1>3. r.id \in Ids /\ r.flow \in Flows /\ r.at \in Times
  BY <1>1, <1>2, ReadFacts
<1>4. <<r.flow, r.via>> \in Identities
  BY <1>1, <1>3, PipelineAssumption
<1>5. NoSamples \in Rtts[r.id] /\ PointDistribution(r.id) \in Rtts[r.id]
  BY <1>3, PipelineAssumption
<1>6. ObservationOf(r) \in [id : {r.id}, identity : Identities, at : Times, rtt : Rtts[r.id]]
  BY <1>3, <1>4, <1>5 DEF ObservationOf
<1>7. ObservationOf(r) \in Observation
  BY <1>3, <1>6 DEF Observation
<1>8. ObservationOf(r).id = r.id /\ ObservationOf(r).at = r.at
  BY DEF ObservationOf
<1>9. ObservationOf(r) \notin accepted
  BY <1>8 DEF RecordInv, Apart
<1>10. Open(r.id)
  BY <1>1 DEF Open, RecordInv, Apart
<1> QED BY <1>1, <1>2, <1>7, <1>8, <1>9, <1>10

(* The event loop uses the window stream as FlowStream specifies: it never *)
(* adds an observation twice, flushes at instants of the capture, and      *)
(* finishes once.                                                          *)
THEOREM PipelineImplementsStream == Spec => ImplementsStream
<1>1. Init => StreamInit
  BY DEF Init
<1>2. PipelineInv /\ RecordInv /\ [Next]_vars => [StreamNext]_streamVars
  <2> SUFFICES ASSUME PipelineInv, RecordInv, [Next]_vars PROVE [StreamNext]_streamVars
    OBVIOUS
  <2>1. CASE LoopEncode
    <3>1. PICK r \in work : Add(ObservationOf(r)) \/ Reject(ObservationOf(r))
      BY <2>1 DEF LoopEncode
    <3>2. ObservationOf(r) \in Observation \ accepted
      BY ObservationIsNew
    <3> QED BY <3>1, <3>2 DEF StreamNext
  <2>2. CASE LoopFlush
    BY <2>2 DEF LoopFlush, StreamNext
  <2>3. CASE CloseOutput
    BY <2>3, CaptureTimeType DEF CloseOutput, StreamNext
  <2>4. CASE ~LoopEncode /\ ~LoopFlush /\ ~CloseOutput
    <3>1. CASE ClockMoves
      BY <3>1 DEF ClockMoves, Tick, SetBack
    <3>2. CASE Pump
      BY <3>2 DEF Pump, PumpLoop, PumpRead, PumpReadError, PumpAccept, PumpSend, PumpStopped,
                  PumpUnchanged
    <3>3. CASE ReceiveEvent
      BY <3>3 DEF ReceiveEvent, ReceiveError, ReceiveL7, ReceiveUnconvertible, ReceiveDns,
                  ReceiveSample, ReceiveConnect
    <3>4. CASE Cancel
      BY <3>4 DEF Cancel, CancelFinish, CancelStop, CancelInterrupt, CancelJoin
    <3>5. CASE Quiet
      BY <2>4, <3>5 DEF Quiet, SinkFails, ReceiveClosed, SelectSinkFailed, SelectTick, LoopExpire,
                  LoopEnds, FinalizePending, SelectCancel, Exit, DnsFinish, vars
    <3> QED BY <3>1, <3>2, <3>3, <3>4, <3>5, StepKinds
  <2> QED BY <2>1, <2>2, <2>3, <2>4
<1> QED BY <1>1, <1>2, PipelineInvariant, RecordInvariant, PTL
        DEF Spec, ImplementsStream, StreamSpec

(* What was proved of the stream on its own holds of the stream the loop   *)
(* drives: no window reaches the output twice.                             *)
THEOREM PipelineEmitsOnce == Spec => []EmittedOnce
  BY PipelineImplementsStream, StreamEmitsOnce, PTL DEF ImplementsStream

(* The windows that the loop's Add, Flush and Finish calls keep and return *)
(* are the batch aggregation of the observations it added, and all of it   *)
(* once the loop has called Finish.                                        *)
THEOREM PipelineMatchesAggregate == Spec => [](MatchesAggregate /\ FinishedOutput)
  BY PipelineImplementsStream, StreamMatchesAggregate, StreamFinishedOutput, PTL
     DEF ImplementsStream

-----------------------------------------------------------------------------
(***************************************************************************)
(* The watermark and the events on their way.                              *)
(***************************************************************************)

(* Deliveries and records are never taken back, and a returning loop stays *)
(* one.                                                                    *)
LEMMA LoopProgresses ==
  ASSUME PipelineInv, [Next]_vars
  PROVE  /\ encoded \subseteq encoded' /\ (returning => returning')
         /\ delivered \in Nat /\ delivered <= delivered'
         /\ ~LoopEncode /\ ~LoopFlush /\ ~CloseOutput => stream' = stream
<1>0. delivered \in Nat
  BY DEF PipelineInv, PipelineTypeOK
<1>1. CASE ClockMoves
  BY <1>0, <1>1 DEF ClockMoves, Tick, SetBack, loopVars, outVars, streamVars
<1>2. CASE Pump
  BY <1>0, <1>2 DEF Pump, PumpLoop, PumpRead, PumpReadError, PumpAccept, PumpSend, PumpStopped,
              PumpUnchanged, loopVars, outVars, streamVars
<1>3. CASE ReceiveEvent
  <2>1. Take(Head(Source))
    BY <1>3, ReceiveTakes
  <2>2. encoded' = encoded /\ stream' = stream
    BY <1>3 DEF ReceiveEvent, ReceiveError, ReceiveL7, ReceiveUnconvertible, ReceiveDns,
                ReceiveSample, ReceiveConnect, outVars, streamVars
  <2> QED BY <1>0, <2>1, <2>2 DEF Take
<1>4. CASE Cancel
  BY <1>0, <1>4 DEF Cancel, CancelFinish, CancelStop, CancelInterrupt, CancelJoin, loopVars,
                    outVars, streamVars
<1>5. CASE Quiet
  <2>1. delivered' = delivered
    BY <1>5, QuietKeepsCapture DEF captureVars
  <2>2. CASE LoopEncode
    <3>1. \E r \in work : encoded' = encoded \cup {r}
      BY <2>2 DEF LoopEncode
    <3>2. returning' = returning
      BY <2>2 DEF LoopEncode
    <3> QED BY <1>0, <2>1, <2>2, <3>1, <3>2
  <2>3. CASE ~LoopEncode
    <3>1. encoded' = encoded /\ (returning => returning')
      BY <1>5, <2>3
      DEF Quiet, SinkFails, ReceiveClosed, SelectSinkFailed, SelectTick, LoopExpire, LoopFlush,
          LoopEnds, FinalizePending, SelectCancel, Exit, DnsFinish, CloseOutput, vars, loopVars,
          outVars
    <3>2. ~LoopFlush /\ ~CloseOutput => stream' = stream
      BY <1>5, <2>3
      DEF Quiet, SinkFails, ReceiveClosed, SelectSinkFailed, SelectTick, LoopExpire,
          LoopEnds, FinalizePending, SelectCancel, Exit, DnsFinish, vars, streamVars
    <3> QED BY <1>0, <2>1, <3>1, <3>2
  <2> QED BY <2>2, <2>3
<1> QED BY <1>1, <1>2, <1>3, <1>4, <1>5, StepKinds

LEMMA ShownFacts ==
  ASSUME PipelineInv
  PROVE  /\ Len(shown) = Len(reads) + 1 /\ Len(reads) \in Nat
         /\ delivered \in Nat /\ delivered <= Len(reads)
         /\ \A k \in 1..Len(shown) : shown[k] \in Nat
<1>1. \A k \in 1..Len(shown) : shown[k] \in Times
  BY ElementOfSeq DEF PipelineInv, PipelineTypeOK
<1>2. Len(reads) \in Nat /\ delivered \in Nat
  BY LenProperties DEF PipelineInv, PipelineTypeOK
<1>3. Len(shown) = Len(reads) + 1 /\ delivered <= Len(reads)
  BY DEF PipelineInv, Stamped, FlightInv
<1> QED BY <1>1, <1>2, <1>3, ConstantFacts

(* When the loop asks for the watermark, the clock has shown it before the *)
(* next event that the loop will take was stamped.                         *)
LEMMA WatermarkShown ==
  ASSUME PipelineInv, Sweeping
  PROVE  Watermark \in Times /\ Watermark \in Nat /\ Watermark <= shown[delivered + 1]
<1>1. /\ Len(shown) = Len(reads) + 1 /\ Len(reads) \in Nat
      /\ delivered \in Nat /\ delivered <= Len(reads)
  BY ShownFacts
<1>2. outstanding \in Seq(Times) /\ Len(outstanding) = Len(InFlight)
  BY DEF PipelineInv, PipelineTypeOK, FlightInv
<1>3. CASE outstanding = <<>>
  <2>1. Len(outstanding) = 0
    BY <1>3, EmptySeq
  <2>2. delivered + 1 = Len(shown)
    BY <1>1, <1>2, <2>1 DEF PipelineInv, FlightInv
  <2>3. ended => cutoff <= shown[Len(shown)]
    BY DEF PipelineInv, EndInv, Sweeping
  <2>4. clock <= shown[Len(shown)]
    BY DEF PipelineInv, Stamped
  <2> QED BY <1>3, <2>2, <2>3, <2>4, CaptureTimeType DEF Watermark, CaptureTime
<1>4. CASE outstanding # <<>>
  <2>1. Len(outstanding) \in Nat \ {0} /\ Head(outstanding) = outstanding[1]
    BY <1>2, <1>4, EmptySeq
  <2>2. 1 \in 1..Len(outstanding)
    BY <2>1
  <2>3. outstanding[1] <= shown[delivered + 1] /\ outstanding[1] \in Times
    BY <1>2, <2>2, ElementOfSeq DEF PipelineInv, Stamped
  <2> QED BY <1>4, <2>1, <2>3, ConstantFacts DEF Watermark
<1> QED BY <1>3, <1>4

LEMMA WatermarkNext ==
  ASSUME PipelineInv, PipelineInv', RecordInv, WatermarkInv, [Next]_vars
  PROVE  WatermarkInv'
<1>1. /\ Len(reads) \in Nat /\ Len(reads) <= Len(reads') /\ Len(reads') \in Nat
      /\ \A i \in 1..Len(reads) : reads'[i] = reads[i]
  BY ReadsKept
<1>2. /\ encoded \subseteq encoded' /\ (returning => returning')
      /\ delivered \in Nat /\ delivered <= delivered' /\ delivered' \in Nat
  BY LoopProgresses DEF PipelineInv, PipelineTypeOK
<1>3. /\ Len(shown) = Len(reads) + 1 /\ delivered <= Len(reads)
      /\ Len(shown') = Len(reads') + 1
  BY ShownFacts DEF PipelineInv, Stamped
<1>4. \A k \in 1..Len(shown) : shown[k] \in Nat /\ shown'[k] \in Nat /\ shown[k] <= shown'[k]
  BY ShownGrows DEF PipelineInv
<1>5. AllowedLateness \in Nat /\ stream.watermark \in Int
  BY StreamConfigAssumption DEF WatermarkInv
<1>6. \A i \in 1..Len(shown) : Open(i)' => Open(i)
  BY <1>1, <1>2, <1>3 DEF Open
<1>7. ASSUME stream'.watermark = stream.watermark, stream'.hasWatermark = stream.hasWatermark,
             stream'.finished = stream.finished
      PROVE  WatermarkInv'
  <2>1. ASSUME ~returning', NEW i \in 1..Len(shown'), Open(i)', stream'.hasWatermark
        PROVE  \E k \in 1..i : stream'.watermark + AllowedLateness <= shown'[k]
    <3>1. PICK j \in 1..Len(shown) : j <= i /\ Behind(j)
      <4>1. CASE i \in 1..Len(shown)
        BY <1>2, <1>6, <2>1, <4>1 DEF WatermarkInv
      <4>2. CASE i \notin 1..Len(shown)
        <5>1. Len(shown) \in 1..Len(shown) /\ Len(shown) <= i /\ Len(shown) > delivered
          BY <1>1, <1>2, <1>3, <4>2
        <5> QED BY <1>2, <2>1, <5>1 DEF WatermarkInv, Open
      <4> QED BY <4>1, <4>2
    <3>2. PICK k \in 1..j : stream.watermark + AllowedLateness <= shown[k]
      BY <1>7, <2>1, <3>1 DEF Behind
    <3>3. k \in 1..Len(shown) /\ k \in 1..i
      BY <1>1, <1>3, <3>1
    <3>4. stream'.watermark + AllowedLateness <= shown'[k]
      BY <1>4, <1>5, <1>7, <3>2, <3>3
    <3> QED BY <3>3, <3>4
  <2> QED BY <1>2, <1>5, <1>7, <2>1 DEF WatermarkInv, Behind
<1>8. CASE LoopEncode
  <2>1. PICK r \in work : Add(ObservationOf(r)) \/ Reject(ObservationOf(r))
    BY <1>8 DEF LoopEncode
  <2> QED BY <1>7, <2>1 DEF Add, Reject, Added, streamVars
<1>9. CASE LoopFlush
  <2>1. PICK now \in Times :
          /\ IsLeast(now, {Watermark} \cup {x.at : x \in pending})
          /\ stream' = Flushed(stream, now)
    BY <1>9 DEF LoopFlush, Flush
  <2>2. /\ loopAt = "flush" /\ ~returning /\ work = {}
        /\ UNCHANGED <<reads, shown, delivered, encoded>>
    BY <1>9 DEF LoopFlush, OthersIdle, envVars, outVars, PipelineInv, LoopInv
  <2>3. now \in Nat /\ now <= Watermark /\ (\A x \in pending : now <= x.at)
    BY <2>1, ConstantFacts DEF IsLeast
  <2>4. now <= shown[delivered + 1] /\ delivered + 1 \in 1..Len(shown)
    <3>1. Watermark \in Nat /\ Watermark <= shown[delivered + 1]
      BY <2>2, WatermarkShown DEF Sweeping
    <3>2. delivered + 1 \in 1..Len(shown)
      BY <1>1, <1>2, <1>3
    <3> QED BY <1>4, <2>3, <3>1, <3>2
  <2>5. ASSUME NEW i \in 1..Len(shown), Open(i) PROVE \E k \in 1..i : now <= shown[k]
    <3>1. CASE i > delivered
      BY <1>2, <2>4, <3>1
    <3>2. CASE ~(i > delivered)
      <4>1. i \in 1..delivered /\ reads[i].kind \in L4Kinds /\ \A r \in encoded : r.id # i
        BY <1>2, <2>5, <3>2 DEF Open
      <4>2. PICK x \in pending : x.id = i
        BY <2>2, <4>1 DEF RecordInv
      <4>3. x.at = reads[i].at /\ i \in 1..Len(reads)
        BY <1>1, <1>2, <1>3, <4>1, <4>2 DEF RecordInv, Represents
      <4>4. reads[i].at \in Nat /\ reads[i].at <= shown[i]
        BY <4>3, ReadFacts
      <4>5. now <= shown[i]
        BY <1>4, <2>3, <2>5, <4>2, <4>3, <4>4
      <4> QED BY <4>1, <4>5
    <3> QED BY <3>1, <3>2
  <2>6. /\ stream'.watermark = Advanced(stream, now) /\ stream'.finished = stream.finished
        /\ Advanced(stream, now) \in Int
        /\ \/ Advanced(stream, now) = now - AllowedLateness
           \/ stream.hasWatermark /\ Advanced(stream, now) = stream.watermark
    BY <1>5, <2>1, <2>3 DEF Flushed, Advanced
  <2>7. ASSUME NEW i \in 1..Len(shown'), Open(i)'
        PROVE  \E k \in 1..i : stream'.watermark + AllowedLateness <= shown'[k]
    <3>1. i \in 1..Len(shown) /\ Open(i)
      BY <2>2, <2>7 DEF Open
    <3>2. CASE Advanced(stream, now) = now - AllowedLateness
      <4>1. stream'.watermark + AllowedLateness = now
        BY <1>5, <2>3, <2>6, <3>2
      <4> QED BY <2>2, <2>5, <3>1, <4>1
    <3>3. CASE stream.hasWatermark /\ Advanced(stream, now) = stream.watermark
      BY <2>2, <2>6, <3>1, <3>3 DEF WatermarkInv, Behind
    <3> QED BY <2>6, <3>2, <3>3
  <2> QED BY <2>2, <2>6, <2>7 DEF WatermarkInv, Behind
<1>10. CASE CloseOutput
  <2>1. returning'
    BY <1>2, <1>10 DEF CloseOutput, PipelineInv, LoopInv, Deferred
  <2>2. stream'.watermark \in Int
    BY <1>5, <1>10, CaptureTimeType DEF CloseOutput, Finish, Finished, Advanced
  <2> QED BY <2>1, <2>2 DEF WatermarkInv
<1>11. CASE ~LoopEncode /\ ~LoopFlush /\ ~CloseOutput
  BY <1>7, <1>11, LoopProgresses
<1> QED BY <1>8, <1>9, <1>10, <1>11

LEMMA WatermarkInvariant == Spec => []WatermarkInv
<1>1. Init => WatermarkInv
  BY DEF Init, StreamInit, NewStream, ZeroTime, WatermarkInv, Behind
<1>2. PipelineInv /\ PipelineInv' /\ RecordInv /\ WatermarkInv /\ [Next]_vars => WatermarkInv'
  BY WatermarkNext
<1> QED BY <1>1, <1>2, PipelineInvariant, RecordInvariant, PTL DEF Spec

(* Only Encode writes records and adds observations.                       *)
LEMMA OthersKeepResults ==
  ASSUME [Next]_vars, ~LoopEncode
  PROVE  UNCHANGED <<rejected, encoded, accepted>>
<1>1. CASE ClockMoves
  BY <1>1 DEF ClockMoves, Tick, SetBack, outVars, streamVars
<1>2. CASE Pump
  BY <1>2 DEF Pump, PumpLoop, PumpRead, PumpReadError, PumpAccept, PumpSend, PumpStopped,
              PumpUnchanged, outVars, streamVars
<1>3. CASE ReceiveEvent
  BY <1>3 DEF ReceiveEvent, ReceiveError, ReceiveL7, ReceiveUnconvertible, ReceiveDns,
              ReceiveSample, ReceiveConnect, outVars, streamVars
<1>4. CASE Cancel
  BY <1>4 DEF Cancel, CancelFinish, CancelStop, CancelInterrupt, CancelJoin, outVars, streamVars,
              Flush
<1>5. CASE Quiet
  BY <1>5 DEF Quiet, SinkFails, ReceiveClosed, SelectSinkFailed, SelectTick, LoopExpire, LoopFlush,
     LoopEnds, FinalizePending, SelectCancel, Exit, DnsFinish, CloseOutput, vars, outVars,
     streamVars, Flush, Finish
<1> QED BY <1>1, <1>2, <1>3, <1>4, <1>5, StepKinds

(* What Add refuses: for the limit, or after the clock had shown, before   *)
(* the event, that its window was over.                                    *)
Excused(x) ==
  /\ x.observation.id \in 1..Len(reads)
  /\ \/ x.error = "ErrWindowCapacity"
     \/ x.error = "ErrLateObservation" /\ OverBefore(x.observation)

LEMMA ExcusedKept ==
  ASSUME PipelineInv, [Next]_vars, NEW x, Excused(x),
         x.observation \in Observation
  PROVE  Excused(x)'
<1>1. /\ Len(reads) \in Nat /\ Len(reads') \in Nat /\ Len(reads) <= Len(reads')
      /\ Len(shown) = Len(reads) + 1
  BY ReadsKept, ShownFacts
<1>2. \A k \in 1..Len(shown) : shown[k] \in Nat /\ shown'[k] \in Nat /\ shown[k] <= shown'[k]
  BY ShownGrows DEF PipelineInv
<1>3. PICK o : o = x.observation
  OBVIOUS
<1>4. WindowEnd(KeyFor(o)) + AllowedLateness \in Nat
  <2>1. KeyFor(o) \in Key
    BY <1>3, KeyForFacts
  <2> QED BY <2>1, StreamConfigAssumption DEF Key, WindowEnd
<1>5. ASSUME OverBefore(o) PROVE OverBefore(o)'
  <2>1. PICK k \in 1..o.id : WindowEnd(KeyFor(o)) + AllowedLateness <= shown[k]
    BY <1>5 DEF OverBefore
  <2>2. k \in 1..Len(shown)
    BY <1>1, <1>3 DEF Excused
  <2>3. WindowEnd(KeyFor(o)) + AllowedLateness <= shown'[k]
    BY <1>2, <1>4, <2>1, <2>2
  <2> QED BY <2>3 DEF OverBefore
<1>6. o.id \in 1..Len(reads')
  BY <1>1, <1>3 DEF Excused
<1> QED BY <1>3, <1>5, <1>6 DEF Excused

RefusedInv == \A x \in rejected : x.observation \in Observation /\ Excused(x)

LEMMA RefusedNext ==
  ASSUME PipelineInv, RecordInv, WatermarkInv, RefusedInv, [Next]_vars
  PROVE  RefusedInv'
<1>1. \A x \in rejected : x.observation \in Observation /\ Excused(x)'
  BY ExcusedKept DEF RefusedInv
<1>2. CASE LoopEncode
  <2>1. PICK r \in work :
          rejected' = IF AddError(stream, ObservationOf(r)) = "nil" THEN rejected
                      ELSE rejected \cup {[observation |-> ObservationOf(r),
                                           error |-> AddError(stream, ObservationOf(r))]}
    BY <1>2 DEF LoopEncode
  <2>2. PICK o : o = ObservationOf(r)
    OBVIOUS
  <2>3. /\ o \in Observation /\ o.at = reads[r.id].at /\ r.id \in 1..Len(reads)
        /\ Open(r.id) /\ o.id = r.id
    BY <2>2, ObservationIsNew DEF ObservationOf
  <2>4. o.at \in Nat /\ 0 < o.at
    BY <2>3, ReadFacts
  <2>5. /\ Len(shown) = Len(reads) + 1 /\ Len(reads) \in Nat
        /\ \A k \in 1..Len(shown) : shown[k] \in Nat
    BY ShownFacts
  <2>6. ~returning /\ r.id \in 1..Len(shown)
    BY <1>2, <2>3, <2>5 DEF LoopEncode, PipelineInv, LoopInv
  <2>7. ~stream.finished /\ Behind(o.id) /\ stream.watermark \in Int
    BY <2>3, <2>6 DEF WatermarkInv
  <2>8. WindowEnd(KeyFor(o)) \in Nat /\ AllowedLateness \in Nat
    <3>1. KeyFor(o) \in Key
      BY <2>3, KeyForFacts
    <3> QED BY <3>1, StreamConfigAssumption DEF Key, WindowEnd
  <2>9. ASSUME IsLate(stream, o) PROVE OverBefore(o)
    <3>1. stream.hasWatermark /\ WindowEnd(KeyFor(o)) <= stream.watermark
      BY <2>9 DEF IsLate
    <3>2. PICK k \in 1..o.id : stream.watermark + AllowedLateness <= shown[k]
      BY <2>7, <3>1 DEF Behind
    <3>3. shown[k] \in Nat
      BY <2>3, <2>5
    <3>4. WindowEnd(KeyFor(o)) + AllowedLateness <= shown[k]
      BY <2>7, <2>8, <3>1, <3>2, <3>3
    <3> QED BY <3>4 DEF OverBefore
  <2>10. \/ AddError(stream, o) \in {"nil", "ErrWindowCapacity"}
         \/ AddError(stream, o) = "ErrLateObservation" /\ OverBefore(o)
    BY <2>4, <2>7, <2>9 DEF AddError, ZeroTime
  <2>11. CASE AddError(stream, o) = "nil"
    BY <1>1, <2>1, <2>2, <2>11 DEF RefusedInv
  <2>12. CASE AddError(stream, o) # "nil"
    <3>1. PICK x : x = [observation |-> o, error |-> AddError(stream, o)]
      OBVIOUS
    <3>2. rejected' = rejected \cup {x} /\ x.observation = o
      BY <2>1, <2>2, <2>12, <3>1
    <3>3. Excused(x)
      BY <2>3, <2>10, <2>12, <3>1 DEF Excused
    <3>4. Excused(x)'
      BY <2>3, <3>2, <3>3, ExcusedKept
    <3> QED BY <1>1, <2>3, <3>2, <3>4 DEF RefusedInv
  <2> QED BY <2>11, <2>12
<1>3. CASE ~LoopEncode
  <2>1. rejected' = rejected
    BY <1>3, OthersKeepResults
  <2> QED BY <1>1, <2>1 DEF RefusedInv
<1> QED BY <1>2, <1>3

(* No observation the agent captured is refused as late on account of the  *)
(* time it waited in the pump, in the channel, in the drained tail or for  *)
(* its resolution.  Add refuses one for the limit on active windows or, if *)
(* the clock was set back, because it had shown before the event that the  *)
(* window was over.                                                        *)
THEOREM PipelineNeverLate == Spec => []NoLateObservation
<1>1. Init => RefusedInv
  BY DEF Init, RefusedInv
<1>2. PipelineInv /\ RecordInv /\ WatermarkInv /\ RefusedInv /\ [Next]_vars => RefusedInv'
  BY RefusedNext
<1>3. RefusedInv => NoLateObservation
  BY DEF RefusedInv, Excused, NoLateObservation
<1> QED BY <1>1, <1>2, <1>3, PipelineInvariant, RecordInvariant, WatermarkInvariant, PTL DEF Spec

-----------------------------------------------------------------------------
(***************************************************************************)
(* The loop's use of the DNS correlator.                                   *)
(***************************************************************************)

(* Between two datagrams a pending query stays one.                        *)
LEMMA AwaitsKept ==
  ASSUME PipelineInv, [Next]_vars, NEW k, NEW q, Awaits(k, q),
         \/ delivered' = delivered
         \/ delivered' = delivered + 1 /\ delivered + 1 \in 1..Len(reads)
              /\ ~(reads[delivered + 1].kind = "dns_response" /\ reads[delivered + 1].subject = k)
  PROVE  Awaits(k, q)'
<1>1. /\ Len(reads) \in Nat /\ delivered \in Nat /\ delivered <= Len(reads)
      /\ \A i \in 1..Len(reads) : reads'[i] = reads[i]
  BY ReadsKept DEF PipelineInv, PipelineTypeOK, FlightInv
<1>2. /\ q.id \in 1..delivered' /\ reads'[q.id] = reads[q.id]
      /\ reads[q.id].subject = k /\ q.at = reads[q.id].at
  BY <1>1 DEF Awaits
<1>3. ASSUME NEW i \in 1..delivered' PROVE ~Answers(i, k, q.id)'
  <2>1. CASE i \in 1..delivered
    BY <1>1, <2>1 DEF Awaits, Answers
  <2>2. CASE i \notin 1..delivered
    BY <1>1, <2>2 DEF Answers
  <2> QED BY <2>1, <2>2
<1> QED BY <1>2, <1>3 DEF Awaits

LEMMA FragmentFacts ==
  ASSUME PipelineInv, ReceiveDns
  PROVE  /\ Take(Head(Source)) /\ Process(FragmentOf(Head(Source)))
         /\ delivered + 1 \in 1..Len(reads) /\ delivered \in Nat
         /\ delivered' = delivered + 1 /\ reads' = reads
         /\ FragmentOf(Head(Source)).id = delivered + 1
         /\ FragmentOf(Head(Source)).key = reads[delivered + 1].subject
         /\ FragmentOf(Head(Source)).at = reads[delivered + 1].at
         /\ \/ /\ FragmentOf(Head(Source)).type = "query"
               /\ reads[delivered + 1].kind = "dns_query"
            \/ /\ FragmentOf(Head(Source)).type = "response"
               /\ reads[delivered + 1].kind = "dns_response"
<1>1. /\ Take(Head(Source)) /\ Process(FragmentOf(Head(Source)))
      /\ Head(Source).kind \in {"dns_query", "dns_response"}
  BY DEF ReceiveDns
<1>2. ~IsErr(Head(Source))
  BY <1>1 DEF IsErr
<1>3. /\ delivered + 1 \in 1..Len(reads) /\ delivered \in Nat
      /\ Head(Source) = reads[delivered + 1]
      /\ delivered' = delivered + 1 /\ reads' = reads
  BY <1>1, <1>2, TakenIsNext
<1>4. reads[delivered + 1].id = delivered + 1
  BY <1>3, ReadFacts
<1> QED BY <1>1, <1>3, <1>4 DEF FragmentOf

(* What Process leaves pending: older queries with another key than a      *)
(* response, and the query itself.                                         *)
LEMMA ProcessLeaves ==
  ASSUME NEW q, NEW f, f.type \in {"query", "response"}
  PROVE  LET left == ProcessFragment(q, f).queries IN
         \A k \in DOMAIN left :
           \/ f.type = "query" /\ k = f.key /\ left[k] = f
           \/ k \in DOMAIN q /\ left[k] = q[k] /\ (f.type = "response" => k # f.key)
<1> DEFINE young == Without(q, Aged(q, f.at))
<1>1. \A k \in DOMAIN young : k \in DOMAIN q /\ young[k] = q[k]
  BY DEF Without
<1> HIDE DEF young
<1>2. CASE f.type = "query"
  <2>1. ProcessFragment(q, f).queries = AcceptQuery(young, f).queries
    BY <1>2 DEF ProcessFragment, young
  <2>2. AcceptQuery(young, f).queries \in
          {young, [k \in DOMAIN young \cup {f.key} |-> IF k = f.key THEN f ELSE young[k]]}
    BY DEF AcceptQuery
  <2> QED BY <1>1, <1>2, <2>1, <2>2
<1>3. CASE f.type = "response"
  <2>1. ProcessFragment(q, f).queries = AcceptResponse(young, f).queries
    BY <1>3 DEF ProcessFragment, young
  <2>2. CASE f.key \in DOMAIN young
    <3>1. AcceptResponse(young, f).queries = [k \in DOMAIN young \ {f.key} |-> young[k]]
      BY <2>2 DEF AcceptResponse, Without
    <3> QED BY <1>1, <1>3, <2>1, <3>1
  <2>3. CASE f.key \notin DOMAIN young
    <3>1. AcceptResponse(young, f).queries = young
      BY <2>3 DEF AcceptResponse
    <3> QED BY <1>1, <1>3, <2>1, <2>3, <3>1
  <2> QED BY <2>2, <2>3
<1> QED BY <1>2, <1>3

(* What Process reports as unanswered: the queries that are due.           *)
LEMMA ProcessReports ==
  ASSUME NEW q, NEW f, f.type \in {"query", "response"},
         NEW t \in ProcessFragment(q, f).out, t.outcome = "no_response"
  PROVE  \E k \in Aged(q, f.at) : t.query = q[k].id
<1> DEFINE young == Without(q, Aged(q, f.at))
<1>1. CASE t \in NoResponse(q, Aged(q, f.at), "no_response")
  BY <1>1 DEF NoResponse, Transaction
<1>2. CASE t \notin NoResponse(q, Aged(q, f.at), "no_response")
  <2>1. CASE f.type = "query"
    <3>1. t \in AcceptQuery(young, f).out
      BY <1>2, <2>1 DEF ProcessFragment
    <3> QED BY <3>1 DEF AcceptQuery, Transaction
  <2>2. CASE f.type = "response"
    <3>1. t \in AcceptResponse(young, f).out
      BY <1>2, <2>2 DEF ProcessFragment
    <3> QED BY <3>1 DEF AcceptResponse, Transaction
  <2> QED BY <2>1, <2>2
<1> QED BY <1>1, <1>2

(* The steps that do not touch the correlator deliver nothing to it.       *)
LEMMA OthersKeepDns ==
  ASSUME PipelineInv, [Next]_vars, ~ReceiveDns, ~LoopExpire, ~DnsFinish
  PROVE  /\ UNCHANGED dnsVars
         /\ \/ delivered' = delivered
            \/ delivered' = delivered + 1 /\ delivered + 1 \in 1..Len(reads)
                 /\ reads[delivered + 1].kind \notin {"dns_query", "dns_response"}
<1>1. CASE ClockMoves
  BY <1>1 DEF ClockMoves, Tick, SetBack, dnsVars
<1>2. CASE Pump
  BY <1>2 DEF Pump, PumpLoop, PumpRead, PumpReadError, PumpAccept, PumpSend, PumpStopped,
              PumpUnchanged, dnsVars
<1>3. CASE ReceiveEvent
  <2>1. Take(Head(Source)) /\ UNCHANGED dnsVars
    BY <1>3 DEF ReceiveEvent, ReceiveError, ReceiveL7, ReceiveUnconvertible,
                ReceiveSample, ReceiveConnect, dnsVars
  <2>2. Head(Source).kind \notin {"dns_query", "dns_response"}
    BY <1>3 DEF ReceiveEvent, ReceiveError, ReceiveL7, ReceiveUnconvertible,
                ReceiveSample, ReceiveConnect, IsErr
  <2>3. CASE IsErr(Head(Source))
    BY <2>1, <2>3 DEF Take
  <2>4. CASE ~IsErr(Head(Source))
    BY <2>1, <2>2, <2>4, TakenIsNext
  <2> QED BY <2>3, <2>4
<1>4. CASE Cancel
  BY <1>4 DEF Cancel, CancelFinish, CancelStop, CancelInterrupt, CancelJoin, dnsVars
<1>5. CASE Quiet
  <2>1. delivered' = delivered
    BY <1>5, QuietKeepsCapture DEF captureVars
  <2>2. UNCHANGED dnsVars
    BY <1>5 DEF Quiet, SinkFails, ReceiveClosed, LoopEncode, SelectSinkFailed, SelectTick,
                LoopFlush, LoopEnds, FinalizePending, SelectCancel, Exit, CloseOutput, vars,
                dnsVars
  <2> QED BY <2>1, <2>2
<1> QED BY <1>1, <1>2, <1>3, <1>4, <1>5, StepKinds

LEMMA QueryNext ==
  ASSUME PipelineInv, QueryInv, [Next]_vars
  PROVE  QueryInv'
<1>1. CASE ReceiveDns
  <2> DEFINE f == FragmentOf(Head(Source))
  <2>1. /\ Process(f) /\ delivered + 1 \in 1..Len(reads) /\ delivered \in Nat
        /\ delivered' = delivered + 1 /\ reads' = reads
        /\ f.id = delivered + 1 /\ f.key = reads[delivered + 1].subject
        /\ f.at = reads[delivered + 1].at
        /\ \/ f.type = "query" /\ reads[delivered + 1].kind = "dns_query"
           \/ f.type = "response" /\ reads[delivered + 1].kind = "dns_response"
    BY <1>1, FragmentFacts
  <2> HIDE DEF f
  <2>2. queries' = ProcessFragment(queries, f).queries
    BY <2>1 DEF Process
  <2>3. ASSUME NEW k \in DOMAIN queries' PROVE Awaits(k, queries[k])'
    <3>1. \/ f.type = "query" /\ k = f.key /\ queries'[k] = f
          \/ /\ k \in DOMAIN queries /\ queries'[k] = queries[k]
             /\ f.type = "response" => k # f.key
      BY <2>1, <2>2, ProcessLeaves
    <3>2. CASE f.type = "query" /\ k = f.key /\ queries'[k] = f
      <4>1. \A i \in 1..delivered' : ~(reads[i].id > f.id)
        <5> TAKE i \in 1..delivered'
        <5>1. reads[i].id = i
          BY <2>1, ReadFacts DEF PipelineInv, PipelineTypeOK
        <5> QED BY <2>1, <5>1
      <4> QED BY <2>1, <3>2, <4>1 DEF Awaits, Answers
    <3>3. CASE k \in DOMAIN queries /\ queries'[k] = queries[k]
                 /\ (f.type = "response" => k # f.key)
      <4>1. Awaits(k, queries[k])
        BY <3>3 DEF QueryInv
      <4>2. ~(reads[delivered + 1].kind = "dns_response" /\ reads[delivered + 1].subject = k)
        BY <2>1, <3>3
      <4>3. PICK q : q = queries[k] /\ q = queries'[k]
        BY <3>3
      <4>4. Awaits(k, q)'
        BY <2>1, <4>1, <4>2, <4>3, AwaitsKept
      <4> QED BY <4>3, <4>4 DEF Awaits
    <3> QED BY <3>1, <3>2, <3>3
  <2> QED BY <2>3 DEF QueryInv
<1>2. CASE LoopExpire \/ DnsFinish
  <2>1. \A k \in DOMAIN queries' : k \in DOMAIN queries /\ queries'[k] = queries[k]
    BY <1>2 DEF LoopExpire, DnsFinish, Expire, FinishDns, Without
  <2>2. delivered' = delivered /\ reads' = reads
    BY <1>2 DEF LoopExpire, DnsFinish, OthersIdle, envVars
  <2> QED BY <2>1, <2>2 DEF QueryInv, Awaits, Answers
<1>3. CASE ~ReceiveDns /\ ~LoopExpire /\ ~DnsFinish
  <2>1. /\ queries' = queries
        /\ \/ delivered' = delivered
           \/ delivered' = delivered + 1 /\ delivered + 1 \in 1..Len(reads)
                /\ reads[delivered + 1].kind # "dns_response"
    BY <1>3, OthersKeepDns DEF dnsVars
  <2>2. ASSUME NEW k \in DOMAIN queries' PROVE Awaits(k, queries[k])'
    <3>1. k \in DOMAIN queries /\ Awaits(k, queries[k])
      BY <2>1, <2>2 DEF QueryInv
    <3>2. PICK q : q = queries[k] /\ q = queries'[k]
      BY <2>1
    <3>3. Awaits(k, q)'
      BY <2>1, <3>1, <3>2, AwaitsKept
    <3> QED BY <3>2, <3>3 DEF Awaits
  <2> QED BY <2>2 DEF QueryInv
<1> QED BY <1>1, <1>2, <1>3

LEMMA QueryInvariant == Spec => []QueryInv
<1>1. Init => QueryInv
  BY DEF Init, DnsInit, QueryInv
<1>2. PipelineInv /\ QueryInv /\ [Next]_vars => QueryInv'
  BY QueryNext
<1> QED BY <1>1, <1>2, PipelineInvariant, PTL DEF Spec

LEMMA TimeoutShownKept ==
  ASSUME PipelineInv, [Next]_vars, NEW n \in 1..Len(reads), NEW i \in 1..Len(shown),
         TimeoutShown(n, i), NEW j \in Nat, i <= j
  PROVE  TimeoutShown(n, j)'
<1>1. /\ Len(reads) \in Nat /\ reads'[n] = reads[n] /\ reads[n].at \in Nat
      /\ Len(shown) = Len(reads) + 1 /\ Timeout \in Nat
  BY ReadsKept, ReadFacts, ShownFacts, DnsConfigAssumption
<1>2. PICK k \in (n + 1)..i : shown[k] - reads[n].at >= Timeout
  BY DEF TimeoutShown
<1>3. k \in 1..Len(shown) /\ k \in (n + 1)..j
  BY <1>1
<1>4. shown[k] \in Nat /\ shown'[k] \in Nat /\ shown[k] <= shown'[k]
  BY <1>3, ShownGrows DEF PipelineInv
<1>5. shown'[k] - reads'[n].at >= Timeout
  BY <1>1, <1>2, <1>4
<1> QED BY <1>3, <1>5 DEF TimeoutShown

LEMMA PumpStaysDone ==
  ASSUME [Next]_vars, pumpAt = "done"
  PROVE  pumpAt' = "done" /\ reads' = reads
<1>1. ~Pump
  BY DEF Pump, PumpLoop, PumpRead, PumpReadError, PumpAccept, PumpSend, PumpStopped
<1>2. pumpAt' = pumpAt
  BY <1>1, StepKinds, QuietKeepsCapture, ReceiveTakes
  DEF ClockMoves, Tick, SetBack, Take, Cancel, CancelFinish, CancelStop, CancelInterrupt,
      CancelJoin, OthersIdle, captureVars, pumpVars
<1>3. reads' = reads
  BY OthersKeepReads DEF PumpAccept
<1> QED BY <1>2, <1>3

LEMMA InVainKept ==
  ASSUME PipelineInv, [Next]_vars, NEW n, InVain(n)
  PROVE  InVain(n)'
<1>1. /\ Len(reads) \in Nat /\ delivered \in Nat /\ delivered <= Len(reads)
      /\ Len(reads) <= Len(reads') /\ Len(reads') \in Nat
      /\ \A i \in 1..Len(reads) : reads'[i] = reads[i]
  BY ReadsKept DEF PipelineInv, PipelineTypeOK, FlightInv
<1>2. delivered <= delivered' /\ delivered' \in Nat
  <2>1. delivered' \in Nat
    BY PipelineInvNext DEF PipelineInv, PipelineTypeOK
  <2> QED BY <2>1, LoopProgresses
<1>3. /\ Len(shown) = Len(reads) + 1 /\ Len(shown') = Len(reads') + 1
      /\ Len(shown) <= Len(shown') /\ Len(shown) \in 1..Len(shown)
  <2>1. Len(shown) = Len(reads) + 1 /\ Len(shown') = Len(reads') + 1
    BY PipelineInvNext DEF PipelineInv, Stamped
  <2> QED BY <1>1, <2>1
<1>4. n \in 1..Len(reads) /\ n \in 1..delivered' /\ reads'[n] = reads[n]
  BY <1>1, <1>2 DEF InVain
<1>5. pumpAt = "done" \/ TimeoutShown(n, Len(shown))
  BY DEF InVain
<1>6. ASSUME NEW i \in 1..Len(reads'), Answers(i, reads[n].subject, n)'
      PROVE  TimeoutShown(n, i)'
  <2>1. CASE i \in 1..Len(reads)
    <3>1. Answers(i, reads[n].subject, n)
      BY <1>1, <1>4, <1>6, <2>1 DEF Answers
    <3>2. TimeoutShown(n, i) /\ i \in 1..Len(shown) /\ i \in Nat /\ i <= i
      BY <1>1, <1>3, <2>1, <3>1 DEF InVain
    <3> QED BY <1>4, <3>2, TimeoutShownKept
  <2>2. CASE i \notin 1..Len(reads)
    <3>1. TimeoutShown(n, Len(shown))
      BY <1>1, <1>5, <2>2, PumpStaysDone
    <3>2. i \in Nat /\ Len(shown) <= i
      BY <1>1, <1>3, <2>2
    <3> QED BY <1>3, <1>4, <3>1, <3>2, TimeoutShownKept
  <2> QED BY <2>1, <2>2
<1>7. pumpAt' = "done" \/ TimeoutShown(n, Len(shown))'
  <2>1. CASE pumpAt = "done"
    BY <2>1, PumpStaysDone
  <2>2. CASE TimeoutShown(n, Len(shown))
    <3>1. PICK j \in Nat : j = Len(shown') /\ Len(shown) <= j
      BY <1>1, <1>3
    <3>2. TimeoutShown(n, j)'
      BY <1>3, <1>4, <2>2, <3>1, TimeoutShownKept
    <3> QED BY <3>1, <3>2 DEF TimeoutShown
  <2> QED BY <1>5, <2>1, <2>2
<1> QED BY <1>4, <1>6, <1>7 DEF InVain, Answers

(* A query that is due at an instant the clock had shown before the next   *)
(* event was stamped, or when there is none left, has waited in vain.      *)
LEMMA AgedInVain ==
  ASSUME PipelineInv, QueryInv, NEW now \in Nat,
         \/ now <= shown[delivered + 1]
         \/ pumpAt = "done" /\ delivered = Len(reads),
         NEW k \in Aged(queries, now)
  PROVE  InVain(queries[k].id)
<1> DEFINE n == queries[k].id
<1>1. /\ k \in DOMAIN queries /\ now - queries[k].at >= Timeout
  BY DEF Aged
<1>2. /\ n \in 1..delivered /\ reads[n].subject = k /\ queries[k].at = reads[n].at
      /\ \A i \in 1..delivered : ~Answers(i, k, n)
  BY <1>1 DEF QueryInv, Awaits
<1> HIDE DEF n
<1>3. /\ Len(reads) \in Nat /\ delivered \in Nat /\ delivered <= Len(reads)
      /\ n \in 1..Len(reads) /\ Len(shown) = Len(reads) + 1
      /\ \A j \in 1..Len(shown) : shown[j] \in Nat
  BY <1>2, ShownFacts
<1>4. reads[n].at \in Nat /\ Timeout \in Nat
  BY <1>3, ReadFacts, DnsConfigAssumption
<1>5. \A i \in 1..Len(reads) : Answers(i, reads[n].subject, n) => i > delivered
  BY <1>2, <1>3
<1>6. CASE now <= shown[delivered + 1]
  <2>1. delivered + 1 \in 1..Len(shown) /\ n + 1 <= delivered + 1
    BY <1>2, <1>3
  <2>2. shown[delivered + 1] - reads[n].at >= Timeout
    BY <1>1, <1>2, <1>3, <1>4, <1>6, <2>1
  <2>3. \A i \in 1..Len(shown) : i > delivered => TimeoutShown(n, i)
    <3> SUFFICES ASSUME NEW i \in 1..Len(shown), i > delivered PROVE TimeoutShown(n, i)
      OBVIOUS
    <3>1. delivered + 1 \in (n + 1)..i
      BY <1>3, <2>1
    <3> QED BY <2>2, <3>1 DEF TimeoutShown
  <2>4. Len(shown) \in 1..Len(shown) /\ Len(shown) > delivered
    BY <1>3
  <2>5. \A i \in 1..Len(reads) : i \in 1..Len(shown)
    BY <1>3
  <2> QED BY <1>2, <1>5, <2>3, <2>4, <2>5 DEF InVain, n
<1>7. CASE pumpAt = "done" /\ delivered = Len(reads)
  BY <1>2, <1>3, <1>5, <1>7 DEF InVain, n
<1> QED BY <1>6, <1>7

LEMMA UnansweredNext ==
  ASSUME PipelineInv, QueryInv, UnansweredInv, [Next]_vars
  PROVE  UnansweredInv'
<1> SUFFICES ASSUME ~failed', NEW t \in reported', t.outcome = "no_response"
             PROVE  InVain(t.query)'
  BY DEF UnansweredInv
<1> SUFFICES InVain(t.query)
  BY InVainKept
<1>1. ~failed
  <2>3. failed' \in {failed, TRUE}
    <3>1. CASE ClockMoves
      BY <3>1 DEF ClockMoves, Tick, SetBack
    <3>2. CASE Pump
      BY <3>2 DEF Pump, PumpLoop, PumpRead, PumpReadError, PumpAccept, PumpSend, PumpStopped,
                  PumpUnchanged
    <3>3. CASE ReceiveEvent
      BY <3>3, ReceiveMoves
    <3>4. CASE Cancel
      BY <3>4 DEF Cancel, CancelFinish, CancelStop, CancelInterrupt, CancelJoin, Goto
    <3>5. CASE Quiet
      <4>1. CASE LoopEncode
        BY <4>1 DEF LoopEncode, EncodeThen, Goto, Return
      <4>2. CASE SelectTick \/ FinalizePending
        BY <4>2, TickMoves, FinalizeMoves
      <4>3. CASE ~LoopEncode /\ ~SelectTick /\ ~FinalizePending
        BY <3>5, <4>3 DEF Quiet, SinkFails, ReceiveClosed, SelectSinkFailed, LoopExpire,
                          LoopFlush, LoopEnds, SelectCancel, Exit, DnsFinish, CloseOutput,
                          vars, EncodeThen, Goto, Return
      <4> QED BY <4>1, <4>2, <4>3
    <3> QED BY <3>1, <3>2, <3>3, <3>4, <3>5, StepKinds
  <2> QED BY <2>3
<1>2. CASE t \in reported
  BY <1>1, <1>2 DEF UnansweredInv
<1>3. ASSUME NEW now \in Nat,
             \/ now <= shown[delivered + 1]
             \/ pumpAt = "done" /\ delivered = Len(reads),
             \E k \in Aged(queries, now) : t.query = queries[k].id
      PROVE  InVain(t.query)
  BY <1>3, AgedInVain
<1>4. CASE ReceiveDns /\ t \notin reported
  <2> DEFINE f == FragmentOf(Head(Source))
  <2>1. /\ Process(f) /\ delivered + 1 \in 1..Len(reads) /\ delivered \in Nat
        /\ f.at = reads[delivered + 1].at /\ f.type \in {"query", "response"}
    BY <1>4, FragmentFacts
  <2> HIDE DEF f
  <2>2. t \in ProcessFragment(queries, f).out
    BY <1>4, <2>1 DEF Process
  <2>3. \E k \in Aged(queries, f.at) : t.query = queries[k].id
    BY <2>1, <2>2, ProcessReports
  <2>4. f.at \in Nat /\ f.at <= shown[delivered + 1]
    BY <2>1, ReadFacts
  <2> QED BY <1>3, <2>3, <2>4
<1>5. CASE LoopExpire /\ t \notin reported
  <2>1. Expire(Watermark) /\ Sweeping
    BY <1>5 DEF LoopExpire, Sweeping
  <2>2. PICK now : now = Watermark
    OBVIOUS
  <2>3. t \in NoResponse(queries, Aged(queries, now), "no_response")
    BY <1>5, <2>1, <2>2 DEF Expire
  <2>4. \E k \in Aged(queries, now) : t.query = queries[k].id
    BY <2>3 DEF NoResponse, Transaction
  <2>5. now \in Nat /\ now <= shown[delivered + 1]
    BY <2>1, <2>2, WatermarkShown
  <2> QED BY <1>3, <2>4, <2>5
<1>6. CASE DnsFinish /\ t \notin reported
  <2>1. t \in FinishOut(queries, CaptureTime)
    BY <1>6 DEF DnsFinish, FinishDns
  <2>2. \E k \in Aged(queries, CaptureTime) : t.query = queries[k].id
    BY <2>1 DEF FinishOut, NoResponse, Transaction
  <2>3. returning /\ InFlight = <<>> /\ pumpAt = "done"
    BY <1>1, <1>6 DEF DnsFinish, PipelineInv, LoopInv, Deferred
  <2>4. Len(InFlight) = 0 /\ Len(reads) \in Nat /\ delivered \in Nat
    BY <2>3, EmptySeq DEF PipelineInv, PipelineTypeOK
  <2>5. delivered = Len(reads)
    BY <2>4 DEF PipelineInv, FlightInv
  <2> QED BY <1>3, <2>2, <2>3, <2>5, CaptureTimeType
<1>7. CASE ~ReceiveDns /\ ~LoopExpire /\ ~DnsFinish
  BY <1>2, <1>7, OthersKeepDns DEF dnsVars
<1> QED BY <1>2, <1>4, <1>5, <1>6, <1>7

(* A query is reported as unanswered only if no answer was captured within *)
(* the timeout, even when that answer still waits behind a slow loop: one  *)
(* that was captured came after the clock had shown, since the query, that *)
(* the timeout was over.                                                   *)
THEOREM PipelineNoPrematureTimeout == Spec => []NoPrematureTimeout
<1>1. Init => UnansweredInv
  BY DEF Init, DnsInit, UnansweredInv
<1>2. PipelineInv /\ QueryInv /\ UnansweredInv /\ [Next]_vars => UnansweredInv'
  BY UnansweredNext
<1>3. PipelineInv /\ UnansweredInv => NoPrematureTimeout
  <2> SUFFICES ASSUME PipelineInv, UnansweredInv,
                      NEW t \in reported, t.outcome = "no_response", ~failed,
                      NEW i \in (t.query + 1)..Len(reads),
                      reads[i].kind = "dns_response", reads[i].subject = reads[t.query].subject
               PROVE  TimeoutShown(t.query, i)
    BY DEF NoPrematureTimeout
  <2>1. InVain(t.query)
    BY DEF UnansweredInv
  <2>2. t.query \in 1..Len(reads) /\ Len(reads) \in Nat
    BY <2>1, ShownFacts DEF InVain
  <2>3. i \in 1..Len(reads) /\ i > t.query
    BY <2>2
  <2>4. Answers(i, reads[t.query].subject, t.query)
    BY <2>3, ReadFacts DEF Answers
  <2> QED BY <2>1, <2>3, <2>4 DEF InVain
<1> QED BY <1>1, <1>2, <1>3, PipelineInvariant, QueryInvariant, PTL DEF Spec

-----------------------------------------------------------------------------
(***************************************************************************)
(* What was proved of the correlator on its own is carried over to the     *)
(* correlator the loop drives, whose datagrams are numbered like all       *)
(* events.  Captured are exactly the datagrams the loop has taken, so that *)
(* at the end every one that the reader produced is accounted for.         *)
(***************************************************************************)
Datagrams == {"dns_query", "dns_response"}

DnsLoopInv ==
  /\ DnsInvOf(queries, reported, captured, delivered)
  /\ captured = {FragmentOf(reads[i]) : i \in {j \in 1..delivered : reads[j].kind \in Datagrams}}
  /\ loopAt \in {"close", "done"} => DOMAIN queries = {}

(* When Run has returned without an error of its own, every DNS datagram   *)
(* that was read is in the output: a response is in a transaction; a query *)
(* is, or is a retransmission of an earlier one that was still open when   *)
(* it came.                                                                *)
DatagramsReported ==
  loopAt = "done" /\ ~failed =>
    \A i \in 1..Len(reads) :
      /\ reads[i].kind = "dns_response" => \E t \in reported : t.response = i
      /\ reads[i].kind = "dns_query" =>
           \E t \in reported :
             \/ t.query = i
             \/ /\ t.query \in 1..(i - 1)
                /\ reads[t.query].kind = "dns_query" /\ reads[t.query].subject = reads[i].subject
                /\ t.response = None \/ t.response > i

(* Other events in between leave gaps in the numbers of the datagrams.     *)
LEMMA DnsInvWidens ==
  ASSUME NEW q, NEW rep, NEW cap, NEW n, DnsInvOf(q, rep, cap, n), NEW m \in Nat, n <= m
  PROVE  DnsInvOf(q, rep, cap, m)
<1>1. CapturedOK(cap, n) /\ ReportedOK(rep, n)
  BY DEF DnsInvOf
<1>2. CapturedOK(cap, m)
  <2>1. n \in Nat /\ \A f \in cap : f.id \in Nat /\ f.id <= n
    BY <1>1, PipelineAssumption DEF CapturedOK, Fragment
  <2>2. \A f \in cap : f.id <= m
    BY <2>1
  <2> QED BY <1>1, <2>2 DEF CapturedOK
<1>3. ReportedOK(rep, m)
  <2>1. n \in Nat /\ \A t \in rep : t.query \in Nat /\ t.response \in Nat
    BY <1>1 DEF CapturedOK, ReportedOK, Transactions
  <2>2. \A t \in rep : t.query <= m /\ t.response <= m
    BY <1>1, <2>1 DEF ReportedOK
  <2> QED BY <1>1, <2>2 DEF ReportedOK
<1> QED BY <1>2, <1>3 DEF DnsInvOf

(* What the loop gives to Process is a fragment of the correlator's.       *)
LEMMA FragmentType ==
  ASSUME PipelineInv, NEW i \in 1..Len(reads), reads[i].kind \in Datagrams
  PROVE  FragmentOf(reads[i]) \in Fragment
<1>1. reads[i].id = i /\ i \in Ids /\ reads[i].at \in Times
  BY ReadFacts
<1>2. i \in 1..MaxDatagrams /\ reads[i].at \in Instants /\ 0 \in Stamps
  BY <1>1, PipelineAssumption
<1>3. reads[i].subject \in Keys
  BY DEF PipelineInv, Numbered, Subjects, Datagrams
<1> QED BY <1>1, <1>2, <1>3 DEF FragmentOf, Fragment, DatagramTypes

(* The loop comes to its last places by the deferred calls.                *)
LEMMA LoopCloses ==
  ASSUME PipelineInv, [Next]_vars
  PROVE  /\ loopAt' \in {"close", "done"} => loopAt \in {"close", "done"} \/ DnsFinish
         /\ loopAt' = "done" => loopAt = "done" \/ CloseOutput
<1>1. CASE ClockMoves
  BY <1>1 DEF ClockMoves, Tick, SetBack
<1>2. CASE Pump
  BY <1>2 DEF Pump, PumpLoop, PumpRead, PumpReadError, PumpAccept, PumpSend, PumpStopped,
              PumpUnchanged
<1>3. CASE ReceiveEvent
  BY <1>3, ReceiveMoves
<1>4. CASE Cancel
  BY <1>4 DEF Cancel, CancelFinish, CancelStop, CancelInterrupt, CancelJoin, Goto
<1>5. CASE Quiet
  <2>1. CASE LoopEncode
    BY <2>1 DEF LoopEncode, EncodeThen, Goto, Return, PipelineInv, PipelineTypeOK
  <2>2. CASE SelectTick \/ FinalizePending
    BY <2>2, TickMoves, FinalizeMoves
  <2>3. CASE ~LoopEncode /\ ~SelectTick /\ ~FinalizePending
    BY <1>5, <2>3 DEF Quiet, SinkFails, ReceiveClosed, SelectSinkFailed, LoopExpire, LoopFlush,
       LoopEnds, SelectCancel, Exit, DnsFinish, CloseOutput, vars, EncodeThen, Goto, Return
  <2> QED BY <2>1, <2>2, <2>3
<1> QED BY <1>1, <1>2, <1>3, <1>4, <1>5, StepKinds

LEMMA DnsLoopNext ==
  ASSUME PipelineInv, DnsLoopInv, [Next]_vars
  PROVE  DnsLoopInv'
<1> DEFINE Taken(n) == {j \in 1..n : reads[j].kind \in Datagrams}
<1>0. /\ delivered \in Nat /\ delivered <= Len(reads) /\ Len(reads) \in Nat
      /\ \A i \in 1..Len(reads) : reads'[i] = reads[i]
  BY ReadsKept DEF PipelineInv, PipelineTypeOK, FlightInv
<1>1. CASE ReceiveDns
  <2> DEFINE f == FragmentOf(reads[delivered + 1])
  <2>1. /\ Take(Head(Source)) /\ Process(FragmentOf(Head(Source)))
        /\ Head(Source).kind \in Datagrams
    BY <1>1 DEF ReceiveDns, Datagrams
  <2>2. ~IsErr(Head(Source))
    BY <2>1 DEF IsErr, Datagrams
  <2>3. /\ delivered + 1 \in 1..Len(reads) /\ Head(Source) = reads[delivered + 1]
        /\ delivered' = delivered + 1 /\ reads' = reads
    BY <2>1, <2>2, TakenIsNext
  <2>4. Process(f) /\ f \in Fragment /\ f.id = delivered + 1
    <3>1. reads[delivered + 1].id = delivered + 1
      BY <2>3, ReadFacts
    <3> QED BY <2>1, <2>3, <3>1, FragmentType DEF FragmentOf
  <2>5. DnsInvOf(ProcessFragment(queries, f).queries, reported \cup ProcessFragment(queries, f).out,
                 captured \cup {f}, f.id)
    <3>1. f.id > delivered
      BY <1>0, <2>4
    <3> HIDE DEF f
    <3> QED BY <2>4, <3>1, DatagramProcessed DEF DnsLoopInv
  <2>6. captured' = {FragmentOf(reads[i]) : i \in Taken(delivered + 1)}
    <3>1. Taken(delivered + 1) = Taken(delivered) \cup {delivered + 1}
      BY <1>0, <2>1, <2>3
    <3>2. captured = {FragmentOf(reads[i]) : i \in Taken(delivered)}
      BY DEF DnsLoopInv
    <3>3. captured' = captured \cup {f}
      BY <2>4 DEF Process
    <3> HIDE DEF Taken
    <3> QED BY <3>1, <3>2, <3>3
  <2>7. loopAt' \notin {"close", "done"}
    BY <1>1 DEF ReceiveDns, EncodeThen, Goto, Return
  <2>8. /\ queries' = ProcessFragment(queries, f).queries
        /\ reported' = reported \cup ProcessFragment(queries, f).out
        /\ captured' = captured \cup {f} /\ delivered' = f.id
    BY <2>3, <2>4 DEF Process
  <2> HIDE DEF f
  <2>9. DnsInvOf(queries, reported, captured, delivered)'
    BY <2>5, <2>8
  <2> QED BY <2>3, <2>6, <2>7, <2>9 DEF DnsLoopInv
<1>2. CASE LoopExpire
  <2>1. PICK now \in Times : Expire(now)
    BY <1>2, WatermarkShown DEF LoopExpire, Sweeping
  <2>2. Aged(queries, now) \in SUBSET DOMAIN queries
    BY DEF Aged
  <2>3. DnsInvOf(Without(queries, Aged(queries, now)),
                 reported \cup NoResponse(queries, Aged(queries, now), "no_response"),
                 captured, delivered)
    BY <2>2, CloseUnanswered DEF DnsLoopInv, Outcomes
  <2>4. delivered' = delivered /\ reads' = reads /\ captured' = captured
    BY <1>2, <2>1 DEF LoopExpire, OthersIdle, envVars, Expire
  <2>5. loopAt' \notin {"close", "done"}
    BY <1>2 DEF LoopExpire, EncodeThen, Goto, Return
  <2> QED BY <2>1, <2>3, <2>4, <2>5 DEF DnsLoopInv, Expire
<1>3. CASE DnsFinish
  <2>1. FinishDns(CaptureTime)
    BY <1>3 DEF DnsFinish
  <2>2. DnsInvOf(Without(queries, DOMAIN queries), reported \cup FinishOut(queries, CaptureTime),
                 captured, delivered)
    BY CaptureFinished DEF DnsLoopInv
  <2>3. delivered' = delivered /\ reads' = reads /\ captured' = captured
    BY <1>3, <2>1 DEF DnsFinish, OthersIdle, envVars, FinishDns
  <2>4. DOMAIN queries' = {}
    BY <2>1 DEF FinishDns, Without
  <2> QED BY <2>1, <2>2, <2>3, <2>4 DEF DnsLoopInv, FinishDns
<1>4. CASE ~ReceiveDns /\ ~LoopExpire /\ ~DnsFinish
  <2>1. /\ queries' = queries /\ reported' = reported /\ captured' = captured
        /\ \/ delivered' = delivered
           \/ delivered' = delivered + 1 /\ delivered + 1 \in 1..Len(reads)
                /\ reads[delivered + 1].kind \notin Datagrams
    BY <1>4, OthersKeepDns DEF dnsVars, Datagrams
  <2>2. DnsInvOf(queries, reported, captured, delivered)'
    <3>1. delivered' \in Nat /\ delivered <= delivered'
      BY <1>0, <2>1
    <3> QED BY <2>1, <3>1, DnsInvWidens DEF DnsLoopInv
  <2>3. {j \in 1..delivered' : reads'[j].kind \in Datagrams} = Taken(delivered)
    BY <1>0, <2>1
  <2>4. captured' = {FragmentOf(reads'[i]) : i \in Taken(delivered)}
    BY <1>0, <2>1 DEF DnsLoopInv, FragmentOf
  <2>5. ASSUME loopAt' \in {"close", "done"} PROVE DOMAIN queries' = {}
    <3>1. loopAt \in {"close", "done"}
      BY <1>4, <2>5, LoopCloses
    <3> QED BY <2>1, <3>1 DEF DnsLoopInv
  <2> QED BY <2>2, <2>3, <2>4, <2>5 DEF DnsLoopInv
<1> QED BY <1>1, <1>2, <1>3, <1>4

(* The correlator that the loop drives accounts for each datagram exactly  *)
(* once, and a loop that returns without an error of its own has reported  *)
(* every datagram that was read, those in the channel at the cancellation  *)
(* and the one in the hand of the pump included.                           *)
THEOREM PipelineReportsDatagrams == Spec => [](DatagramsAccounted /\ DatagramsReported)
<1>1. Init => DnsLoopInv
  <2> SUFFICES ASSUME Init PROVE DnsLoopInv
    OBVIOUS
  <2>1. DnsInv /\ captured = {} /\ delivered = 0 /\ loopAt = "select"
    BY DnsInvInitially DEF Init, DnsInit
  <2>2. DnsInvOf(queries, reported, captured, delivered)
    BY <2>1, FS_EmptySet DEF DnsInv
  <2>3. {j \in 1..0 : reads[j].kind \in Datagrams} = {}
    OBVIOUS
  <2> QED BY <2>1, <2>2, <2>3 DEF DnsLoopInv
<1>2. PipelineInv /\ DnsLoopInv /\ [Next]_vars => DnsLoopInv'
  BY DnsLoopNext
<1>3. DnsLoopInv => DatagramsAccounted
  BY DnsInvImplies DEF DnsLoopInv
<1>4. PipelineInv /\ DnsLoopInv => DatagramsReported
  <2> SUFFICES ASSUME PipelineInv, DnsLoopInv, loopAt = "done", ~failed,
                      NEW i \in 1..Len(reads), reads[i].kind \in Datagrams
               PROVE  /\ reads[i].kind = "dns_response" => \E t \in reported : t.response = i
                      /\ reads[i].kind = "dns_query" =>
                           \E t \in reported :
                             \/ t.query = i
                             \/ /\ t.query \in 1..(i - 1)
                                /\ reads[t.query].kind = "dns_query"
                                /\ reads[t.query].subject = reads[i].subject
                                /\ t.response = None \/ t.response > i
    BY DEF DatagramsReported, Datagrams
  <2>1. delivered = Len(reads) /\ Len(reads) \in Nat
    <3>1. InFlight = <<>>
      BY DEF PipelineInv, LoopInv, Deferred
    <3>2. Len(InFlight) = 0 /\ Len(reads) \in Nat /\ delivered \in Nat
      BY <3>1, EmptySeq DEF PipelineInv, PipelineTypeOK
    <3> QED BY <3>2 DEF PipelineInv, FlightInv
  <2> DEFINE f == FragmentOf(reads[i])
  <2>2. f \in captured /\ f.id = i
    BY <2>1, ReadFacts DEF DnsLoopInv, FragmentOf
  <2>3. DOMAIN queries = {} /\ Present(queries, reported, captured, f)
    BY <2>2 DEF DnsLoopInv, DnsInvOf
  <2>4. CASE reads[i].kind = "dns_response"
    <3>1. f.type = "response"
      BY <2>4 DEF FragmentOf
    <3> HIDE DEF f
    <3>2. \E t \in reported : t.response = f.id
      BY <2>3, <3>1 DEF Present
    <3> QED BY <2>2, <2>4, <3>2
  <2>5. CASE reads[i].kind = "dns_query"
    <3>1. f.type = "query" /\ f.key = reads[i].subject
      BY <2>5 DEF FragmentOf
    <3> HIDE DEF f
    <3>2. \/ \E t \in reported : t.query = i
          \/ \E first \in captured : Covers(queries, reported, first, f)
      BY <2>2, <2>3, <3>1 DEF Present
    <3>3. ASSUME NEW first \in captured, Covers(queries, reported, first, f)
          PROVE  \E t \in reported :
                   /\ t.query \in 1..(i - 1)
                   /\ reads[t.query].kind = "dns_query"
                   /\ reads[t.query].subject = reads[i].subject
                   /\ t.response = None \/ t.response > i
      <4>1. /\ first.type = "query" /\ first.key = f.key /\ first.id < f.id
            /\ \E t \in reported : t.query = first.id /\ (t.response = None \/ t.response > f.id)
        BY <2>3, <3>3 DEF Covers
      <4>2. PICK j \in 1..Len(reads) : reads[j].kind \in Datagrams /\ first = FragmentOf(reads[j])
        BY <2>1 DEF DnsLoopInv
      <4>3. reads[j].id = j
        BY ReadFacts
      <4>4. reads[j].kind = "dns_query" /\ first.id = j /\ first.key = reads[j].subject
        BY <4>1, <4>2, <4>3 DEF FragmentOf
      <4>5. j \in 1..(i - 1)
        BY <2>1, <2>2, <4>1, <4>4
      <4> QED BY <2>2, <3>1, <4>1, <4>4, <4>5
    <3> QED BY <2>5, <3>2, <3>3
  <2> QED BY <2>4, <2>5 DEF Datagrams
<1> QED BY <1>1, <1>2, <1>3, <1>4, PipelineInvariant, PTL DEF Spec

-----------------------------------------------------------------------------
(***************************************************************************)
(* From the reader to the windows.  A record that was written went to the  *)
(* stream or was refused; with MatchesAggregate and NothingLost this says  *)
(* where each L4 event ends up.                                            *)
(***************************************************************************)
ResultInv ==
  /\ \A r \in encoded :
       ObservationOf(r) \in accepted \/ \E x \in rejected : x.observation = ObservationOf(r)
  /\ \A o \in accepted : \E r \in encoded : o = ObservationOf(r)
  /\ \A x \in rejected :
       x.observation \notin accepted /\ \E r \in encoded : x.observation = ObservationOf(r)
  /\ loopAt = "done" => stream.finished

(* The window of emission e has the L4 event with read index i in it.      *)
Holds(e, i) == \E o \in e.window.members : o.id = i

(* When Run has returned without an error of its own, each L4 event that   *)
(* was read is in exactly one window that Flush or Finish handed out, or   *)
(* it is in none and Add refused it: for the limit on active windows, or   *)
(* as late, when the clock had shown before the event was stamped that its *)
(* window was over and was set back.                                       *)
ObservationsReported ==
  loopAt = "done" /\ ~failed =>
    \A i \in L4Reads :
      \/ /\ \E e \in emitted : Holds(e, i) /\ \A d \in emitted : Holds(d, i) => d = e
         /\ \A x \in rejected : x.observation.id # i
      \/ /\ \A e \in emitted : ~Holds(e, i)
         /\ \E x \in rejected :
              /\ x.observation.id = i
              /\ \/ x.error = "ErrWindowCapacity"
                 \/ x.error = "ErrLateObservation" /\ OverBefore(x.observation)

LEMMA StreamStaysFinished ==
  ASSUME [Next]_vars, stream.finished, loopAt = "done"
  PROVE  stream' = stream
<1>1. CASE ClockMoves
  BY <1>1 DEF ClockMoves, Tick, SetBack, streamVars
<1>2. CASE Pump
  BY <1>2 DEF Pump, PumpLoop, PumpRead, PumpReadError, PumpAccept, PumpSend, PumpStopped,
              PumpUnchanged, streamVars
<1>3. CASE ReceiveEvent
  BY <1>3 DEF ReceiveEvent, ReceiveError, ReceiveL7, ReceiveUnconvertible, ReceiveDns,
              ReceiveSample, ReceiveConnect, streamVars
<1>4. CASE Cancel
  BY <1>4 DEF Cancel, CancelFinish, CancelStop, CancelInterrupt, CancelJoin, streamVars
<1>5. CASE Quiet
  BY <1>5 DEF Quiet, SinkFails, ReceiveClosed, LoopEncode, SelectSinkFailed, SelectTick,
     LoopExpire, LoopFlush, LoopEnds, FinalizePending, SelectCancel, Exit, DnsFinish, CloseOutput,
     vars, streamVars
<1> QED BY <1>1, <1>2, <1>3, <1>4, <1>5, StepKinds

LEMMA ResultNext ==
  ASSUME PipelineInv, RecordInv, ResultInv, [Next]_vars
  PROVE  ResultInv'
<1>0. \A r \in encoded \cup work : ObservationOf(r)' = ObservationOf(r)
  <2>1. ASSUME NEW r \in encoded \cup work PROVE reads'[r.id] = reads[r.id]
    <3>1. r.id \in 1..delivered
      BY DEF RecordInv, Represents
    <3>2. r.id \in 1..Len(reads)
      BY <3>1 DEF PipelineInv, PipelineTypeOK, FlightInv
    <3> QED BY <3>2, ReadsKept
  <2> QED BY <2>1 DEF ObservationOf
<1>1. loopAt' = "done" => stream'.finished
  <2>1. CASE loopAt = "done"
    BY <2>1, StreamStaysFinished DEF ResultInv
  <2>2. CASE CloseOutput
    BY <2>2 DEF CloseOutput, Finish, Finished
  <2> QED BY <2>1, <2>2, LoopCloses
<1>2. CASE ~LoopEncode
  <2>1. rejected' = rejected /\ encoded' = encoded /\ accepted' = accepted
    BY <1>2, OthersKeepResults
  <2> QED BY <1>0, <1>1, <2>1 DEF ResultInv
<1>3. CASE LoopEncode
  <2>1. PICK r \in work :
          /\ Add(ObservationOf(r)) \/ Reject(ObservationOf(r))
          /\ rejected' = IF AddError(stream, ObservationOf(r)) = "nil" THEN rejected
                         ELSE rejected \cup {[observation |-> ObservationOf(r),
                                              error |-> AddError(stream, ObservationOf(r))]}
          /\ encoded' = encoded \cup {r}
    BY <1>3 DEF LoopEncode
  <2>2. PICK o : o = ObservationOf(r)
    OBVIOUS
  <2>3. ObservationOf(r)' = o
    BY <1>0, <2>2
  <2>4. o \notin accepted
    BY <2>2, ObservationIsNew
  <2>5. \A x \in rejected : x.observation # o
    <3> SUFFICES ASSUME NEW x \in rejected, x.observation = o PROVE FALSE
      OBVIOUS
    <3>1. PICK q \in encoded : x.observation = ObservationOf(q)
      BY DEF ResultInv
    <3>2. q.id = r.id
      BY <2>2, <3>1 DEF ObservationOf
    <3> QED BY <3>2 DEF RecordInv, Apart
  <2>6. /\ \A q \in encoded : ObservationOf(q)' = ObservationOf(q)
        /\ \A q \in encoded :
             ObservationOf(q) \in accepted \/ \E x \in rejected : x.observation = ObservationOf(q)
        /\ \A p \in accepted : \E q \in encoded : p = ObservationOf(q)
        /\ \A x \in rejected :
             x.observation \notin accepted /\ \E q \in encoded : x.observation = ObservationOf(q)
    BY <1>0 DEF ResultInv
  <2>7. CASE AddError(stream, o) = "nil"
    <3>1. accepted' = accepted \cup {o} /\ rejected' = rejected
      BY <2>1, <2>2, <2>7 DEF Add, Reject
    <3>2. \A q \in encoded' : ObservationOf(q)' \in accepted'
            \/ \E x \in rejected' : x.observation = ObservationOf(q)'
      BY <2>1, <2>3, <2>6, <3>1
    <3>3. \A p \in accepted' : \E q \in encoded' : p = ObservationOf(q)'
      BY <2>1, <2>3, <2>6, <3>1
    <3>4. \A x \in rejected' : x.observation \notin accepted'
            /\ \E q \in encoded' : x.observation = ObservationOf(q)'
      BY <2>1, <2>3, <2>5, <2>6, <3>1
    <3> QED BY <1>1, <3>2, <3>3, <3>4 DEF ResultInv
  <2>8. CASE AddError(stream, o) # "nil"
    <3>1. PICK x : x = [observation |-> o, error |-> AddError(stream, o)]
      OBVIOUS
    <3>2. accepted' = accepted /\ rejected' = rejected \cup {x} /\ x.observation = o
      BY <2>1, <2>2, <2>8, <3>1 DEF Add, Reject, streamVars
    <3>3. \A q \in encoded' : ObservationOf(q)' \in accepted'
            \/ \E y \in rejected' : y.observation = ObservationOf(q)'
      BY <2>1, <2>3, <2>6, <3>2
    <3>4. \A p \in accepted' : \E q \in encoded' : p = ObservationOf(q)'
      BY <2>1, <2>6, <3>2
    <3>5. \A y \in rejected' : y.observation \notin accepted'
            /\ \E q \in encoded' : y.observation = ObservationOf(q)'
      BY <2>1, <2>3, <2>4, <2>6, <3>2
    <3> QED BY <1>1, <3>3, <3>4, <3>5 DEF ResultInv
  <2> QED BY <2>7, <2>8
<1> QED BY <1>2, <1>3

LEMMA HeldAreAccepted ==
  ASSUME AggregateInv, NEW e \in emitted
  PROVE  e.window.members = Group(accepted, e.key) /\ e.window.members \subseteq accepted
<1>1. e.key \in DOMAIN Aggregate(accepted) /\ e.window = Aggregate(accepted)[e.key]
  BY DEF AggregateInv, MatchesAggregate
<1>2. e.window = BatchWindow(Group(accepted, e.key))
  BY <1>1, AggregateFacts
<1> QED BY <1>2 DEF BatchWindow, Group

(* The windows that a finished stream has handed out hold each accepted    *)
(* observation, once.                                                      *)
LEMMA AcceptedIsHeld ==
  ASSUME AggregateInv, stream.finished, NEW o \in accepted,
         \A p \in accepted : p.id = o.id => p = o
  PROVE  \E e \in emitted : Holds(e, o.id) /\ \A d \in emitted : Holds(d, o.id) => d = e
<1>1. DOMAIN stream.windows = {}
  BY DEF AggregateInv, StreamInv, PartialOnlyAtEnd
<1>2. DOMAIN Aggregate(accepted) = {e.key : e \in emitted}
  BY <1>1 DEF AggregateInv, MatchesAggregate
<1>3. \A e \in emitted : e.window.members = Group(accepted, e.key)
  BY HeldAreAccepted
<1>4. \A e \in emitted : Holds(e, o.id) <=> e.key = KeyFor(o)
  BY <1>3 DEF Holds, Group
<1>5. KeyFor(o) \in DOMAIN Aggregate(accepted)
  BY DEF Aggregate
<1>6. PICK e \in emitted : e.key = KeyFor(o)
  BY <1>2, <1>5
<1>7. \A d \in emitted : d.key = e.key => d = e
  BY DEF AggregateInv, StreamInv, EmittedOnce
<1> QED BY <1>4, <1>6, <1>7

(* A loop that returns without an error of its own has handed out each L4  *)
(* event that was read in exactly one window, or has reported that Add     *)
(* refused it, for the limit on active windows or because the clock had    *)
(* been ahead of it by more than its window and the lateness.              *)
THEOREM PipelineReportsObservations == Spec => []ObservationsReported
<1>1. Init => ResultInv
  BY DEF Init, StreamInit, ResultInv
<1>2. PipelineInv /\ RecordInv /\ ResultInv /\ [Next]_vars => ResultInv'
  BY ResultNext
<1>3. StreamSpec => []AggregateInv
  BY AggregateInvInit, AggregateInvNext, PTL DEF StreamSpec
<1>4. (PipelineInv /\ RecordInv /\ ResultInv /\ AggregateInv /\ NothingLost /\ NoLateObservation)
        => ObservationsReported
  <2> SUFFICES ASSUME PipelineInv, RecordInv, ResultInv, AggregateInv, NothingLost,
                      NoLateObservation, loopAt = "done", ~failed, NEW i \in L4Reads
               PROVE  \/ /\ \E e \in emitted : Holds(e, i) /\ \A d \in emitted : Holds(d, i) => d = e
                         /\ \A x \in rejected : x.observation.id # i
                      \/ /\ \A e \in emitted : ~Holds(e, i)
                         /\ \E x \in rejected :
                              /\ x.observation.id = i
                              /\ \/ x.error = "ErrWindowCapacity"
                                 \/ x.error = "ErrLateObservation" /\ OverBefore(x.observation)
    BY DEF ObservationsReported
  <2>1. PICK r \in encoded : r.id = i
    BY DEF NothingLost
  <2> DEFINE o == ObservationOf(r)
  <2>2. o.id = i
    BY <2>1 DEF ObservationOf
  <2>3. \A q \in encoded : ObservationOf(q).id = i => ObservationOf(q) = o
    <3>1. \A q \in encoded : q.id = i => q = r
      BY <2>1 DEF RecordInv, Distinct
    <3> QED BY <3>1 DEF ObservationOf
  <2> HIDE DEF o
  <2>4. \A p \in accepted : p.id = i => p = o
    BY <2>3 DEF ResultInv
  <2>5. \A x \in rejected : x.observation.id = i => x.observation = o
    BY <2>3 DEF ResultInv
  <2>6. stream.finished
    BY DEF ResultInv
  <2>7. CASE o \in accepted
    <3>1. \E e \in emitted : Holds(e, i) /\ \A d \in emitted : Holds(d, i) => d = e
      BY <2>2, <2>4, <2>6, <2>7, AcceptedIsHeld
    <3>2. \A x \in rejected : x.observation.id # i
      BY <2>5, <2>7 DEF ResultInv
    <3> QED BY <3>1, <3>2
  <2>8. CASE o \notin accepted
    <3>1. PICK x \in rejected : x.observation = o
      BY <2>8 DEF ResultInv, o
    <3>2. /\ x.observation.id = i
          /\ \/ x.error = "ErrWindowCapacity"
             \/ x.error = "ErrLateObservation" /\ OverBefore(x.observation)
      BY <2>2, <3>1 DEF NoLateObservation
    <3>3. ASSUME NEW e \in emitted, Holds(e, i) PROVE FALSE
      <4>1. PICK p \in e.window.members : p.id = i
        BY <3>3 DEF Holds
      <4>2. e.window.members \subseteq accepted
        BY HeldAreAccepted
      <4> QED BY <2>4, <2>8, <4>1, <4>2
    <3> QED BY <3>2, <3>3
  <2> QED BY <2>7, <2>8
<1> QED BY <1>1, <1>2, <1>3, <1>4, PipelineInvariant, RecordInvariant, PipelineImplementsStream,
        PipelineLosesNothing, PipelineNeverLate, PTL DEF Spec, ImplementsStream
=============================================================================
