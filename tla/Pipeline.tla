------------------------------ MODULE Pipeline ------------------------------
(***************************************************************************)
(* The event pipeline of the agent (internal/app/event_stream.go and       *)
(* events.go): the pump goroutine that reads BPF events and stamps them,   *)
(* the bounded channel, and the event loop that resolves, correlates,      *)
(* aggregates and, on cancellation, drains.                                *)
(*                                                                         *)
(* It is composed with FlowStream and DnsCorrelator: the loop's steps are  *)
(* steps of those modules on their own variables.                          *)
(*                                                                         *)
(* One step of the pump or of the loop runs between two points where the   *)
(* other goroutine can be observed: the captureProgress mutex, the         *)
(* channels, the stop flag.  The loop encodes one record per step.         *)
(*                                                                         *)
(* The clock is wall time, which can be set back.  The stamps of           *)
(* captureProgress keep the monotonic reading of time.Now, so that their   *)
(* order is the order in which they were taken; what is made of them, an   *)
(* observation, a DNS fragment, the watermark of the stream, has lost it   *)
(* and is compared by wall time.                                           *)
(***************************************************************************)
EXTENDS FlowStream, DnsCorrelator, Sequences

CONSTANTS
  Flows,            \* L4 tuples (FlowKey)
  Kinds,            \* the kinds of event the reader produces
  ChannelCapacity,  \* of the pump's channel: 64 in the code
  MaxEvents,        \* the maxEvents argument; 0 means unlimited
  MaxResolutions,   \* maxPendingResolutions
  MaxAttempts,      \* retries that fit in resolutionGrace, and the first try
  FaultySink,       \* whether the writer or the exporter can fail
  MaxReads,         \* bound: events the reader produces
  MaxSetBacks,      \* bound: how often the clock is set back
  MaxClock          \* bound: the last instant

Unresolved == 0

(* A window's identity is its tuple and the connection whose NAT mapping   *)
(* was attached to the observation, if any.                                *)
ASSUME PipelineAssumption ==
  /\ Kinds \subseteq {"connect", "sample", "dns_query", "dns_response", "l7", "unconvertible"}
  /\ ChannelCapacity \in Nat \ {0}
  /\ MaxEvents \in Nat
  /\ MaxResolutions \in Nat \ {0}
  /\ MaxAttempts \in Nat \ {0}
  /\ FaultySink \in BOOLEAN
  /\ MaxReads \in Nat
  /\ MaxSetBacks \in Nat
  /\ MaxClock \in Nat \ {0}
  /\ Ids = 1..MaxReads
  /\ Times = 0..MaxClock
  /\ Rtts = [i \in Ids |-> {NoSamples, PointDistribution(i)}]
  /\ Identities = Flows \X (Ids \cup {Unresolved})
  /\ MaxDatagrams = MaxReads
  /\ Instants = Times
  /\ Stamps = {0}

(* What the pump hands over.  A failed or closed Read is an event of kind  *)
(* "error" or "eof".                                                       *)
NoSubject == 0
Subjects(kind) == IF kind \in {"dns_query", "dns_response"} THEN Keys ELSE Flows
Event == [id : Ids \cup {0}, kind : Kinds \cup {"error", "eof"},
          subject : Flows \cup Keys \cup {NoSubject}, at : Times]
NoEvent == [id |-> 0, kind |-> "eof", subject |-> NoSubject, at |-> 0]

-----------------------------------------------------------------------------
VARIABLES
  clock,        \* the now function: wall time
  setBacks,     \* how often it was set back
  \* the pump goroutine
  pumpAt,       \* "loop", "read", "accept", "send", "done"
  hand,         \* the event it holds between Read and the channel
  count,        \* its loop counter
  channel,      \* the bounded channel; closed when pumpAt = "done"
  unsent,       \* the event it held when it saw stop (at most one)
  \* captureProgress
  outstanding, cutoff, ended,
  \* cancellation
  stop,         \* close(stop)
  interrupted,  \* InterruptRead was called
  \* the event loop
  loopAt,       \* where it is
  streamNil,    \* stream == nil
  cancelled, tail,
  pending,      \* pending resolutions
  work,         \* records this iteration still has to Encode
  afterWork,    \* where the loop goes once they are
  returning,    \* the deferred calls are running
  failed,       \* with an error of the loop's own
  \* the environment
  sinkFailed,   \* the JSONL writer or the exporter failed
  generation,   \* kernel conntrack: the latest connection of each tuple
  \* history
  reads,        \* every event accepted, in order
  shown,        \* the latest time shown before the first of them was stamped,
                \*   from then until the second was, ..., since the last one was
  delivered,    \* the number of events the loop processed
  encoded,      \* the records written: [id, flow, at, via, reason]
  rejected      \* observations Add refused, with its error

pumpVars == <<pumpAt, hand, count>>
progressVars == <<outstanding, cutoff, ended>>
queueVars == <<channel, unsent, tail>>
cancelVars == <<stop, interrupted>>
loopVars == <<streamNil, cancelled, pending, work, afterWork, returning>>
envVars == <<clock, setBacks, sinkFailed, generation, reads, shown>>
outVars == <<encoded, rejected>>
vars == <<streamVars, dnsVars, pumpVars, progressVars, queueVars, cancelVars,
          loopVars, loopAt, failed, delivered, envVars, outVars>>

Init ==
  /\ StreamInit
  /\ DnsInit
  /\ clock = 1 /\ setBacks = 0
  /\ pumpAt = "loop" /\ hand = NoEvent /\ count = 0
  /\ channel = <<>> /\ unsent = <<>> /\ tail = <<>>
  /\ outstanding = <<>> /\ cutoff = 0 /\ ended = FALSE
  /\ stop = FALSE /\ interrupted = FALSE
  /\ loopAt = "select" /\ streamNil = FALSE /\ cancelled = FALSE
  /\ pending = {} /\ work = {} /\ afterWork = "select"
  /\ returning = FALSE /\ failed = FALSE
  /\ sinkFailed = FALSE
  /\ generation = [f \in Flows |-> Unresolved]
  /\ reads = <<>> /\ shown = <<1>> /\ delivered = 0
  /\ encoded = {} /\ rejected = {}

-----------------------------------------------------------------------------
(***************************************************************************)
(* The environment: time passes, the clock is set back, a sink fails.      *)
(***************************************************************************)
Tick ==
  /\ clock < MaxClock
  /\ clock' = clock + 1
  /\ shown' = IF shown[Len(shown)] < clock' THEN [shown EXCEPT ![Len(shown)] = clock']
              ELSE shown
  /\ UNCHANGED <<streamVars, dnsVars, pumpVars, progressVars, queueVars, cancelVars,
                 loopVars, loopAt, failed, delivered, setBacks, sinkFailed, generation,
                 reads, outVars>>

SetBack ==
  /\ setBacks < MaxSetBacks
  /\ clock' \in 1..(clock - 1)
  /\ setBacks' = setBacks + 1
  /\ UNCHANGED <<streamVars, dnsVars, pumpVars, progressVars, queueVars, cancelVars,
                 loopVars, loopAt, failed, delivered, sinkFailed, generation,
                 reads, shown, outVars>>

SinkFails ==
  /\ FaultySink
  /\ ~sinkFailed
  /\ sinkFailed' = TRUE
  /\ UNCHANGED <<streamVars, dnsVars, pumpVars, progressVars, queueVars, cancelVars,
                 loopVars, loopAt, failed, delivered, clock, setBacks, generation,
                 reads, shown, outVars>>

-----------------------------------------------------------------------------
(***************************************************************************)
(* The pump goroutine of pumpEvents.                                       *)
(***************************************************************************)
PumpUnchanged ==
  UNCHANGED <<streamVars, dnsVars, tail, cancelVars, loopVars, loopAt, failed,
              delivered, clock, setBacks, sinkFailed, outVars>>

(* The loop condition and the non-blocking look at stop.                   *)
PumpLoop ==
  /\ pumpAt = "loop"
  /\ pumpAt' = IF (MaxEvents > 0 /\ count = MaxEvents) \/ stop THEN "done" ELSE "read"
  /\ UNCHANGED <<hand, count, channel, unsent, progressVars, generation, reads, shown>>
  /\ PumpUnchanged

(* Read returns an event.  A connect event reports a connection the kernel *)
(* now tracks under its tuple.                                             *)
PumpRead(kind, subject) ==
  /\ pumpAt = "read"
  /\ ~interrupted
  /\ Len(reads) < MaxReads
  /\ hand' = [id |-> Len(reads) + 1, kind |-> kind, subject |-> subject, at |-> 0]
  /\ generation' = IF kind = "connect"
                   THEN [generation EXCEPT ![subject] = Len(reads) + 1]
                   ELSE generation
  /\ pumpAt' = "accept"
  /\ UNCHANGED <<count, channel, unsent, progressVars, reads, shown>>
  /\ PumpUnchanged

(* Read fails; or it was interrupted, which is EOF because stop was        *)
(* requested first.                                                        *)
PumpReadError ==
  /\ pumpAt = "read"
  /\ hand' = [NoEvent EXCEPT !.kind = IF interrupted THEN "eof" ELSE "error"]
  /\ pumpAt' = "accept"
  /\ UNCHANGED <<count, channel, unsent, progressVars, generation, reads, shown>>
  /\ PumpUnchanged

IsErr(e) == e.kind \in {"error", "eof"}

(* captureProgress.accept: stamp the event, pin the watermark with it, and *)
(* end the capture on the last one.                                        *)
PumpAccept ==
  LET terminal == IsErr(hand) \/ (MaxEvents > 0 /\ count + 1 = MaxEvents)
      stamped  == [hand EXCEPT !.at = clock]
  IN
  /\ pumpAt = "accept"
  /\ hand' = stamped
  /\ outstanding' = Append(outstanding, clock)
  /\ IF terminal /\ ~ended
     THEN cutoff' = clock /\ ended' = TRUE
     ELSE UNCHANGED <<cutoff, ended>>
  /\ IF IsErr(hand) THEN UNCHANGED <<reads, shown>>
     ELSE reads' = Append(reads, stamped) /\ shown' = Append(shown, clock)
  /\ pumpAt' = "send"
  /\ UNCHANGED <<count, channel, unsent, generation>>
  /\ PumpUnchanged

(* The send of the event, or stop, whichever the select takes.             *)
PumpSend ==
  /\ pumpAt = "send"
  /\ Len(channel) < ChannelCapacity
  /\ channel' = Append(channel, hand)
  /\ pumpAt' = IF IsErr(hand) THEN "done" ELSE "loop"
  /\ count' = count + 1
  /\ UNCHANGED <<hand, unsent, progressVars, generation, reads, shown>>
  /\ PumpUnchanged

(* Mutant: a pump blocked on a full channel does not look at stop.         *)
PumpStoppedUnlessFull ==
  /\ pumpAt = "send"
  /\ stop
  /\ Len(channel) < ChannelCapacity
  /\ unsent' = <<hand>>
  /\ pumpAt' = "done"
  /\ UNCHANGED <<hand, count, channel, progressVars, generation, reads, shown>>
  /\ PumpUnchanged

PumpStopped ==
  /\ pumpAt = "send"
  /\ stop
  /\ unsent' = <<hand>>
  /\ pumpAt' = "done"
  /\ UNCHANGED <<hand, count, channel, progressVars, generation, reads, shown>>
  /\ PumpUnchanged

-----------------------------------------------------------------------------
(***************************************************************************)
(* The event loop of RunEventsWithOptions.                                 *)
(***************************************************************************)
OthersIdle == UNCHANGED <<pumpVars, envVars>>

Selecting ==
  /\ loopAt = "select"
  /\ ~(streamNil /\ pending = {})
  /\ ~(streamNil /\ cancelled)

(* Where an iteration goes on, or returns an error.                        *)
Goto(place) == loopAt' = place /\ UNCHANGED failed
Return == loopAt' = "exit" /\ failed' = TRUE

(* Encode reports a failed sink, or did not notice it yet.                 *)
EncodeThen(place) == Goto(place) \/ (sinkFailed /\ Return)

(* The connections that the kernel has tracked under a tuple so far.       *)
Tracked(f) ==
  {i \in 1..Len(reads) : reads[i].kind = "connect" /\ reads[i].subject = f}
    \cup ({generation[f]} \ {Unresolved})

(* What conntrack answers for a tuple: nothing, or a connection of some    *)
(* dump of the table.                                                      *)
Resolve(f) == {Unresolved} \cup Tracked(f)

(* For an egress connect, a connection of a dump that began no earlier     *)
(* than the event was observed: the event's own or a later one, unless the *)
(* clock had been ahead of that time before the event.                     *)
ResolveAfter(item) ==
  {Unresolved} \cup
    {n \in Tracked(item.flow) :
       n >= item.id \/ \E k \in 1..item.id : shown[k] > item.at}

(* resolutionRecord: a reason is given only for an unresolved observation. *)
Record(item, via, reason) ==
  [id |-> item.id, flow |-> item.flow, at |-> item.at, via |-> via,
   reason |-> IF via = Unresolved THEN reason ELSE ""]

(* Only a TCP sample carries an RTT; its number stands for it.             *)
ObservationOf(r) ==
  [id |-> r.id, identity |-> <<r.flow, r.via>>, at |-> r.at,
   rtt |-> IF reads[r.id].kind = "sample" THEN PointDistribution(r.id) ELSE NoSamples]

(* The iteration ends when its records are encoded.                        *)
EncodeAll(records, place) ==
  /\ work' = records
  /\ afterWork' = place
  /\ Goto(IF records = {} THEN place ELSE "encode")

(* eventOutput.Encode of one observation: Add it to the stream, report a   *)
(* rejection, write the raw record.                                        *)
LoopEncode ==
  /\ loopAt = "encode"
  /\ \E r \in work :
       LET o == ObservationOf(r) IN
       /\ Add(o) \/ Reject(o)
       /\ rejected' = IF AddError(stream, o) = "nil" THEN rejected
                      ELSE rejected \cup {[observation |-> o, error |-> AddError(stream, o)]}
       /\ encoded' = encoded \cup {r}
       /\ work' = work \ {r}
       /\ IF AddError(stream, o) \in {"nil", "ErrLateObservation", "ErrWindowCapacity"}
          THEN EncodeThen(IF work' = {} THEN afterWork ELSE "encode")
          ELSE Return
  /\ OthersIdle
  /\ UNCHANGED <<dnsVars, progressVars, queueVars, cancelVars, streamNil, cancelled,
                 pending, afterWork, returning, delivered>>

(* case <-encoder.failed, case <-exportFailed                              *)
SelectSinkFailed ==
  /\ Selecting
  /\ sinkFailed
  /\ Return
  /\ OthersIdle
  /\ UNCHANGED <<streamVars, dnsVars, progressVars, queueVars, cancelVars, loopVars,
                 delivered, outVars>>

(* The grace is measured in elapsed time, not in capture time: it ends     *)
(* after any retry, and at the latest after MaxAttempts tries.             *)
MustSettle(i) == i.attempts + 1 >= MaxAttempts

(* The items that go on waiting.  Mutants: the settled ones are kept too;  *)
(* each retry starts the grace again.                                      *)
RetriedAll(settled) == {[i EXCEPT !.attempts = @ + 1] : i \in pending}

RetriedRenewed(settled) == {[i EXCEPT !.attempts = 1] : i \in pending \ settled}

Retried(settled) == {[i EXCEPT !.attempts = @ + 1] : i \in pending \ settled}

(* case <-retryTick: every pending resolution is tried once more; one that *)
(* resolved, or whose grace has passed, is encoded.                        *)
SelectTick ==
  /\ Selecting
  /\ ~cancelled
  /\ \E via \in [pending -> Ids \cup {Unresolved}], overdue \in SUBSET pending :
       LET settled == {i \in pending : via[i] # Unresolved \/ i \in overdue} IN
       /\ \A i \in pending : via[i] \in ResolveAfter(i)
       /\ \A i \in pending : MustSettle(i) => i \in overdue
       /\ pending' = Retried(settled)
       /\ EncodeAll({Record(i, via[i], "retry_deadline") : i \in settled}, "expire")
  /\ OthersIdle
  /\ UNCHANGED <<streamVars, dnsVars, progressVars, queueVars, cancelVars, streamNil,
                 cancelled, returning, delivered, outVars>>

CaptureTime == IF ended THEN cutoff ELSE clock

(* captureProgress.watermark: the earliest stamp by the monotonic reading, *)
(* which is the first one taken.  The loop asks for it before it has       *)
(* finished the capture, so that the cutoff is the stamp of the last event *)
(* and comes after the others.  Mutant: the events on their way do not     *)
(* hold the watermark back.                                                *)
WatermarkUnpinned == CaptureTime

Watermark == IF outstanding = <<>> THEN CaptureTime ELSE Head(outstanding)

LoopExpire ==
  /\ loopAt = "expire"
  /\ Expire(Watermark)
  /\ EncodeThen("flush")
  /\ OthersIdle
  /\ UNCHANGED <<streamVars, progressVars, queueVars, cancelVars, loopVars, delivered, outVars>>

(* The pending resolutions hold it back by their wall time.                *)
IsLeast(t, S) == t \in S /\ \A x \in S : t <= x

LoopFlush ==
  /\ loopAt = "flush"
  /\ \E now \in Times : IsLeast(now, {Watermark} \cup {i.at : i \in pending}) /\ Flush(now)
  /\ EncodeThen("select")
  /\ OthersIdle
  /\ UNCHANGED <<dnsVars, progressVars, queueVars, cancelVars, loopVars, delivered, outVars>>

-----------------------------------------------------------------------------
(* case value, ok := <-stream, and captureProgress.consume: the loop takes *)
(* the oldest event and unpins the oldest stamp.                           *)
Source == IF cancelled THEN tail ELSE channel

Take(e) ==
  /\ Selecting
  /\ ~streamNil
  /\ Source # <<>>
  /\ IF cancelled
     THEN tail' = Tail(tail) /\ UNCHANGED channel
     ELSE channel' = Tail(channel) /\ UNCHANGED tail
  /\ outstanding' = Tail(outstanding)
  /\ delivered' = IF IsErr(e) THEN delivered ELSE delivered + 1
  /\ OthersIdle
  /\ UNCHANGED <<unsent, cutoff, ended, cancelVars, cancelled, returning>>

ReceiveClosed ==
  /\ Selecting
  /\ ~streamNil
  /\ Source = <<>>
  /\ cancelled \/ pumpAt = "done"
  /\ streamNil' = TRUE
  /\ OthersIdle
  /\ UNCHANGED <<streamVars, dnsVars, progressVars, queueVars, cancelVars, cancelled,
                 pending, work, afterWork, returning, loopAt, failed, delivered, outVars>>

ReceiveError ==
  LET e == Head(Source) IN
    /\ Take(e)
    /\ IsErr(e)
    /\ streamNil' = TRUE
    /\ Goto("select")
    /\ UNCHANGED <<streamVars, dnsVars, pending, work, afterWork, outVars>>

(* An L7 fragment, or the record of one that was not captured: what comes  *)
(* of it goes to the output.                                               *)
ReceiveL7 ==
  LET e == Head(Source) IN
    /\ Take(e)
    /\ e.kind = "l7"
    /\ EncodeThen("select")
    /\ UNCHANGED <<streamVars, dnsVars, streamNil, pending, work, afterWork, outVars>>

(* An event the collector cannot convert ends the run.                     *)
ReceiveUnconvertible ==
  LET e == Head(Source) IN
    /\ Take(e)
    /\ e.kind = "unconvertible"
    /\ Return
    /\ UNCHANGED <<streamVars, dnsVars, streamNil, pending, work, afterWork, outVars>>

FragmentOf(e) ==
  [id |-> e.id, type |-> IF e.kind = "dns_query" THEN "query" ELSE "response",
   key |-> e.subject, at |-> e.at, ts |-> 0]

ReceiveDns ==
  LET e == Head(Source) IN
    /\ Take(e)
    /\ e.kind \in {"dns_query", "dns_response"}
    /\ Process(FragmentOf(e))
    /\ EncodeThen("select")
    /\ UNCHANGED <<streamVars, streamNil, pending, work, afterWork, outVars>>

(* An observation that is not an egress connect is encoded at once.        *)
ReceiveSample ==
  LET e == Head(Source) IN
    /\ Take(e)
    /\ e.kind = "sample"
    /\ \E via \in Resolve(e.subject) :
         EncodeAll({Record([id |-> e.id, flow |-> e.subject, at |-> e.at], via, "")}, "select")
    /\ UNCHANGED <<streamVars, dnsVars, streamNil, pending, outVars>>

(* The wait that a new connection of the tuple ends.                      *)
Superseded(f) == {i \in pending : i.flow = f}

(* An egress connect ends the wait of an earlier one with the same tuple,  *)
(* then waits itself unless it resolved at once or the queue is full.      *)
ReceiveConnect ==
  LET e == Head(Source) IN
    /\ Take(e)
    /\ e.kind = "connect"
    /\ LET item == [id |-> e.id, flow |-> e.subject, at |-> e.at, attempts |-> 1] IN
       \E via \in ResolveAfter(item) :
         LET superseded == Superseded(e.subject)
             remaining  == pending \ superseded
             waits == via = Unresolved /\ Cardinality(remaining) < MaxResolutions
         IN /\ pending' = IF waits THEN remaining \cup {item} ELSE remaining
            /\ EncodeAll({Record(i, Unresolved, "tuple_reused") : i \in superseded}
                           \cup (IF waits THEN {} ELSE {Record(item, via, "queue_full")}),
                         "select")
    /\ UNCHANGED <<streamVars, dnsVars, streamNil, outVars>>

-----------------------------------------------------------------------------
(***************************************************************************)
(* Cancellation and the deferred calls.                                    *)
(***************************************************************************)
LoopEnds ==
  /\ loopAt = "select"
  /\ streamNil /\ pending = {}
  /\ Goto("exit")
  /\ OthersIdle
  /\ UNCHANGED <<streamVars, dnsVars, progressVars, queueVars, cancelVars, loopVars,
                 delivered, outVars>>

(* What is left waiting when the drained tail is empty.  Mutant: it is     *)
(* given up.                                                               *)
CaptureEndedDropped == {}

CaptureEnded == {Record(i, Unresolved, "capture_ended") : i \in pending}

FinalizePending ==
  /\ loopAt = "select"
  /\ streamNil /\ cancelled /\ pending # {}
  /\ EncodeAll(CaptureEnded, "exit")
  /\ pending' = {}
  /\ OthersIdle
  /\ UNCHANGED <<streamVars, dnsVars, progressVars, queueVars, cancelVars, streamNil,
                 cancelled, returning, delivered, outVars>>

(* case <-ctxDone: the caller may cancel at any time.                      *)
SelectCancel ==
  /\ Selecting
  /\ ~cancelled
  /\ Goto("finish")
  /\ OthersIdle
  /\ UNCHANGED <<streamVars, dnsVars, progressVars, queueVars, cancelVars, loopVars,
                 delivered, outVars>>

(* cancel(): captureProgress.finish, close(stop), InterruptRead, join.     *)
CancelFinish ==
  /\ loopAt = "finish"
  /\ cutoff' = CaptureTime
  /\ ended' = TRUE
  /\ Goto("stop")
  /\ OthersIdle
  /\ UNCHANGED <<streamVars, dnsVars, outstanding, queueVars, cancelVars, loopVars,
                 delivered, outVars>>

CancelStop ==
  /\ loopAt = "stop"
  /\ stop' = TRUE
  /\ Goto("interrupt")
  /\ OthersIdle
  /\ UNCHANGED <<streamVars, dnsVars, progressVars, queueVars, interrupted, loopVars,
                 delivered, outVars>>

CancelInterrupt ==
  /\ loopAt = "interrupt"
  /\ interrupted' = (pumpAt # "done")
  /\ Goto("join")
  /\ OthersIdle
  /\ UNCHANGED <<streamVars, dnsVars, progressVars, queueVars, stop, loopVars,
                 delivered, outVars>>

(* After the join, whatever the pump accepted is drained, the event it     *)
(* could not send last.  Mutant: that one is forgotten.                    *)
DrainedQueueOnly == channel

Drained == channel \o unsent

(* A returning loop discards it.                                           *)
CancelJoin ==
  /\ loopAt = "join"
  /\ pumpAt = "done"
  /\ tail' = Drained
  /\ channel' = <<>>
  /\ unsent' = <<>>
  /\ IF returning
     THEN Goto("dnsFinish") /\ UNCHANGED <<cancelled, streamNil>>
     ELSE Goto("select") /\ cancelled' = TRUE /\ streamNil' = FALSE
  /\ OthersIdle
  /\ UNCHANGED <<streamVars, dnsVars, progressVars, cancelVars, pending, work, afterWork,
                 returning, delivered, outVars>>

(* The deferred calls: cancel (once), dnsCorrelator.Finish, encoder.Close. *)
Exit ==
  /\ loopAt = "exit"
  /\ returning' = TRUE
  /\ Goto(IF stop THEN "dnsFinish" ELSE "finish")
  /\ OthersIdle
  /\ UNCHANGED <<streamVars, dnsVars, progressVars, queueVars, cancelVars, streamNil,
                 cancelled, pending, work, afterWork, delivered, outVars>>

DnsFinish ==
  /\ loopAt = "dnsFinish"
  /\ FinishDns(CaptureTime)
  /\ Goto("close")
  /\ OthersIdle
  /\ UNCHANGED <<streamVars, progressVars, queueVars, cancelVars, loopVars, delivered, outVars>>

CloseOutput ==
  /\ loopAt = "close"
  /\ Finish(CaptureTime)
  /\ Goto("done")
  /\ OthersIdle
  /\ UNCHANGED <<dnsVars, progressVars, queueVars, cancelVars, loopVars, delivered, outVars>>

Done == loopAt = "done" /\ UNCHANGED vars

-----------------------------------------------------------------------------
Pump ==
  \/ PumpLoop
  \/ \E kind \in Kinds : \E subject \in Subjects(kind) : PumpRead(kind, subject)
  \/ PumpReadError
  \/ PumpAccept
  \/ PumpSend
  \/ PumpStopped

Receive ==
  \/ ReceiveClosed
  \/ ReceiveError
  \/ ReceiveL7
  \/ ReceiveUnconvertible
  \/ ReceiveDns
  \/ ReceiveSample
  \/ ReceiveConnect

Cancel ==
  \/ CancelFinish
  \/ CancelStop
  \/ CancelInterrupt
  \/ CancelJoin

Loop ==
  \/ Receive
  \/ Cancel
  \/ LoopEncode
  \/ SelectSinkFailed
  \/ SelectTick
  \/ LoopExpire
  \/ LoopFlush
  \/ LoopEnds
  \/ FinalizePending
  \/ SelectCancel
  \/ Exit
  \/ DnsFinish
  \/ CloseOutput

Next == Tick \/ SetBack \/ SinkFails \/ Pump \/ Loop \/ Done

Spec == Init /\ [][Next]_vars

-----------------------------------------------------------------------------
(***************************************************************************)
(* Safety.                                                                 *)
(***************************************************************************)

(* No observation the agent captured is refused as late on account of the  *)
(* agent: the stream's watermark never passes an event that waits in the   *)
(* pump, in the channel, in the drained tail or for its resolution,        *)
(* however long it waits there.  The exception is a clock that was set     *)
(* back: before the event was stamped it had shown a time at which the     *)
(* event's window was over and the lateness had passed.                    *)
OverBefore(o) ==
  \E k \in 1..o.id : WindowEnd(KeyFor(o)) + AllowedLateness <= shown[k]

NoLateObservation ==
  \A r \in rejected :
    r.error # "ErrWindowCapacity" =>
      r.error = "ErrLateObservation" /\ OverBefore(r.observation)

(* The events on their way from Read to the loop, oldest first.            *)
InFlight ==
  tail \o channel \o unsent \o (IF pumpAt = "send" THEN <<hand>> ELSE <<>>)

(* Until the loop returns, every successful Read is on its way or was      *)
(* processed, once and in order; the failure of a Read comes behind them;  *)
(* and captureProgress pins exactly the stamps of the events on their way: *)
(* consume always drops the right one.                                     *)
CaptureAccounted ==
  ~returning =>
    LET waiting == Len(reads) - delivered IN
    /\ Len(InFlight) \in {waiting, waiting + 1}
    /\ \A i \in 1..waiting : InFlight[i] = reads[delivered + i]
    /\ Len(InFlight) = waiting + 1 => IsErr(InFlight[waiting + 1])
    /\ outstanding = [i \in 1..Len(InFlight) |-> InFlight[i].at]

(* A run that ends without an error of the loop processed every event it   *)
(* captured and wrote each of its L4 observations exactly once.            *)
L4Reads == {i \in 1..Len(reads) : reads[i].kind \in {"connect", "sample"}}

NothingLost ==
  loopAt = "done" /\ ~failed =>
    /\ delivered = Len(reads)
    /\ {r.id : r \in encoded} = L4Reads
    /\ Cardinality(encoded) = Cardinality(L4Reads)

(* A query is reported as unanswered only if no answer was captured within *)
(* the timeout, even when that answer still waits behind a slow loop: an   *)
(* answer that was captured came after the clock had shown, since the      *)
(* query, that the timeout was over (which a clock set back may show again *)
(* later).                                                                 *)
TimeoutShown(query, response) ==
  \E k \in (query + 1)..response : shown[k] - reads[query].at >= Timeout

NoPrematureTimeout ==
  \A t \in reported :
    t.outcome = "no_response" /\ ~failed =>
      \A i \in (t.query + 1)..Len(reads) :
        reads[i].kind = "dns_response" /\ reads[i].subject = reads[t.query].subject =>
          TimeoutShown(t.query, i)

(* The loop uses its window stream as FlowStream allows: in particular it  *)
(* never adds an observation twice.                                        *)
ImplementsStream == StreamSpec

(* An observation carries the NAT mapping of its own connection, never one *)
(* of a later connection that reuses its tuple.                            *)
NoJoinAcrossGenerations ==
  \A r \in encoded : r.reason = "" /\ r.via # Unresolved /\ reads[r.id].kind = "connect"
                       => r.via = r.id

-----------------------------------------------------------------------------
(***************************************************************************)
(* Liveness.  The goroutines are scheduled, so their steps are weakly      *)
(* fair; nothing forces Read to return unless it is interrupted.  Go's     *)
(* select chooses at random among the ready cases, so a case that is ready *)
(* again and again is taken: strong fairness of the retry tick and of the  *)
(* receive.                                                                *)
(***************************************************************************)
Fairness ==
  /\ WF_vars(PumpLoop)
  /\ WF_vars(interrupted /\ PumpReadError)
  /\ WF_vars(PumpAccept)
  /\ WF_vars(PumpSend \/ PumpStopped)
  /\ SF_vars(Receive)
  /\ SF_vars(SelectTick)
  /\ WF_vars(Cancel)
  /\ WF_vars(LoopEncode \/ LoopExpire \/ LoopFlush)
  /\ WF_vars(LoopEnds \/ FinalizePending \/ Exit \/ DnsFinish \/ CloseOutput)

FairSpec == Spec /\ Fairness

(* Once the run is cancelled, fails, or has read its last event it ends:   *)
(* joining the pump never deadlocks, whether the pump is in Read or blocked*)
(* on a full channel nobody receives from any more.                        *)
Terminates ==
  (loopAt \in {"finish", "exit"} \/ (MaxEvents > 0 /\ Len(reads) = MaxEvents))
    ~> loopAt = "done"

(* A connection waits for its NAT mapping only so long: it is written with *)
(* or without it, even while the capture goes on and nothing is ever       *)
(* resolved.                                                               *)
ResolutionSettles ==
  \A n \in Ids :
    (\E i \in pending : i.id = n) ~> ((\E r \in encoded : r.id = n) \/ failed)
=============================================================================
