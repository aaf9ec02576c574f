----------------------------- MODULE TcpSampling ----------------------------
(***************************************************************************)
(* SRTT sampling and connect events of the BPF program                     *)
(* (internal/collector/bpf/flow.bpf.c), its drop counters, and the reader  *)
(* that turns their growth into coverage drops (loader_linux.go, event.go).*)
(*                                                                         *)
(* One socket address is followed; the kernel uses it again for later      *)
(* connections.  The programs at tcp_sendmsg and tcp_recvmsg run in the    *)
(* callers, the one at inet_sock_set_state also in a soft interrupt; the   *)
(* kernel lets no program nest in itself on one processor.  An interrupted *)
(* program waits for the interrupt to end; two callers may preempt each    *)
(* other.  The drop counter followed is the one of bpf_ringbuf_output; the *)
(* other two are counted and read alike.  Its increment is a load and a    *)
(* store in the object file.                                               *)
(***************************************************************************)
EXTENDS Sums, Sequences

CONSTANTS
  Cpus,
  RawSrtts,       \* values of tcp_sock.srtt_us
  MinInterval,    \* SRTT_MIN_INTERVAL_NS
  EmitInterval,   \* SRTT_EMIT_INTERVAL_NS
  MinDelta,       \* SRTT_MIN_DELTA_US
  Wrap,           \* the number of values of a __u64
  PollInterval,   \* kernelDropPollInterval
  RingCapacity,   \* bound: events in the ring buffer
  MaxConnections, \* bound: connections at the address
  MaxCalls,       \* bound: tcp_sendmsg and tcp_recvmsg calls
  MaxClock        \* bound: time

ASSUME SamplingAssumption ==
  /\ IsFiniteSet(Cpus) /\ RawSrtts \subseteq Nat
  /\ MinInterval \in Nat \ {0} /\ EmitInterval \in Nat /\ MinInterval <= EmitInterval
  /\ MinDelta \in Nat /\ PollInterval \in Nat \ {0} /\ RingCapacity \in Nat
  /\ MaxConnections \in Nat /\ MaxCalls \in Nat
  /\ MaxClock \in Nat /\ Wrap \in Nat /\ MaxClock + EmitInterval < Wrap

VARIABLES
  clock,          \* bpf_ktime_get_ns
  state,          \* of the socket: "free", "synSent", "established", "closed"
  connection,     \* number of connections at the address so far
  calls,          \* number of calls so far
  running,        \* <<processor, program>> -> its local state
  srtt_samples,   \* the map entry of the address
  drop_counters,
  ring,           \* kinds of the events in the ring buffer
  pending, dropSnapshot, nextDropPollTime,   \* bpfReader
  drops,          \* history: events that found no room
  overlapped,     \* history: did two increments of one counter overlap?
  reported,       \* history: sum of the counts that Read returned
  samples         \* history: samples put out or counted as a drop

kernelVars == <<clock, state, connection>>
mapVars == <<srtt_samples, drop_counters, ring>>
readerVars == <<pending, dropSnapshot, nextDropPollTime, reported>>
historyVars == <<drops, overlapped, samples>>
vars == <<kernelVars, calls, running, mapVars, readerVars, historyVars>>

Callers == {"send", "receive"}
Programs == Callers \cup {"setState"}

NoSample == [at |-> -1, srtt |-> 0]
Idle == [pc |-> "idle", now |-> 0, srtt |-> 0, counter |-> 0]

Init ==
  /\ clock = 0 /\ state = "free" /\ connection = 0 /\ calls = 0
  /\ running = [x \in Cpus \X Programs |-> Idle]
  /\ srtt_samples = NoSample /\ drop_counters = [c \in Cpus |-> 0] /\ ring = <<>>
  /\ pending = <<>> /\ dropSnapshot = 0 /\ nextDropPollTime = -1
  /\ drops = 0 /\ overlapped = FALSE /\ reported = 0 /\ samples = {}

Goto(x, pc) == running' = [running EXCEPT ![x].pc = pc]

(* A program makes a step unless an interrupt holds its processor.         *)
CanRun(x) == x[2] \in Callers => running[<<x[1], "setState">>].pc = "idle"

-----------------------------------------------------------------------------
(***************************************************************************)
(* External: time, and the states of the socket.  observe_tcp_connect runs *)
(* with each change; a program that ends without an output is one step.    *)
(***************************************************************************)
Tick ==
  /\ clock < MaxClock
  /\ clock' = clock + 1
  /\ UNCHANGED <<state, connection, calls, running, mapVars, readerVars, historyVars>>

(* connect, or an accepted connection, which makes no connect event.       *)
Open(new) ==
  /\ state = "free"
  /\ connection < MaxConnections
  /\ state' = new
  /\ connection' = connection + 1
  /\ UNCHANGED <<clock, calls, running, mapVars, readerVars, historyVars>>

Established(c) ==
  /\ state = "synSent"
  /\ state' = "established"
  /\ Goto(<<c, "setState">>, "output")
  /\ UNCHANGED <<clock, connection, calls, mapVars, readerVars, historyVars>>

(* TCP_CLOSE, while the application may still hold and use the socket.     *)
(* Mutant: the sample stays in the map.                                    *)
CloseKeepsSample ==
  /\ state \in {"synSent", "established"}
  /\ \A c \in Cpus : running[<<c, "setState">>].pc = "idle"
  /\ state' = "closed"
  /\ UNCHANGED <<clock, connection, calls, running, mapVars, readerVars, historyVars>>

Close ==
  /\ state \in {"synSent", "established"}
  /\ \A c \in Cpus : running[<<c, "setState">>].pc = "idle"
  /\ state' = "closed"
  /\ srtt_samples' = NoSample
  /\ UNCHANGED <<clock, connection, calls, running, drop_counters, ring, readerVars, historyVars>>

(* A caller keeps the socket until its call is over.                       *)
Release ==
  /\ state = "closed"
  /\ \A x \in Cpus \X Programs : running[x].pc = "idle"
  /\ state' = "free"
  /\ UNCHANGED <<clock, connection, calls, running, mapVars, readerVars, historyVars>>

(* The map is LRU.                                                         *)
Evict ==
  /\ srtt_samples # NoSample
  /\ srtt_samples' = NoSample
  /\ UNCHANGED <<kernelVars, calls, running, drop_counters, ring, readerVars, historyVars>>

-----------------------------------------------------------------------------
(***************************************************************************)
(* maybe_emit_srtt.                                                        *)
(***************************************************************************)

(* The measurement and the time are read before the map.                   *)
Enter(x) ==
  /\ state # "free" /\ calls < MaxCalls
  /\ x[2] \in Callers /\ CanRun(x) /\ running[x].pc = "idle"
  /\ calls' = calls + 1
  /\ \E raw \in RawSrtts :
       LET srtt == raw \div 8 IN
       running' = [running EXCEPT ![x] =
                     IF srtt = 0 THEN Idle
                     ELSE [Idle EXCEPT !.pc = "lookup", !.now = clock, !.srtt = srtt]]
  /\ UNCHANGED <<kernelVars, mapVars, readerVars, historyVars>>

(* Of a sample stored since, with a later time, the unsigned difference is *)
(* huge.                                                                   *)
Elapsed(now, at) == (now - at) % Wrap
Distance(a, b) == IF a > b THEN a - b ELSE b - a
RelativeThreshold(srtt) == IF srtt \div 10 < MinDelta THEN MinDelta ELSE srtt \div 10

Suppresses(previous, now, srtt) ==
  LET elapsed == Elapsed(now, previous.at) IN
  /\ previous # NoSample
  /\ \/ elapsed < MinInterval
     \/ elapsed < EmitInterval /\ Distance(previous.srtt, srtt) < RelativeThreshold(previous.srtt)

Lookup(x) ==
  /\ running[x].pc = "lookup" /\ CanRun(x)
  /\ IF Suppresses(srtt_samples, running[x].now, running[x].srtt)
     THEN running' = [running EXCEPT ![x] = Idle]
     ELSE Goto(x, "output")
  /\ UNCHANGED <<kernelVars, calls, mapVars, readerVars, historyVars>>

(* fill_socket_tuple fails.                                                *)
Abandon(x) ==
  /\ running[x].pc = "output" /\ CanRun(x) /\ x[2] \in Callers
  /\ running' = [running EXCEPT ![x] = Idle]
  /\ UNCHANGED <<kernelVars, calls, mapVars, readerVars, historyVars>>

(* The sample is stored whether it was put out or not.                     *)
Store(x) ==
  /\ running[x].pc = "store" /\ CanRun(x)
  /\ srtt_samples' = [at |-> running[x].now, srtt |-> running[x].srtt]
  /\ samples' = samples \cup {[at |-> running[x].now, srtt |-> running[x].srtt,
                               connection |-> connection, afterClose |-> state = "closed"]}
  /\ running' = [running EXCEPT ![x] = Idle]
  /\ UNCHANGED <<kernelVars, calls, drop_counters, ring, readerVars, drops, overlapped>>

-----------------------------------------------------------------------------
(***************************************************************************)
(* output_event and count_drop, for samples and connect events.            *)
(***************************************************************************)
Done(x) == IF x[2] \in Callers THEN [running[x] EXCEPT !.pc = "store", !.counter = 0] ELSE Idle

Output(x) ==
  /\ running[x].pc = "output" /\ CanRun(x)
  /\ IF Len(ring) < RingCapacity
     THEN /\ ring' = Append(ring, x[2])
          /\ running' = [running EXCEPT ![x] = Done(x)]
          /\ UNCHANGED drops
     ELSE /\ drops' = drops + 1
          /\ Goto(x, "load")
          /\ UNCHANGED ring
  /\ UNCHANGED <<kernelVars, calls, srtt_samples, drop_counters, readerVars, overlapped, samples>>

CountLoad(x) ==
  /\ running[x].pc = "load" /\ CanRun(x)
  /\ running' = [running EXCEPT ![x].pc = "add", ![x].counter = drop_counters[x[1]]]
  /\ overlapped' = (overlapped \/ \E p \in Programs : running[<<x[1], p>>].pc = "add")
  /\ UNCHANGED <<kernelVars, calls, mapVars, readerVars, drops, samples>>

CountStore(x) ==
  /\ running[x].pc = "add" /\ CanRun(x)
  /\ drop_counters' = [drop_counters EXCEPT ![x[1]] = running[x].counter + 1]
  /\ running' = [running EXCEPT ![x] = Done(x)]
  /\ UNCHANGED <<kernelVars, calls, srtt_samples, ring, readerVars, historyVars>>

-----------------------------------------------------------------------------
(***************************************************************************)
(* bpfReader.Read, called by the event pump.  Once interrupted it makes no *)
(* more steps: what was not polled until then is not reported.             *)
(***************************************************************************)
Counted == Total(drop_counters, Cpus)

(* kernelDropEvents; a counter that went down is taken to start again.     *)
Delta(previous, current) == IF current >= previous THEN current - previous ELSE current

(* Mutant: the counter itself is reported.                                 *)
KernelDropEventsTotal(previous, current) ==
  IF Delta(previous, current) = 0 THEN <<>> ELSE <<current>>

KernelDropEvents(previous, current) ==
  IF Delta(previous, current) = 0 THEN <<>> ELSE <<Delta(previous, current)>>

ReadPending ==
  /\ pending # <<>>
  /\ reported' = reported + Head(pending)
  /\ pending' = Tail(pending)
  /\ UNCHANGED <<kernelVars, calls, running, mapVars, dropSnapshot, nextDropPollTime,
                 historyVars>>

(* The first call polls, later ones when the interval is over.             *)
PollDue == nextDropPollTime = -1 \/ clock >= nextDropPollTime

PollKernelDrops ==
  /\ pending = <<>> /\ PollDue
  /\ pending' = KernelDropEvents(dropSnapshot, Counted)
  /\ dropSnapshot' = Counted
  /\ nextDropPollTime' = clock + PollInterval
  /\ UNCHANGED <<kernelVars, calls, running, mapVars, reported, historyVars>>

ReadRing ==
  /\ pending = <<>> /\ ~PollDue
  /\ ring # <<>>
  /\ ring' = Tail(ring)
  /\ UNCHANGED <<kernelVars, calls, running, srtt_samples, drop_counters, readerVars, historyVars>>

-----------------------------------------------------------------------------
Socket ==
  \/ \E new \in {"synSent", "established"} : Open(new)
  \/ \E c \in Cpus : Established(c)
  \/ Close
  \/ Release

Program(x) ==
  \/ Enter(x)
  \/ Lookup(x)
  \/ Abandon(x)
  \/ Store(x)
  \/ Output(x)
  \/ CountLoad(x)
  \/ CountStore(x)

Reader == ReadPending \/ PollKernelDrops \/ ReadRing

Next ==
  \/ Tick
  \/ Socket
  \/ Evict
  \/ \E x \in Cpus \X Programs : Program(x)
  \/ Reader

Spec == Init /\ [][Next]_vars

-----------------------------------------------------------------------------
(***************************************************************************)
(* Properties.                                                             *)
(***************************************************************************)

(* A measurement that maybe_emit_srtt leaves out is close to one that it   *)
(* did put out or count as a drop, at most an interval before, whichever   *)
(* processor stored what meanwhile: of the same connection, or of one at   *)
(* the address that was used after its close.                              *)
CloseTo(x, s) ==
  /\ s.at \in (running[x].now - EmitInterval + 1)..running[x].now
  /\ \/ running[x].now - s.at < MinInterval
     \/ Distance(s.srtt, running[x].srtt) < RelativeThreshold(s.srtt)
  /\ s.connection = connection \/ s.afterClose

SuppressionJustified ==
  [][\A x \in Cpus \X Programs :
       running[x].pc = "lookup" /\ running'[x].pc = "idle" => \E s \in samples : CloseTo(x, s)]_vars

(* README, "SRTT and L7 evidence contract": output failures "are counted   *)
(* in a per-CPU BPF map and emitted as coverage drops with a delta count". *)
(* Every drop is reported once, waits for the next poll or is just being   *)
(* counted, as long as no program interrupts or preempts another in the    *)
(* middle of an increment: after that one drop is never reported, and if   *)
(* the counter goes down all earlier ones are reported again.              *)
DropsAccounted ==
  ~overlapped =>
    drops = reported + (IF pending = <<>> THEN 0 ELSE pending[1]) + (Counted - dropSnapshot)
            + Cardinality({x \in Cpus \X Programs : running[x].pc \in {"load", "add"}})
=============================================================================
