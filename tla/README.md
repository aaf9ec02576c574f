# A TLA+ model of the WhaTap Kubernetes network agent

The agent observes the network activity of the containers of a node. BPF
programs capture socket events and the start of application payloads, a Go
process reads them from a ring buffer, enriches them (process, pod, NAT
mapping), correlates DNS and HTTP exchanges, aggregates L4 observations into
time windows, writes everything as JSON lines and optionally exports it to a
WhaTap collector as TagCount packs.

This directory holds TLA+ modules for the parts of that program whose
correctness depends on order, concurrency, limits or failure; TLC
configurations that check them on small instances; and TLAPS proofs, for every
instance, of every safety property that the passing runs check. `PROJECT.json`
maps every definition to the source lines it stands for and lists runs, hazards,
mutants (plausible bugs of the code that the properties detect) and theorems.

## 1. Inventory

| Component | State | Operations | Module |
|---|---|---|---|
| BPF program `internal/collector/bpf/flow.bpf.c` | LRU maps `io_calls`, `ssl_fds`, `ssl_calls` and others, ring buffer | entry, socket-layer and exit programs of data system calls; OpenSSL uprobes; connect and SRTT events; drop counters | `SocketProbes`, `TcpSampling` |
| BPF loader and reader `internal/collector/loader_linux.go` | ring reader, polled drop counters | `Read`, `pollKernelDrops`, `InterruptRead`, `Close` | `SocketProbes`, `TcpSampling`, `Pipeline` (contract) |
| Socket resolver `socket_resolver_linux.go` | LRU of descriptor to inode and tuple | `resolve`, over `/proc` | `SocketProbes` |
| Event pipeline `internal/app/event_stream.go`, `events.go` | pump goroutine, channel, capture progress, pending resolutions, loop state | pump, `select` loop, retry, cancellation, drain, finalisation | `Pipeline` |
| L4 windows `internal/flow` | active windows, watermark, finished flag | `Add`, `Flush`, `Finish`, `Aggregate`, `Distribution.Merge` | `FlowStream`, `Distribution` |
| DNS correlation `internal/dns` | pending queries ordered by deadline | `Process`, `Expire`, `Flush`, `Finish` | `DnsCorrelator` |
| HTTP correlation `internal/l7` | pending requests, ambiguous connections, HTTP/2 connections, directions, streams | `Process`, sweep | `L7Correlator` |
| JSONL queue `internal/app/output.go` | record channel, loss counters, error | `Encode`, writer goroutine, `Close` | `QueuedOutput` |
| Event output `internal/app/pipeline.go` | export latch, reported losses | `Encode`, `encodeWindows`, `Close` | `OutputChain` |
| TagCount exporter `internal/tagcount/exporter.go`, `export_events.go` | queue, counters, failure latch | `Export`, sender goroutine, `Close` | `TagCountExporter` |
| Collector client `internal/whatap/client.go`, `protocol.go` | cached session, gate, readers, closed flag | `Send`, reader, `Close` | `WhatapClient` |
| conntrack resolver `internal/conntrack` | cached dump, its two clock readings, next refresh | `ResolveAfter` | `ConntrackResolver` |
| Process resolver `internal/process` | TTL cache of identities | `Lookup` over `/proc` | `ProcessResolver` |
| Pod identity `internal/podidentity` | index an informer fills | lookup by address or container, `Enrich` | `PodCache`, `Enrichment` |
| Edge submission `cmd/network-edge-submit`, `internal/bridge` | counters, one connection per window | read a line, submit, await the acknowledgement | `EdgeSubmit` |
| Agent command `cmd/agentkubenetwork` | reporter goroutine | wiring, order of shutdown | `OutputChain` |
| Event decoding, pack layout, settings, protocol bytes, license | none, or one call's | pure conversions | outcomes only, see section 7 |

How they interact. A BPF program puts events into the ring buffer; the pump
goroutine reads them, stamps each with its capture time under the
`captureProgress` mutex and sends it to a channel of 64. The event loop selects
between cancellation, a failed sink, the flush tick and the channel. It calls
the correlators and the window stream directly, in its own goroutine, and hands
records to the event output, which calls the exporter and the JSONL queue.
Before that it asks three caches, of the kernel's connection table, of `/proc`
and of the cluster's Pods, whom an observation belongs to. Both
have a goroutine of their own; the exporter's calls `Client.Send`, and the
client keeps one reader goroutine per session. Cancellation runs from the loop
to the pump (`stop`, `InterruptRead`), and `Close` runs down the chain of sinks
with a drain timeout at each queue.

What is hard here:

- the watermark and the DNS expiry follow the clock while stamped events still
  wait in the channel (`captureProgress` exists for that), and that clock is wall
  time: observations and the watermark are compared without a monotonic reading
  (`event.go:154`, `stream.go:69`);
- the kernel reserves a ring record before it stamps it, so timestamps of
  fragments can come out of order;
- cancellation meets a pump that is in `Read`, or between `Read` and a channel
  nobody receives from;
- observations wait for a NAT mapping while their tuple is reused;
- limits: windows, pending queries, tracked connections and streams, queues,
  LRU maps;
- drain timeouts race with goroutines that still write; counters are read by
  one goroutine while another updates them;
- a frame whose write failed must not be sent again, and `Close` may run between
  any two steps of a `Send`;
- the kernel side learns about one system call in three places and joins them
  by thread, over descriptors that can be reused;
- its sampling state and drop counters are read and written by programs on
  several processors, without locks;
- an observation is joined with three views of the past, each of another age,
  while connections, PIDs and addresses are reused.

The properties that make each part correct:

- **Windows** are final once emitted, emitted once, contain exactly the accepted
  observations of their interval, and are bounded in number.
- **DNS**: every datagram is accounted for once; the number of pending queries is
  bounded; no query that was answered in time is reported unanswered.
- **HTTP**: a response is never paired by guess; nothing of an expired connection
  survives into one with the same endpoints; the state is bounded.
- **Pipeline**: each captured observation is written once; none becomes late for its
  window on its way through the agent; the run ends when it should.
- **Outputs**: each record is written or counted as lost; each loss is reported
  once; a clean `Close` means that nothing was lost silently.
- **Enrichment**: a backend is one the connection had, not one of an earlier
  connection; a process and its container are of one generation; an ambiguous or
  younger Pod is not named; the starts of two netlink dumps keep a distance.
- **Client**: a frame is written at most once; no connection or reader outlives
  the client.
- **Capture**: a fragment belongs to the socket, direction and peer it is
  attributed to; a measurement is left out only if a similar one was reported;
  what found no room is counted and reported.

## 2. Modules and how they correspond to the code

`FlowStream` is `flow.Stream`. A window keeps its count, its last observation
time, the `Distribution` of its RTTs, and the set of the observations that
contributed to it, which stands for the other metrics of the code: sums that do
not depend on order. `Add` and `Reject` are the two outcomes of `Stream.Add`;
`AddError` is the order of its checks. `Flush`, `Finish` and `FinishAgain` take
`now` from any direction, because `UTC()` strips the monotonic clock reading.
`Aggregate` is the batch function, used as the reference; there the RTT
statistics (`Statistics`) are computed from all values at once, so that they are
a definition of what the one-by-one `Merge` should give.

`DnsCorrelator` is `dns.Correlator` with its pending index. Decoding is
abstracted to what a datagram turns out to be. Timestamps may be missing (0) or
out of order; the latency conversion from nanoseconds to microseconds is kept.

`Pipeline` extends both. The steps of the loop are conjunctions of its own
change and the step of `FlowStream` or `DnsCorrelator` on that module's
variables. `Pump*` is the goroutine, one action between two points another
goroutine can observe. `SelectTick`, `Receive*`, `SelectCancel` and
`SelectSinkFailed` are the cases of the `select`; a record is encoded in a step
of its own because the sink can fail in between. `Cancel*` is `finish`, stop,
interrupt, join and drain in the order of `cancel`. `Finalize*`, `Exit`,
`DnsFinish` and `CloseOutput` are the end of the loop and its deferred calls.
`ReceiveL7` also stands for a coverage drop (lines 166 to 176), which goes to the
output in the same way. `clock` is the `now` function that `main.go:203` passes, wall
time: `Tick` moves it on and `SetBack` sets it back to any earlier time. The stamps of
`captureProgress` keep their monotonic reading, so `Watermark` is the first stamp
taken of those outstanding; everything made of a stamp is compared by wall time.
`shown` is history: the latest time the clock has shown in each interval between two
accepted events. `Resolve` says what conntrack may answer: nothing, or any connection
of the tuple that some dump, also an older cached one, has seen; `ResolveAfter`, for
an egress connect, leaves out those of dumps from before the observation, as far as
wall time tells.

`app.Run` in `run.go` is not this loop: it decodes a file of observations and writes
`Aggregate` of them, the reference definition in `FlowStream`.

`QueuedOutput` is `queuedOutput`: the caller's `Encode` and `Close`, the writer
goroutine, and its loss reports in the two steps of the code (compute, write).

`TagCountExporter` is the exporter's queue, counters, latch, sender goroutine and
`Close`.

`LossyQueue` is what both promise their callers: never wait, lose an item only
when full and count it, deliver in order and at most once, end well only when
everything taken was delivered. `JsonlIsLossyQueue` and `ExportIsLossyQueue` are
its specification under a refinement mapping each.

`EdgeSubmit` is the program that reads the JSONL in the deployment that pipes it,
with the node behind it as an external part that may act after the client gave
up.

`OutputChain` extends these: `eventOutput` calls the two queues line by line
(`LineBegin` to `ExportLine`), with the latch that ends exporting after the first
failure and the reports of export losses; then the shutdown of
`finalizeTagCount`, with the reporter goroutine. `deployment` is the choice of
outputs on the command line, in the modes `windows`, `both` and `raw`; the last has no
window stream and cannot be combined with TagCount. What the loop may call is what
`Pipeline` calls.

`WallClock` has the two readings of `time.Now`, and that the wall clock may be set
back. `ConntrackResolver` is `conntrack.Resolver` for one tuple: the kernel's
entries change at any time, also in the middle of a dump. `ProcessResolver` is
`process.Resolver` for one PID, with a step for every file it reads; start times
of processes with the same PID are taken to be distinct, which the clock ticks of
`/proc` cannot promise for a PID reused within one. `PodCache` is the index and
its lookups. `Enrichment` extends them with the part of the loop that calls them,
for one observation at a time: the lookup in one or both orders of the tuple, the
process, the wait for a mapping with its retries, and the Pods when the
observation is written.

`WhatapClient` is `whatap.Client`: any number of calls of `Send`, the callback
that closes the connection of a call whose context is over, the readers, and
`Close`. The network decides how dials, handshakes and writes end.

`L7Correlator` is `l7.Correlator`. A fragment is what the parsers make of it
(`HTTP1Kinds`, `ClientKinds`, `ServerKinds`); the five maps, the sweep, the limits
and the poisoning of a direction are kept. One fragment carries at most one
HTTP/2 header block. Fragments come with timestamps in any order, since the BPF
program reserves the ring record (`flow.bpf.c:532`) before it reads the clock (line
538) and `fragmentTimestampNS` falls back to wall time; `inverted` is history: the
HTTP/2 connections with a fragment stamped before the one ahead of it, as long as
anything of them is left.

`SocketProbes` is the BPF programs around data system calls and OpenSSL calls,
their maps with eviction at any time, the ring buffer, and the reader with the
socket resolver. The environment is one process: its threads open, close and
reuse descriptors, and inside an OpenSSL call use no descriptor other than that
of the SSL object. A kernel object is its serial number, which also stands for
its tuple and inode.

`TcpSampling` is `maybe_emit_srtt`, `observe_tcp_connect`, `output_event` and
`count_drop` for one socket address and one of the counters, and `Read` with
`pollKernelDrops`. A program runs on a processor and makes one step per access to
a map; an increment is a load and a store. The state program may interrupt the
two others on its processor, and no program nests in itself there.

`Subsequence` says what stands at some positions of a sequence, by rank:
`SelectSeq` without its recursion, so that the properties of `QueuedOutput` and
`OutputChain` about the records, the loss reports and the exportable lines of an
output can be proved as well as checked. `Sums` does the same for sums: the total
of a function is the number of its units, a cardinality, which the theorems about
finite sets can count step by step. `Statistics` of `FlowStream` and `Counted` of
`TcpSampling` use it.

The `MC...` modules add the symmetry sets and the derived constant values; they
replace nothing. The theorems are in `PipelineParts_proofs` (about `FlowStream`
and `DnsCorrelator`, the two parts that `Pipeline` composes), `Pipeline_proofs`
over it, `WhatapClient_proofs`, `L7Correlator_proofs`, `SocketProbes_proofs`,
`TcpSampling_proofs`, `Enrichment_proofs` and `OutputChain_proofs`.

## 3. Runs

| Run | Configuration | What it shows |
|---|---|---|
| `flow_stream` | `MCFlowStream.cfg` | Any order of `Add`, `Flush`, `Finish` with times that go back and forth: emitted windows equal `Aggregate` of what was accepted, RTT statistics included, are unique and never reopened; nothing overdue is active; the limit holds; the watermark never moves back. |
| `dns_correlator` | `MCDnsCorrelator.cfg` | Queries, retransmissions, responses and expiry with one place for pending queries: `DatagramsAccounted` (the limit holds, each exchange is closed once, no datagram disappears), and latency never wraps. |
| `pipeline_l4` | `PipelineL4.cfg` | Pump, channel, retries, cancellation, drain, a failing sink: no observation is lost or written twice; the loop uses its window stream as `FlowStream` allows (`ImplementsStream`, the specification of `FlowStream` as a property); a run ends, and every wait for a mapping ends. |
| `pipeline_clock` | `PipelineClock.cfg` | Events of every kind under a clock that is set back: no observation is refused as late on account of waiting in the agent, and no query is reported unanswered although its answer was captured in time and waits in the channel. |
| `pipeline_generations` | `PipelineGenerations.cfg` | *Violation*, finding 1. |
| `output_chain` | `OutputChain.cfg` | The event output over both queues, and the reader of the pipe: both queues implement `LossyQueue`; loss reports state exactly the losses since the last; the counters account for every pack (so `Pending`, an unsigned difference, never wraps); what was tried to export is a prefix of what was offered and all evidence is still written; an agent that ends without an error has delivered everything; no window is submitted twice; losses are eventually reported and shutdown passes whatever blocks. |
| `l7_correlation` | `MCL7Correlator.cfg` | Fragments in any order and with inverted timestamps: no guessed HTTP/1 pair; nothing survives an expired HTTP/2 connection, unless its own timestamps were inverted; a poisoned direction stays so. |
| `l7_capacity` | `L7Capacity.cfg` | *Violation*, finding 2. |
| `whatap_client` | `WhatapClient.cfg` | Two `Send`s, readers, callbacks and `Close`: a frame is written at most once, no leak, no reader after `Close`, and `Close` ends everything without help of a timeout. |
| `socket_probes` | `SocketProbes.cfg` | Two threads, a reused descriptor, eviction: fragments are attributed to the socket they travelled on, once. |
| `enrichment` | `MCEnrichment.cfg` | Connections, processes and Pods come and go between any two steps of the loop, dumps fail or are torn, the wall clock is set back: a backend was the tuple's at or after the observation (for a new connection), a process is one generation, Pods are neither ambiguous nor too young; dumps keep their distance. |
| `tcp_sampling` | `MCTcpSampling.cfg` | Sends, receives and state changes on two processors, a full ring, an evicting map and a reused socket address: a measurement is left out only if one close to it was put out or counted; every lost event is reported once unless increments overlapped. |

### Bounds, and why they are enough

- `flow_stream`: three observations, two of them with RTTs of which the later may
  be the smaller and one without, are two for one window and one for another; two
  identities over four instants make more than `MaxWindows` = 2 windows; the
  instants fall on a window's end (2), in its lateness (3) and past it (5).
- `dns_correlator`: three datagrams are a query, its retransmission and an
  answer, or a query, one over the limit and an answer; stamps are missing,
  before and after the query's.
- `pipeline_l4`: a channel of one makes the pump block; two events over two
  tuples give a waiting connection and either its supersession or an unrelated
  observation; one waiting place and one window reach both limits; three attempts
  span the grace period. The clock is not set back here: it only moves on, twice, so
  that the liveness properties remain in reach, and none of the properties of this
  run compares times.
- `pipeline_clock`: two events of any two kinds are a query and its answer, two
  connections of one tuple, or an observation and something that keeps the loop
  busy; one of them can wait in each of the pump's hand, the channel, the tail and
  for its mapping. The instants 1 to 3 span `Timeout` = 2 and a window of 2 with a
  lateness of 1; one setting back reaches from the last instant to the first, which
  makes `Add` refuse an observation as late. The number of events is not limited
  (`MaxEvents` = 0), since reaching that limit would stop the capture time. Sinks do
  not fail here; `pipeline_l4` has them fail, and the proofs hold for both.
- `output_chain`: queues of one with three records (two when both outputs are on)
  overflow, drain and overflow again, since writer and sender hold one more;
  batches of two can fail in the middle. In the model, as in the code, the loss
  report at queue close never has anything left to report when the capacity is
  at least one, since the writer reports after every record it takes.
- `l7`: two connections and one place; two instants span `StateTTL` = 1, and one
  inversion goes from the later to the earlier; the sweep runs at every second
  fragment. With an inversion a sweep does leave a direction behind: without
  `inverted`, `FreshStart` is violated in this instance.
- `whatap_client`: two calls contend for the gate and the session, two servers
  give one retry.
- `socket_probes`: two objects on one descriptor are a reuse; three calls are a
  system call inside an OpenSSL call and one of another thread; a resolver cache
  and a ring of one are full at once. The lookup of a tuple takes two steps
  (link, table), so that the descriptor can change in between.
- `enrichment`: the instants 2, 3, 4 and 22 lie within `MissRefresh` = 1, at `Ttl` =
  2, and past the back-off of ten times `Ttl` from each other; two observations
  share the caches, so the second meets what the first left there; three changes
  outside reuse a PID, an address or a tuple and change it once more. A change
  that nothing reads for a while is the same as one just before it is read, so
  each kind is enabled only in the part of the loop that can read it.
- `tcp_sampling`: two processors with two calls and the state program overlap in
  every way two can; two connections are one reuse of the address; a ring of one
  overflows at the second event; the time spans `EmitInterval` = 2 and
  `MinInterval` = 1, and the raw values give one that is no measurement, and two
  beyond each other's threshold. `Wrap` stands for 2^64.

Deadlock is checked everywhere but in `whatap_client`, where nobody need call
`Close`, and in `socket_probes`, `enrichment` and `tcp_sampling`, where the
observed applications may simply end.

### Fairness

Goroutines are scheduled by the Go runtime, so every step of one that does not
wait for the outside is weakly fair. In `Pipeline`, `Read` is fair only once it
was interrupted, and the receive and the tick are strongly fair because `select`
chooses at random among the cases that are ready. In `OutputChain` the loop (once
it is in a call), the shutdown, the writer and the sender are weakly fair, and
the drain timers fire. A write to stdout or of the diagnostics may block for
good, so nothing is assumed of it: `LossReported` asks in its own premise that
the consumer goes on reading, and `ShutdownTerminates` ends where the join of the
reporter begins. A `Send` is only assumed to return once its context is
cancelled. In
`WhatapClient` nothing is assumed of timeouts, of the collector, or of whether
`Close` is called; a blocked operation returns once its connection is closed or
its dial's context is over.

## 4. Findings

1. *A lookup can join across socket generations.* `events.go:235-236` says "A new
   establishment with the same tuple ends the earlier enrichment opportunity. Never
   join across socket generations." The code ends it when the loop consumes the later
   connect event. In the counterexample the pump has sent the first connect event and
   has read the second one of the same tuple, which it holds in hand, not yet stamped.
   The kernel tracks the second connection by then. The loop now takes the first event,
   and its first lookup (`events.go:232`) answers with the second connection's
   mapping: `ResolveAfter` asks only that the dump is not older than the
   observation. No retry is involved, though one (`events.go:126`) can be answered in
   the same way. Run `pipeline_generations`.
2. *The cap on tracked connections has a way around.* `README.md:121` says
   "Defaults cap tracked connections at 16,384". A first payload with a pipelined
   second request is put into `http1Ambiguous` (`correlator.go:242`) before the
   check against the cap. The entry is removed by the sweep after `StateTTL`.
   Run `l7_capacity`.

## 5. Proofs

`PipelineParts_proofs`, on windows, assumes only `StreamConfigAssumption` (a positive window
size, a lateness that is not negative, a positive limit, natural numbers as times) and
proves, for all sets of observations and every order of calls:

- `StreamTypeCorrect`;
- `StreamEmitsOnce`: no key is emitted twice or active again. `EmittedOnce` alone
  is not inductive: that a new window was never emitted before needs to know that
  everything emitted lies behind the watermark, which is what `Add` compares
  with. The inductive invariant `StreamInv` therefore adds `StreamTypeOK`,
  `WatermarkSeparates` (active windows end after the watermark, complete ones
  at or before it) and `PartialOnlyAtEnd` (partial ones exist only once the
  stream is finished, when nothing is accepted any more);
- `StreamWatermarkSeparates`, from the same invariant;
- `StreamWindowsBounded`, with the cardinality theorems for finite sets;
- `StreamWatermarkMonotone`, an action property;
- `MergeOrderIndependent`: `Merge` is commutative and associative with
  `NoSamples` as neutral element, so the distribution of a window does not depend
  on the order in which its observations came. `ObservationFacts` and `MergeType`
  are the lemmas that carry distributions through `StreamTypeOK`;
- `StreamMatchesAggregate`: what `Add`, `Flush` and `Finish` keep and return is what
  `Aggregate` computes from all accepted observations at once. `AggregateInv` adds
  `StreamInv` to it, because an observation whose window was already emitted would
  open a second one with the same key, and `Ascertained`: the group of each key is
  finite and its RTTs have a least and a greatest value. The latter stands in for an
  induction over the group. `Min`, `Max` and the last time are `CHOOSE` expressions,
  and that what they choose exists is carried along as the group grows by one
  observation. `BatchWith` is the step: the batch window of a group with one more
  observation is `AddToWindow` of its batch window, by `StatisticsWith` for the RTTs
  and `TotalWith` for their sum;
- `StreamFinishedOutput`: after `Finish`, the emissions are the whole aggregation.

`WhatapClient_proofs` assumes a finite set of calls and at least one server:

- `FrameWrittenAtMostOnce`. The inductive invariant `SendInv` says, for every
  point of a `Send`, what it has written so far: nothing until it begins, one
  session from then on, complete only after the write succeeded, and that the way
  back to the next server is open only to a call that has written nothing;
- `SessionsNotLeaked` and `CloseWaitsForReaders`, from `SessionInv`: the gate
  admits one call (`Exclusion`), an open session is the client's or has a holder
  (`NoSessionLeak`), what a call holds is consistent with where it is (`Owned`),
  and the readers are joined (`CloseJoins`).

The second half of `PipelineParts_proofs` proves `DnsAccountsForDatagrams` and
`DnsLatencySound` from `DnsConfigAssumption` (positive timeout, limit and unit). One call of `Process` ages
out queries and then correlates, so `DnsInv` is a predicate of three values
(pending queries, records, captured datagrams) that is followed through the parts
of a call. It adds to the properties that a pending query is a captured one under
its own key, that nothing pending is in a record already, and that a retransmission
is stood for by an earlier query that is pending or was closed after it came.

`Pipeline_proofs` proves, for every channel capacity, limit, window size and
timeout, and every interleaving of the pump, the loop, the clock, the sinks and a
cancellation:

- `PipelineAccountsForReads` (`CaptureAccounted`) from `PipelineInv`. What the
  property says of the events in flight is not inductive without knowing where
  cancellation stands: `CancelInv` says that nothing is held back before
  `close(stop)` and that after the join the pump is gone; `FlightInv` adds that an
  error can only be the last in flight, and then the pump sends nothing more;
- `PipelineLosesNothing` (`NothingLost`) with `RecordInv`: an L4 event that the loop
  has taken is in exactly one of the work of this step, the waiting resolutions and
  the written records; `LoopInv` says that a loop that ends without an error has
  emptied the first two and seen the end of the stream;
- `PipelineNeverLate` (`NoLateObservation`), for a clock that is set back any number
  of times. `Stamped` says that a stamp is at most what the clock had shown in its
  interval, so that the first outstanding stamp is at most what was shown before the
  event was accepted (`WatermarkShown`); `EndInv` says that while the loop flushes, the
  cutoff can only be the stamp of the last event. `WatermarkInv` is then: for every
  read whose record is not yet written, watermark and lateness together are at most
  some time shown up to its stamp (`Behind`). This is the argument for
  `captureProgress`: stamps in flight are pinned, stamps of waiting resolutions are
  the minimum `flush` takes. A refusal as late therefore means that the clock had been
  past the window before;
- `PipelineNoPrematureTimeout` with `QueryInv` (no answer to a pending query was
  taken since) and, for a query reported unanswered, `InVain`: every answer captured for
  it came after the clock had shown that its timeout was over, and so will every later
  one, unless the pump is done. An answer captured earlier would be in flight and hold
  the capture time back;
- `PipelineImplementsStream`, the refinement: each step of the loop is a step of
  `FlowStream` on its variables or leaves them alone, and `PipelineEmitsOnce` carries
  `StreamEmitsOnce` over, `PipelineMatchesAggregate` the equality with `Aggregate`;
- `PipelineReportsObservations`, from the reader to the windows: when the loop has
  returned without an error of its own, each L4 event that was read is in exactly one
  window that was handed out, or in none because `Add` refused it, for the limit or as
  late after the clock had been past its window. It
  puts `NothingLost`, `NoLateObservation` and `MatchesAggregate` together; `ResultInv`
  is the link: a written record was accepted or refused, and not both;
- `PipelineReportsDatagrams`, the same for DNS: every datagram that was read is in a
  transaction, a retransmission by the query it repeats. The correlator's invariant
  counts datagrams without gaps, which is not so in the loop, where they are numbered
  among all events; it is therefore stated for any bound on the numbers (`DnsInvOf`),
  and `DnsLoopInv` adds that exactly the datagrams the loop has taken were captured
  and that none is pending once `Finish` has run.

The last two are stated for `~failed`, as `NothingLost` is: an error of the loop's own
ends it with events still queued. Both were checked by TLC on the instances of
`pipeline_l4` and `pipeline_clock` before they were proved.

`L7Correlator_proofs`: `PairsAreNotGuessed`, `ConnectionsStartFresh` and
`PoisonIsKept`, for any connections, streams and limits and timestamps in any order.
`Agree` is the strengthening: unless the connection is `inverted`, what belongs to an
HTTP/2 connection, its directions, their incomplete frames and its streams, is not
stamped after the connection was last seen, so that the sweep that ends it ends that
too; and a connection is never both waiting for a response and ambiguous. `Paired` relates the maps to the
wire: one entry in `http1` stands for exactly one request without an answer, unless
the correlator lost sight of one.

`SocketProbes_proofs`: `ProbesTellTheTruth`, `ProbesReportOnce` and
`ProbesResolveFresh`, for any number of threads, descriptors, objects and calls, any
eviction and any capacity. `IoInv` says that what `io_calls` remembers for a thread
is about the call the thread is in; `Settled` that the call of an event is over, or
is a UDP send which the exit program will not report again.

`TcpSampling_proofs`, for any number of processors, connections and calls and every
interval and ring, from `SamplingAssumption` (among others, finitely many processors):

- `SamplingSuppressionJustified`. `EntryInv` says which sample the map entry is: one
  that was put out or counted, of this connection, or stored by a late caller after
  its connection was closed. The second case is why the property names it: `Close`
  deletes the entry, but a caller that was past its lookup may store one again, and
  the next connection at the address begins with that;
- `SamplingDropsAccounted`. `AccountInv` holds while no two increments have
  overlapped. A program between its load and its store has the counter's current
  value and is alone there on its processor, so that the sum over the processors
  grows by one for each store (`TotalIncrement`), never goes down, and
  `kernelDropEvents` never takes it for a restart; what was dropped is what was
  reported, waits as an event, was counted since the last poll, or is being counted.

`Enrichment_proofs`: `MappingsAreSound`, `DumpsAreThrottled` and
`AttributionsAreSound`, from `EnrichmentInv`. `CacheInv` and `DumpInv` date what the
table holds by the moment its dump began, whatever is torn; `ThrottleInv` relates the
next refresh to the start of the last dump; `DraftInv` and `LookupInv` follow one
generation of a process through the files read for it; `WrittenPodsInv` says what
each Pod was chosen by. The proofs need that the markers for "no backend" and "no
container" are not backends or containers of a Pod (`ConntrackAssumption`,
`ProcessAssumption`, `EnrichmentAssumption`) and that creation times are natural
numbers (`PodAssumption`).

`OutputChain_proofs`, for every capacity of both queues and any number of records.
The two queues and the submitter share no variables, so `JsonlInv`, `ExporterInv` and
`SubmitInv` are invariants of each by itself; `LoopInv` and `ReadInv` relate them to
the loop, and `ChainInv` is all of them:

- `LossReportsAreExact` and `SummaryIsExact`;
- `JsonlImplementsLossyQueue` and `ExportImplementsLossyQueue`, the refinements. In
  `JsonlInv`, `JsonlCountInv` says that each offered record is in the output, in the
  writer's hand, queued or counted, and `JsonlOrderInv` that they are in order along
  that way;
- `ExportsAreAPrefix` and `EvidenceIsKept`: `ExportInv` says how far the exporter is
  behind the encoded lines, by one at most and only in between the two calls;
  `EvidenceInv` that each record has a line or is among the rest of the current call;
  `ExportLossInv` that a loss line is alone in its call and carries the difference;
- `SubmissionsAreSound`: that the node's queue grows strictly needs that the next
  window in the output has a larger number than the last one submitted, through the
  order of the output, of the encoded lines (`WindowsInv`) and of what was read
  (`ReadInv`);
- `ShutdownsAreClean`: `PhaseInv` ties the result of both `Close`s to the loop's
  error, `WriterInv` and `ExporterCloseInv` say what a `Close` without an error has
  seen, and the counts do the rest.

`ChainInv` was first checked by TLC as an invariant of the instance of `output_chain`;
that showed which of its parts were too strong or too weak before any was proved.

## 6. What is only model-checked

Of the properties of the passing runs, only those about liveness: `Terminates` and
`ResolutionSettles` of the pipeline, `LossReported` and `ShutdownTerminates` of the
outputs, `CloseInterrupts` of the client. They rest on fairness, that is on `ENABLED`,
which the prover cannot reason about.

The proofs leave open, as the runs do, that operators stand for the code they
abstract (section 7), and they rest on the named assumptions on the constants, which
TLC evaluates for each instance.

## 7. Not modelled

- Of the BPF program: the BIO route from an SSL object to a descriptor
  (`bio_fds`). As part of `SocketProbes` it multiplies the states by about eight,
  and the instances that remain in reach have no reuse of a descriptor any more,
  which is what would matter: an `SSL_set_bio` whose BIOs are not in the map
  leaves the object's earlier descriptor in place (`flow.bpf.c:1028`). Also the
  classifier with its map of HTTP/2 connections: `SocketProbes` takes any payload to
  be of interest or not. Loading, attaching and the generated bindings.
- Drops after the last poll: `Read` is interrupted at the end of a run and polls no
  more, so what was counted since is not reported.
- Parsers, HPACK, TagCount field layout and settings, protocol bytes, ciphers and license
  parsing, decoding of fixed-size BPF records: stateless conversions; the modules
  keep their outcomes (accepted, refused, what kind).
- The text of `/proc`, the bytes of netlink, command line flags and log formatting:
  input and output. The start of the Pod informer and its stop function: the
  informer is external and ends with the context of the run, which is before the
  loop has drained, although `informer.go:18` asks the caller to stop it after.
- The wire format, the preflight check and the field rules of the bridge client.
- Limits of the code that no property can see: a fragment carries no
  generation of its connection, so a tuple reused within `StateTTL` looks like the
  same connection to the HTTP correlator; and an SSL event without a tuple
  carries only a descriptor, so it is resolved to the socket that has the
  descriptor when the event is read.
- Conditions in properties that the code does not ensure. A wall clock that is set
  back past window and lateness makes `Add` refuse what is captured until the clock
  has caught up (`stream.go:53`, tested in `stream_test.go:75-78`):
  `NoLateObservation`, and with it `PipelineReportsObservations`, excludes exactly an
  observation whose window the clock had shown to be over before it was stamped
  (`OverBefore`). `NoPrematureTimeout` likewise excludes an answer that was captured
  after the clock had shown, since the query, that the timeout was over, although
  by the clock's later reading it would be in time. `FreshStart` excludes an HTTP/2
  connection with a fragment stamped before the one delivered ahead of it: its entry in
  `http2Connections` can be older than that of a direction, and a sweep that falls in
  between takes the connection and leaves the direction, with its HPACK table and its
  poison, for the next connection of the tuple. `MappingSound` for a new
  connection asks that the wall clock was not set back, and `DropsAccounted` that
  no two increments of one counter overlapped. After an overlap a drop is never
  reported, and when the counter goes down by it `kernelDropEvents` takes the
  counter to have started again and reports the earlier drops once more.

## 8. Plan

Done, in this order: windows, DNS, the pipeline over both, the two output queues,
the collector client, HTTP correlation, the capture programs; then the output
chain over both queues with their abstract specification, the enrichment caches,
SRTT sampling and drop counters, RTT statistics; proofs about windows,
distributions and the client; then about DNS and HTTP correlation, the pipeline, the
capture programs, enrichment and the output chain, refinements included; then the
equality with the batch aggregation, the sampling and the drop counters, and from the
reader to the output for L4 events and for datagrams.

What the model could still gain: `Enrichment` in place of `ResolveAfter` in
`Pipeline`, and the exporter's `Send` as an abstract step that `WhatapClient`
implements; both compositions are larger than one run can explore as they stand.

## 9. Running

In this directory: `tlc -config <cfg> <module>` for the module and configuration
of a run in `PROJECT.json`, and `tlapm <module>_proofs.tla` for each proof module.
