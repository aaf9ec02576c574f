---------------------------- MODULE L7Correlator ----------------------------
(***************************************************************************)
(* l7.Correlator (internal/l7/correlator.go, http2.go): HTTP requests are  *)
(* matched to their responses from captured plaintext fragments.           *)
(*                                                                         *)
(* A connection stands for node, observer process, capture source and the  *)
(* two endpoints; its client is the endpoint that sends the requests.  A   *)
(* fragment is classified by what the parsers make of its payload, at most *)
(* one header block in each.  Within a direction of an HTTP/2 connection,  *)
(* "partial" leaves a frame or header block incomplete and the next header *)
(* block ends it; "bad" fails frame or HPACK decoding, or the kernel has   *)
(* captured less than the call transferred.  Paths, methods and enrichment *)
(* are left out.                                                           *)
(*                                                                         *)
(* A fragment has the kernel's timestamp.  The ring buffer delivers in the *)
(* order in which records were reserved, and a program reads the clock     *)
(* after that, so one processor may stamp a later record with an earlier   *)
(* time; without a kernel timestamp it is wall time.  Timestamps are       *)
(* therefore in any order.                                                 *)
(***************************************************************************)
EXTENDS Integers, FiniteSets

CONSTANTS
  Conns,            \* connections
  Streams,          \* HTTP/2 stream IDs
  StateTTL,         \* Config.StateTTL
  SweepEvery,       \* Config.SweepEvery
  MaxTracked,       \* Config.MaxTrackedConnections
  MaxStreams,       \* Config.MaxHTTP2Streams
  NanosPerMicro,    \* 1000
  MaxOutstanding,   \* bound: HTTP/1 requests a client sends without an answer
  MaxInversions,    \* bound: fragments stamped before the one ahead of them
  MaxClock          \* bound: the last timestamp

ASSUME L7ConfigAssumption ==
  /\ StateTTL \in Nat \ {0}
  /\ SweepEvery \in Nat \ {0}
  /\ MaxTracked \in Nat \ {0}
  /\ MaxStreams \in Nat \ {0}
  /\ NanosPerMicro \in Nat \ {0}
  /\ MaxOutstanding \in Nat
  /\ MaxInversions \in Nat
  /\ MaxClock \in Nat \ {0}

ClientKinds == {"request", "pipelined", "preface", "bad_preface",
                "h2_request", "h2_partial", "h2_bad"}
ServerKinds == {"response", "informational", "upgrade",
                "h2_response", "h2_informational", "h2_partial", "h2_bad"}
HTTP1Kinds == {"request", "pipelined", "response", "informational", "upgrade"}

Prefaces == {"preface", "bad_preface"}

Fragment ==
  [conn : Conns, from : {"client"}, kind : ClientKinds, stream : Streams]
    \cup [conn : Conns, from : {"server"}, kind : ServerKinds, stream : Streams]

NoStream == 0

Transaction(protocol, conn, stream, micros) ==
  [type |-> "transaction", protocol |-> protocol, conn |-> conn, stream |-> stream,
   micros |-> micros]

Drop(protocol, reason, conn, stream) ==
  [type |-> "drop", protocol |-> protocol, reason |-> reason, conn |-> conn,
   stream |-> stream]

-----------------------------------------------------------------------------
VARIABLES
  l7,           \* the maps of the Correlator
  processed,    \* its counter, modulo SweepEvery
  clock,        \* the timestamp of the last fragment
  out,          \* what the last Process returned
  inversions,   \* how often it was before the one ahead of it
  \* history, per connection
  outstanding,  \* HTTP/1 requests on the wire that have no final response
  blind,        \* one of these is not, or no longer, part of the state
  inverted      \* HTTP/2 connections with a fragment stamped before the last

vars == <<l7, processed, clock, inversions, out, outstanding, blind, inverted>>

Empty == [k \in {} |-> 0]

Init ==
  /\ l7 = [http1       |-> Empty,    \* connection -> start of its request
           ambiguous   |-> Empty,    \* connection -> when it became so
           connections |-> Empty,    \* HTTP/2 connection -> last seen
           directions  |-> Empty,    \* <<connection, sender>> -> direction state
           streams     |-> Empty]    \* <<connection, stream>> -> start of its request
  /\ processed = 0 /\ clock = 1 /\ inversions = 0 /\ out = {}
  /\ outstanding = [c \in Conns |-> 0]
  /\ blind = [c \in Conns |-> FALSE]
  /\ inverted = {}

Put(f, k, v) == [x \in DOMAIN f \cup {k} |-> IF x = k THEN v ELSE f[x]]
Drop1(f, k) == [x \in DOMAIN f \ {k} |-> f[x]]

-----------------------------------------------------------------------------
(***************************************************************************)
(* expire: every SweepEvery fragments, what is StateTTL old goes.          *)
(***************************************************************************)
ExpiredAt(now, started) == started # 0 /\ now >= started /\ now - started >= StateTTL

Old(f, now) == {k \in DOMAIN f : ExpiredAt(now, f[k])}
Young(f, now) == [k \in DOMAIN f \ Old(f, now) |-> f[k]]

(* Mutant: directions outlive their connection.                            *)
SweptKeepsDirections(s, now) ==
  [s EXCEPT !.http1 = Young(s.http1, now),
            !.ambiguous = Young(s.ambiguous, now),
            !.connections = Young(s.connections, now),
            !.streams = Young(s.streams, now)]

Swept(s, now) ==
  [s EXCEPT !.http1 = Young(s.http1, now),
            !.ambiguous = Young(s.ambiguous, now),
            !.connections = Young(s.connections, now),
            !.streams = Young(s.streams, now),
            !.directions = [k \in {x \in DOMAIN s.directions :
                                     ~ExpiredAt(now, s.directions[x].lastSeen)} |->
                               s.directions[k]]]

SweepDrops(s, now) ==
  {Drop("http1", "response_timeout", c, NoStream) : c \in Old(s.http1, now)}
    \cup {Drop("http2", "response_timeout", k[1], k[2]) : k \in Old(s.streams, now)}

TrackedConnections(s) ==
  Cardinality(DOMAIN s.http1) + Cardinality(DOMAIN s.ambiguous)
    + Cardinality(DOMAIN s.connections)

-----------------------------------------------------------------------------
(***************************************************************************)
(* HTTP/1.                                                                 *)
(***************************************************************************)
Result(s, outputs) == [state |-> s, outputs |-> outputs]

MarkAmbiguous(s, f, now) ==
  Result([s EXCEPT !.http1 = Drop1(s.http1, f.conn),
                   !.ambiguous = Put(s.ambiguous, f.conn, now)],
         {Drop("http1", "overlapping_request", f.conn, NoStream)})

(* Mutant: a second request takes the place of the first.                  *)
HTTP1RequestReplaces(s, f, now) ==
  IF f.conn \in DOMAIN s.ambiguous THEN Result(s, {})
  ELSE IF f.kind = "pipelined"
  THEN MarkAmbiguous(s, f, now)
  ELSE IF TrackedConnections(s) >= MaxTracked /\ f.conn \notin DOMAIN s.http1
  THEN Result(s, {Drop("http1", "state_capacity", f.conn, NoStream)})
  ELSE Result([s EXCEPT !.http1 = Put(s.http1, f.conn, now)], {})

HTTP1Request(s, f, now) ==
  IF f.conn \in DOMAIN s.ambiguous THEN Result(s, {})
  ELSE IF f.kind = "pipelined" \/ f.conn \in DOMAIN s.http1
  THEN MarkAmbiguous(s, f, now)
  ELSE IF TrackedConnections(s) >= MaxTracked
  THEN Result(s, {Drop("http1", "state_capacity", f.conn, NoStream)})
  ELSE Result([s EXCEPT !.http1 = Put(s.http1, f.conn, now)], {})

(* A final response takes the request with it; a latency that is not       *)
(* positive leaves nothing behind.                                         *)
HTTP1Response(s, f, now) ==
  IF f.conn \in DOMAIN s.ambiguous \/ f.kind = "informational" \/ f.conn \notin DOMAIN s.http1
  THEN Result(s, {})
  ELSE Result([s EXCEPT !.http1 = Drop1(s.http1, f.conn)],
              IF f.kind = "upgrade"
              THEN {Drop("http1", "protocol_upgrade", f.conn, NoStream)}
              ELSE IF now <= s.http1[f.conn] THEN {}
              ELSE {Transaction("http1", f.conn, NoStream,
                                (now - s.http1[f.conn]) \div NanosPerMicro)})

HTTP1(s, f, now) ==
  CASE f.kind \in {"request", "pipelined"} -> HTTP1Request(s, f, now)
    [] f.kind \in {"response", "informational", "upgrade"} -> HTTP1Response(s, f, now)
    [] OTHER -> Result(s, {})

-----------------------------------------------------------------------------
(***************************************************************************)
(* HTTP/2.                                                                 *)
(***************************************************************************)

(* The header block that a fragment completes, if it is of a stream.       *)
HTTP2Block(s, f, started) ==
  LET k == <<f.conn, f.stream>> IN
  CASE f.kind = "h2_request" ->
         IF k \in DOMAIN s.streams
         THEN Result([s EXCEPT !.streams = Drop1(s.streams, k)],
                     {Drop("http2", "invalid_http2", f.conn, f.stream)})
         ELSE IF Cardinality(DOMAIN s.streams) >= MaxStreams
         THEN Result(s, {Drop("http2", "state_capacity", f.conn, f.stream)})
         ELSE Result([s EXCEPT !.streams = Put(s.streams, k, started)], {})
    [] f.kind = "h2_response" /\ k \in DOMAIN s.streams ->
         Result([s EXCEPT !.streams = Drop1(s.streams, k)],
                IF started <= s.streams[k]
                THEN {Drop("http2", "invalid_latency", f.conn, f.stream)}
                ELSE {Transaction("http2", f.conn, f.stream,
                                  (started - s.streams[k]) \div NanosPerMicro)})
    [] OTHER -> Result(s, {})

(* Text on an active connection, HTTP/1 or a second preface, is read as    *)
(* frames: as bytes of the incomplete frame, if there is one, and else as  *)
(* a frame of impossible length.                                           *)
Text(f, wasActive) == f.kind \in HTTP1Kinds \/ (f.kind = "preface" /\ wasActive)

Undecodable(f, wasActive, partial) ==
  f.kind \in {"h2_bad", "bad_preface"} \/ (Text(f, wasActive) /\ partial = 0)

Incomplete(f, wasActive, partial) ==
  f.kind = "h2_partial" \/ (Text(f, wasActive) /\ partial # 0)

(* Mutant: a good fragment clears the poison.                              *)
HTTP2DirectionForgives(s, f, now, wasActive) ==
  LET k  == <<f.conn, f.from>>
      d  == IF k \in DOMAIN s.directions /\ ~s.directions[k].poisoned THEN s.directions[k]
            ELSE [lastSeen |-> now, poisoned |-> FALSE, partial |-> 0]
      started == IF d.partial = 0 THEN now ELSE d.partial
      To(poisoned, partial) ==
        [s EXCEPT !.directions =
           Put(s.directions, k, [lastSeen |-> now, poisoned |-> poisoned, partial |-> partial])]
  IN IF Undecodable(f, wasActive, d.partial)
     THEN Result(To(TRUE, 0), {Drop("http2", "http2_stream_desync", f.conn, NoStream)})
     ELSE IF Incomplete(f, wasActive, d.partial) THEN Result(To(FALSE, started), {})
     ELSE HTTP2Block(To(FALSE, 0), f, started)

(* One fragment of a direction.  A poisoned direction is only seen; one    *)
(* that cannot be decoded is poisoned and loses its frame state.           *)
HTTP2Direction(s, f, now, wasActive) ==
  LET k  == <<f.conn, f.from>>
      d  == IF k \in DOMAIN s.directions THEN s.directions[k]
            ELSE [lastSeen |-> now, poisoned |-> FALSE, partial |-> 0]
      started == IF d.partial = 0 THEN now ELSE d.partial
      To(poisoned, partial) ==
        [s EXCEPT !.directions =
           Put(s.directions, k, [lastSeen |-> now, poisoned |-> poisoned, partial |-> partial])]
  IN IF d.poisoned THEN Result(To(TRUE, 0), {})
     ELSE IF Undecodable(f, wasActive, d.partial)
     THEN Result(To(TRUE, 0), {Drop("http2", "http2_stream_desync", f.conn, NoStream)})
     ELSE IF Incomplete(f, wasActive, d.partial) THEN Result(To(FALSE, started), {})
     ELSE HTTP2Block(To(FALSE, 0), f, started)

(* processHTTP2 handles the connections that began with a client preface.  *)
HandledByHTTP2(s, f) == f.conn \in DOMAIN s.connections \/ f.kind \in Prefaces

HTTP2(s, f, now) ==
  LET wasActive == f.conn \in DOMAIN s.connections IN
  IF ~wasActive /\ TrackedConnections(s) >= MaxTracked
  THEN Result(s, {Drop("http2", "state_capacity", f.conn, NoStream)})
  ELSE HTTP2Direction([s EXCEPT !.connections = Put(s.connections, f.conn, now)],
                      f, now, wasActive)

-----------------------------------------------------------------------------
(***************************************************************************)
(* Process, and the history of what the wire carried.                      *)
(***************************************************************************)
Requests(f) == CASE f.kind = "request" -> 1 [] f.kind = "pipelined" -> 2 [] OTHER -> 0
Answers(f) == IF f.kind \in {"response", "upgrade"} THEN 1 ELSE 0

(* The HTTP/1 requests the correlator gave up without waiting for the      *)
(* answer: expired, over capacity, or taken for HTTP/2.                    *)
GivenUp(s, sweeping, f, now, outputs) ==
  (IF sweeping THEN Old(s.http1, now) \cup Old(s.ambiguous, now) ELSE {})
    \cup {o.conn : o \in {x \in outputs : x.type = "drop" /\ x.protocol = "http1"
                                            /\ x.reason = "state_capacity"}}
    \cup (IF HandledByHTTP2(s, f) THEN {f.conn} ELSE {})

(* A connection was seen last at an earlier time than before.  It counts   *)
(* as long as anything of the connection is left.                          *)
SeenEarlier(s, f, now) ==
  {c \in {f.conn} : c \in DOMAIN s.connections /\ now < s.connections[c]}

HTTP2Remains(s) ==
  DOMAIN s.connections \cup {k[1] : k \in DOMAIN s.directions}
    \cup {k[1] : k \in DOMAIN s.streams}

Sweeping(now) == processed + 1 = SweepEvery /\ now # 0
Kept(now) == IF Sweeping(now) THEN Swept(l7, now) ELSE l7
Handled(s, f, now) == IF HandledByHTTP2(s, f) THEN HTTP2(s, f, now) ELSE HTTP1(s, f, now)

(* The wire after a fragment that found n requests without an answer.      *)
WireAfter(n, f) == n + Requests(f) - (IF n > 0 THEN Answers(f) ELSE 0)

(* What the call returns and leaves behind, and the history of it.         *)
Leaves(f, now, kept, result) ==
  /\ l7' = result.state
  /\ out' = (IF Sweeping(now) THEN SweepDrops(l7, now) ELSE {}) \cup result.outputs
  /\ LET lost == GivenUp(l7, Sweeping(now), f, now, result.outputs) IN
     blind' = [c \in Conns |-> (blind[c] \/ c \in lost) /\ outstanding'[c] > 0]
  /\ inverted' = (inverted \cup SeenEarlier(kept, f, now)) \cap HTTP2Remains(result.state)

Process(f, now) ==
  /\ WireAfter(outstanding[f.conn], f) <= MaxOutstanding
  /\ clock' = now
  /\ inversions' = IF now < clock THEN inversions + 1 ELSE inversions
  /\ inversions' <= MaxInversions
  /\ processed' = (processed + 1) % SweepEvery
  /\ outstanding' = [outstanding EXCEPT ![f.conn] = WireAfter(outstanding[f.conn], f)]
  /\ Leaves(f, now, Kept(now), Handled(Kept(now), f, now))

Next == \E f \in Fragment, now \in 1..MaxClock : Process(f, now)

Spec == Init /\ [][Next]_vars

-----------------------------------------------------------------------------
(***************************************************************************)
(* Properties.                                                             *)
(***************************************************************************)

(* An HTTP/1 transaction is never guessed: the response that completed it  *)
(* answers the only request on the wire.  The exception is a connection    *)
(* with a request that expired or was over capacity and that may still be  *)
(* answered: nothing marks it, and the next request can be given that      *)
(* answer.                                                                 *)
NoGuessedPair ==
  \A t \in out :
    t.type = "transaction" /\ t.protocol = "http1" =>
      outstanding[t.conn] = 0 \/ blind[t.conn]

(* A connection that is not tracked as HTTP/2 has left neither a direction *)
(* (its HPACK table, its partial frame, its poison) nor a stream behind,   *)
(* so that a new connection with the same endpoints starts from nothing.   *)
(* The exception is a connection with a fragment that was stamped before   *)
(* the one delivered ahead of it: its entry in http2Connections is then    *)
(* older than that of the direction, and a sweep can take the one and      *)
(* leave the other.  No timestamp of another connection can cause that.    *)
FreshStart ==
  HTTP2Remains(l7) \subseteq DOMAIN l7.connections \cup inverted

(* Once poisoned, a direction stays so and completes no transaction until  *)
(* it was silent for StateTTL.                                             *)
PoisonSticks ==
  [][\A k \in DOMAIN l7.directions :
       l7.directions[k].poisoned /\ ~ExpiredAt(clock', l7.directions[k].lastSeen) =>
         /\ k \in DOMAIN l7'.directions /\ l7'.directions[k].poisoned
         /\ k[2] = "server" =>
              \A t \in out' : ~(t.type = "transaction" /\ t.protocol = "http2" /\ t.conn = k[1])
    ]_vars

(* "Defaults cap tracked connections": the maps that hold one entry per    *)
(* connection stay within MaxTrackedConnections together.                  *)
TrackedBounded == TrackedConnections(l7) <= MaxTracked
=============================================================================
