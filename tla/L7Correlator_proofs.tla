------------------------ MODULE L7Correlator_proofs -------------------------
(***************************************************************************)
(* What l7.Correlator promises for every number of connections, streams    *)
(* and outstanding requests, every TTL, sweep interval and limit, and for  *)
(* timestamps in any order: no HTTP/1 pair is guessed, a connection that   *)
(* is reused starts from nothing unless its own timestamps were inverted,  *)
(* and a poisoned HTTP/2 direction stays so.                               *)
(*                                                                         *)
(* Process works on one record of maps: sweep, then HTTP/1 or HTTP/2.  The *)
(* invariants are therefore predicates of such a record (and of the        *)
(* history), shown for what each of the three returns, and put together in *)
(* the step of Process.                                                    *)
(***************************************************************************)
EXTENDS L7Correlator, TLAPS

-----------------------------------------------------------------------------
(***************************************************************************)
(* The inductive invariant.                                                *)
(***************************************************************************)
Stamp == Nat \ {0}
Stamps(f, keys) == DOMAIN f \subseteq keys /\ f \in [DOMAIN f -> Stamp]

Senders == {"client", "server"}
Direction == [lastSeen : Stamp, poisoned : BOOLEAN, partial : Nat]

(* Every map holds timestamps.  None is the zero that ExpiredAt never      *)
(* takes for old.                                                          *)
Shape(s) ==
  /\ DOMAIN s = {"http1", "ambiguous", "connections", "directions", "streams"}
  /\ Stamps(s.http1, Conns)
  /\ Stamps(s.ambiguous, Conns)
  /\ Stamps(s.connections, Conns)
  /\ Stamps(s.streams, Conns \X Streams)
  /\ DOMAIN s.directions \subseteq Conns \X Senders
  /\ s.directions \in [DOMAIN s.directions -> Direction]

(* What belongs to an HTTP/2 connection without inversions was not seen    *)
(* after it, so that the sweep that ends the connection ends it too.  A    *)
(* partial frame is part of that: it is the start of a later stream.       *)
Agree(s, inv) ==
  /\ \A k \in DOMAIN s.directions :
       \/ k[1] \in inv
       \/ /\ k[1] \in DOMAIN s.connections
          /\ s.directions[k].lastSeen <= s.connections[k[1]]
          /\ s.directions[k].partial <= s.connections[k[1]]
  /\ \A k \in DOMAIN s.streams :
       k[1] \in inv \/ (k[1] \in DOMAIN s.connections /\ s.streams[k] <= s.connections[k[1]])
  /\ \A c \in DOMAIN s.http1 : c \notin DOMAIN s.ambiguous

(* The maps and the wire: n requests without an answer, and b when the     *)
(* correlator has lost sight of one of them.                               *)
Paired(s, c, n, b) ==
  /\ ~b /\ c \in DOMAIN s.connections => n = 0
  /\ ~b /\ c \notin DOMAIN s.connections =>
       n = 0 \/ c \in DOMAIN s.ambiguous \/ (c \in DOMAIN s.http1 /\ n = 1)

HistoryInv ==
  /\ outstanding \in [Conns -> Nat]
  /\ blind \in [Conns -> BOOLEAN]
  /\ \A c \in Conns : Paired(l7, c, outstanding[c], blind[c])

CorrelatorInv ==
  /\ clock \in Stamp
  /\ Shape(l7)
  /\ Agree(l7, inverted)
  /\ HistoryInv
  /\ NoGuessedPair

-----------------------------------------------------------------------------
(***************************************************************************)
(* The operators on maps.                                                  *)
(***************************************************************************)

LEMMA StampNat == \A v : v \in Stamp <=> v \in Nat /\ v # 0
BY DEF Stamp

(* Put and Drop1 keep a map of timestamps, and Young keeps the rest.       *)
LEMMA StampsMaps ==
  ASSUME NEW f, NEW keys, Stamps(f, keys)
  PROVE  /\ \A k \in keys : \A v \in Stamp : Stamps(Put(f, k, v), keys)
         /\ \A k : Stamps(Drop1(f, k), keys)
         /\ \A now : Stamps(Young(f, now), keys)
BY DEF Stamps, Put, Drop1, Young, Old

LEMMA YoungFacts ==
  ASSUME NEW f, NEW now
  PROVE  /\ \A k : k \in DOMAIN Young(f, now) <=> k \in DOMAIN f /\ k \notin Old(f, now)
         /\ \A k \in DOMAIN Young(f, now) : Young(f, now)[k] = f[k]
BY DEF Young, Old

LEMMA StampFacts ==
  ASSUME NEW f, NEW keys, Stamps(f, keys)
  PROVE  \A k \in DOMAIN f : f[k] \in Stamp /\ f[k] \in Nat /\ f[k] # 0
BY StampNat DEF Stamps

LEMMA OldFacts ==
  ASSUME NEW f, NEW keys, NEW now \in Nat, Stamps(f, keys)
  PROVE  \A k \in DOMAIN f : k \in Old(f, now) <=> now >= f[k] /\ now - f[k] >= StateTTL
BY StampFacts DEF Old, ExpiredAt

-----------------------------------------------------------------------------
(***************************************************************************)
(* The sweep.                                                              *)
(***************************************************************************)
LEMMA SweptFields ==
  ASSUME NEW s, NEW now \in Nat, Shape(s)
  PROVE  /\ Swept(s, now).http1 = Young(s.http1, now)
         /\ Swept(s, now).ambiguous = Young(s.ambiguous, now)
         /\ Swept(s, now).connections = Young(s.connections, now)
         /\ Swept(s, now).streams = Young(s.streams, now)
         /\ Swept(s, now).directions =
              [k \in {x \in DOMAIN s.directions : ~ExpiredAt(now, s.directions[x].lastSeen)}
                 |-> s.directions[k]]
         /\ DOMAIN Swept(s, now) = DOMAIN s
BY DEF Shape, Swept

LEMMA SweepKeeps ==
  ASSUME NEW s, NEW inv, NEW now \in Nat, Shape(s), Agree(s, inv)
  PROVE  Shape(Swept(s, now)) /\ Agree(Swept(s, now), inv)
<1> DEFINE t == Swept(s, now)
<1>1. /\ t.http1 = Young(s.http1, now)
      /\ t.ambiguous = Young(s.ambiguous, now)
      /\ t.connections = Young(s.connections, now)
      /\ t.streams = Young(s.streams, now)
      /\ t.directions =
           [k \in {x \in DOMAIN s.directions : ~ExpiredAt(now, s.directions[x].lastSeen)}
              |-> s.directions[k]]
      /\ DOMAIN t = DOMAIN s
  BY SweptFields
<1> HIDE DEF t
<1>2. DOMAIN t.directions \subseteq Conns \X Senders
      /\ t.directions \in [DOMAIN t.directions -> Direction]
  BY <1>1 DEF Shape
<1>3. Shape(t)
  BY <1>1, <1>2, StampsMaps DEF Shape
<1>4. ASSUME NEW k \in DOMAIN t.directions, k[1] \notin inv
      PROVE  /\ k[1] \in DOMAIN t.connections
             /\ t.directions[k].lastSeen <= t.connections[k[1]]
             /\ t.directions[k].partial <= t.connections[k[1]]
  <2>1. k \in DOMAIN s.directions /\ t.directions[k] = s.directions[k]
        /\ ~ExpiredAt(now, s.directions[k].lastSeen)
    BY <1>1, <1>4
  <2>2. s.directions[k].lastSeen \in Stamp
    BY <2>1 DEF Shape, Direction
  <2>3. /\ k[1] \in DOMAIN s.connections
        /\ s.directions[k].lastSeen <= s.connections[k[1]]
        /\ s.directions[k].partial <= s.connections[k[1]]
    BY <1>4, <2>1 DEF Agree
  <2>4. ~(now >= s.directions[k].lastSeen /\ now - s.directions[k].lastSeen >= StateTTL)
    BY <2>1, <2>2, StampNat DEF ExpiredAt
  <2>5. s.connections[k[1]] \in Nat
    BY <2>3, StampFacts, YoungFacts, OldFacts DEF Shape
  <2>6. ~(now >= s.connections[k[1]] /\ now - s.connections[k[1]] >= StateTTL)
    BY <2>2, <2>3, <2>4, <2>5, StampNat, L7ConfigAssumption
  <2>7. k[1] \in DOMAIN Young(s.connections, now)
        /\ Young(s.connections, now)[k[1]] = s.connections[k[1]]
    BY <2>3, <2>6, StampFacts, YoungFacts, OldFacts DEF Shape
  <2> QED BY <1>1, <2>1, <2>3, <2>7
<1>5. ASSUME NEW k \in DOMAIN t.streams, k[1] \notin inv
      PROVE  k[1] \in DOMAIN t.connections /\ t.streams[k] <= t.connections[k[1]]
  <2>1. k \in DOMAIN s.streams /\ t.streams[k] = s.streams[k] /\ k \notin Old(s.streams, now)
        /\ s.streams[k] \in Nat /\ ~(now >= s.streams[k] /\ now - s.streams[k] >= StateTTL)
    BY <1>1, <1>5, StampFacts, YoungFacts, OldFacts DEF Shape
  <2>2. k[1] \in DOMAIN s.connections /\ s.streams[k] <= s.connections[k[1]]
    BY <1>5, <2>1 DEF Agree
  <2>3. s.connections[k[1]] \in Nat
    BY <2>2, StampFacts, YoungFacts, OldFacts DEF Shape
  <2>4. ~(now >= s.connections[k[1]] /\ now - s.connections[k[1]] >= StateTTL)
    BY <2>1, <2>2, <2>3, L7ConfigAssumption
  <2>5. k[1] \in DOMAIN Young(s.connections, now)
        /\ Young(s.connections, now)[k[1]] = s.connections[k[1]]
    BY <2>2, <2>4, StampFacts, YoungFacts, OldFacts DEF Shape
  <2> QED BY <1>1, <2>1, <2>2, <2>5
<1>6. ASSUME NEW c \in DOMAIN t.http1
      PROVE  c \notin DOMAIN t.ambiguous
  BY <1>1, <1>6, StampFacts, YoungFacts, OldFacts DEF Shape, Agree
<1> QED BY <1>3, <1>4, <1>5, <1>6 DEF t, Agree

(* What the sweep takes from the wire is in sight no more.                 *)
LEMMA SweepPairs ==
  ASSUME NEW s, NEW inv, NEW now \in Nat, Shape(s), Agree(s, inv),
         NEW c, NEW n \in Nat, NEW b \in BOOLEAN, Paired(s, c, n, b),
         NEW b2 \in BOOLEAN,
         b \/ c \in Old(s.http1, now) \cup Old(s.ambiguous, now) => b2
  PROVE  Paired(Swept(s, now), c, n, b2)
<1> DEFINE t == Swept(s, now)
<1>1. /\ t.http1 = Young(s.http1, now)
      /\ t.ambiguous = Young(s.ambiguous, now)
      /\ t.connections = Young(s.connections, now)
  BY SweptFields
<1> HIDE DEF t
<1>3. ASSUME ~b2, c \in DOMAIN t.connections
      PROVE  n = 0
  BY <1>1, <1>3, StampFacts, YoungFacts, OldFacts DEF Shape, Paired
<1>4. ASSUME ~b2, c \notin DOMAIN t.connections
      PROVE  n = 0 \/ c \in DOMAIN t.ambiguous \/ (c \in DOMAIN t.http1 /\ n = 1)
  <2>1. ~b /\ c \notin Old(s.http1, now) /\ c \notin Old(s.ambiguous, now)
    BY <1>4
  <2>2. n = 0 \/ c \in DOMAIN s.ambiguous \/ (c \in DOMAIN s.http1 /\ n = 1)
    BY <2>1 DEF Paired
  <2> QED BY <1>1, <2>1, <2>2, StampFacts, YoungFacts, OldFacts DEF Shape
<1> QED BY <1>3, <1>4 DEF t, Paired

-----------------------------------------------------------------------------
(***************************************************************************)
(* HTTP/1.                                                                 *)
(***************************************************************************)
LEMMA FragmentFacts ==
  ASSUME NEW f \in Fragment
  PROVE  /\ f.conn \in Conns /\ f.stream \in Streams /\ f.from \in Senders
         /\ f.kind \in ClientKinds \cup ServerKinds
         /\ f.kind = "h2_response" => f.from = "server"
BY DEF Fragment, Senders, ClientKinds, ServerKinds

OverCapacity(x) == x.type = "drop" /\ x.protocol = "http1" /\ x.reason = "state_capacity"
Completed(protocol, x) == x.type = "transaction" /\ x.protocol = protocol

LEMMA WireFacts ==
  ASSUME NEW f \in Fragment, NEW n \in Nat
  PROVE  /\ WireAfter(n, f) \in Nat
         /\ f.kind = "request" => WireAfter(n, f) = n + 1
         /\ f.kind = "pipelined" => WireAfter(n, f) = n + 2
         /\ f.kind \in {"response", "upgrade"} => WireAfter(n, f) = IF n > 0 THEN n - 1 ELSE 0
         /\ f.kind \notin {"request", "pipelined", "response", "upgrade"} => WireAfter(n, f) = n
<1>1. /\ f.kind = "request" => Requests(f) = 1
      /\ f.kind = "pipelined" => Requests(f) = 2
      /\ f.kind \notin {"request", "pipelined"} => Requests(f) = 0
  BY DEF Requests
<1>2. /\ f.kind \in {"response", "upgrade"} => Answers(f) = 1
      /\ f.kind \notin {"response", "upgrade"} => Answers(f) = 0
  BY DEF Answers
<1> QED BY <1>1, <1>2 DEF WireAfter

(* The five things that HTTP/1 does with a fragment: nothing, give the     *)
(* connection up as ambiguous, refuse the request, track it, complete it.  *)
HTTP1Kept(s, f, r) ==
  /\ r = Result(s, {})
  /\ \/ f.conn \in DOMAIN s.ambiguous
     \/ f.kind \notin {"request", "pipelined", "response", "upgrade"}
     \/ f.kind \in {"response", "upgrade"} /\ f.conn \notin DOMAIN s.http1
HTTP1Overlap(s, f, now, r) ==
  /\ r = MarkAmbiguous(s, f, now)
  /\ f.kind \in {"request", "pipelined"}
HTTP1Refused(s, f, r) ==
  /\ r = Result(s, {Drop("http1", "state_capacity", f.conn, NoStream)})
  /\ f.kind = "request"
HTTP1Began(s, f, now, r) ==
  /\ r = Result([s EXCEPT !.http1 = Put(s.http1, f.conn, now)], {})
  /\ f.kind = "request"
  /\ f.conn \notin DOMAIN s.http1 /\ f.conn \notin DOMAIN s.ambiguous
HTTP1Ended(s, f, r) ==
  /\ \E o : /\ r = Result([s EXCEPT !.http1 = Drop1(s.http1, f.conn)], o)
            /\ \A x \in o : ~OverCapacity(x) /\ x.conn = f.conn /\ ~Completed("http2", x)
  /\ f.kind \in {"response", "upgrade"}
  /\ f.conn \in DOMAIN s.http1 /\ f.conn \notin DOMAIN s.ambiguous

LEMMA HTTP1Cases ==
  ASSUME NEW s, NEW f \in Fragment, NEW now, NEW r, r = HTTP1(s, f, now)
  PROVE  \/ HTTP1Kept(s, f, r) \/ HTTP1Overlap(s, f, now, r) \/ HTTP1Refused(s, f, r)
         \/ HTTP1Began(s, f, now, r) \/ HTTP1Ended(s, f, r)
<1> DEFINE c == f.conn
<1>1. CASE f.kind \in {"request", "pipelined"}
  <2>1. r = HTTP1Request(s, f, now)
    BY <1>1 DEF HTTP1
  <2>2. CASE f.conn \in DOMAIN s.ambiguous
    BY <2>1, <2>2 DEF HTTP1Request, HTTP1Kept
  <2>3. CASE f.conn \notin DOMAIN s.ambiguous /\ (f.kind = "pipelined" \/ c \in DOMAIN s.http1)
    BY <1>1, <2>1, <2>3 DEF HTTP1Request, HTTP1Overlap
  <2>4. CASE /\ f.conn \notin DOMAIN s.ambiguous /\ ~(f.kind = "pipelined" \/ c \in DOMAIN s.http1)
             /\ TrackedConnections(s) >= MaxTracked
    BY <1>1, <2>1, <2>4 DEF HTTP1Request, HTTP1Refused
  <2>5. CASE /\ f.conn \notin DOMAIN s.ambiguous /\ ~(f.kind = "pipelined" \/ c \in DOMAIN s.http1)
             /\ ~(TrackedConnections(s) >= MaxTracked)
    BY <1>1, <2>1, <2>5 DEF HTTP1Request, HTTP1Began
  <2> QED BY <2>2, <2>3, <2>4, <2>5
<1>2. CASE f.kind \in {"response", "informational", "upgrade"}
  <2>1. r = HTTP1Response(s, f, now)
    BY <1>2 DEF HTTP1
  <2>2. CASE c \in DOMAIN s.ambiguous \/ f.kind = "informational" \/ c \notin DOMAIN s.http1
    BY <1>2, <2>1, <2>2 DEF HTTP1Response, HTTP1Kept
  <2>3. CASE ~(c \in DOMAIN s.ambiguous \/ f.kind = "informational" \/ c \notin DOMAIN s.http1)
    <3>1. PICK o : /\ r = Result([s EXCEPT !.http1 = Drop1(s.http1, c)], o)
                   /\ \/ o = {}
                      \/ o = {Drop("http1", "protocol_upgrade", c, NoStream)}
                      \/ o = {Transaction("http1", c, NoStream,
                                          (now - s.http1[c]) \div NanosPerMicro)}
      BY <2>1, <2>3 DEF HTTP1Response
    <3>2. \A x \in o : ~OverCapacity(x) /\ x.conn = c /\ ~Completed("http2", x)
      BY <3>1 DEF OverCapacity, Completed, Drop, Transaction
    <3> QED BY <1>2, <2>3, <3>1, <3>2 DEF HTTP1Ended
  <2> QED BY <2>2, <2>3
<1>3. CASE f.kind \notin {"request", "pipelined", "response", "informational", "upgrade"}
  BY <1>3 DEF HTTP1, HTTP1Kept
<1> QED BY <1>1, <1>2, <1>3

LEMMA HTTP1Keeps ==
  ASSUME NEW s, NEW f \in Fragment, NEW inv, NEW now \in Stamp,
         Shape(s), Agree(s, inv),
         ~HandledByHTTP2(s, f), NEW r, r = HTTP1(s, f, now)
  PROVE  Shape(r.state) /\ Agree(r.state, inv)
<1>0. f.conn \in Conns /\ now \in Stamp /\ f.conn \notin DOMAIN s.connections
  BY FragmentFacts DEF HandledByHTTP2
<1>1. CASE HTTP1Kept(s, f, r) \/ HTTP1Refused(s, f, r)
  BY <1>1 DEF HTTP1Kept, HTTP1Refused, Result
<1>2. CASE HTTP1Overlap(s, f, now, r)
  <2>1. r.state = [s EXCEPT !.http1 = Drop1(s.http1, f.conn),
                            !.ambiguous = Put(s.ambiguous, f.conn, now)]
    BY <1>2 DEF HTTP1Overlap, MarkAmbiguous, Result
  <2>2. /\ r.state.http1 = Drop1(s.http1, f.conn)
        /\ r.state.ambiguous = Put(s.ambiguous, f.conn, now)
        /\ r.state.connections = s.connections /\ r.state.streams = s.streams
        /\ r.state.directions = s.directions /\ DOMAIN r.state = DOMAIN s
    BY <2>1 DEF Shape
  <2>a. Stamps(Drop1(s.http1, f.conn), Conns)
    BY StampsMaps DEF Shape
  <2>b. Stamps(Put(s.ambiguous, f.conn, now), Conns)
    BY <1>0, StampsMaps DEF Shape
  <2>s. Stamps(r.state.http1, Conns) /\ Stamps(r.state.ambiguous, Conns)
    BY <2>2, <2>a, <2>b
  <2>3. Shape(r.state)
    BY <2>2, <2>s DEF Shape
  <2>4. Agree(r.state, inv)
    BY <2>2 DEF Agree, Drop1, Put
  <2> QED BY <2>3, <2>4
<1>3. CASE HTTP1Began(s, f, now, r)
  <2>1. r.state = [s EXCEPT !.http1 = Put(s.http1, f.conn, now)]
    BY <1>3 DEF HTTP1Began, Result
  <2>2. /\ r.state.http1 = Put(s.http1, f.conn, now)
        /\ r.state.ambiguous = s.ambiguous
        /\ r.state.connections = s.connections /\ r.state.streams = s.streams
        /\ r.state.directions = s.directions /\ DOMAIN r.state = DOMAIN s
    BY <2>1 DEF Shape
  <2>s. Stamps(r.state.http1, Conns) /\ Stamps(r.state.ambiguous, Conns)
    BY <1>0, <2>2, StampsMaps DEF Shape
  <2>3. Shape(r.state)
    BY <2>2, <2>s DEF Shape
  <2>4. Agree(r.state, inv)
    BY <1>0, <1>3, <2>2 DEF Agree, Put, HTTP1Began
  <2> QED BY <2>3, <2>4
<1>4. CASE HTTP1Ended(s, f, r)
  <2>1. r.state = [s EXCEPT !.http1 = Drop1(s.http1, f.conn)]
    BY <1>4 DEF HTTP1Ended, Result
  <2>2. /\ r.state.http1 = Drop1(s.http1, f.conn)
        /\ r.state.ambiguous = s.ambiguous
        /\ r.state.connections = s.connections /\ r.state.streams = s.streams
        /\ r.state.directions = s.directions /\ DOMAIN r.state = DOMAIN s
    BY <2>1 DEF Shape
  <2>s. Stamps(r.state.http1, Conns) /\ Stamps(r.state.ambiguous, Conns)
    BY <1>0, <2>2, StampsMaps DEF Shape
  <2>3. Shape(r.state)
    BY <2>2, <2>s DEF Shape
  <2>4. Agree(r.state, inv)
    BY <2>2 DEF Agree, Drop1
  <2> QED BY <2>3, <2>4
<1> QED BY <1>1, <1>2, <1>3, <1>4, HTTP1Cases

(* The connection of the fragment stays paired with the wire, and a        *)
(* completed transaction is the answer to the only request on it.          *)
LEMMA HTTP1Pairs ==
  ASSUME NEW s, NEW f \in Fragment, NEW inv, NEW now \in Stamp,
         Shape(s), Agree(s, inv),
         ~HandledByHTTP2(s, f), NEW r, r = HTTP1(s, f, now),
         NEW n \in Nat, NEW b \in BOOLEAN, Paired(s, f.conn, n, b),
         NEW b2 \in BOOLEAN,
         (b \/ \E x \in r.outputs : OverCapacity(x)) /\ WireAfter(n, f) > 0 => b2
  PROVE  /\ Paired(r.state, f.conn, WireAfter(n, f), b2)
         /\ \A x \in r.outputs : Completed("http1", x) =>
              x.conn = f.conn /\ (WireAfter(n, f) = 0 \/ b2)
<1> DEFINE c == f.conn
           w == WireAfter(n, f)
<1>0. c \notin DOMAIN s.connections
  BY DEF HandledByHTTP2
<1>w. /\ w \in Nat
      /\ f.kind = "request" => w = n + 1
      /\ f.kind = "pipelined" => w = n + 2
      /\ f.kind \in {"response", "upgrade"} => w = IF n > 0 THEN n - 1 ELSE 0
      /\ f.kind \notin {"request", "pipelined", "response", "upgrade"} => w = n
  BY WireFacts
<1> HIDE DEF w
<1>p. /\ ~b => n = 0 \/ c \in DOMAIN s.ambiguous \/ (c \in DOMAIN s.http1 /\ n = 1)
      /\ c \in DOMAIN s.http1 => c \notin DOMAIN s.ambiguous
  BY <1>0 DEF Paired, Agree
<1>b. /\ b /\ w > 0 => b2
      /\ (\E x \in r.outputs : OverCapacity(x)) /\ w > 0 => b2
  BY DEF w
<1>k. f.kind \in {"request", "pipelined"} \/ f.kind \in {"response", "upgrade"}
      \/ f.kind \notin {"request", "pipelined", "response", "upgrade"}
  OBVIOUS
<1>1. CASE HTTP1Kept(s, f, r)
  <2>1. r.state = s /\ r.outputs = {}
    BY <1>1 DEF HTTP1Kept, Result
  <2>3. ~b2 => w = 0 \/ c \in DOMAIN s.ambiguous \/ (c \in DOMAIN s.http1 /\ w = 1)
    <3>1. CASE w = 0 \/ c \in DOMAIN s.ambiguous
      BY <3>1
    <3>2. CASE w > 0 /\ c \notin DOMAIN s.ambiguous
      <4>1. ~b2 => ~b
        BY <1>b, <3>2
      <4>2. \/ f.kind \notin {"request", "pipelined", "response", "upgrade"}
            \/ f.kind \in {"response", "upgrade"} /\ c \notin DOMAIN s.http1
        BY <1>1, <3>2 DEF HTTP1Kept
      <4>3. w = n \/ (c \notin DOMAIN s.http1 /\ w <= n)
        BY <1>w, <4>2
      <4> QED BY <1>p, <1>w, <3>2, <4>1, <4>3
    <3> QED BY <1>w, <3>1, <3>2
  <2> QED BY <1>0, <2>1, <2>3 DEF Paired, w
<1>2. CASE HTTP1Overlap(s, f, now, r)
  <2>1. /\ r.state = [s EXCEPT !.http1 = Drop1(s.http1, c),
                               !.ambiguous = Put(s.ambiguous, c, now)]
        /\ r.outputs = {Drop("http1", "overlapping_request", c, NoStream)}
    BY <1>2 DEF HTTP1Overlap, MarkAmbiguous, Result
  <2>2. /\ c \notin DOMAIN r.state.http1 /\ c \in DOMAIN r.state.ambiguous
        /\ c \notin DOMAIN r.state.connections
    BY <1>0, <2>1 DEF Shape, Drop1, Put
  <2>3. \A x \in r.outputs : ~Completed("http1", x)
    BY <2>1 DEF Completed, Drop
  <2> QED BY <2>2, <2>3 DEF Paired
<1>3. CASE HTTP1Refused(s, f, r)
  <2>1. r.state = s /\ r.outputs = {Drop("http1", "state_capacity", c, NoStream)}
    BY <1>3 DEF HTTP1Refused, Result
  <2>2. w > 0
    BY <1>3, <1>w DEF HTTP1Refused
  <2>3. b2
    BY <1>b, <2>1, <2>2 DEF OverCapacity, Drop
  <2>4. \A x \in r.outputs : ~Completed("http1", x)
    BY <2>1 DEF Completed, Drop
  <2>5. w >= 1
    BY <1>w, <2>2
  <2> QED BY <1>0, <2>1, <2>3, <2>4, <2>5 DEF Paired, w
<1>4. CASE HTTP1Began(s, f, now, r)
  <2>1. r.state = [s EXCEPT !.http1 = Put(s.http1, c, now)] /\ r.outputs = {}
    BY <1>4 DEF HTTP1Began, Result
  <2>2. c \in DOMAIN r.state.http1 /\ c \notin DOMAIN r.state.connections
    BY <1>0, <2>1 DEF Shape, Put
  <2>3. w = n + 1 /\ w >= 1 /\ w > 0
    BY <1>4, <1>w DEF HTTP1Began
  <2>4. ~b2 => ~b
    BY <1>b, <2>3
  <2>5. ~b => n = 0
    BY <1>4, <1>p DEF HTTP1Began
  <2>6. ~b2 => w = 1
    BY <2>3, <2>4, <2>5
  <2> QED BY <2>1, <2>2, <2>3, <2>6 DEF Paired, w
<1>5. CASE HTTP1Ended(s, f, r)
  <2>1. PICK o : /\ r = Result([s EXCEPT !.http1 = Drop1(s.http1, c)], o)
                 /\ \A x \in o : ~OverCapacity(x) /\ x.conn = c /\ ~Completed("http2", x)
    BY <1>5 DEF HTTP1Ended
  <2>2. r.state = [s EXCEPT !.http1 = Drop1(s.http1, c)] /\ r.outputs = o
    BY <2>1 DEF Result
  <2>3. /\ c \notin DOMAIN r.state.http1 /\ c \notin DOMAIN r.state.connections
    BY <1>0, <2>2 DEF Shape, Drop1
  <2>4. w = IF n > 0 THEN n - 1 ELSE 0
    BY <1>5, <1>w DEF HTTP1Ended
  <2>5. ~b => n = 0 \/ n = 1
    BY <1>5, <1>p DEF HTTP1Ended
  <2>6. w = 0 \/ (w > 0 /\ b)
    BY <1>w, <2>4, <2>5
  <2>7. w = 0 \/ b2
    BY <1>b, <2>6
  <2> QED BY <2>1, <2>2, <2>3, <2>7 DEF Paired, w
<1> QED BY <1>1, <1>2, <1>3, <1>4, <1>5, HTTP1Cases

(* Every other connection is left alone, and HTTP/2 with it.               *)
LEMMA HTTP1Frame ==
  ASSUME NEW s, NEW f \in Fragment, NEW now \in Stamp, Shape(s),
         NEW r, r = HTTP1(s, f, now)
  PROVE  /\ r.state.connections = s.connections /\ r.state.directions = s.directions
         /\ \A x \in r.outputs : ~Completed("http2", x)
         /\ \A x \in r.outputs : x.conn = f.conn
         /\ \A c : c # f.conn =>
              /\ c \in DOMAIN r.state.http1 <=> c \in DOMAIN s.http1
              /\ c \in DOMAIN r.state.ambiguous <=> c \in DOMAIN s.ambiguous
<1>1. CASE HTTP1Kept(s, f, r)
  BY <1>1 DEF HTTP1Kept, Result
<1>2. CASE HTTP1Overlap(s, f, now, r)
  <2>1. /\ r.state = [s EXCEPT !.http1 = Drop1(s.http1, f.conn),
                               !.ambiguous = Put(s.ambiguous, f.conn, now)]
        /\ r.outputs = {Drop("http1", "overlapping_request", f.conn, NoStream)}
    BY <1>2 DEF HTTP1Overlap, MarkAmbiguous, Result
  <2>2. \A x \in r.outputs : ~Completed("http2", x) /\ x.conn = f.conn
    BY <2>1 DEF Completed, Drop
  <2>3. /\ r.state.http1 = Drop1(s.http1, f.conn)
        /\ r.state.ambiguous = Put(s.ambiguous, f.conn, now)
        /\ r.state.connections = s.connections /\ r.state.directions = s.directions
    BY <2>1 DEF Shape
  <2> QED BY <2>2, <2>3 DEF Drop1, Put
<1>3. CASE HTTP1Refused(s, f, r)
  BY <1>3 DEF HTTP1Refused, Result, Completed, Drop
<1>4. CASE HTTP1Began(s, f, now, r)
  BY <1>4 DEF HTTP1Began, Result, Shape, Put
<1>5. CASE HTTP1Ended(s, f, r)
  BY <1>5 DEF HTTP1Ended, Result, Shape, Drop1
<1> QED BY <1>1, <1>2, <1>3, <1>4, <1>5, HTTP1Cases

-----------------------------------------------------------------------------
(***************************************************************************)
(* HTTP/2.                                                                 *)
(***************************************************************************)
StreamMoved(s, f, started, streams) ==
  LET k == <<f.conn, f.stream>> IN
  \/ streams = s.streams
  \/ streams = Drop1(s.streams, k)
  \/ streams = Put(s.streams, k, started)

(* A header block started with its own fragment, or with the partial frame *)
(* of its direction.                                                       *)
Started(s, f, now, v) ==
  LET k == <<f.conn, f.from>> IN
  v = now \/ (k \in DOMAIN s.directions /\ v = s.directions[k].partial)

StreamsMoved(s, f, now, streams) ==
  \E v \in Stamp : Started(s, f, now, v) /\ StreamMoved(s, f, v, streams)

HTTP2Outputs(f, outputs) ==
  \A x \in outputs :
    /\ ~Completed("http1", x) /\ ~OverCapacity(x)
    /\ Completed("http2", x) => x.conn = f.conn /\ f.from = "server"

(* A header block moves at most its own stream.                            *)
LEMMA HTTP2BlockMoves ==
  ASSUME NEW s, NEW f \in Fragment, NEW started \in Stamp,
         Shape(s), NEW r, r = HTTP2Block(s, f, started)
  PROVE  /\ StreamMoved(s, f, started, r.state.streams)
         /\ r.state.http1 = s.http1 /\ r.state.ambiguous = s.ambiguous
         /\ r.state.connections = s.connections /\ r.state.directions = s.directions
         /\ DOMAIN r.state = DOMAIN s
         /\ HTTP2Outputs(f, r.outputs)
<1> DEFINE k == <<f.conn, f.stream>>
<1>1. PICK t, o : r = Result(t, o) /\ HTTP2Outputs(f, o)
                  /\ \/ t = s
                     \/ t = [s EXCEPT !.streams = Drop1(s.streams, k)]
                     \/ t = [s EXCEPT !.streams = Put(s.streams, k, started)]
  <2>d. \A protocol, reason, c, stream :
          HTTP2Outputs(f, {Drop("http2", reason, c, stream)})
    BY DEF HTTP2Outputs, Drop, Completed, OverCapacity
  <2>e. HTTP2Outputs(f, {})
    BY DEF HTTP2Outputs
  <2>1. CASE f.kind = "h2_request"
    <3>1. CASE k \in DOMAIN s.streams
      BY <2>1, <2>d, <3>1 DEF HTTP2Block
    <3>2. CASE k \notin DOMAIN s.streams /\ Cardinality(DOMAIN s.streams) >= MaxStreams
      BY <2>1, <2>d, <3>2 DEF HTTP2Block
    <3>3. CASE k \notin DOMAIN s.streams /\ ~(Cardinality(DOMAIN s.streams) >= MaxStreams)
      BY <2>1, <2>e, <3>3 DEF HTTP2Block
    <3> QED BY <3>1, <3>2, <3>3
  <2>2. CASE f.kind = "h2_response" /\ k \in DOMAIN s.streams
    <3>1. f.from = "server"
      BY <2>2, FragmentFacts
    <3>2. \A micros : HTTP2Outputs(f, {Transaction("http2", f.conn, f.stream, micros)})
      BY <3>1 DEF HTTP2Outputs, Transaction, Completed, OverCapacity
    <3>3. CASE started <= s.streams[k]
      BY <2>2, <2>d, <3>3 DEF HTTP2Block
    <3>4. CASE ~(started <= s.streams[k])
      BY <2>2, <3>2, <3>4 DEF HTTP2Block
    <3> QED BY <3>3, <3>4
  <2>3. CASE f.kind # "h2_request" /\ ~(f.kind = "h2_response" /\ k \in DOMAIN s.streams)
    BY <2>3, <2>e DEF HTTP2Block
  <2> QED BY <2>1, <2>2, <2>3
<1>2. r.state = t /\ r.outputs = o
  BY <1>1 DEF Result
<1>3. CASE t = s
  BY <1>1, <1>2, <1>3 DEF StreamMoved
<1>4. CASE t = [s EXCEPT !.streams = Drop1(s.streams, k)]
  BY <1>1, <1>2, <1>4 DEF StreamMoved, Shape
<1>5. CASE t = [s EXCEPT !.streams = Put(s.streams, k, started)]
  BY <1>1, <1>2, <1>5 DEF StreamMoved, Shape
<1> QED BY <1>1, <1>3, <1>4, <1>5

(* A fragment of a direction moves that direction and one stream.  Poison  *)
(* stays, and a poisoned direction says nothing.                           *)
DirectionMoved(s, f, now, r) ==
  LET k == <<f.conn, f.from>> IN
  \E d \in Direction :
    /\ d.lastSeen = now /\ (d.partial = 0 \/ Started(s, f, now, d.partial))
    /\ r.state.directions = Put(s.directions, k, d)
    /\ k \in DOMAIN s.directions /\ s.directions[k].poisoned => d.poisoned /\ r.outputs = {}

(* The maps with nothing changed but the direction of the fragment.        *)
DirectionSet(s, f, now, t, x) ==
  /\ x \in Direction /\ x.lastSeen = now
  /\ t.directions = Put(s.directions, <<f.conn, f.from>>, x)
  /\ t.http1 = s.http1 /\ t.ambiguous = s.ambiguous
  /\ t.connections = s.connections /\ t.streams = s.streams
  /\ DOMAIN t = DOMAIN s
  /\ Shape(t)

LEMMA HTTP2DirectionMoves ==
  ASSUME NEW s, NEW f \in Fragment, NEW now \in Stamp, NEW wasActive \in BOOLEAN,
         Shape(s), NEW r, r = HTTP2Direction(s, f, now, wasActive)
  PROVE  /\ DirectionMoved(s, f, now, r)
         /\ StreamsMoved(s, f, now, r.state.streams)
         /\ r.state.http1 = s.http1 /\ r.state.ambiguous = s.ambiguous
         /\ r.state.connections = s.connections
         /\ DOMAIN r.state = DOMAIN s
         /\ HTTP2Outputs(f, r.outputs)
<1> DEFINE k == <<f.conn, f.from>>
           d == IF k \in DOMAIN s.directions THEN s.directions[k]
                ELSE [lastSeen |-> now, poisoned |-> FALSE, partial |-> 0]
           started == IF d.partial = 0 THEN now ELSE d.partial
           Dir(p, q) == [lastSeen |-> now, poisoned |-> p, partial |-> q]
           To(p, q) == [s EXCEPT !.directions = Put(s.directions, k, Dir(p, q))]
<1>z. TRUE \in BOOLEAN /\ FALSE \in BOOLEAN /\ 0 \in Nat
  OBVIOUS
<1>1. d.partial \in Nat /\ d.poisoned \in BOOLEAN
      /\ started \in Stamp /\ Started(s, f, now, started)
  <2>1. CASE k \in DOMAIN s.directions
    <3>1. d = s.directions[k] /\ d \in Direction
      BY <2>1 DEF Shape
    <3>2. d.partial \in Nat /\ d.poisoned \in BOOLEAN
      BY <3>1 DEF Direction
    <3>3. started = now \/ (started = s.directions[k].partial /\ d.partial # 0)
      BY <3>1
    <3> QED BY <2>1, <3>1, <3>2, <3>3, StampNat DEF Started
  <2>2. CASE k \notin DOMAIN s.directions
    <3>1. d = [lastSeen |-> now, poisoned |-> FALSE, partial |-> 0]
      BY <2>2
    <3> HIDE DEF d
    <3>2. d.partial = 0 /\ d.poisoned = FALSE
      BY <3>1
    <3> QED BY <1>z, <3>2 DEF Started
  <2> QED BY <2>1, <2>2
<1>2. ASSUME NEW p \in BOOLEAN, NEW q \in Nat
      PROVE  /\ DirectionSet(s, f, now, To(p, q), Dir(p, q))
             /\ Dir(p, q).poisoned = p /\ Dir(p, q).partial = q
  <2>1. Dir(p, q) \in Direction /\ Dir(p, q).lastSeen = now /\ Dir(p, q).poisoned = p
        /\ Dir(p, q).partial = q
    BY DEF Direction
  <2>2. /\ To(p, q).directions = Put(s.directions, k, Dir(p, q))
        /\ To(p, q).http1 = s.http1 /\ To(p, q).ambiguous = s.ambiguous
        /\ To(p, q).connections = s.connections /\ To(p, q).streams = s.streams
        /\ DOMAIN To(p, q) = DOMAIN s
    BY DEF Shape
  <2> HIDE DEF Dir, To
  <2>3. k \in Conns \X Senders
    BY FragmentFacts
  <2>4. /\ DOMAIN To(p, q).directions \subseteq Conns \X Senders
        /\ To(p, q).directions \in [DOMAIN To(p, q).directions -> Direction]
    BY <2>1, <2>2, <2>3 DEF Shape, Put
  <2>5. Shape(To(p, q))
    BY <2>2, <2>4 DEF Shape
  <2> QED BY <2>1, <2>2, <2>5 DEF DirectionSet
<1>3. ASSUME NEW t, NEW x, DirectionSet(s, f, now, t, x), r.state = t,
             x.partial = 0 \/ Started(s, f, now, x.partial),
             k \in DOMAIN s.directions /\ s.directions[k].poisoned =>
               x.poisoned /\ r.outputs = {},
             HTTP2Outputs(f, r.outputs)
      PROVE  /\ DirectionMoved(s, f, now, r)
             /\ StreamsMoved(s, f, now, r.state.streams)
             /\ r.state.http1 = s.http1 /\ r.state.ambiguous = s.ambiguous
             /\ r.state.connections = s.connections
             /\ DOMAIN r.state = DOMAIN s
             /\ HTTP2Outputs(f, r.outputs)
  <2>1. DirectionMoved(s, f, now, r)
    BY <1>3 DEF DirectionSet, DirectionMoved
  <2>2. Started(s, f, now, now) /\ StreamMoved(s, f, now, r.state.streams)
    BY <1>3 DEF DirectionSet, Started, StreamMoved
  <2>3. StreamsMoved(s, f, now, r.state.streams)
    BY <2>2 DEF StreamsMoved
  <2> QED BY <1>3, <2>1, <2>3 DEF DirectionSet
<1>e. HTTP2Outputs(f, {})
  BY DEF HTTP2Outputs
<1>p. /\ DirectionSet(s, f, now, To(TRUE, 0), Dir(TRUE, 0))
      /\ Dir(TRUE, 0).poisoned /\ Dir(TRUE, 0).partial = 0
  BY <1>2, <1>z
<1>4. CASE d.poisoned
  <2>1. r = Result(To(TRUE, 0), {})
    BY <1>4 DEF HTTP2Direction
  <2>2. r.state = To(TRUE, 0) /\ r.outputs = {}
    BY <2>1 DEF Result
  <2> HIDE DEF To, Dir
  <2> QED BY <1>3, <1>e, <1>p, <2>2
<1>5. CASE ~d.poisoned
  <2>0. ~(k \in DOMAIN s.directions /\ s.directions[k].poisoned)
    BY <1>5
  <2>1. CASE Undecodable(f, wasActive, d.partial)
    <3>1. r = Result(To(TRUE, 0), {Drop("http2", "http2_stream_desync", f.conn, NoStream)})
      BY <1>5, <2>1 DEF HTTP2Direction
    <3>2. r.state = To(TRUE, 0)
          /\ r.outputs = {Drop("http2", "http2_stream_desync", f.conn, NoStream)}
      BY <3>1 DEF Result
    <3> HIDE DEF To, Dir
    <3>3. HTTP2Outputs(f, r.outputs)
      BY <3>2 DEF HTTP2Outputs, Drop, Completed, OverCapacity
    <3> QED BY <1>3, <1>p, <2>0, <3>2, <3>3
  <2>2. CASE ~Undecodable(f, wasActive, d.partial) /\ Incomplete(f, wasActive, d.partial)
    <3>1. r = Result(To(FALSE, started), {})
      BY <1>5, <2>2 DEF HTTP2Direction
    <3>2. r.state = To(FALSE, started) /\ r.outputs = {}
      BY <3>1 DEF Result
    <3>3. started \in Nat /\ Started(s, f, now, started)
      BY <1>1, StampNat
    <3> HIDE DEF To, Dir, started
    <3>4. /\ DirectionSet(s, f, now, To(FALSE, started), Dir(FALSE, started))
          /\ Dir(FALSE, started).partial = started
      BY <1>2, <1>z, <3>3
    <3> QED BY <1>3, <1>e, <2>0, <3>2, <3>3, <3>4
  <2>3. CASE ~Undecodable(f, wasActive, d.partial) /\ ~Incomplete(f, wasActive, d.partial)
    <3>1. r = HTTP2Block(To(FALSE, 0), f, started)
      BY <1>5, <2>3 DEF HTTP2Direction
    <3> HIDE DEF To, Dir, started
    <3>2. PICK t : t = To(FALSE, 0)
      OBVIOUS
    <3>3. PICK x : x = Dir(FALSE, 0)
      OBVIOUS
    <3>4. DirectionSet(s, f, now, t, x) /\ x.partial = 0
      BY <1>2, <1>z, <3>2, <3>3
    <3>5. Shape(t) /\ r = HTTP2Block(t, f, started) /\ started \in Stamp
      BY <1>1, <3>1, <3>2, <3>4 DEF DirectionSet
    <3>6. /\ StreamMoved(t, f, started, r.state.streams)
          /\ r.state.http1 = t.http1 /\ r.state.ambiguous = t.ambiguous
          /\ r.state.connections = t.connections /\ r.state.directions = t.directions
          /\ DOMAIN r.state = DOMAIN t
          /\ HTTP2Outputs(f, r.outputs)
      BY <3>5, HTTP2BlockMoves
    <3>7. StreamMoved(s, f, started, r.state.streams)
      BY <3>4, <3>6 DEF DirectionSet, StreamMoved
    <3>8. StreamsMoved(s, f, now, r.state.streams)
      BY <1>1, <3>7 DEF StreamsMoved
    <3>9. DirectionMoved(s, f, now, r)
      BY <2>0, <3>4, <3>6 DEF DirectionSet, DirectionMoved
    <3> QED BY <3>4, <3>6, <3>8, <3>9 DEF DirectionSet
  <2> QED BY <2>1, <2>2, <2>3
<1> QED BY <1>1, <1>4, <1>5

(* A connection that finds no room is not begun; any other is seen now.    *)
HTTP2Refused(s, f, r) ==
  /\ r.state = s
  /\ f.conn \notin DOMAIN s.connections
  /\ HTTP2Outputs(f, r.outputs) /\ \A x \in r.outputs : ~Completed("http2", x)

HTTP2Moved(s, f, now, r) ==
  /\ r.state.connections = Put(s.connections, f.conn, now)
  /\ DirectionMoved(s, f, now, r)
  /\ StreamsMoved(s, f, now, r.state.streams)
  /\ r.state.http1 = s.http1 /\ r.state.ambiguous = s.ambiguous
  /\ DOMAIN r.state = DOMAIN s
  /\ HTTP2Outputs(f, r.outputs)

LEMMA HTTP2Cases ==
  ASSUME NEW s, NEW f \in Fragment, NEW now \in Stamp, Shape(s),
         NEW r, r = HTTP2(s, f, now)
  PROVE  HTTP2Refused(s, f, r) \/ HTTP2Moved(s, f, now, r)
<1> DEFINE wasActive == f.conn \in DOMAIN s.connections
<1>1. CASE ~wasActive /\ TrackedConnections(s) >= MaxTracked
  <2>1. r = Result(s, {Drop("http2", "state_capacity", f.conn, NoStream)})
    BY <1>1 DEF HTTP2
  <2>2. r.state = s /\ r.outputs = {Drop("http2", "state_capacity", f.conn, NoStream)}
    BY <2>1 DEF Result
  <2> QED BY <1>1, <2>2 DEF HTTP2Refused, HTTP2Outputs, Drop, Completed, OverCapacity
<1>2. CASE ~(~wasActive /\ TrackedConnections(s) >= MaxTracked)
  <2>1. PICK t : t = [s EXCEPT !.connections = Put(s.connections, f.conn, now)]
    OBVIOUS
  <2>2. /\ t.connections = Put(s.connections, f.conn, now)
        /\ t.http1 = s.http1 /\ t.ambiguous = s.ambiguous
        /\ t.directions = s.directions /\ t.streams = s.streams /\ DOMAIN t = DOMAIN s
    BY <2>1 DEF Shape
  <2>3. Stamps(t.connections, Conns)
    <3>1. now \in Stamp /\ f.conn \in Conns
      BY FragmentFacts
    <3>2. Stamps(Put(s.connections, f.conn, now), Conns)
      BY <3>1, StampsMaps DEF Shape
    <3> QED BY <2>2, <3>2
  <2>4. Shape(t)
    BY <2>2, <2>3 DEF Shape
  <2>5. r = HTTP2Direction(t, f, now, wasActive)
    BY <1>2, <2>1 DEF HTTP2
  <2>6. wasActive \in BOOLEAN
    OBVIOUS
  <2> HIDE DEF wasActive
  <2>7. /\ DirectionMoved(t, f, now, r)
        /\ StreamsMoved(t, f, now, r.state.streams)
        /\ r.state.http1 = t.http1 /\ r.state.ambiguous = t.ambiguous
        /\ r.state.connections = t.connections
        /\ DOMAIN r.state = DOMAIN t
        /\ HTTP2Outputs(f, r.outputs)
    BY <2>4, <2>5, <2>6, HTTP2DirectionMoves
  <2>8. DirectionMoved(s, f, now, r) /\ StreamsMoved(s, f, now, r.state.streams)
    <3>1. \A v, w : Started(t, f, v, w) <=> Started(s, f, v, w)
      BY <2>2 DEF Started
    <3>2. DirectionMoved(s, f, now, r)
      BY <2>2, <2>7, <3>1 DEF DirectionMoved
    <3>3. StreamsMoved(s, f, now, r.state.streams)
      BY <2>2, <2>7, <3>1 DEF StreamsMoved, StreamMoved
    <3> QED BY <3>2, <3>3
  <2> QED BY <2>2, <2>7, <2>8 DEF HTTP2Moved
<1> QED BY <1>1, <1>2

LEMMA HTTP2Keeps ==
  ASSUME NEW s, NEW f \in Fragment, NEW inv, NEW now \in Stamp,
         Shape(s), Agree(s, inv),
         NEW r, r = HTTP2(s, f, now)
  PROVE  Shape(r.state) /\ Agree(r.state, inv \cup SeenEarlier(s, f, now))
<1>1. CASE HTTP2Refused(s, f, r)
  BY <1>1 DEF HTTP2Refused, Agree
<1>2. CASE HTTP2Moved(s, f, now, r)
  <2> DEFINE t == r.state
             c == f.conn
             k == <<f.conn, f.from>>
             sk == <<f.conn, f.stream>>
  <2>0. now \in Stamp /\ c \in Conns /\ k \in Conns \X Senders /\ sk \in Conns \X Streams
    BY FragmentFacts
  <2>1. PICK d \in Direction : /\ d.lastSeen = now /\ t.directions = Put(s.directions, k, d)
                               /\ d.partial = 0 \/ Started(s, f, now, d.partial)
    BY <1>2 DEF HTTP2Moved, DirectionMoved
  <2>2. PICK v \in Stamp : /\ Started(s, f, now, v)
                           /\ \/ t.streams = s.streams
                              \/ t.streams = Drop1(s.streams, sk)
                              \/ t.streams = Put(s.streams, sk, v)
    BY <1>2 DEF HTTP2Moved, StreamsMoved, StreamMoved
  <2>3. /\ t.connections = Put(s.connections, c, now)
        /\ t.http1 = s.http1 /\ t.ambiguous = s.ambiguous /\ DOMAIN t = DOMAIN s
    BY <1>2 DEF HTTP2Moved
  <2> HIDE DEF t
  <2>4. Stamps(t.connections, Conns)
    BY <2>0, <2>3, StampsMaps DEF Shape
  <2>5. Stamps(t.streams, Conns \X Streams)
    <3>1. Stamps(s.streams, Conns \X Streams)
      BY DEF Shape
    <3>2. Stamps(Drop1(s.streams, sk), Conns \X Streams)
      BY <3>1, StampsMaps
    <3>3. Stamps(Put(s.streams, sk, v), Conns \X Streams)
      BY <2>0, <3>1, StampsMaps
    <3> QED BY <2>2, <3>1, <3>2, <3>3
  <2>6. /\ DOMAIN t.directions \subseteq Conns \X Senders
        /\ t.directions \in [DOMAIN t.directions -> Direction]
    BY <2>0, <2>1 DEF Shape, Put
  <2>7. Shape(t)
    BY <2>3, <2>4, <2>5, <2>6 DEF Shape
  <2>8. /\ c \in DOMAIN t.connections /\ t.connections[c] = now
        /\ \A x \in DOMAIN s.connections : x \in DOMAIN t.connections
             /\ (x = c \/ t.connections[x] = s.connections[x])
        /\ \A x \in DOMAIN t.connections : x = c \/ x \in DOMAIN s.connections
    BY <2>3 DEF Put
  <2>e. c \notin inv \cup SeenEarlier(s, f, now) =>
          /\ c \in DOMAIN s.connections => s.connections[c] <= now
          /\ \A w \in Nat : Started(s, f, now, w) => w <= now
    <3> SUFFICES ASSUME c \notin inv, c \notin SeenEarlier(s, f, now)
                 PROVE  /\ c \in DOMAIN s.connections => s.connections[c] <= now
                        /\ \A w \in Nat : Started(s, f, now, w) => w <= now
      OBVIOUS
    <3>1. c \in DOMAIN s.connections => s.connections[c] \in Nat
      BY StampFacts, YoungFacts, OldFacts DEF Shape
    <3>2. c \in DOMAIN s.connections => s.connections[c] <= now
      BY <3>1, StampNat DEF SeenEarlier
    <3>3. k[1] = c
      OBVIOUS
    <3>4. k \in DOMAIN s.directions =>
            c \in DOMAIN s.connections /\ s.directions[k].partial <= s.connections[c]
            /\ s.directions[k].partial \in Nat
      BY <3>3 DEF Agree, Shape, Direction
    <3>5. now \in Nat
      BY StampNat
    <3> QED BY <3>1, <3>2, <3>4, <3>5 DEF Started
  <2>n. now \in Nat
    BY StampNat
  <2>9. ASSUME NEW x \in DOMAIN t.directions, x[1] \notin inv \cup SeenEarlier(s, f, now)
        PROVE  /\ x[1] \in DOMAIN t.connections
               /\ t.directions[x].lastSeen <= t.connections[x[1]]
               /\ t.directions[x].partial <= t.connections[x[1]]
    <3>1. CASE x = k
      <4>1. x[1] = c /\ t.directions[x] = d /\ d.partial \in Nat
        BY <2>1, <3>1 DEF Put, Direction
      <4>2. d.partial <= now
        <5>1. CASE d.partial = 0
          BY <2>n, <5>1
        <5>2. CASE Started(s, f, now, d.partial)
          BY <2>9, <2>e, <4>1, <5>2
        <5> QED BY <2>1, <5>1, <5>2
      <4> QED BY <2>1, <2>8, <2>n, <4>1, <4>2
    <3>2. CASE x # k
      <4>1. x \in DOMAIN s.directions /\ t.directions[x] = s.directions[x]
        BY <2>1, <2>9, <3>2 DEF Put
      <4>2. /\ x[1] \in DOMAIN s.connections
            /\ s.directions[x].lastSeen <= s.connections[x[1]]
            /\ s.directions[x].partial <= s.connections[x[1]]
        BY <2>9, <4>1 DEF Agree
      <4>3. /\ s.directions[x].lastSeen \in Nat /\ s.directions[x].partial \in Nat
            /\ s.connections[x[1]] \in Nat
        <5>1. s.directions[x] \in Direction
          BY <4>1 DEF Shape
        <5>2. s.connections[x[1]] \in Nat
          BY <4>2, StampFacts DEF Shape
        <5> QED BY <5>1, <5>2, StampNat DEF Direction
      <4>4. CASE x[1] = c
        <5>1. s.connections[x[1]] <= now
          BY <2>9, <2>e, <4>2, <4>4
        <5> QED BY <2>8, <2>n, <4>1, <4>2, <4>3, <4>4, <5>1
      <4>5. CASE x[1] # c
        BY <2>8, <4>1, <4>2, <4>5
      <4> QED BY <4>4, <4>5
    <3> QED BY <3>1, <3>2
  <2>10. ASSUME NEW x \in DOMAIN t.streams, x[1] \notin inv \cup SeenEarlier(s, f, now)
         PROVE  x[1] \in DOMAIN t.connections /\ t.streams[x] <= t.connections[x[1]]
    <3>1. CASE x \in DOMAIN s.streams /\ t.streams[x] = s.streams[x]
      <4>1. x[1] \in DOMAIN s.connections /\ s.streams[x] <= s.connections[x[1]]
        BY <2>10, <3>1 DEF Agree
      <4>2. s.streams[x] \in Nat /\ s.connections[x[1]] \in Nat
        BY <3>1, <4>1, StampFacts, YoungFacts, OldFacts DEF Shape
      <4>3. CASE x[1] = c
        <5>1. s.connections[x[1]] <= now
          BY <2>10, <2>e, <4>1, <4>3
        <5> QED BY <2>8, <2>n, <3>1, <4>1, <4>2, <4>3, <5>1
      <4>4. CASE x[1] # c
        BY <2>8, <3>1, <4>1, <4>4
      <4> QED BY <4>3, <4>4
    <3>2. CASE ~(x \in DOMAIN s.streams /\ t.streams[x] = s.streams[x])
      <4>1. x = sk /\ t.streams[x] = v
        BY <2>2, <2>10, <3>2 DEF Put, Drop1
      <4>2. x[1] = c
        BY <4>1
      <4>3. v \in Nat
        BY StampNat
      <4>4. v <= now
        BY <2>2, <2>10, <2>e, <4>2, <4>3
      <4> QED BY <2>8, <4>1, <4>2, <4>4
    <3> QED BY <3>1, <3>2
  <2>11. ASSUME NEW x \in DOMAIN t.http1
         PROVE  x \notin DOMAIN t.ambiguous
    BY <2>3, <2>11 DEF Agree
  <2> QED BY <2>7, <2>9, <2>10, <2>11 DEF Agree, t
<1> QED BY <1>1, <1>2, HTTP2Cases

(* HTTP/2 takes no part in the pairs of HTTP/1: it makes the connection    *)
(* blind for what it swallows.                                             *)
LEMMA HTTP2Pairs ==
  ASSUME NEW s, NEW f \in Fragment, NEW now \in Stamp, Shape(s),
         HandledByHTTP2(s, f), NEW r, r = HTTP2(s, f, now),
         NEW n \in Nat, NEW b \in BOOLEAN, Paired(s, f.conn, n, b),
         NEW b2 \in BOOLEAN, WireAfter(n, f) > 0 => b2
  PROVE  Paired(r.state, f.conn, WireAfter(n, f), b2)
<1>1. CASE HTTP2Refused(s, f, r)
  <2>1. f.conn \notin DOMAIN s.connections /\ r.state = s
    BY <1>1 DEF HTTP2Refused
  <2>2. WireAfter(n, f) = n
    BY <2>1, WireFacts DEF HandledByHTTP2, Prefaces
  <2> QED BY <2>1, <2>2 DEF Paired
<1>2. CASE HTTP2Moved(s, f, now, r)
  <2>1. f.conn \in DOMAIN r.state.connections
    BY <1>2 DEF HTTP2Moved, Put
  <2>2. WireAfter(n, f) \in Nat
    BY WireFacts
  <2> QED BY <2>1, <2>2 DEF Paired
<1> QED BY <1>1, <1>2, HTTP2Cases

LEMMA HTTP2Frame ==
  ASSUME NEW s, NEW f \in Fragment, NEW now \in Stamp, Shape(s),
         NEW r, r = HTTP2(s, f, now)
  PROVE  /\ r.state.http1 = s.http1 /\ r.state.ambiguous = s.ambiguous
         /\ HTTP2Outputs(f, r.outputs)
         /\ \A c : c # f.conn => (c \in DOMAIN r.state.connections <=> c \in DOMAIN s.connections)
<1>1. CASE HTTP2Refused(s, f, r)
  BY <1>1 DEF HTTP2Refused
<1>2. CASE HTTP2Moved(s, f, now, r)
  BY <1>2 DEF HTTP2Moved, Put
<1> QED BY <1>1, <1>2, HTTP2Cases

-----------------------------------------------------------------------------
(***************************************************************************)
(* Process.                                                                *)
(***************************************************************************)

(* The history of inversions may be any superset, and what is left of a    *)
(* connection is all that it matters for.                                  *)
LEMMA AgreeHistory ==
  ASSUME NEW s, NEW inv, NEW more, Agree(s, inv), inv \subseteq more
  PROVE  Agree(s, more \cap HTTP2Remains(s))
BY DEF Agree, HTTP2Remains

SweptFrom(now) ==
  IF Sweeping(now) THEN Old(l7.http1, now) \cup Old(l7.ambiguous, now) ELSE {}

LEMMA ProcessStep ==
  ASSUME CorrelatorInv, NEW f \in Fragment, NEW now \in 1..MaxClock, Process(f, now),
         NEW r, r = Handled(Kept(now), f, now)
  PROVE  /\ now \in Stamp /\ clock' = now /\ l7' = r.state
         /\ Shape(l7) /\ Agree(l7, inverted)
         /\ out' = (IF Sweeping(now) THEN SweepDrops(l7, now) ELSE {}) \cup r.outputs
         /\ outstanding' = [outstanding EXCEPT ![f.conn] = WireAfter(outstanding[f.conn], f)]
         /\ blind' = [c \in Conns |-> (blind[c] \/ c \in GivenUp(l7, Sweeping(now), f, now, r.outputs))
                                        /\ outstanding'[c] > 0]
         /\ inverted' = (inverted \cup SeenEarlier(Kept(now), f, now)) \cap HTTP2Remains(l7')
<1>1. now \in Stamp
  BY L7ConfigAssumption, StampNat
<1>2. Shape(l7) /\ Agree(l7, inverted)
  BY DEF CorrelatorInv
<1>3. clock' = now
  BY DEF Process
<1>4. l7' = r.state
  BY DEF Process, Leaves
<1>5. out' = (IF Sweeping(now) THEN SweepDrops(l7, now) ELSE {}) \cup r.outputs
  BY DEF Process, Leaves
<1>6. outstanding' = [outstanding EXCEPT ![f.conn] = WireAfter(outstanding[f.conn], f)]
  BY DEF Process
<1>7. blind' = [c \in Conns |-> (blind[c] \/ c \in GivenUp(l7, Sweeping(now), f, now, r.outputs))
                                  /\ outstanding'[c] > 0]
  BY DEF Process, Leaves
<1>8. inverted' = (inverted \cup SeenEarlier(Kept(now), f, now)) \cap HTTP2Remains(r.state)
  BY DEF Process, Leaves
<1> QED BY <1>1, <1>2, <1>3, <1>4, <1>5, <1>6, <1>7, <1>8 DEF HTTP2Remains

LEMMA ProcessKeeps ==
  ASSUME CorrelatorInv, NEW f \in Fragment, NEW now \in 1..MaxClock, Process(f, now)
  PROVE  CorrelatorInv'
<1>1. PICK s : s = Kept(now)
  OBVIOUS
<1>2. PICK r : r = Handled(s, f, now)
  OBVIOUS
<1>3. /\ now \in Stamp /\ clock' = now /\ l7' = r.state
      /\ Shape(l7) /\ Agree(l7, inverted)
      /\ inverted' = (inverted \cup SeenEarlier(s, f, now)) \cap HTTP2Remains(l7')
      /\ out' = (IF Sweeping(now) THEN SweepDrops(l7, now) ELSE {}) \cup r.outputs
      /\ outstanding' = [outstanding EXCEPT ![f.conn] = WireAfter(outstanding[f.conn], f)]
      /\ blind' = [c \in Conns |-> (blind[c] \/ c \in GivenUp(l7, Sweeping(now), f, now, r.outputs))
                                     /\ outstanding'[c] > 0]
  BY <1>1, <1>2, ProcessStep
<1>4. Shape(s) /\ Agree(s, inverted)
  <2>1. CASE Sweeping(now)
    BY <1>1, <1>3, <2>1, SweepKeeps DEF Kept
  <2>2. CASE ~Sweeping(now)
    BY <1>1, <1>3, <2>2 DEF Kept
  <2> QED BY <2>1, <2>2
<1>5. Shape(r.state) /\ Agree(r.state, inverted')
  <2> DEFINE more == inverted \cup SeenEarlier(s, f, now)
  <2>0. inverted \subseteq more /\ inverted' = more \cap HTTP2Remains(r.state)
    BY <1>3 DEF HTTP2Remains
  <2>1. CASE HandledByHTTP2(s, f)
    <3>1. Shape(r.state) /\ Agree(r.state, more)
      BY <1>2, <1>3, <1>4, <2>1, HTTP2Keeps DEF Handled
    <3> HIDE DEF more
    <3> QED BY <2>0, <3>1, AgreeHistory
  <2>2. CASE ~HandledByHTTP2(s, f)
    <3>1. Shape(r.state) /\ Agree(r.state, inverted)
      BY <1>2, <1>3, <1>4, <2>2, HTTP1Keeps DEF Handled
    <3> HIDE DEF more
    <3> QED BY <2>0, <3>1, AgreeHistory
  <2> QED BY <2>1, <2>2
<1>6. f.conn \in Conns /\ outstanding \in [Conns -> Nat] /\ blind \in [Conns -> BOOLEAN]
  BY FragmentFacts DEF CorrelatorInv, HistoryInv
<1>7. WireAfter(outstanding[f.conn], f) \in Nat
  BY <1>6, WireFacts
<1>8. outstanding' \in [Conns -> Nat] /\ blind' \in [Conns -> BOOLEAN]
  <2>1. outstanding' \in [Conns -> Nat]
    BY <1>3, <1>6, <1>7
  <2>2. blind' \in [Conns -> BOOLEAN]
    BY <1>3
  <2> QED BY <2>1, <2>2
<1>9. ASSUME NEW c \in Conns
      PROVE  Paired(s, c, outstanding[c], blind[c] \/ c \in SweptFrom(now))
  <2>1. Paired(l7, c, outstanding[c], blind[c]) /\ outstanding[c] \in Nat /\ blind[c] \in BOOLEAN
    BY <1>6 DEF CorrelatorInv, HistoryInv
  <2>2. CASE Sweeping(now)
    <3>1. SweptFrom(now) = Old(l7.http1, now) \cup Old(l7.ambiguous, now)
      BY <2>2 DEF SweptFrom
    <3>2. s = Swept(l7, now)
      BY <1>1, <2>2 DEF Kept
    <3>3. (blind[c] \/ c \in SweptFrom(now)) \in BOOLEAN
      OBVIOUS
    <3>4. now \in Nat
      BY <1>3, StampNat
    <3> QED BY <1>3, <2>1, <3>1, <3>2, <3>3, <3>4, SweepPairs
  <2>3. CASE ~Sweeping(now)
    <3>1. SweptFrom(now) = {} /\ s = l7
      BY <1>1, <2>3 DEF Kept, SweptFrom
    <3>2. (blind[c] \/ c \in SweptFrom(now)) <=> blind[c]
      BY <3>1
    <3> QED BY <2>1, <3>1, <3>2
  <2> QED BY <2>2, <2>3
<1>10. ASSUME NEW c \in Conns
       PROVE  /\ blind'[c] <=> (blind[c] \/ c \in GivenUp(l7, Sweeping(now), f, now, r.outputs))
                                 /\ outstanding'[c] > 0
              /\ c \in SweptFrom(now) => c \in GivenUp(l7, Sweeping(now), f, now, r.outputs)
              /\ c # f.conn => outstanding'[c] = outstanding[c]
              /\ outstanding'[f.conn] = WireAfter(outstanding[f.conn], f)
              /\ outstanding[c] \in Nat /\ blind[c] \in BOOLEAN /\ blind'[c] \in BOOLEAN
  BY <1>3, <1>6, <1>8 DEF SweptFrom, GivenUp
<1>11. ASSUME NEW c \in Conns, c # f.conn
       PROVE  Paired(r.state, c, outstanding'[c], blind'[c])
  <2>1. /\ c \in DOMAIN r.state.http1 <=> c \in DOMAIN s.http1
        /\ c \in DOMAIN r.state.ambiguous <=> c \in DOMAIN s.ambiguous
        /\ c \in DOMAIN r.state.connections <=> c \in DOMAIN s.connections
    <3>1. CASE HandledByHTTP2(s, f)
      BY <1>2, <1>3, <1>4, <1>11, <3>1, HTTP2Frame DEF Handled
    <3>2. CASE ~HandledByHTTP2(s, f)
      BY <1>2, <1>3, <1>4, <1>11, <3>2, HTTP1Frame DEF Handled
    <3> QED BY <3>1, <3>2
  <2>2. PICK n \in Nat : n = outstanding[c]
    BY <1>10
  <2>3. PICK b \in BOOLEAN : b <=> blind[c] \/ c \in SweptFrom(now)
    OBVIOUS
  <2>4. PICK b2 \in BOOLEAN : b2 <=> blind'[c]
    BY <1>10
  <2>5. Paired(s, c, n, b)
    BY <1>9, <2>2, <2>3
  <2>6. b /\ n > 0 => b2
    BY <1>10, <1>11, <2>2, <2>3, <2>4
  <2>7. Paired(r.state, c, n, b2)
    <3>1. CASE n = 0
      BY <2>1, <2>5, <3>1 DEF Paired
    <3>2. CASE n > 0
      BY <2>1, <2>5, <2>6, <3>2 DEF Paired
    <3> QED BY <3>1, <3>2
  <2>8. b2 = blind'[c]
    BY <1>10, <2>4
  <2> QED BY <1>10, <1>11, <2>2, <2>7, <2>8
<1>12. PICK n \in Nat : n = outstanding[f.conn]
  BY <1>6
<1>13. PICK b \in BOOLEAN : b <=> blind[f.conn] \/ f.conn \in SweptFrom(now)
  OBVIOUS
<1>14. PICK b2 \in BOOLEAN : b2 <=> blind'[f.conn]
  BY <1>6, <1>10
<1>15. Paired(s, f.conn, n, b)
  BY <1>6, <1>9, <1>12, <1>13
<1>16. /\ WireAfter(n, f) = outstanding'[f.conn]
       /\ b /\ WireAfter(n, f) > 0 => b2
       /\ b2 = blind'[f.conn]
  BY <1>6, <1>10, <1>12, <1>13, <1>14
<1>17. /\ Paired(r.state, f.conn, outstanding'[f.conn], blind'[f.conn])
       /\ \A x \in r.outputs : Completed("http1", x) =>
            x.conn = f.conn /\ (outstanding'[f.conn] = 0 \/ blind'[f.conn])
  <2>1. CASE HandledByHTTP2(s, f)
    <3>1. r = HTTP2(s, f, now)
      BY <1>2, <2>1 DEF Handled
    <3>2. HandledByHTTP2(l7, f)
      <4>1. CASE Sweeping(now)
        <5>1. s.connections = Young(l7.connections, now)
          BY <1>1, <1>3, <4>1, SweptFields, StampNat DEF Kept
        <5> QED BY <2>1, <5>1 DEF HandledByHTTP2, Young
      <4>2. CASE ~Sweeping(now)
        BY <1>1, <2>1, <4>2 DEF Kept
      <4> QED BY <4>1, <4>2
    <3>3. f.conn \in GivenUp(l7, Sweeping(now), f, now, r.outputs)
      BY <3>2 DEF GivenUp
    <3>4. WireAfter(n, f) > 0 => b2
      BY <1>6, <1>10, <1>14, <1>16, <3>3
    <3>5. Paired(r.state, f.conn, WireAfter(n, f), b2)
      BY <1>3, <1>4, <1>15, <2>1, <3>1, <3>4, HTTP2Pairs
    <3>6. \A x \in r.outputs : ~Completed("http1", x)
      BY <1>3, <1>4, <3>1, HTTP2Frame DEF HTTP2Outputs
    <3> QED BY <1>16, <3>5, <3>6
  <2>2. CASE ~HandledByHTTP2(s, f)
    <3>1. r = HTTP1(s, f, now)
      BY <1>2, <2>2 DEF Handled
    <3>2. (\E x \in r.outputs : OverCapacity(x)) =>
             f.conn \in GivenUp(l7, Sweeping(now), f, now, r.outputs)
      <4>1. \A x \in r.outputs : x.conn = f.conn
        BY <1>3, <1>4, <3>1, HTTP1Frame
      <4> QED BY <4>1 DEF GivenUp, OverCapacity
    <3>3. (b \/ \E x \in r.outputs : OverCapacity(x)) /\ WireAfter(n, f) > 0 => b2
      BY <1>6, <1>10, <1>14, <1>16, <3>2
    <3>4. /\ Paired(r.state, f.conn, WireAfter(n, f), b2)
          /\ \A x \in r.outputs : Completed("http1", x) =>
               x.conn = f.conn /\ (WireAfter(n, f) = 0 \/ b2)
      BY <1>3, <1>4, <1>15, <2>2, <3>1, <3>3, HTTP1Pairs
    <3> QED BY <1>16, <3>4
  <2> QED BY <2>1, <2>2
<1>18. HistoryInv'
  <2>1. ASSUME NEW c \in Conns
        PROVE  Paired(l7', c, outstanding'[c], blind'[c])
    BY <1>3, <1>11, <1>17
  <2> QED BY <1>8, <2>1 DEF HistoryInv, Paired
<1>19. NoGuessedPair'
  <2>1. ASSUME NEW x \in out', Completed("http1", x)
        PROVE  x \in r.outputs
    BY <1>3, <2>1 DEF SweepDrops, Drop, Completed
  <2> QED BY <1>17, <2>1 DEF NoGuessedPair, Completed
<1>20. (clock \in Stamp /\ Shape(l7) /\ Agree(l7, inverted))'
  BY <1>3, <1>5
<1> QED BY <1>18, <1>19, <1>20 DEF CorrelatorInv

LEMMA CorrelatorInvariant == Spec => []CorrelatorInv
<1>1. Init => CorrelatorInv
  <2> SUFFICES ASSUME Init PROVE CorrelatorInv
    OBVIOUS
  <2>1. clock = 1 /\ out = {}
    BY DEF Init
  <2>2. /\ DOMAIN l7 = {"http1", "ambiguous", "connections", "directions", "streams"}
        /\ l7.http1 = Empty /\ l7.ambiguous = Empty /\ l7.connections = Empty
        /\ l7.directions = Empty /\ l7.streams = Empty
    BY DEF Init
  <2>3. DOMAIN Empty = {} /\ \A S : Empty \in [{} -> S]
    BY DEF Empty
  <2>4. Shape(l7)
    BY <2>2, <2>3 DEF Shape, Stamps
  <2>5. Agree(l7, inverted)
    BY <2>2, <2>3 DEF Agree
  <2>6. HistoryInv
    <3>1. outstanding \in [Conns -> Nat] /\ blind \in [Conns -> BOOLEAN]
          /\ \A c \in Conns : outstanding[c] = 0
      BY DEF Init
    <3> QED BY <2>2, <2>3, <3>1 DEF HistoryInv, Paired
  <2> QED BY <2>1, <2>4, <2>5, <2>6, StampNat DEF CorrelatorInv, NoGuessedPair
<1>2. CorrelatorInv /\ [Next]_vars => CorrelatorInv'
  <2> SUFFICES ASSUME CorrelatorInv, [Next]_vars PROVE CorrelatorInv'
    OBVIOUS
  <2>1. CASE Next
    BY <2>1, ProcessKeeps DEF Next
  <2>2. CASE UNCHANGED vars
    BY <2>2 DEF vars, CorrelatorInv, HistoryInv, NoGuessedPair, Paired
  <2> QED BY <2>1, <2>2
<1> QED BY <1>1, <1>2, PTL DEF Spec

-----------------------------------------------------------------------------
(***************************************************************************)
(* The theorems.                                                           *)
(***************************************************************************)

(* Every HTTP/1 transaction that Process reports pairs a response with the *)
(* only request on the wire, or the connection has a request the           *)
(* correlator gave up without an answer.                                   *)
THEOREM PairsAreNotGuessed == Spec => []NoGuessedPair
BY CorrelatorInvariant, PTL DEF CorrelatorInv

(* The sweep leaves no direction and no stream of a connection it ends,    *)
(* unless a fragment of that connection was stamped before the one ahead   *)
(* of it.                                                                  *)
THEOREM ConnectionsStartFresh == Spec => []FreshStart
<1>1. CorrelatorInv => FreshStart
  BY DEF CorrelatorInv, Agree, FreshStart, HTTP2Remains
<1> QED BY <1>1, CorrelatorInvariant, PTL

(* A direction that failed to decode is never decoded again before it was  *)
(* silent for StateTTL, whatever the other direction and the other         *)
(* connections do.                                                         *)
THEOREM PoisonIsKept == Spec => PoisonSticks
<1> DEFINE Sticks ==
      \A k \in DOMAIN l7.directions :
        l7.directions[k].poisoned /\ ~ExpiredAt(clock', l7.directions[k].lastSeen) =>
          /\ k \in DOMAIN l7'.directions /\ l7'.directions[k].poisoned
          /\ k[2] = "server" =>
               \A t \in out' : ~(t.type = "transaction" /\ t.protocol = "http2" /\ t.conn = k[1])
<1>1. ASSUME CorrelatorInv, NEW f \in Fragment, NEW now \in 1..MaxClock, Process(f, now)
      PROVE  Sticks
  <2> SUFFICES ASSUME NEW k \in DOMAIN l7.directions, l7.directions[k].poisoned,
                      ~ExpiredAt(clock', l7.directions[k].lastSeen)
               PROVE  /\ k \in DOMAIN l7'.directions /\ l7'.directions[k].poisoned
                      /\ k[2] = "server" => \A t \in out' : ~(Completed("http2", t) /\ t.conn = k[1])
    BY DEF Completed
  <2>1. PICK s : s = Kept(now)
    OBVIOUS
  <2>2. PICK r : r = Handled(s, f, now)
    OBVIOUS
  <2>3. /\ now \in Stamp /\ clock' = now /\ l7' = r.state
        /\ Shape(l7) /\ Agree(l7, inverted)
        /\ out' = (IF Sweeping(now) THEN SweepDrops(l7, now) ELSE {}) \cup r.outputs
    BY <1>1, <2>1, <2>2, ProcessStep
  <2>4. Shape(s) /\ k \in DOMAIN s.directions /\ s.directions[k].poisoned
    <3>1. CASE Sweeping(now)
      <4>1. s.directions =
              [x \in {y \in DOMAIN l7.directions : ~ExpiredAt(now, l7.directions[y].lastSeen)}
                 |-> l7.directions[x]]
        BY <2>1, <2>3, <3>1, SweptFields DEF Kept
      <4>2. Shape(s)
        BY <2>1, <2>3, <3>1, SweepKeeps DEF Kept
      <4> QED BY <2>3, <4>1, <4>2
    <3>2. CASE ~Sweeping(now)
      BY <2>1, <2>3, <3>2 DEF Kept
    <3> QED BY <3>1, <3>2
  <2>5. k = <<k[1], k[2]>>
    BY <2>4 DEF Shape
  <2>6. \A x \in out' : Completed("http2", x) => x \in r.outputs
    BY <2>3 DEF SweepDrops, Drop, Completed
  <2>7. CASE ~HandledByHTTP2(s, f)
    <3>0. r = HTTP1(s, f, now)
      BY <2>2, <2>7 DEF Handled
    <3>1. r.state.directions = s.directions /\ \A x \in r.outputs : ~Completed("http2", x)
      <4>1. f \in Fragment /\ now \in Stamp /\ Shape(s)
        BY <2>3, <2>4
      <4> QED BY ONLY <3>0, <4>1, HTTP1Frame
    <3> QED BY <2>3, <2>4, <2>6, <3>1
  <2>8. CASE HandledByHTTP2(s, f)
    <3>1. HTTP2Refused(s, f, r) \/ HTTP2Moved(s, f, now, r)
      BY <2>2, <2>3, <2>4, <2>8, HTTP2Cases DEF Handled
    <3>2. CASE HTTP2Refused(s, f, r)
      BY <2>3, <2>4, <2>6, <3>2 DEF HTTP2Refused
    <3>3. CASE HTTP2Moved(s, f, now, r)
      <4>1. PICK d \in Direction :
              /\ r.state.directions = Put(s.directions, <<f.conn, f.from>>, d)
              /\ <<f.conn, f.from>> \in DOMAIN s.directions
                   /\ s.directions[<<f.conn, f.from>>].poisoned => d.poisoned /\ r.outputs = {}
        BY <3>3 DEF HTTP2Moved, DirectionMoved
      <4>2. \A x \in r.outputs : Completed("http2", x) => x.conn = f.conn /\ f.from = "server"
        BY <3>3 DEF HTTP2Moved, HTTP2Outputs
      <4>3. CASE k = <<f.conn, f.from>>
        BY <2>3, <2>4, <2>6, <4>1, <4>3 DEF Put
      <4>4. CASE k # <<f.conn, f.from>>
        <5>1. k \in DOMAIN l7'.directions /\ l7'.directions[k].poisoned
          BY <2>3, <2>4, <4>1, <4>4 DEF Put
        <5>2. k[2] = "server" => ~(k[1] = f.conn /\ f.from = "server")
          BY <2>5, <4>4
        <5> QED BY <2>6, <4>2, <5>1, <5>2
      <4> QED BY <4>3, <4>4
    <3> QED BY <3>1, <3>2, <3>3
  <2> QED BY <2>7, <2>8
<1>2. CorrelatorInv /\ [Next]_vars => [Sticks]_vars
  BY <1>1 DEF Next
<1> QED BY <1>2, CorrelatorInvariant, PTL DEF Spec, PoisonSticks
=============================================================================
