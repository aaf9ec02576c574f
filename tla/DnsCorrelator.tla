---------------------------- MODULE DnsCorrelator ----------------------------
(***************************************************************************)
(* dns.Correlator (internal/dns/dns.go, pending.go): DNS responses are     *)
(* matched to their queries, unanswered queries expire.                    *)
(*                                                                         *)
(* A datagram is a query, a response or unparseable; its key stands for    *)
(* the endpoints, transaction ID, question and observer that pendingKey    *)
(* holds, already oriented from client to server.  ts is the kernel        *)
(* timestamp of the capture (0: not recorded), at the time it was observed *)
(* by the agent.  pending holds one entry per query; the heap of deadlines *)
(* has exactly the same entries, ordered by at, so the queries it pops are *)
(* those that are due.                                                     *)
(***************************************************************************)
EXTENDS Integers, FiniteSets

CONSTANTS
  Keys,          \* what pendingKey tells apart
  Instants,      \* observation times
  Stamps,        \* kernel timestamps in nanoseconds; 0 when not recorded
  NanosPerMicro, \* 1000
  MaxDatagrams,  \* bound on the datagrams of a behaviour
  Timeout,       \* Config.Timeout
  MaxPending     \* Config.MaxPending

ASSUME DnsConfigAssumption ==
  /\ Instants \subseteq Nat
  /\ Stamps \subseteq Nat
  /\ NanosPerMicro \in Nat \ {0}
  /\ MaxDatagrams \in Nat
  /\ Timeout \in Nat \ {0}
  /\ MaxPending \in Nat \ {0}

(* What Parse makes of a payload: a message that asks, a message that      *)
(* answers, or an error.                                                   *)
DatagramTypes == {"query", "response", "malformed"}

(* Datagrams are numbered in capture order.                                *)
Fragment ==
  [id : 1..MaxDatagrams, type : DatagramTypes, key : Keys, at : Instants, ts : Stamps]

(* A transaction names the query it closes and the response it carries     *)
(* (None when there is none), its outcome and reason, and its latency when *)
(* that was measured.  The enrichment it copies is left out.               *)
None == 0
Unmeasured == -1

Transaction(query, response, outcome, latency) ==
  [query |-> query, response |-> response, outcome |-> outcome, latency |-> latency]

-----------------------------------------------------------------------------
VARIABLES
  queries,    \* Correlator.pending: key -> fragment of its first capture
  reported,   \* history: the transactions returned so far
  captured    \* history: the fragments given to Process

dnsVars == <<queries, reported, captured>>

DnsInit ==
  /\ queries = [k \in {} |-> None]
  /\ reported = {}
  /\ captured = {}

-----------------------------------------------------------------------------
(* expire: the queries at least Timeout old leave as no_response.          *)
Aged(q, now) == {k \in DOMAIN q : now - q[k].at >= Timeout}

Without(q, K) == [k \in DOMAIN q \ K |-> q[k]]

NoResponse(q, K, outcome) ==
  {Transaction(q[k].id, None, outcome, Unmeasured) : k \in K}

(* Mutant: a retransmission replaces the query that is pending.            *)
AcceptQueryReplace(q, f) ==
  [queries |-> [k \in DOMAIN q \cup {f.key} |-> IF k = f.key THEN f ELSE q[k]],
   out |-> {}]

(* A query: a retransmission keeps the first capture and its deadline; at  *)
(* capacity the query is reported instead of stored.                       *)
AcceptQuery(q, f) ==
  IF f.key \in DOMAIN q
  THEN [queries |-> q, out |-> {}]
  ELSE IF Cardinality(DOMAIN q) >= MaxPending
  THEN [queries |-> q,
        out |-> {Transaction(f.id, None, "incomplete/state_capacity", Unmeasured)}]
  ELSE [queries |-> [k \in DOMAIN q \cup {f.key} |-> IF k = f.key THEN f ELSE q[k]],
        out |-> {}]

(* The latency, in microseconds, is reported only from two recorded,       *)
(* ordered timestamps.                                                     *)
(* Mutant: their order is not looked at.                                   *)
LatencyUnordered(query, response) ==
  IF query.ts # 0 THEN (response.ts - query.ts) \div NanosPerMicro ELSE Unmeasured

Latency(query, response) ==
  IF query.ts # 0 /\ response.ts >= query.ts
  THEN (response.ts - query.ts) \div NanosPerMicro
  ELSE Unmeasured

(* A response closes its query, or is reported on its own.                 *)
AcceptResponse(q, f) ==
  IF f.key \in DOMAIN q
  THEN [queries |-> Without(q, {f.key}),
        out |-> {Transaction(q[f.key].id, f.id, "response", Latency(q[f.key], f))}]
  ELSE [queries |-> q,
        out |-> {Transaction(None, f.id, "response", Unmeasured)}]

(* Process: age out first, then parse, then correlate.                     *)
ProcessFragment(q, f) ==
  LET aged  == Aged(q, f.at)
      young == Without(q, aged)
      step  == CASE f.type = "malformed" ->
                      [queries |-> young,
                       out |-> {Transaction(None, f.id, "parse_failed", Unmeasured)}]
                 [] f.type = "query"    -> AcceptQuery(young, f)
                 [] f.type = "response" -> AcceptResponse(young, f)
  IN [queries |-> step.queries,
      out |-> NoResponse(q, aged, "no_response") \cup step.out]

(* Finish: age out, then report the rest as cut short by the capture's end.*)
FinishOut(q, now) ==
  NoResponse(q, Aged(q, now), "no_response")
    \cup NoResponse(q, DOMAIN q \ Aged(q, now), "incomplete/capture_ended")

-----------------------------------------------------------------------------
Process(f) ==
  LET result == ProcessFragment(queries, f) IN
  /\ queries' = result.queries
  /\ reported' = reported \cup result.out
  /\ captured' = captured \cup {f}

Expire(now) ==
  /\ queries' = Without(queries, Aged(queries, now))
  /\ reported' = reported \cup NoResponse(queries, Aged(queries, now), "no_response")
  /\ UNCHANGED captured

FinishDns(now) ==
  /\ queries' = Without(queries, DOMAIN queries)
  /\ reported' = reported \cup FinishOut(queries, now)
  /\ UNCHANGED captured

(* Flush, kept for older callers, reports every query as no_response.      *)
FlushDns ==
  /\ queries' = Without(queries, DOMAIN queries)
  /\ reported' = reported \cup NoResponse(queries, DOMAIN queries, "no_response")
  /\ UNCHANGED captured

(* Calls in any order, at any times.                                       *)
DnsNext ==
  \/ \E f \in Fragment : f.id = Cardinality(captured) + 1 /\ Process(f)
  \/ \E now \in Instants : Expire(now)
  \/ \E now \in Instants : FinishDns(now)
  \/ FlushDns

DnsSpec == DnsInit /\ [][DnsNext]_dnsVars

-----------------------------------------------------------------------------
(***************************************************************************)
(* Safety.                                                                 *)
(***************************************************************************)

(* At most once: a query and a response each appear in one transaction,    *)
(* and no query that is still pending was reported already.                *)
ClosedOnce ==
  /\ \A t, u \in reported :
       \/ t = u
       \/ /\ t.query = None \/ t.query # u.query
          /\ t.response = None \/ t.response # u.response
  /\ \A k \in DOMAIN queries : \A t \in reported : t.query # queries[k].id

(* At least once: a response is reported; a query is pending, reported, or *)
(* a retransmission of an earlier one that was still open when it came and *)
(* stands for it: that one is pending, or was closed without a response or *)
(* by a later one.                                                         *)
StandsFor(first, f) ==
  /\ first.type = "query" /\ first.key = f.key /\ first.id < f.id
  /\ \/ first \in {queries[k] : k \in DOMAIN queries}
     \/ \E t \in reported : t.query = first.id /\ (t.response = None \/ t.response > f.id)

NoneDisappears ==
  \A f \in captured :
    CASE f.type = "query" ->
           \/ f \in {queries[k] : k \in DOMAIN queries}
           \/ \E t \in reported : t.query = f.id
           \/ \E first \in captured : StandsFor(first, f)
      [] OTHER -> \E t \in reported : t.response = f.id

(* Each captured datagram is accounted for exactly once, whatever order of *)
(* retransmissions, second responses and expiries Process sees, and with   *)
(* its state at the limit, which it keeps.                                 *)
DatagramsAccounted ==
  /\ ClosedOnce
  /\ NoneDisappears
  /\ Cardinality(DOMAIN queries) <= MaxPending

(* A latency is the time between the first capture of a question and the   *)
(* response that closed it, both recorded by the kernel, and never the     *)
(* wrapped difference of two unordered timestamps.                         *)
LatencySound ==
  \A t \in reported :
    t.latency # Unmeasured =>
      \E q, r \in captured :
        /\ q.id = t.query /\ q.type = "query"
        /\ r.id = t.response /\ r.type = "response"
        /\ q.key = r.key /\ q.id < r.id
        /\ 0 < q.ts /\ q.ts <= r.ts
        /\ t.latency = (r.ts - q.ts) \div NanosPerMicro
=============================================================================
