------------------------ MODULE TcpSampling_proofs --------------------------
(***************************************************************************)
(* Proofs about TcpSampling, for every number of processors, of            *)
(* connections and calls, and every interval and capacity.                 *)
(***************************************************************************)
EXTENDS TcpSampling, FiniteSetTheorems, TLAPS

Places == Cpus \X Programs

Local == [pc : {"idle", "lookup", "output", "load", "add", "store"},
          now : Nat, srtt : Nat, counter : Nat]

(* A time that a program has read lies in the past.  Callers hold the      *)
(* socket, and no program at inet_sock_set_state runs before the           *)
(* connection is established.                                              *)
SamplingTypeOK ==
  /\ clock \in Nat /\ clock <= MaxClock
  /\ state \in {"free", "synSent", "established", "closed"}
  /\ connection \in Nat
  /\ running \in [Places -> Local]
  /\ \A x \in Places : running[x].now <= clock
  /\ state = "free" => \A x \in Places : running[x].pc = "idle"
  /\ state = "synSent" => \A c \in Cpus : running[<<c, "setState">>].pc = "idle"
  /\ drop_counters \in [Cpus -> Nat]
  /\ overlapped \in BOOLEAN

LEMMA IdleType == Idle \in Local /\ Idle.now = 0 /\ Idle.pc = "idle"
BY DEF Idle, Local

LEMMA PlaceFacts ==
  /\ \A c \in Cpus : <<c, "setState">> \in Places
  /\ \A x \in Places : x = <<x[1], x[2]>> /\ x[1] \in Cpus /\ x[2] \in Programs
BY DEF Places, Programs, Callers

(* The steps of a program touch its own local state.                       *)
LEMMA MoveType ==
  ASSUME running \in [Places -> Local], NEW x \in Places, NEW r \in Local,
         running' = [running EXCEPT ![x] = r]
  PROVE  /\ running' \in [Places -> Local]
         /\ running'[x] = r
         /\ \A y \in Places : y # x => running'[y] = running[y]
OBVIOUS

LEMMA GotoMoves ==
  ASSUME running \in [Places -> Local], NEW x \in Places,
         NEW pc \in {"idle", "lookup", "output", "load", "add", "store"}, Goto(x, pc)
  PROVE  /\ running' \in [Places -> Local]
         /\ running'[x] = [running[x] EXCEPT !.pc = pc]
         /\ running'[x].pc = pc /\ running'[x].now = running[x].now
         /\ \A y \in Places : y # x => running'[y] = running[y]
BY DEF Goto, Local

(* What each step of a program does to the local states.                   *)
LEMMA EnterMoves ==
  ASSUME SamplingTypeOK, NEW x \in Places, Enter(x)
  PROVE  /\ running' \in [Places -> Local]
         /\ running'[x].pc \in {"idle", "lookup"} /\ running'[x].now <= clock
         /\ \A y \in Places : y # x => running'[y] = running[y]
<1>1. PICK raw \in RawSrtts :
        running' = [running EXCEPT ![x] =
                      IF raw \div 8 = 0 THEN Idle
                      ELSE [Idle EXCEPT !.pc = "lookup", !.now = clock, !.srtt = raw \div 8]]
  BY DEF Enter
<1> DEFINE r == IF raw \div 8 = 0 THEN Idle
                ELSE [Idle EXCEPT !.pc = "lookup", !.now = clock, !.srtt = raw \div 8]
<1>2. raw \in Nat /\ raw \div 8 \in Nat
  BY SamplingAssumption
<1>3. r \in Local /\ r.pc \in {"idle", "lookup"} /\ r.now <= clock
  <2>1. CASE raw \div 8 = 0
    <3>1. r = Idle
      BY <2>1
    <3> QED BY <3>1, IdleType DEF SamplingTypeOK
  <2>2. CASE raw \div 8 # 0
    <3>1. r = [pc |-> "lookup", now |-> clock, srtt |-> raw \div 8, counter |-> 0]
      BY <2>2 DEF Idle
    <3>2. clock \in Nat /\ clock <= clock
      BY DEF SamplingTypeOK
    <3> HIDE DEF r
    <3> QED BY <1>2, <3>1, <3>2 DEF Local
  <2> QED BY <2>1, <2>2
<1> HIDE DEF r
<1>4. running' = [running EXCEPT ![x] = r]
  BY <1>1 DEF r
<1> QED BY <1>3, <1>4, MoveType DEF SamplingTypeOK

LEMMA DoneType ==
  ASSUME SamplingTypeOK, NEW x \in Places
  PROVE  /\ Done(x) \in Local /\ Done(x).now <= clock
         /\ Done(x).pc = IF x[2] \in Callers THEN "store" ELSE "idle"
<1>1. CASE x[2] \in Callers
  <2>1. Done(x) = [running[x] EXCEPT !.pc = "store", !.counter = 0] /\ running[x] \in Local
    BY <1>1 DEF Done, SamplingTypeOK
  <2>2. Done(x) = [pc |-> "store", now |-> running[x].now, srtt |-> running[x].srtt, counter |-> 0]
    BY <2>1 DEF Local
  <2>3. running[x].now \in Nat /\ running[x].srtt \in Nat /\ running[x].now <= clock
    BY <2>1 DEF Local, SamplingTypeOK
  <2> QED BY <1>1, <2>2, <2>3 DEF Local
<1>2. CASE x[2] \notin Callers
  BY <1>2, IdleType DEF Done, SamplingTypeOK
<1> QED BY <1>1, <1>2

LEMMA LoadMoves ==
  ASSUME SamplingTypeOK, NEW x \in Places, CountLoad(x)
  PROVE  /\ running' \in [Places -> Local]
         /\ running'[x].pc = "add" /\ running'[x].now <= clock
         /\ running'[x].counter = drop_counters[x[1]]
         /\ \A y \in Places : y # x => running'[y] = running[y]
<1> DEFINE r == [running[x] EXCEPT !.pc = "add", !.counter = drop_counters[x[1]]]
<1>1. drop_counters[x[1]] \in Nat
  BY PlaceFacts DEF SamplingTypeOK
<1>2. r \in Local /\ r.pc = "add" /\ r.now = running[x].now /\ r.counter = drop_counters[x[1]]
  BY <1>1 DEF SamplingTypeOK, Local
<1>3. running' = [running EXCEPT ![x] = r]
  BY <1>2 DEF CountLoad, SamplingTypeOK, Local
<1> HIDE DEF r
<1> QED BY <1>2, <1>3, MoveType DEF SamplingTypeOK

(* Each step takes one program from one of its places to the next.         *)
Moves(x, from, to) ==
  /\ running' \in [Places -> Local]
  /\ running[x].pc = from /\ running'[x].pc \in to /\ running'[x].now <= clock
  /\ \A y \in Places : y # x => running'[y] = running[y]

LEMMA ProgramMoves ==
  ASSUME SamplingTypeOK, NEW x \in Places
  PROVE  /\ Enter(x) => Moves(x, "idle", {"idle", "lookup"})
         /\ Lookup(x) => Moves(x, "lookup", {"idle", "output"})
         /\ Abandon(x) => Moves(x, "output", {"idle"})
         /\ Store(x) => Moves(x, "store", {"idle"})
         /\ Output(x) => Moves(x, "output", {"idle", "store", "load"})
         /\ CountLoad(x) => Moves(x, "load", {"add"})
         /\ CountStore(x) => Moves(x, "add", {"idle", "store"})
<1>0. running \in [Places -> Local] /\ running[x].now <= clock /\ Idle.now <= clock
  BY IdleType DEF SamplingTypeOK
<1>1. ASSUME Enter(x) PROVE Moves(x, "idle", {"idle", "lookup"})
  BY <1>1, EnterMoves DEF Moves, Enter
<1>2. ASSUME running' = [running EXCEPT ![x] = Idle], NEW pc, running[x].pc = pc
      PROVE  Moves(x, pc, {"idle"})
  BY <1>0, <1>2, MoveType, IdleType DEF Moves
<1>3. ASSUME running' = [running EXCEPT ![x] = Done(x)], NEW pc, running[x].pc = pc
      PROVE  Moves(x, pc, {"idle", "store"})
  BY <1>0, <1>3, MoveType, DoneType DEF Moves
<1>4. ASSUME Lookup(x) PROVE Moves(x, "lookup", {"idle", "output"})
  <2>1. running[x].pc = "lookup" /\ (running' = [running EXCEPT ![x] = Idle] \/ Goto(x, "output"))
    BY <1>4 DEF Lookup
  <2>2. CASE running' = [running EXCEPT ![x] = Idle]
    BY <1>2, <2>1, <2>2 DEF Moves
  <2>3. CASE Goto(x, "output")
    BY <1>0, <2>1, <2>3, GotoMoves DEF Moves
  <2> QED BY <2>1, <2>2, <2>3
<1>5. ASSUME Output(x) PROVE Moves(x, "output", {"idle", "store", "load"})
  <2>1. running[x].pc = "output" /\ (running' = [running EXCEPT ![x] = Done(x)] \/ Goto(x, "load"))
    BY <1>5 DEF Output
  <2>2. CASE running' = [running EXCEPT ![x] = Done(x)]
    BY <1>3, <2>1, <2>2 DEF Moves
  <2>3. CASE Goto(x, "load")
    BY <1>0, <2>1, <2>3, GotoMoves DEF Moves
  <2> QED BY <2>1, <2>2, <2>3
<1>6. Abandon(x) => Moves(x, "output", {"idle"})
  BY <1>2 DEF Abandon
<1>7. Store(x) => Moves(x, "store", {"idle"})
  BY <1>2 DEF Store
<1>8. CountStore(x) => Moves(x, "add", {"idle", "store"})
  BY <1>3 DEF CountStore
<1>9. ASSUME CountLoad(x) PROVE Moves(x, "load", {"add"})
  BY <1>9, LoadMoves DEF Moves, CountLoad
<1> QED BY <1>1, <1>4, <1>5, <1>6, <1>7, <1>8, <1>9

LEMMA SamplingTypeInit == Init => SamplingTypeOK
<1> SUFFICES ASSUME Init PROVE SamplingTypeOK
  OBVIOUS
<1>1. running = [x \in Places |-> Idle] /\ clock = 0 /\ state = "free"
  BY DEF Init, Places
<1>2. drop_counters \in [Cpus -> Nat] /\ connection = 0 /\ overlapped = FALSE
  BY DEF Init
<1>3. running \in [Places -> Local] /\ \A x \in Places : running[x] = Idle
  BY <1>1, IdleType
<1>4. \A x \in Places : running[x].now <= clock /\ running[x].pc = "idle"
  BY <1>1, <1>3, IdleType
<1>5. clock \in Nat /\ clock <= MaxClock /\ connection \in Nat
  BY <1>1, <1>2, SamplingAssumption
<1>6. overlapped \in BOOLEAN
  BY <1>2
<1>7. state # "synSent" /\ state \in {"free", "synSent", "established", "closed"}
  BY <1>1
<1> QED BY <1>2, <1>3, <1>4, <1>5, <1>6, <1>7 DEF SamplingTypeOK

LEMMA SamplingTypeNext == SamplingTypeOK /\ [Next]_vars => SamplingTypeOK'
<1> SUFFICES ASSUME SamplingTypeOK, [Next]_vars PROVE SamplingTypeOK'
  OBVIOUS
<1> USE DEF kernelVars, mapVars, readerVars, historyVars
<1>1. CASE Tick
  <2>1. clock' \in Nat /\ clock' <= MaxClock /\ clock <= clock'
    BY <1>1, SamplingAssumption DEF Tick, SamplingTypeOK
  <2>2. \A x \in Places : running[x].now \in Nat
    BY DEF SamplingTypeOK, Local
  <2>3. \A x \in Places : running'[x].now <= clock'
    BY <1>1, <2>1, <2>2 DEF Tick, SamplingTypeOK
  <2> QED BY <1>1, <2>1, <2>3 DEF Tick, SamplingTypeOK
<1>2. CASE \E new \in {"synSent", "established"} : Open(new)
  BY <1>2, PlaceFacts DEF Open, SamplingTypeOK
<1>3. ASSUME NEW c \in Cpus, Established(c) PROVE SamplingTypeOK'
  <2>1. <<c, "setState">> \in Places
    BY PlaceFacts
  <2>2. /\ running' \in [Places -> Local]
        /\ \A y \in Places : running'[y].now = running[y].now
    BY <1>3, <2>1, GotoMoves DEF Established, SamplingTypeOK
  <2> QED BY <1>3, <2>2 DEF Established, SamplingTypeOK
<1>4. CASE Close
  BY <1>4 DEF Close, SamplingTypeOK
<1>5. CASE Release
  BY <1>5, PlaceFacts DEF Release, SamplingTypeOK, Places
<1>6. CASE Evict
  BY <1>6 DEF Evict, SamplingTypeOK
<1>7. ASSUME NEW x \in Places, Program(x) PROVE SamplingTypeOK'
  <2>1. PICK from, to : Moves(x, from, to)
    BY <1>7, ProgramMoves DEF Program
  <2>2. UNCHANGED kernelVars
    BY <1>7 DEF Program, Enter, Lookup, Abandon, Store, Output, CountLoad, CountStore
  <2>3. state # "free"
    <3>1. CASE Enter(x)
      BY <3>1 DEF Enter
    <3>2. CASE ~Enter(x)
      <4>1. running[x].pc # "idle"
        BY <1>7, <3>2 DEF Program, Lookup, Abandon, Store, Output, CountLoad, CountStore
      <4> QED BY <4>1 DEF SamplingTypeOK
    <3> QED BY <3>1, <3>2
  <2>4. ASSUME state = "synSent", NEW c \in Cpus PROVE running'[<<c, "setState">>].pc = "idle"
    <3>1. <<c, "setState">> \in Places /\ running[<<c, "setState">>].pc = "idle"
      BY <2>4, PlaceFacts DEF SamplingTypeOK
    <3>2. x # <<c, "setState">>
      <4>1. CASE Enter(x)
        BY <4>1 DEF Enter, Callers
      <4>2. CASE ~Enter(x)
        BY <1>7, <3>1, <4>2 DEF Program, Lookup, Abandon, Store, Output, CountLoad, CountStore
      <4> QED BY <4>1, <4>2
    <3> QED BY <2>1, <3>1, <3>2 DEF Moves
  <2>5. drop_counters' \in [Cpus -> Nat] /\ overlapped' \in BOOLEAN
    <3>1. CASE CountStore(x)
      <4>1. running[x].counter + 1 \in Nat
        BY DEF SamplingTypeOK, Local
      <4> QED BY <3>1, <4>1 DEF CountStore, SamplingTypeOK
    <3>2. CASE CountLoad(x)
      BY <3>2 DEF CountLoad, SamplingTypeOK
    <3>3. CASE Enter(x) \/ Lookup(x) \/ Abandon(x) \/ Store(x) \/ Output(x)
      BY <3>3 DEF Enter, Lookup, Abandon, Store, Output, SamplingTypeOK
    <3> QED BY <1>7, <3>1, <3>2, <3>3 DEF Program
  <2>6. \A y \in Places : running'[y].now <= clock
    BY <2>1 DEF Moves, SamplingTypeOK
  <2> QED BY <2>1, <2>2, <2>3, <2>4, <2>5, <2>6 DEF Moves, SamplingTypeOK
<1>8. CASE Reader
  BY <1>8 DEF Reader, ReadPending, PollKernelDrops, ReadRing, SamplingTypeOK
<1>9. CASE UNCHANGED vars
  BY <1>9 DEF vars, SamplingTypeOK
<1> QED BY <1>1, <1>2, <1>3, <1>4, <1>5, <1>6, <1>7, <1>8, <1>9 DEF Next, Socket, Places

-----------------------------------------------------------------------------
(***************************************************************************)
(* Suppression.  The map entry is always one of the samples that were put  *)
(* out or counted as a drop.  Which connection it belongs to is the point: *)
(* Close deletes the entry, a late caller may store one afterwards, and    *)
(* the next connection at the address begins with what is left.            *)
(***************************************************************************)
Stored(s) ==
  /\ s.at = srtt_samples.at /\ s.srtt = srtt_samples.srtt
  /\ s.at \in Nat /\ s.at <= MaxClock /\ s.srtt \in Nat

EntryInv ==
  srtt_samples # NoSample =>
    \E s \in samples :
      /\ Stored(s)
      /\ s.connection = connection \/ s.afterClose
      /\ state \in {"free", "closed"} => s.afterClose

LEMMA EntryInvNext == SamplingTypeOK /\ EntryInv /\ [Next]_vars => EntryInv'
<1> SUFFICES ASSUME SamplingTypeOK, EntryInv, [Next]_vars PROVE EntryInv'
  OBVIOUS
<1> USE DEF kernelVars, mapVars, readerVars, historyVars
<1>1. ASSUME UNCHANGED <<state, connection, srtt_samples, samples>> PROVE EntryInv'
  BY <1>1 DEF EntryInv, Stored
<1>2. CASE Tick \/ Reader \/ UNCHANGED vars
  BY <1>1, <1>2 DEF Tick, Reader, ReadPending, PollKernelDrops, ReadRing, vars
<1>3. ASSUME NEW new \in {"synSent", "established"}, Open(new) PROVE EntryInv'
  BY <1>3 DEF Open, EntryInv, Stored
<1>4. ASSUME NEW c \in Cpus, Established(c) PROVE EntryInv'
  BY <1>4 DEF Established, EntryInv, Stored
<1>5. CASE Close \/ Evict
  BY <1>5 DEF Close, Evict, EntryInv
<1>6. CASE Release
  BY <1>6 DEF Release, EntryInv, Stored
<1>7. ASSUME NEW x \in Places, Store(x) PROVE EntryInv'
  <2>0. PICK s : s = [at |-> running[x].now, srtt |-> running[x].srtt,
                      connection |-> connection, afterClose |-> state = "closed"]
    OBVIOUS
  <2>1. /\ srtt_samples' = [at |-> running[x].now, srtt |-> running[x].srtt]
        /\ samples' = samples \cup {s}
        /\ UNCHANGED <<state, connection>> /\ running[x].pc = "store"
    BY <1>7, <2>0 DEF Store
  <2>2. state # "free"
    BY <2>1 DEF SamplingTypeOK
  <2>3. /\ running[x].now \in Nat /\ running[x].now <= MaxClock /\ running[x].srtt \in Nat
    BY SamplingAssumption DEF SamplingTypeOK, Local
  <2>4. s.connection = connection /\ (s.afterClose <=> state = "closed")
    BY <2>0
  <2>5. Stored(s)'
    BY <2>0, <2>1, <2>3 DEF Stored
  <2>6. s \in samples'
    BY <2>1
  <2> QED BY <2>1, <2>2, <2>4, <2>5, <2>6 DEF EntryInv
<1>8. ASSUME NEW x \in Places, Program(x), ~Store(x) PROVE EntryInv'
  BY <1>1, <1>8 DEF Program, Enter, Lookup, Abandon, Output, CountLoad, CountStore
<1> QED BY <1>2, <1>3, <1>4, <1>5, <1>6, <1>7, <1>8 DEF Next, Socket, Places

(* The unsigned difference of two times, when the first is the later one   *)
(* and when it is not.                                                     *)
LEMMA ElapsedFacts ==
  ASSUME NEW now \in Nat, NEW at \in Nat, now <= MaxClock, at <= MaxClock
  PROVE  /\ at <= now => Elapsed(now, at) = now - at
         /\ now < at => Elapsed(now, at) > EmitInterval
<1> DEFINE d == now - at
           q == d \div Wrap
           r == d % Wrap
<1>1. /\ Wrap \in Nat /\ Wrap > 0 /\ MaxClock + EmitInterval < Wrap
      /\ MaxClock \in Nat /\ EmitInterval \in Nat
  BY SamplingAssumption
<1>2. d \in Int /\ d < Wrap /\ d >= -MaxClock
  BY <1>1
<1>3. q \in Int /\ r \in Int /\ 0 <= r /\ r < Wrap /\ d = Wrap * q + r
  <2> HIDE DEF d
  <2> QED BY <1>1, <1>2
<1>4. Elapsed(now, at) = r
  BY DEF Elapsed
<1> HIDE DEF q, r
<1>5. ASSUME q >= 1 PROVE FALSE
  <2>1. Wrap * q >= Wrap
    BY <1>1, <1>3, <1>5
  <2> HIDE DEF d
  <2> QED BY <1>1, <1>2, <1>3, <2>1
<1>6. ASSUME q <= -1 PROVE d < 0 /\ (q = -1 => r = d + Wrap) /\ q >= -1
  <2>1. Wrap * q <= -Wrap
    BY <1>1, <1>3, <1>6
  <2>2. q < -1 => Wrap * q <= -(2 * Wrap)
    BY <1>1, <1>3
  <2> HIDE DEF d
  <2>3. q >= -1
    BY <1>1, <1>2, <1>3, <2>2
  <2> QED BY <1>1, <1>2, <1>3, <1>6, <2>1, <2>3
<1>7. q = 0 \/ q = -1
  BY <1>3, <1>5, <1>6
<1>8. CASE q = 0
  BY <1>1, <1>3, <1>4, <1>8
<1>9. CASE q = -1
  BY <1>1, <1>3, <1>4, <1>6, <1>9
<1> QED BY <1>7, <1>8, <1>9

(* maybe_emit_srtt leaves out a measurement only near one that it did put  *)
(* out or count, of this connection or of a closed one at the address:     *)
(* whatever other processors store, and however the address is used again. *)
THEOREM SamplingSuppressionJustified == Spec => SuppressionJustified
<1> DEFINE Justified ==
      \A x \in Cpus \X Programs :
        running[x].pc = "lookup" /\ running'[x].pc = "idle" => \E s \in samples : CloseTo(x, s)
<1>1. SamplingTypeOK /\ EntryInv /\ [Next]_vars => [Justified]_vars
  <2> SUFFICES ASSUME SamplingTypeOK, EntryInv, Next, NEW x \in Places,
                      running[x].pc = "lookup", running'[x].pc = "idle"
               PROVE  \E s \in samples : CloseTo(x, s)
    BY DEF Places
  <2>1. PICK y \in Places : Program(y)
    <3>1. ASSUME UNCHANGED running PROVE FALSE
      BY <3>1
    <3>2. ASSUME NEW c \in Cpus, Established(c) PROVE FALSE
      <4>1. <<c, "setState">> \in Places
        BY PlaceFacts
      <4>2. \A z \in Places : z # <<c, "setState">> => running'[z] = running[z]
        BY <3>2, <4>1, GotoMoves DEF Established, SamplingTypeOK
      <4>3. running'[<<c, "setState">>].pc = "output"
        BY <3>2, <4>1, GotoMoves DEF Established, SamplingTypeOK
      <4> QED BY <4>1, <4>2, <4>3
    <3> QED BY <3>1, <3>2 DEF Next, Socket, Places, Tick, Open, Close, Release, Evict,
                Reader, ReadPending, PollKernelDrops, ReadRing
  <2>2. Lookup(x)
    <3>1. PICK from, to : Moves(y, from, to)
      BY <2>1, ProgramMoves DEF Program
    <3>2. y = x
      BY <3>1 DEF Moves
    <3> QED BY <2>1, <3>2 DEF Program, Enter, Abandon, Store, Output, CountLoad, CountStore
  <2> DEFINE now == running[x].now
             srtt == running[x].srtt
             previous == srtt_samples
  <2>3. Suppresses(previous, now, srtt)
    <3>1. ASSUME Goto(x, "output") PROVE FALSE
      <4>1. running'[x].pc = "output"
        BY <3>1, GotoMoves DEF SamplingTypeOK
      <4> QED BY <4>1
    <3> QED BY <2>2, <3>1 DEF Lookup
  <2>4. PICK s \in samples : Stored(s) /\ (s.connection = connection \/ s.afterClose)
    BY <2>3 DEF Suppresses, EntryInv
  <2>5. now \in Nat /\ now <= MaxClock /\ srtt \in Nat
    BY SamplingAssumption DEF SamplingTypeOK, Local
  <2>6. /\ s.at = previous.at /\ s.srtt = previous.srtt
        /\ s.at \in Nat /\ s.at <= MaxClock /\ s.srtt \in Nat
    BY <2>4 DEF Stored
  <2> HIDE DEF now, srtt, previous
  <2>7. /\ s.at <= now => Elapsed(now, s.at) = now - s.at
        /\ now < s.at => Elapsed(now, s.at) > EmitInterval
    BY <2>5, <2>6, ElapsedFacts
  <2>8. /\ Elapsed(now, s.at) < EmitInterval
        /\ \/ Elapsed(now, s.at) < MinInterval
           \/ Distance(s.srtt, srtt) < RelativeThreshold(s.srtt)
    <3>1. \/ Elapsed(now, s.at) < MinInterval
          \/ /\ Elapsed(now, s.at) < EmitInterval
             /\ Distance(s.srtt, srtt) < RelativeThreshold(s.srtt)
      BY <2>3, <2>6 DEF Suppresses
    <3>2. Elapsed(now, s.at) \in Int
      BY <2>5, <2>6, SamplingAssumption DEF Elapsed
    <3> QED BY <3>1, <3>2, SamplingAssumption
  <2>9. s.at <= now
    <3>1. Elapsed(now, s.at) \in Int /\ EmitInterval \in Int
      BY <2>5, <2>6, SamplingAssumption DEF Elapsed
    <3>2. ~(now < s.at)
      BY <2>7, <2>8, <3>1
    <3> QED BY <2>5, <2>6, <3>2
  <2>10. now - s.at < EmitInterval
    BY <2>7, <2>8, <2>9
  <2>11. s.at \in (now - EmitInterval + 1)..now
    BY <2>5, <2>6, <2>9, <2>10, SamplingAssumption
  <2>12. now - s.at < MinInterval \/ Distance(s.srtt, srtt) < RelativeThreshold(s.srtt)
    BY <2>7, <2>8, <2>9
  <2>13. CloseTo(x, s)
    BY <2>4, <2>11, <2>12 DEF CloseTo, now, srtt
  <2> QED BY <2>13
<1>2. Init => EntryInv
  BY DEF Init, EntryInv
<1> QED BY <1>1, <1>2, SamplingTypeInit, SamplingTypeNext, EntryInvNext, PTL
        DEF Spec, SuppressionJustified

-----------------------------------------------------------------------------
(***************************************************************************)
(* The drop counters.  As long as no two increments overlapped, a program  *)
(* between its load and its store holds the current value of its counter,  *)
(* and is the only one on its processor there: so the sum only grows, by   *)
(* one for each store, and the poll never takes it for a restart.          *)
(***************************************************************************)
Counting == {x \in Cpus \X Programs : running[x].pc \in {"load", "add"}}

Waiting == IF pending = <<>> THEN 0 ELSE pending[1]

AccountInv ==
  ~overlapped =>
    /\ \A x \in Places : running[x].pc = "add" => running[x].counter = drop_counters[x[1]]
    /\ \A x, y \in Places :
         x[1] = y[1] /\ running[x].pc = "add" /\ running[y].pc = "add" => x = y
    /\ IsFiniteSet(Units(drop_counters, Cpus))
    /\ dropSnapshot \in Nat /\ dropSnapshot <= Counted
    /\ reported \in Nat /\ drops \in Nat
    /\ pending = <<>> \/ \E n \in Nat : pending = <<n>>
    /\ drops = reported + Waiting + (Counted - dropSnapshot) + Cardinality(Counting)

LEMMA CountingFinite == IsFiniteSet(Counting) /\ Cardinality(Counting) \in Nat
<1>1. IsFiniteSet({"send"} \cup {"receive"})
  BY FS_Singleton, FS_AddElement
<1>2. IsFiniteSet(({"send"} \cup {"receive"}) \cup {"setState"})
  BY <1>1, FS_AddElement
<1>3. Programs = ({"send"} \cup {"receive"}) \cup {"setState"}
  BY DEF Programs, Callers
<1>4. IsFiniteSet(Cpus \X Programs)
  BY <1>2, <1>3, SamplingAssumption, FS_Product
<1>5. Counting \in SUBSET (Cpus \X Programs)
  BY DEF Counting
<1>6. IsFiniteSet(Counting)
  BY <1>4, <1>5, FS_Subset
<1> QED BY <1>6, FS_CardinalityType

(* An increment of one counter adds one to the sum.                        *)
LEMMA TotalIncrement ==
  ASSUME NEW f \in [Cpus -> Nat], NEW c \in Cpus, IsFiniteSet(Units(f, Cpus))
  PROVE  LET g == [f EXCEPT ![c] = f[c] + 1]
         IN  /\ IsFiniteSet(Units(g, Cpus))
             /\ Total(g, Cpus) = Total(f, Cpus) + 1
<1> DEFINE g == [f EXCEPT ![c] = f[c] + 1]
           u == <<c, f[c] + 1>>
<1>1. \A F \in [Cpus -> Nat] : \A p :
        p \in Units(F, Cpus) <=> p = <<p[1], p[2]>> /\ p[1] \in Cpus /\ p[2] \in 1..F[p[1]]
  BY DEF Units
<1>2. g \in [Cpus -> Nat] /\ \A d \in Cpus : g[d] = IF d = c THEN f[c] + 1 ELSE f[d]
  OBVIOUS
<1>3. \A n : n \in 1..(f[c] + 1) <=> n \in 1..f[c] \/ n = f[c] + 1
  <2>1. f[c] \in Nat
    OBVIOUS
  <2> QED BY <2>1
<1>4. Units(g, Cpus) = Units(f, Cpus) \cup {u}
  BY <1>1, <1>2, <1>3
<1>5. u \notin Units(f, Cpus)
  <2>1. f[c] \in Nat /\ f[c] + 1 \notin 1..f[c]
    OBVIOUS
  <2> QED BY <1>1, <2>1
<1> HIDE DEF g, u
<1>6. /\ IsFiniteSet(Units(f, Cpus) \cup {u})
      /\ Cardinality(Units(f, Cpus) \cup {u}) = Cardinality(Units(f, Cpus)) + 1
  BY <1>5, FS_AddElement
<1> QED BY <1>4, <1>6 DEF Total, g

(* A step that leaves the counters, the reader and the counting programs   *)
(* alone.                                                                  *)
LEMMA AccountQuiet ==
  ASSUME AccountInv, UNCHANGED <<drop_counters, pending, dropSnapshot, reported, drops, overlapped>>,
         \A y \in Places : running'[y].pc \in {"load", "add"} <=> running[y].pc \in {"load", "add"},
         \A y \in Places : running'[y].pc = "add" =>
           running[y].pc = "add" /\ running'[y].counter = running[y].counter
  PROVE  AccountInv'
<1> SUFFICES ASSUME ~overlapped PROVE AccountInv'
  BY DEF AccountInv
<1>1. Counting' = Counting
  BY DEF Counting, Places
<1>2. Counted' = Counted /\ Waiting' = Waiting
  BY DEF Counted, Waiting
<1>3. /\ \A x \in Places : running[x].pc = "add" => running[x].counter = drop_counters[x[1]]
      /\ \A x, y \in Places :
           x[1] = y[1] /\ running[x].pc = "add" /\ running[y].pc = "add" => x = y
  BY DEF AccountInv
<1>4. /\ \A x \in Places : running'[x].pc = "add" => running'[x].counter = drop_counters'[x[1]]
      /\ \A x, y \in Places :
           x[1] = y[1] /\ running'[x].pc = "add" /\ running'[y].pc = "add" => x = y
  BY <1>3
<1> QED BY <1>1, <1>2, <1>4 DEF AccountInv

LEMMA QuietMove ==
  ASSUME AccountInv, UNCHANGED <<drop_counters, pending, dropSnapshot, reported, drops, overlapped>>,
         NEW x \in Places, NEW from, NEW to, Moves(x, from, to),
         from \notin {"load", "add"}, "load" \notin to, "add" \notin to
  PROVE  AccountInv'
<1>1. \A y \in Places : running'[y].pc \in {"load", "add"} <=> running[y].pc \in {"load", "add"}
  BY DEF Moves
<1>2. \A y \in Places : running'[y].pc = "add" =>
        running[y].pc = "add" /\ running'[y].counter = running[y].counter
  BY DEF Moves
<1> QED BY <1>1, <1>2, AccountQuiet

(* bpf_ringbuf_output found no room: one more drop, which the program is   *)
(* going to count.                                                         *)
LEMMA AccountOutput ==
  ASSUME SamplingTypeOK, AccountInv, NEW x \in Places, Output(x)
  PROVE  AccountInv'
<1>0. UNCHANGED <<drop_counters, pending, dropSnapshot, reported, overlapped>>
  BY DEF Output, readerVars
<1>1. CASE Len(ring) < RingCapacity
  <2>1. running' = [running EXCEPT ![x] = Done(x)] /\ UNCHANGED drops /\ running[x].pc = "output"
    BY <1>1 DEF Output
  <2>2. Moves(x, "output", {"idle", "store"})
    BY <2>1, MoveType, DoneType DEF Moves, SamplingTypeOK
  <2> QED BY <1>0, <2>1, <2>2, QuietMove
<1>2. CASE ~(Len(ring) < RingCapacity)
  <2> SUFFICES ASSUME ~overlapped PROVE AccountInv'
    BY <1>0 DEF AccountInv
  <2>1. drops' = drops + 1 /\ Goto(x, "load") /\ running[x].pc = "output"
    BY <1>2 DEF Output
  <2>2. /\ running'[x].pc = "load"
        /\ \A y \in Places : y # x => running'[y] = running[y]
    BY <2>1, GotoMoves DEF SamplingTypeOK
  <2>3. Counting' = Counting \cup {x} /\ x \notin Counting
    BY <2>1, <2>2 DEF Counting, Places
  <2>4. Cardinality(Counting') = Cardinality(Counting) + 1
    BY <2>3, CountingFinite, FS_AddElement
  <2>5. Counted' = Counted /\ Waiting' = Waiting
    BY <1>0 DEF Counted, Waiting
  <2>6. Counted \in Nat /\ Waiting \in Nat
    BY FS_CardinalityType DEF AccountInv, Counted, Total, Waiting
  <2>7. drops' = reported' + Waiting' + (Counted' - dropSnapshot') + Cardinality(Counting')
    BY <1>0, <2>1, <2>4, <2>5, <2>6, CountingFinite DEF AccountInv
  <2>8. /\ \A y \in Places : running[y].pc = "add" => running[y].counter = drop_counters[y[1]]
        /\ \A y, z \in Places :
             y[1] = z[1] /\ running[y].pc = "add" /\ running[z].pc = "add" => y = z
    BY DEF AccountInv
  <2>9. /\ \A y \in Places : running'[y].pc = "add" => running'[y].counter = drop_counters'[y[1]]
        /\ \A y, z \in Places :
             y[1] = z[1] /\ running'[y].pc = "add" /\ running'[z].pc = "add" => y = z
    BY <1>0, <2>2, <2>8
  <2> QED BY <1>0, <2>1, <2>5, <2>7, <2>9 DEF AccountInv
<1> QED BY <1>1, <1>2

(* The load of an increment, with no other one under way on the processor. *)
LEMMA AccountLoad ==
  ASSUME SamplingTypeOK, AccountInv, NEW x \in Places, CountLoad(x)
  PROVE  AccountInv'
<1>0. UNCHANGED <<drop_counters, pending, dropSnapshot, reported, drops>>
  BY DEF CountLoad, mapVars, readerVars
<1> SUFFICES ASSUME ~overlapped' PROVE AccountInv'
  BY DEF AccountInv
<1>1. ~overlapped /\ \A p \in Programs : running[<<x[1], p>>].pc # "add"
  BY DEF CountLoad
<1>2. \A y \in Places : y[1] = x[1] => running[y].pc # "add"
  BY <1>1, PlaceFacts
<1>3. /\ running[x].pc = "load" /\ running'[x].pc = "add"
      /\ running'[x].counter = drop_counters[x[1]]
      /\ \A y \in Places : y # x => running'[y] = running[y]
  BY LoadMoves DEF CountLoad
<1>4. Counting' = Counting
  BY <1>3 DEF Counting, Places
<1>5. Counted' = Counted /\ Waiting' = Waiting
  BY <1>0 DEF Counted, Waiting
<1>6. /\ \A y \in Places : running[y].pc = "add" => running[y].counter = drop_counters[y[1]]
      /\ \A y, z \in Places :
           y[1] = z[1] /\ running[y].pc = "add" /\ running[z].pc = "add" => y = z
  BY <1>1 DEF AccountInv
<1>7. /\ \A y \in Places : running'[y].pc = "add" => running'[y].counter = drop_counters'[y[1]]
      /\ \A y, z \in Places :
           y[1] = z[1] /\ running'[y].pc = "add" /\ running'[z].pc = "add" => y = z
  BY <1>0, <1>2, <1>3, <1>6
<1> QED BY <1>0, <1>1, <1>4, <1>5, <1>7 DEF AccountInv

(* The store: the drop moves from the counting programs to the counters.   *)
LEMMA AccountStore ==
  ASSUME SamplingTypeOK, AccountInv, NEW x \in Places, CountStore(x)
  PROVE  AccountInv'
<1>0. UNCHANGED <<pending, dropSnapshot, reported, drops, overlapped>>
  BY DEF CountStore, readerVars, historyVars
<1> SUFFICES ASSUME ~overlapped PROVE AccountInv'
  BY <1>0 DEF AccountInv
<1>1. /\ running[x].pc = "add" /\ running'[x].pc \in {"idle", "store"}
      /\ \A y \in Places : y # x => running'[y] = running[y]
  BY ProgramMoves DEF Moves
<1>2. x[1] \in Cpus /\ drop_counters \in [Cpus -> Nat]
  BY PlaceFacts DEF SamplingTypeOK
<1>3. /\ \A y \in Places : running[y].pc = "add" => running[y].counter = drop_counters[y[1]]
      /\ \A y, z \in Places :
           y[1] = z[1] /\ running[y].pc = "add" /\ running[z].pc = "add" => y = z
      /\ IsFiniteSet(Units(drop_counters, Cpus))
      /\ dropSnapshot \in Nat /\ dropSnapshot <= Counted
      /\ reported \in Nat /\ drops \in Nat
      /\ pending = <<>> \/ \E n \in Nat : pending = <<n>>
      /\ drops = reported + Waiting + (Counted - dropSnapshot) + Cardinality(Counting)
  BY DEF AccountInv
<1>4. drop_counters' = [drop_counters EXCEPT ![x[1]] = drop_counters[x[1]] + 1]
  BY <1>1, <1>3 DEF CountStore
<1>5. IsFiniteSet(Units(drop_counters', Cpus)) /\ Counted' = Counted + 1
  BY <1>2, <1>3, <1>4, TotalIncrement DEF Counted
<1>6. Counting' = Counting \ {x} /\ x \in Counting
  BY <1>1 DEF Counting, Places
<1>7. Cardinality(Counting') = Cardinality(Counting) - 1
  BY <1>6, CountingFinite, FS_RemoveElement
<1>8. Counted \in Nat /\ Waiting \in Nat /\ Cardinality(Counting) \in Nat
  BY <1>3, FS_CardinalityType, CountingFinite DEF Counted, Total, Waiting
<1>9. Waiting' = Waiting
  BY <1>0 DEF Waiting
<1>10. drops' = reported' + Waiting' + (Counted' - dropSnapshot') + Cardinality(Counting')
  BY <1>0, <1>3, <1>5, <1>7, <1>8, <1>9
<1>11. dropSnapshot' <= Counted'
  BY <1>0, <1>3, <1>5, <1>8
<1>12. /\ \A y \in Places : running'[y].pc = "add" => running'[y].counter = drop_counters'[y[1]]
       /\ \A y, z \in Places :
            y[1] = z[1] /\ running'[y].pc = "add" /\ running'[z].pc = "add" => y = z
  <2>1. \A y \in Places : running'[y].pc = "add" =>
          y # x /\ running'[y] = running[y] /\ y[1] # x[1]
    BY <1>1, <1>3
  <2>2. \A y \in Places : y[1] # x[1] => drop_counters'[y[1]] = drop_counters[y[1]]
    BY <1>2, <1>4, PlaceFacts
  <2> QED BY <1>3, <2>1, <2>2
<1> QED BY <1>0, <1>3, <1>5, <1>10, <1>11, <1>12 DEF AccountInv

(* The reader: a poll turns the growth of the sum into a waiting count,    *)
(* the next Read returns it.                                               *)
LEMMA AccountReader ==
  ASSUME SamplingTypeOK, AccountInv, ReadPending \/ PollKernelDrops
  PROVE  AccountInv'
<1>0. UNCHANGED <<running, drop_counters, drops, overlapped>>
  BY DEF ReadPending, PollKernelDrops, mapVars, historyVars
<1> SUFFICES ASSUME ~overlapped PROVE AccountInv'
  BY <1>0 DEF AccountInv
<1>1. /\ IsFiniteSet(Units(drop_counters, Cpus))
      /\ dropSnapshot \in Nat /\ dropSnapshot <= Counted
      /\ reported \in Nat /\ drops \in Nat
      /\ pending = <<>> \/ \E n \in Nat : pending = <<n>>
      /\ drops = reported + Waiting + (Counted - dropSnapshot) + Cardinality(Counting)
  BY DEF AccountInv
<1>2. Counted \in Nat /\ Cardinality(Counting) \in Nat
  BY <1>1, FS_CardinalityType, CountingFinite DEF Counted, Total
<1>3. Counted' = Counted /\ Counting' = Counting
  BY <1>0 DEF Counted, Counting
<1>4. /\ (\A x \in Places : running[x].pc = "add" => running[x].counter = drop_counters[x[1]])'
      /\ (\A x, y \in Places :
           x[1] = y[1] /\ running[x].pc = "add" /\ running[y].pc = "add" => x = y)'
  BY <1>0 DEF AccountInv
<1>5. CASE ReadPending
  <2>1. PICK n \in Nat : pending = <<n>>
    BY <1>1, <1>5 DEF ReadPending
  <2>2. pending' = <<>> /\ reported' = reported + n /\ UNCHANGED dropSnapshot
    BY <1>5, <2>1 DEF ReadPending
  <2>3. Waiting = n /\ Waiting' = 0
    BY <2>1, <2>2 DEF Waiting
  <2>4. drops' = reported' + Waiting' + (Counted' - dropSnapshot') + Cardinality(Counting')
    BY <1>0, <1>1, <1>2, <1>3, <2>2, <2>3
  <2> QED BY <1>0, <1>1, <1>3, <1>4, <2>2, <2>4 DEF AccountInv
<1>6. CASE PollKernelDrops
  <2> DEFINE d == Counted - dropSnapshot
  <2>1. Delta(dropSnapshot, Counted) = d /\ d \in Nat
    BY <1>1, <1>2 DEF Delta
  <2>2. /\ pending = <<>> /\ pending' = IF d = 0 THEN <<>> ELSE <<d>>
        /\ dropSnapshot' = Counted /\ UNCHANGED reported
    BY <1>6, <2>1 DEF PollKernelDrops, KernelDropEvents
  <2> HIDE DEF d
  <2>3. Waiting = 0 /\ Waiting' = d
    BY <2>1, <2>2 DEF Waiting
  <2>4. drops' = reported' + Waiting' + (Counted' - dropSnapshot') + Cardinality(Counting')
    <3>1. drops = reported + 0 + d + Cardinality(Counting)
      BY <1>1, <2>3 DEF d
    <3> QED BY <1>0, <1>1, <1>2, <1>3, <2>1, <2>2, <2>3, <3>1
  <2>5. pending' = <<>> \/ \E n \in Nat : pending' = <<n>>
    BY <2>1, <2>2
  <2> QED BY <1>0, <1>1, <1>2, <1>3, <1>4, <2>2, <2>4, <2>5 DEF AccountInv
<1> QED BY <1>5, <1>6

LEMMA AccountNext == SamplingTypeOK /\ AccountInv /\ [Next]_vars => AccountInv'
<1> SUFFICES ASSUME SamplingTypeOK, AccountInv, [Next]_vars PROVE AccountInv'
  OBVIOUS
<1> DEFINE counts == <<drop_counters, pending, dropSnapshot, reported, drops, overlapped>>
<1>1. ASSUME UNCHANGED running, UNCHANGED counts PROVE AccountInv'
  BY <1>1, AccountQuiet
<1>2. ASSUME NEW c \in Cpus, Established(c) PROVE AccountInv'
  <2> DEFINE x == <<c, "setState">>
  <2>1. x \in Places
    BY PlaceFacts
  <2>2. running[x].pc = "idle"
    BY <1>2 DEF Established, SamplingTypeOK
  <2>3. Goto(x, "output") /\ UNCHANGED counts
    BY <1>2 DEF Established, mapVars, readerVars, historyVars
  <2> HIDE DEF x
  <2>4. /\ running'[x].pc = "output"
        /\ \A y \in Places : y # x => running'[y] = running[y]
    BY <2>1, <2>3, GotoMoves DEF SamplingTypeOK
  <2>5. \A y \in Places : running'[y].pc \in {"load", "add"} <=> running[y].pc \in {"load", "add"}
    BY <2>2, <2>4
  <2>6. \A y \in Places : running'[y].pc = "add" =>
          running[y].pc = "add" /\ running'[y].counter = running[y].counter
    BY <2>4
  <2> QED BY <2>3, <2>5, <2>6, AccountQuiet
<1>3. ASSUME NEW x \in Places, Program(x) PROVE AccountInv'
  <2>1. CASE Enter(x) \/ Lookup(x) \/ Abandon(x) \/ Store(x)
    <3>1. UNCHANGED counts
      BY <2>1 DEF Enter, Lookup, Abandon, Store, mapVars, readerVars, historyVars
    <3>2. \/ Moves(x, "idle", {"idle", "lookup"})
          \/ Moves(x, "lookup", {"idle", "output"})
          \/ Moves(x, "output", {"idle"})
          \/ Moves(x, "store", {"idle"})
      BY <2>1, ProgramMoves
    <3> QED BY <3>1, <3>2, QuietMove
  <2>2. CASE Output(x)
    BY <2>2, AccountOutput
  <2>3. CASE CountLoad(x)
    BY <2>3, AccountLoad
  <2>4. CASE CountStore(x)
    BY <2>4, AccountStore
  <2> QED BY <1>3, <2>1, <2>2, <2>3, <2>4 DEF Program
<1>4. CASE ReadPending \/ PollKernelDrops
  BY <1>4, AccountReader
<1>5. CASE \/ Tick \/ Close \/ Release \/ Evict \/ ReadRing
           \/ \E new \in {"synSent", "established"} : Open(new)
  BY <1>1, <1>5 DEF Tick, Close, Release, Evict, ReadRing, Open, kernelVars, mapVars, readerVars,
     historyVars
<1>6. CASE UNCHANGED vars
  BY <1>1, <1>6 DEF vars, mapVars, readerVars, historyVars
<1> QED BY <1>2, <1>3, <1>4, <1>5, <1>6 DEF Next, Socket, Reader, Places

(* Every event that output_event could not put out is reported once by     *)
(* Read, or waits for its poll, or is just being counted, on any number of *)
(* processors, as long as no two increments of one counter overlapped.     *)
THEOREM SamplingDropsAccounted == Spec => []DropsAccounted
<1>1. Init => AccountInv
  <2> SUFFICES ASSUME Init PROVE AccountInv
    OBVIOUS
  <2>1. \A x \in Places : running[x].pc = "idle"
    BY IdleType DEF Init, Places
  <2>2. Counting = {}
    BY <2>1 DEF Counting, Places
  <2>3. Units(drop_counters, Cpus) = {}
    BY DEF Init, Units
  <2>4. Counted = 0 /\ Cardinality(Counting) = 0 /\ IsFiniteSet(Units(drop_counters, Cpus))
    BY <2>2, <2>3, FS_EmptySet DEF Counted, Total
  <2>5. Waiting = 0 /\ reported = 0 /\ drops = 0 /\ dropSnapshot = 0 /\ pending = <<>>
    BY DEF Init, Waiting
  <2> QED BY <2>1, <2>4, <2>5 DEF AccountInv
<1>2. AccountInv => DropsAccounted
  BY DEF AccountInv, DropsAccounted, Waiting, Counting
<1> QED BY <1>1, <1>2, SamplingTypeInit, SamplingTypeNext, AccountNext, PTL DEF Spec
=============================================================================
