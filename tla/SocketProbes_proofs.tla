------------------------ MODULE SocketProbes_proofs ------------------------
(***************************************************************************)
(* Proofs about the probes: whatever the threads do and whenever the maps  *)
(* lose entries, an event in the ring buffer speaks of the call it names,  *)
(* a call is reported once, and a tuple added in user space is fresh.      *)
(***************************************************************************)
EXTENDS SocketProbes, SequenceTheorems, TLAPS

Directions == {"send", "receive"}
PeerNames == Peers \cup {NoPeer, Connected}

SyscallSet ==
  [op : Receives \cup Sends, object : Nat, fd : Fds, hooked : BOOLEAN, peer : PeerNames,
   named : BOOLEAN, id : Nat]

SslSet == [context : Contexts, fd : Fds, direction : Directions, used : SUBSET Nat, id : Nat]

IoSet == [fd : Fds, direction : Directions, peerAddress : BOOLEAN, tuple : Nat, peer : PeerNames]

EventSet(source, CallSet) ==
  [source : {source}, direction : Directions, fd : Fds \cup {0}, tuple : Nat,
   peer : PeerNames, linked : Nat, call : CallSet]

EventSets == EventSet("plaintext", SyscallSet) \cup EventSet("openssl", SslSet)

(* A map from some of D to R.                                              *)
Partial(map, D, R) == DOMAIN map \subseteq D /\ map \in [DOMAIN map -> R]

CallTypeInv ==
  /\ objects \in Seq(ObjectKinds)
  /\ open \in [Fds -> 0..Len(objects)]
  /\ syscalls \in Nat /\ sslCalls \in Nat
  /\ Partial(inSyscall, Threads, SyscallSet)
  /\ Partial(inSsl, Threads, SslSet)
  /\ Partial(bound, Contexts, Fds)
  /\ Partial(io_calls, Threads, IoSet)
  /\ Partial(ssl_fds, Contexts, Fds)
  /\ Partial(ssl_calls, Threads \X Directions, [fd : Fds, tuple : Nat])

EventTypeInv ==
  /\ ring \in Seq(EventSets)
  /\ resolving \in Seq(EventSets) /\ Len(resolving) <= 1
  /\ delivered \in Seq(EventSets) /\ Len(delivered) <= 1

TypeInv == CallTypeInv /\ EventTypeInv

(* A system call in flight is one the kernel admits.                       *)
Admitted(s) ==
  /\ s.object \in 1..Len(objects)
  /\ s.hooked => IsSocket(s.object)
  /\ s.op \in Sends /\ objects[s.object] = "udp" => s.named
  /\ objects[s.object] = "udp_connected" /\ ~(s.op \in Sends /\ s.named) => s.peer = Connected

(* Calls in flight carry ids of their own.                                 *)
CallsInv ==
  /\ \A t \in DOMAIN inSyscall : Admitted(inSyscall[t]) /\ inSyscall[t].id \in 1..syscalls
  /\ \A t \in DOMAIN inSsl : inSsl[t].id \in 1..sslCalls
  /\ \A t, u \in DOMAIN inSyscall : inSyscall[t].id = inSyscall[u].id => t = u
  /\ \A t, u \in DOMAIN inSsl : inSsl[t].id = inSsl[u].id => t = u

(* What io_calls remembers for a thread is about the thread's own call.    *)
Remembers(call, s) ==
  /\ s.op \in EntryProbes \ {"errqueue"}
  /\ call.direction = DirectionOf(s.op)
  /\ IF call.tuple = NoTuple
     THEN call.peer = NoPeer
     ELSE /\ call.tuple = s.object
          /\ s.hooked
          /\ call.peer = SocketPeer(s.object)

IoInv == \A t \in DOMAIN io_calls : t \in DOMAIN inSyscall /\ Remembers(io_calls[t], inSyscall[t])

SslInv ==
  \A k \in DOMAIN ssl_calls :
    /\ k[1] \in DOMAIN inSsl
    /\ k[2] = inSsl[k[1]].direction
    /\ ssl_calls[k].tuple \in inSsl[k[1]].used \cup {NoTuple}

(* The call of an event is over, or it is a UDP send, reported in the      *)
(* socket layer, that will not be reported at its exit.                    *)
Settled(e) ==
  IF e.source = "openssl"
  THEN e.call.id \in 1..sslCalls /\ \A t \in DOMAIN inSsl : inSsl[t].id # e.call.id
  ELSE /\ e.call.id \in 1..syscalls
       /\ \A t \in DOMAIN inSyscall :
            inSyscall[t].id = e.call.id
              => /\ inSyscall[t].hooked
                 /\ IsUdp(inSyscall[t].object)
                 /\ inSyscall[t].op \in Sends

Truthful(e) ==
  IF e.source = "openssl"
  THEN /\ e.direction = e.call.direction
       /\ e.linked = NoTuple => e.tuple \in e.call.used \cup {NoTuple}
  ELSE /\ e.tuple = e.call.object
       /\ e.tuple \in 1..Len(objects)
       /\ IsSocket(e.tuple)
       /\ e.call.op # "errqueue"
       /\ e.direction = DirectionOf(e.call.op)
       /\ e.peer \in {e.call.peer, NoPeer}

EventsInv ==
  /\ \A i \in 1..Len(ring) : Truthful(ring[i]) /\ Settled(ring[i]) /\ ring[i].linked = NoTuple
  /\ \A i \in 1..Len(resolving) :
       /\ Truthful(resolving[i]) /\ Settled(resolving[i])
       /\ resolving[i].source = "openssl" /\ resolving[i].linked # NoTuple
  /\ \A i \in 1..Len(delivered) :
       /\ Truthful(delivered[i]) /\ Settled(delivered[i])
       /\ delivered[i].linked # NoTuple => delivered[i].tuple = delivered[i].linked

Differ(d, e) == ~(d.source = e.source /\ d.call.id = e.call.id)

DistinctInv ==
  /\ \A i, j \in 1..Len(ring) : i # j => Differ(ring[i], ring[j])
  /\ \A i \in 1..Len(ring), j \in 1..Len(resolving) : Differ(ring[i], resolving[j])
  /\ \A i \in 1..Len(ring), j \in 1..Len(delivered) : Differ(ring[i], delivered[j])

ProbesInv == TypeInv /\ CallsInv /\ IoInv /\ SslInv /\ EventsInv /\ DistinctInv
-----------------------------------------------------------------------------
LEMMA SetFacts ==
  ASSUME NEW map, NEW key, NEW value
  PROVE  /\ DOMAIN Set(map, key, value) = DOMAIN map \cup {key}
         /\ Set(map, key, value)[key] = value
         /\ \A k \in DOMAIN map : k # key => Set(map, key, value)[k] = map[k]
BY DEF Set

LEMMA WithoutFacts ==
  ASSUME NEW map, NEW key
  PROVE  /\ DOMAIN Without(map, key) = DOMAIN map \ {key}
         /\ \A k \in DOMAIN map : k # key => Without(map, key)[k] = map[k]
BY DEF Without, Restrict

LEMMA SetPartial ==
  ASSUME NEW D, NEW R, NEW map, NEW key \in D, NEW value \in R, Partial(map, D, R)
  PROVE  Partial(Set(map, key, value), D, R)
BY DEF Set, Partial

LEMMA WithoutPartial ==
  ASSUME NEW D, NEW R, NEW map, NEW key, Partial(map, D, R)
  PROVE  Partial(Without(map, key), D, R)
BY DEF Without, Restrict, Partial

LEMMA PartialValue ==
  ASSUME NEW D, NEW R, NEW map, Partial(map, D, R), NEW k \in DOMAIN map
  PROVE  map[k] \in R /\ k \in D
BY DEF Partial

LEMMA EmptyPartial ==
  ASSUME NEW D, NEW R
  PROVE  Partial(EmptyMap, D, R) /\ DOMAIN EmptyMap = {}
BY DEF EmptyMap, Partial

(* A step of Next, by what it may change.                                  *)
LEMMA SyscallTyped ==
  ASSUME CallTypeInv, NEW fd \in Fds, open[fd] # Free, NEW s \in Syscalls(fd)
  PROVE  s \in SyscallSet /\ s.id = syscalls + 1 /\ ~s.hooked /\ Admitted(s)
<1>1. open[fd] \in 1..Len(objects) /\ syscalls + 1 \in Nat
  BY DEF CallTypeInv, Free
<1>2. s \in SyscallSet /\ s.id = syscalls + 1 /\ ~s.hooked /\ s.object = open[fd]
  <2>1. s \in [op : Receives \cup Sends, object : {open[fd]}, fd : {fd}, hooked : {FALSE},
               peer : PeerNames, named : BOOLEAN, id : {syscalls + 1}]
    BY Zenon DEF Syscalls, PeerNames
  <2>2. s.object = open[fd] /\ s.fd = fd /\ ~s.hooked /\ s.id = syscalls + 1
    BY <2>1
  <2>3. open[fd] \in Nat /\ FALSE \in BOOLEAN
    BY DEF CallTypeInv
  <2>4. s \in SyscallSet
    BY <2>1, <2>3, <1>1 DEF SyscallSet
  <2> QED BY <2>2, <2>4
<1>3. objects[s.object] \in ObjectKinds
  BY <1>1, <1>2 DEF CallTypeInv
<1>4. Admitted(s)
  BY <1>1, <1>2, <1>3 DEF Syscalls, Admitted, ObjectKinds
<1> QED BY <1>2, <1>4

LEMMA RememberIoTyped ==
  ASSUME CallTypeInv, NEW t \in Threads, NEW s \in SyscallSet
  PROVE  Partial(RememberIo(t, s), Threads, IoSet)
<1>1. [fd |-> s.fd, direction |-> DirectionOf(s.op),
       peerAddress |-> s.op = "recvfrom" /\ s.named, tuple |-> NoTuple, peer |-> NoPeer] \in IoSet
  BY DEF IoSet, SyscallSet, DirectionOf, Directions, NoTuple, PeerNames
<1> QED BY <1>1, SetPartial, WithoutPartial DEF RememberIo, CallTypeInv

LEMMA ContextTyped ==
  ASSUME CallTypeInv, NEW t \in Threads, NEW o \in Nat, RememberSocketContext(t, o)
  PROVE  /\ Partial(io_calls', Threads, IoSet)
         /\ Partial(ssl_calls', Threads \X Directions, [fd : Fds, tuple : Nat])
<1>1. SocketPeer(o) \in PeerNames
  BY DEF SocketPeer, PeerNames
<1>2. Partial(io_calls', Threads, IoSet)
  BY <1>1 DEF RememberSocketContext, CallTypeInv, Partial, IoSet
<1>3. Partial(ssl_calls', Threads \X Directions, [fd : Fds, tuple : Nat])
  BY DEF RememberSocketContext, CallTypeInv, Partial
<1> QED BY <1>2, <1>3

LEMMA CallTypeNext ==
  ASSUME CallTypeInv, Next
  PROVE  CallTypeInv'
<1>1. ASSUME NEW fd \in Fds, NEW kind \in ObjectKinds, Open(fd, kind)
      PROVE  CallTypeInv'
  <2>1. objects' \in Seq(ObjectKinds) /\ Len(objects') = Len(objects) + 1
    BY <1>1 DEF CallTypeInv, Open
  <2>2. open' \in [Fds -> 0..Len(objects')]
    BY <1>1, <2>1 DEF CallTypeInv, Open
  <2> QED BY <1>1, <2>1, <2>2 DEF CallTypeInv, Open, mapVars
<1>2. ASSUME NEW fd \in Fds, Close(fd)
      PROVE  CallTypeInv'
  <2>1. open' \in [Fds -> 0..Len(objects')]
    BY <1>2 DEF CallTypeInv, Close, Free
  <2> QED BY <1>2, <2>1 DEF CallTypeInv, Close, mapVars
<1>3. ASSUME NEW c \in Contexts, NEW fd \in Fds, SslSetFd(c, fd)
      PROVE  CallTypeInv'
  BY <1>3, SetPartial DEF CallTypeInv, SslSetFd
<1>4. ASSUME NEW c \in Contexts, SslFree(c)
      PROVE  CallTypeInv'
  BY <1>4, WithoutPartial DEF CallTypeInv, SslFree
<1>5. ASSUME NEW t \in Threads, NEW fd \in Fds, SysEnter(t, fd)
      PROVE  CallTypeInv'
  <2>1. PICK s \in Syscalls(fd) :
          /\ inSyscall' = Set(inSyscall, t, s)
          /\ io_calls' = IF s.op \in EntryProbes THEN RememberIo(t, s) ELSE io_calls
    BY <1>5 DEF SysEnter
  <2>2. s \in SyscallSet
    BY <1>5, SyscallTyped DEF SysEnter
  <2>3. Partial(inSyscall', Threads, SyscallSet)
    BY <2>1, <2>2, SetPartial DEF CallTypeInv
  <2>4. Partial(io_calls', Threads, IoSet)
    BY <2>1, <2>2, RememberIoTyped DEF CallTypeInv
  <2> QED BY <1>5, <2>3, <2>4 DEF CallTypeInv, SysEnter
<1>6. ASSUME NEW t \in Threads, SocketLayer(t)
      PROVE  CallTypeInv'
  <2>1. t \in DOMAIN inSyscall /\ inSyscall[t] \in SyscallSet /\ inSyscall[t].object \in Nat
    <3>1. t \in DOMAIN inSyscall
      BY <1>6 DEF SocketLayer
    <3>2. inSyscall[t] \in SyscallSet
      BY <3>1, PartialValue DEF CallTypeInv
    <3> QED BY <3>1, <3>2 DEF SyscallSet
  <2>2. Partial(inSyscall', Threads, SyscallSet)
    BY <1>6 DEF SocketLayer, CallTypeInv, Partial, SyscallSet
  <2>3. Partial(inSsl', Threads, SslSet)
    <3>1. ASSUME NEW k \in DOMAIN inSsl
          PROVE  [inSsl[k] EXCEPT !.used = @ \cup {inSyscall[t].object}] \in SslSet
      <4>1. inSsl[k] \in SslSet
        BY PartialValue DEF CallTypeInv
      <4>2. inSsl[k].used \cup {inSyscall[t].object} \in SUBSET Nat
        BY <2>1, <4>1 DEF SslSet
      <4> QED BY <4>1, <4>2 DEF SslSet
    <3>2. inSsl' = [k \in DOMAIN inSsl |->
                      IF k = t THEN [inSsl[k] EXCEPT !.used = @ \cup {inSyscall[t].object}]
                               ELSE inSsl[k]]
      BY <1>6 DEF SocketLayer
    <3> QED BY <3>1, <3>2, PartialValue DEF CallTypeInv, Partial
  <2>4. RememberSocketContext(t, inSyscall[t].object)
    BY <1>6 DEF SocketLayer
  <2>5. /\ Partial(io_calls', Threads, IoSet)
        /\ Partial(ssl_calls', Threads \X Directions, [fd : Fds, tuple : Nat])
    BY <2>1, <2>4, ContextTyped
  <2> QED BY <1>6, <2>2, <2>3, <2>5 DEF SocketLayer, CallTypeInv
<1>7. ASSUME NEW t \in Threads, NEW ok \in BOOLEAN, SysExit(t, ok)
      PROVE  CallTypeInv'
  <2>1. Partial(inSyscall', Threads, SyscallSet)
    BY <1>7, WithoutPartial DEF SysExit, CallTypeInv
  <2>2. Partial(io_calls', Threads, IoSet)
    BY <1>7, WithoutPartial DEF SysExit, FinishIo, CallTypeInv
  <2> QED BY <1>7, <2>1, <2>2 DEF SysExit, CallTypeInv
<1>8. ASSUME NEW t \in Threads, NEW c \in Contexts, NEW direction \in Directions,
             SslEnter(t, c, direction)
      PROVE  CallTypeInv'
  <2>1. bound[c] \in Fds /\ sslCalls + 1 \in Nat
    BY <1>8, PartialValue DEF SslEnter, CallTypeInv
  <2>2. [context |-> c, fd |-> bound[c], direction |-> direction, used |-> {},
         id |-> sslCalls + 1] \in SslSet
    BY <2>1 DEF SslSet
  <2>3. Partial(inSsl', Threads, SslSet)
    BY <1>8, <2>2, SetPartial DEF SslEnter, CallTypeInv
  <2>4. Partial(ssl_calls', Threads \X Directions, [fd : Fds, tuple : Nat])
    <3>1. CASE c \in DOMAIN ssl_fds
      <4>1. [fd |-> ssl_fds[c], tuple |-> NoTuple] \in [fd : Fds, tuple : Nat]
        BY <3>1, PartialValue DEF CallTypeInv, NoTuple
      <4>2. <<t, direction>> \in Threads \X Directions
        OBVIOUS
      <4> QED BY <1>8, <3>1, <4>1, <4>2, SetPartial DEF SslEnter, CallTypeInv
    <3> QED BY <1>8, <3>1 DEF SslEnter, CallTypeInv
  <2> QED BY <1>8, <2>1, <2>3, <2>4 DEF SslEnter, CallTypeInv
<1>9. ASSUME NEW t \in Threads, NEW ok \in BOOLEAN, SslExit(t, ok)
      PROVE  CallTypeInv'
  <2>1. Partial(inSsl', Threads, SslSet)
    BY <1>9, WithoutPartial DEF SslExit, CallTypeInv
  <2>2. Partial(ssl_calls', Threads \X Directions, [fd : Fds, tuple : Nat])
    BY <1>9, WithoutPartial DEF SslExit, FinishSsl, CallTypeInv
  <2> QED BY <1>9, <2>1, <2>2 DEF SslExit, CallTypeInv
<1>10. CASE Evict
  BY <1>10, WithoutPartial DEF Evict, CallTypeInv, envVars
<1>11. CASE ReadEvent
  BY <1>11 DEF ReadEvent, CallTypeInv, envVars, mapVars
<1>12. CASE ReadTuple
  BY <1>12 DEF ReadTuple, CallTypeInv, envVars, mapVars
<1> QED BY <1>1, <1>2, <1>3, <1>4, <1>5, <1>6, <1>7, <1>8, <1>9, <1>10, <1>11, <1>12
        DEF Next, Process, Thread, Directions

-----------------------------------------------------------------------------
callVars == <<objects, syscalls, sslCalls, inSyscall, inSsl, io_calls, ssl_calls>>

CallInv == CallsInv /\ IoInv /\ SslInv

LEMMA OpenKeeps ==
  ASSUME CallTypeInv, NEW fd, NEW kind \in ObjectKinds, Open(fd, kind)
  PROVE  /\ Len(objects') = Len(objects) + 1
         /\ \A o \in 1..Len(objects) :
              /\ o \in 1..Len(objects') /\ objects'[o] = objects[o]
              /\ IsSocket(o) => IsSocket(o)'
              /\ IsUdp(o) => IsUdp(o)'
              /\ SocketPeer(o)' = SocketPeer(o)
BY DEF CallTypeInv, Open, IsSocket, IsUdp, SocketPeer

(* What the socket layer changes in the calls in flight.                   *)
HookStep(t) ==
  /\ DOMAIN inSyscall' = DOMAIN inSyscall /\ t \in DOMAIN inSyscall
  /\ \A u \in DOMAIN inSyscall :
       /\ inSyscall'[u].op = inSyscall[u].op /\ inSyscall'[u].object = inSyscall[u].object
       /\ inSyscall'[u].peer = inSyscall[u].peer /\ (inSyscall'[u].named <=> inSyscall[u].named)
       /\ inSyscall'[u].id = inSyscall[u].id
       /\ inSyscall'[u].hooked <=> u = t \/ inSyscall[u].hooked
  /\ DOMAIN inSsl' = DOMAIN inSsl
  /\ \A u \in DOMAIN inSsl :
       /\ inSsl'[u].direction = inSsl[u].direction
       /\ inSsl'[u].id = inSsl[u].id
       /\ inSsl'[u].used = IF u = t THEN inSsl[u].used \cup {inSyscall[t].object}
                                    ELSE inSsl[u].used

LEMMA HookFields ==
  ASSUME CallTypeInv, NEW t \in Threads, SocketLayer(t)
  PROVE  HookStep(t)
<1>1. ASSUME NEW u \in DOMAIN inSyscall
      PROVE  inSyscall[u] \in SyscallSet
  BY PartialValue DEF CallTypeInv
<1>2. ASSUME NEW u \in DOMAIN inSsl
      PROVE  inSsl[u] \in SslSet
  BY PartialValue DEF CallTypeInv
<1>3. inSyscall' = [inSyscall EXCEPT ![t].hooked = TRUE] /\ t \in DOMAIN inSyscall
  BY DEF SocketLayer
<1>4. inSsl' = [k \in DOMAIN inSsl |->
                  IF k = t THEN [inSsl[k] EXCEPT !.used = @ \cup {inSyscall[t].object}]
                           ELSE inSsl[k]]
  BY DEF SocketLayer
<1>5. /\ DOMAIN inSyscall' = DOMAIN inSyscall
      /\ \A u \in DOMAIN inSyscall :
              /\ inSyscall'[u].op = inSyscall[u].op /\ inSyscall'[u].object = inSyscall[u].object
              /\ inSyscall'[u].peer = inSyscall[u].peer /\ (inSyscall'[u].named <=> inSyscall[u].named)
              /\ inSyscall'[u].id = inSyscall[u].id
              /\ inSyscall'[u].hooked <=> u = t \/ inSyscall[u].hooked
  BY <1>1, <1>3 DEF SyscallSet, CallTypeInv, Partial
<1>6. /\ DOMAIN inSsl' = DOMAIN inSsl
      /\ \A u \in DOMAIN inSsl :
              /\ inSsl'[u].direction = inSsl[u].direction
              /\ inSsl'[u].id = inSsl[u].id
              /\ inSsl'[u].used = IF u = t THEN inSsl[u].used \cup {inSyscall[t].object}
                                           ELSE inSsl[u].used
  BY <1>2, <1>4 DEF SslSet
<1> QED BY <1>3, <1>5, <1>6 DEF HookStep

LEMMA CallsNext ==
  ASSUME CallTypeInv, CallsInv, Next
  PROVE  CallsInv'
<1>1. ASSUME NEW fd \in Fds, NEW kind \in ObjectKinds, Open(fd, kind)
      PROVE  CallsInv'
  <2>1. UNCHANGED <<syscalls, sslCalls, inSyscall, inSsl>>
    BY <1>1 DEF Open
  <2> QED BY <1>1, <2>1, OpenKeeps DEF CallsInv, Admitted
<1>2. ASSUME NEW t \in Threads, NEW fd \in Fds, SysEnter(t, fd)
      PROVE  CallsInv'
  <2>1. PICK s \in Syscalls(fd) : inSyscall' = Set(inSyscall, t, s)
    BY <1>2 DEF SysEnter
  <2>2. s.id = syscalls + 1 /\ Admitted(s)
    BY <1>2, SyscallTyped DEF SysEnter
  <2>3. /\ UNCHANGED <<objects, sslCalls, inSsl>> /\ t \notin DOMAIN inSyscall
        /\ syscalls' = syscalls + 1 /\ syscalls \in Nat
    BY <1>2 DEF SysEnter, CallTypeInv
  <2>4. /\ DOMAIN inSyscall' = DOMAIN inSyscall \cup {t} /\ inSyscall'[t] = s
        /\ \A u \in DOMAIN inSyscall : inSyscall'[u] = inSyscall[u]
    BY <2>1, <2>3 DEF Set
  <2>5. ASSUME NEW u \in DOMAIN inSyscall'
        PROVE  Admitted(inSyscall[u])' /\ inSyscall'[u].id \in 1..syscalls'
    BY <2>2, <2>3, <2>4 DEF CallsInv, Admitted, IsSocket
  <2>6. ASSUME NEW u \in DOMAIN inSyscall', NEW v \in DOMAIN inSyscall',
               inSyscall'[u].id = inSyscall'[v].id
        PROVE  u = v
    BY <2>2, <2>3, <2>4, <2>6 DEF CallsInv
  <2> QED BY <2>3, <2>5, <2>6 DEF CallsInv
<1>3. ASSUME NEW t \in Threads, SocketLayer(t)
      PROVE  CallsInv'
  <2>1. UNCHANGED <<objects, syscalls, sslCalls>> /\ IsSocket(inSyscall[t].object)
    BY <1>3 DEF SocketLayer
  <2>2. HookStep(t)
    BY <1>3, HookFields
  <2>3. ASSUME NEW u \in DOMAIN inSyscall'
        PROVE  Admitted(inSyscall[u])' /\ inSyscall'[u].id \in 1..syscalls'
    <3>1. Admitted(inSyscall[u]) /\ inSyscall[u].id \in 1..syscalls /\ u \in DOMAIN inSyscall
      BY <2>2 DEF HookStep, CallsInv
    <3> QED BY <2>1, <2>2, <3>1 DEF HookStep, Admitted, IsSocket
  <2>4. ASSUME NEW u \in DOMAIN inSyscall', NEW v \in DOMAIN inSyscall',
               inSyscall'[u].id = inSyscall'[v].id
        PROVE  u = v
    BY <2>2, <2>4 DEF HookStep, CallsInv
  <2>5. ASSUME NEW u \in DOMAIN inSsl', NEW v \in DOMAIN inSsl'
        PROVE  /\ inSsl'[u].id \in 1..sslCalls'
               /\ inSsl'[u].id = inSsl'[v].id => u = v
    <3>1. /\ u \in DOMAIN inSsl /\ v \in DOMAIN inSsl
          /\ inSsl'[u].id = inSsl[u].id /\ inSsl'[v].id = inSsl[v].id
      BY <2>2 DEF HookStep
    <3> QED BY <2>1, <3>1 DEF CallsInv
  <2> QED BY <2>3, <2>4, <2>5 DEF CallsInv
<1>4. ASSUME NEW t \in Threads, NEW ok \in BOOLEAN, SysExit(t, ok)
      PROVE  CallsInv'
  <2>1. UNCHANGED <<objects, syscalls, sslCalls, inSsl>>
    BY <1>4 DEF SysExit
  <2>2. /\ DOMAIN inSyscall' = DOMAIN inSyscall \ {t}
        /\ \A u \in DOMAIN inSyscall' : inSyscall'[u] = inSyscall[u]
    BY <1>4 DEF SysExit, Without, Restrict
  <2> QED BY <2>1, <2>2 DEF CallsInv, Admitted, IsSocket
<1>5. ASSUME NEW t \in Threads, NEW c \in Contexts, NEW direction \in Directions,
             SslEnter(t, c, direction)
      PROVE  CallsInv'
  <2>1. /\ UNCHANGED <<objects, syscalls, inSyscall>> /\ t \notin DOMAIN inSsl
        /\ sslCalls' = sslCalls + 1 /\ sslCalls \in Nat
    BY <1>5 DEF SslEnter, CallTypeInv
  <2>2. /\ DOMAIN inSsl' = DOMAIN inSsl \cup {t} /\ inSsl'[t].id = sslCalls + 1
        /\ \A u \in DOMAIN inSsl : inSsl'[u] = inSsl[u]
    BY <1>5, <2>1 DEF SslEnter, Set
  <2> QED BY <2>1, <2>2 DEF CallsInv, Admitted, IsSocket
<1>6. ASSUME NEW t \in Threads, NEW ok \in BOOLEAN, SslExit(t, ok)
      PROVE  CallsInv'
  <2>1. UNCHANGED <<objects, syscalls, sslCalls, inSyscall>>
    BY <1>6 DEF SslExit
  <2>2. /\ DOMAIN inSsl' = DOMAIN inSsl \ {t}
        /\ \A u \in DOMAIN inSsl' : inSsl'[u] = inSsl[u]
    BY <1>6 DEF SslExit, Without, Restrict
  <2> QED BY <2>1, <2>2 DEF CallsInv, Admitted, IsSocket
<1>7. CASE UNCHANGED <<objects, syscalls, sslCalls, inSyscall, inSsl>>
  BY <1>7 DEF CallsInv, Admitted, IsSocket
<1> QED
  BY <1>1, <1>2, <1>3, <1>4, <1>5, <1>6, <1>7
  DEF Next, Process, Thread, Directions, Close, SslSetFd, SslFree, Evict, ReadEvent, ReadTuple, envVars

LEMMA IoNext ==
  ASSUME CallTypeInv, CallsInv, IoInv, Next
  PROVE  IoInv'
<1>1. ASSUME NEW fd \in Fds, NEW kind \in ObjectKinds, Open(fd, kind)
      PROVE  IoInv'
  <2>1. UNCHANGED <<inSyscall, io_calls>>
    BY <1>1 DEF Open, mapVars
  <2> QED BY <1>1, <2>1, OpenKeeps DEF CallsInv, Admitted, IoInv, Remembers
<1>2. ASSUME NEW t \in Threads, NEW fd \in Fds, SysEnter(t, fd)
      PROVE  IoInv'
  <2>1. PICK s \in Syscalls(fd) :
          /\ inSyscall' = Set(inSyscall, t, s)
          /\ io_calls' = IF s.op \in EntryProbes THEN RememberIo(t, s) ELSE io_calls
    BY <1>2 DEF SysEnter
  <2>2. UNCHANGED objects /\ t \notin DOMAIN inSyscall
    BY <1>2 DEF SysEnter
  <2>3. /\ DOMAIN inSyscall' = DOMAIN inSyscall \cup {t} /\ inSyscall'[t] = s
        /\ \A u \in DOMAIN inSyscall : inSyscall'[u] = inSyscall[u]
    BY <2>1, <2>2 DEF Set
  <2>4. t \notin DOMAIN io_calls
    BY <2>2 DEF IoInv
  <2>5. /\ \A u \in DOMAIN io_calls' \ {t} : u \in DOMAIN io_calls /\ io_calls'[u] = io_calls[u]
        /\ t \in DOMAIN io_calls' => /\ s.op \in EntryProbes \ {"errqueue"}
                                     /\ io_calls'[t].direction = DirectionOf(s.op)
                                     /\ io_calls'[t].tuple = NoTuple
                                     /\ io_calls'[t].peer = NoPeer
    BY <2>1, <2>4 DEF RememberIo, Set, Without, Restrict
  <2> QED BY <2>2, <2>3, <2>5 DEF IoInv, Remembers, SocketPeer
<1>3. ASSUME NEW t \in Threads, SocketLayer(t)
      PROVE  IoInv'
  <2>1. UNCHANGED objects
    BY <1>3 DEF SocketLayer
  <2>2. \A k \in DOMAIN io_calls : io_calls[k] \in IoSet
    BY PartialValue DEF CallTypeInv
  <2>3. io_calls' = [k \in DOMAIN io_calls |->
          IF k = t THEN [io_calls[k] EXCEPT !.tuple = inSyscall[t].object,
                                            !.peer = SocketPeer(inSyscall[t].object)]
                   ELSE io_calls[k]]
    BY <1>3 DEF SocketLayer, RememberSocketContext
  <2>4. /\ DOMAIN io_calls' = DOMAIN io_calls
        /\ \A k \in DOMAIN io_calls :
             /\ io_calls'[k].direction = io_calls[k].direction
             /\ k # t => io_calls'[k] = io_calls[k]
             /\ k = t => /\ io_calls'[k].tuple = inSyscall[t].object
                         /\ io_calls'[k].peer = SocketPeer(inSyscall[t].object)
    BY <2>2, <2>3 DEF IoSet
  <2>5. inSyscall[t].object # NoTuple
    BY <1>3 DEF SocketLayer, IsSocket, Free, NoTuple
  <2>6. HookStep(t)
    BY <1>3, HookFields
  <2> QED BY <2>1, <2>4, <2>5, <2>6 DEF HookStep, IoInv, Remembers, SocketPeer
<1>4. ASSUME NEW t \in Threads, NEW ok \in BOOLEAN, SysExit(t, ok)
      PROVE  IoInv'
  <2>1. UNCHANGED objects
    BY <1>4 DEF SysExit
  <2>2. /\ DOMAIN inSyscall' = DOMAIN inSyscall \ {t}
        /\ \A u \in DOMAIN inSyscall' : inSyscall'[u] = inSyscall[u]
    BY <1>4 DEF SysExit, Without, Restrict
  <2>3. /\ DOMAIN io_calls' = DOMAIN io_calls \ {t}
        /\ \A u \in DOMAIN io_calls' : io_calls'[u] = io_calls[u]
    <3>1. CASE inSyscall[t].op \in EntryProbes
      BY <1>4, <3>1 DEF SysExit, FinishIo, Without, Restrict
    <3>2. CASE inSyscall[t].op \notin EntryProbes
      BY <1>4, <3>2 DEF SysExit, IoInv, Remembers
    <3> QED BY <3>1, <3>2
  <2> QED BY <2>1, <2>2, <2>3 DEF IoInv, Remembers, SocketPeer
<1>5. CASE Evict
  <2>1. UNCHANGED <<objects, inSyscall>>
    BY <1>5 DEF Evict, envVars
  <2>2. /\ DOMAIN io_calls' \subseteq DOMAIN io_calls
        /\ \A u \in DOMAIN io_calls' : io_calls'[u] = io_calls[u]
    BY <1>5 DEF Evict, Without, Restrict
  <2> QED BY <2>1, <2>2 DEF IoInv, Remembers, SocketPeer
<1>6. CASE UNCHANGED <<objects, inSyscall, io_calls>>
  BY <1>6 DEF IoInv, Remembers, SocketPeer
<1> QED
  BY <1>1, <1>2, <1>3, <1>4, <1>5, <1>6
  DEF Next, Process, Thread, Close, SslSetFd, SslFree, SslEnter, SslExit, ReadEvent, ReadTuple,
      envVars, mapVars

LEMMA SslNext ==
  ASSUME CallTypeInv, SslInv, Next
  PROVE  SslInv'
<1>1. ASSUME NEW t \in Threads, SocketLayer(t)
      PROVE  SslInv'
  <2>1. \A k \in DOMAIN ssl_calls : ssl_calls[k] \in [fd : Fds, tuple : Nat]
    BY DEF CallTypeInv, Partial
  <2>2. /\ DOMAIN ssl_calls' = DOMAIN ssl_calls
        /\ \A k \in DOMAIN ssl_calls :
             \/ ssl_calls'[k].tuple = ssl_calls[k].tuple
             \/ k[1] = t /\ ssl_calls'[k].tuple = inSyscall[t].object
    BY <1>1, <2>1 DEF SocketLayer, RememberSocketContext
  <2>3. HookStep(t)
    BY <1>1, HookFields
  <2> QED BY <2>2, <2>3 DEF HookStep, SslInv
<1>2. ASSUME NEW t \in Threads, NEW c \in Contexts, NEW direction \in Directions,
             SslEnter(t, c, direction)
      PROVE  SslInv'
  <2>1. t \notin DOMAIN inSsl
    BY <1>2 DEF SslEnter
  <2>2. /\ DOMAIN inSsl' = DOMAIN inSsl \cup {t} /\ inSsl'[t].direction = direction
        /\ \A u \in DOMAIN inSsl : inSsl'[u] = inSsl[u]
    BY <1>2, <2>1 DEF SslEnter, Set
  <2>3. /\ DOMAIN ssl_calls' \subseteq DOMAIN ssl_calls \cup {<<t, direction>>}
        /\ \A k \in DOMAIN ssl_calls : k # <<t, direction>> => ssl_calls'[k] = ssl_calls[k]
        /\ <<t, direction>> \notin DOMAIN ssl_calls
        /\ <<t, direction>> \in DOMAIN ssl_calls' => ssl_calls'[<<t, direction>>].tuple = NoTuple
    BY <1>2, <2>1 DEF SslEnter, SslInv, Set
  <2> QED BY <2>1, <2>2, <2>3 DEF SslInv
<1>3. ASSUME NEW t \in Threads, NEW ok \in BOOLEAN, SslExit(t, ok)
      PROVE  SslInv'
  <2>1. /\ DOMAIN inSsl' = DOMAIN inSsl \ {t}
        /\ \A u \in DOMAIN inSsl' : inSsl'[u] = inSsl[u]
    BY <1>3 DEF SslExit, Without, Restrict
  <2>2. /\ DOMAIN ssl_calls' = DOMAIN ssl_calls \ {<<t, inSsl[t].direction>>}
        /\ \A k \in DOMAIN ssl_calls' : ssl_calls'[k] = ssl_calls[k]
    BY <1>3 DEF SslExit, FinishSsl, Without, Restrict
  <2>3. \A k \in DOMAIN ssl_calls : k = <<k[1], k[2]>>
    BY DEF CallTypeInv, Partial
  <2> QED BY <2>1, <2>2, <2>3 DEF SslInv
<1>4. CASE Evict
  <2>1. UNCHANGED inSsl
    BY <1>4 DEF Evict, envVars
  <2>2. /\ DOMAIN ssl_calls' \subseteq DOMAIN ssl_calls
        /\ \A u \in DOMAIN ssl_calls' : ssl_calls'[u] = ssl_calls[u]
    BY <1>4 DEF Evict, Without, Restrict
  <2> QED BY <2>1, <2>2 DEF SslInv
<1>5. CASE UNCHANGED <<inSsl, ssl_calls>>
  BY <1>5 DEF SslInv
<1> QED
  BY <1>1, <1>2, <1>3, <1>4, <1>5
  DEF Next, Process, Thread, Directions, Open, Close, SslSetFd, SslFree, SysEnter, SysExit,
      ReadEvent, ReadTuple, envVars, mapVars

-----------------------------------------------------------------------------
(* No step makes an event that was true and settled anything else.         *)
LEMMA EventStable ==
  ASSUME CallTypeInv, CallsInv, Next
  PROVE  \A e \in EventSets : (Truthful(e) => Truthful(e)') /\ (Settled(e) => Settled(e)')
<1> TAKE e \in EventSets
<1>1. ASSUME Truthful(e)
      PROVE  Truthful(e)'
  <2>1. ASSUME NEW fd \in Fds, NEW kind \in ObjectKinds, Open(fd, kind)
        PROVE  Truthful(e)'
    BY <1>1, <2>1, OpenKeeps DEF Truthful
  <2>2. CASE UNCHANGED objects
    BY <1>1, <2>2 DEF Truthful, IsSocket
  <2> QED
    BY <2>1, <2>2
    DEF Next, Process, Thread, Close, SslSetFd, SslFree, SysEnter, SocketLayer, SysExit, SslEnter,
        SslExit, Evict, ReadEvent, ReadTuple, envVars
<1>2. ASSUME Settled(e)
      PROVE  Settled(e)'
  <2>1. ASSUME NEW fd \in Fds, NEW kind \in ObjectKinds, Open(fd, kind)
        PROVE  Settled(e)'
    <3>1. UNCHANGED <<syscalls, sslCalls, inSyscall, inSsl>>
      BY <2>1 DEF Open
    <3> QED BY <1>2, <2>1, <3>1, OpenKeeps DEF Settled, CallsInv, Admitted
  <2>2. ASSUME NEW t \in Threads, NEW fd \in Fds, SysEnter(t, fd)
        PROVE  Settled(e)'
    <3>1. PICK s \in Syscalls(fd) : inSyscall' = Set(inSyscall, t, s)
      BY <2>2 DEF SysEnter
    <3>2. s.id = syscalls + 1
      BY <2>2, SyscallTyped DEF SysEnter
    <3>3. /\ UNCHANGED <<objects, sslCalls, inSsl>> /\ t \notin DOMAIN inSyscall
          /\ syscalls' = syscalls + 1 /\ syscalls \in Nat
      BY <2>2 DEF SysEnter, CallTypeInv
    <3>4. /\ DOMAIN inSyscall' = DOMAIN inSyscall \cup {t} /\ inSyscall'[t] = s
          /\ \A u \in DOMAIN inSyscall : inSyscall'[u] = inSyscall[u]
      BY <3>1, <3>3 DEF Set
    <3> QED BY <1>2, <3>2, <3>3, <3>4 DEF Settled, IsUdp
  <2>3. ASSUME NEW t \in Threads, SocketLayer(t)
        PROVE  Settled(e)'
    <3>1. UNCHANGED <<objects, syscalls, sslCalls>>
      BY <2>3 DEF SocketLayer
    <3>2. HookStep(t)
      BY <2>3, HookFields
    <3> QED BY <1>2, <3>1, <3>2 DEF HookStep, Settled, IsUdp
  <2>4. ASSUME NEW t \in Threads, NEW ok \in BOOLEAN, SysExit(t, ok)
        PROVE  Settled(e)'
    <3>1. UNCHANGED <<objects, syscalls, sslCalls, inSsl>>
      BY <2>4 DEF SysExit
    <3>2. /\ DOMAIN inSyscall' = DOMAIN inSyscall \ {t}
          /\ \A u \in DOMAIN inSyscall' : inSyscall'[u] = inSyscall[u]
      BY <2>4 DEF SysExit, Without, Restrict
    <3> QED BY <1>2, <3>1, <3>2 DEF Settled, IsUdp
  <2>5. ASSUME NEW t \in Threads, NEW c \in Contexts, NEW direction \in Directions,
               SslEnter(t, c, direction)
        PROVE  Settled(e)'
    <3>1. /\ UNCHANGED <<objects, syscalls, inSyscall>> /\ t \notin DOMAIN inSsl
          /\ sslCalls' = sslCalls + 1 /\ sslCalls \in Nat
      BY <2>5 DEF SslEnter, CallTypeInv
    <3>2. /\ DOMAIN inSsl' = DOMAIN inSsl \cup {t} /\ inSsl'[t].id = sslCalls + 1
          /\ \A u \in DOMAIN inSsl : inSsl'[u] = inSsl[u]
      BY <2>5, <3>1 DEF SslEnter, Set
    <3> QED BY <1>2, <3>1, <3>2 DEF Settled, IsUdp
  <2>6. ASSUME NEW t \in Threads, NEW ok \in BOOLEAN, SslExit(t, ok)
        PROVE  Settled(e)'
    <3>1. UNCHANGED <<objects, syscalls, sslCalls, inSyscall>>
      BY <2>6 DEF SslExit
    <3>2. /\ DOMAIN inSsl' = DOMAIN inSsl \ {t}
          /\ \A u \in DOMAIN inSsl' : inSsl'[u] = inSsl[u]
      BY <2>6 DEF SslExit, Without, Restrict
    <3> QED BY <1>2, <3>1, <3>2 DEF Settled, IsUdp
  <2>7. CASE UNCHANGED <<objects, syscalls, sslCalls, inSyscall, inSsl>>
    BY <1>2, <2>7 DEF Settled, IsUdp
  <2> QED
    BY <2>1, <2>2, <2>3, <2>4, <2>5, <2>6, <2>7
    DEF Next, Process, Thread, Directions, Close, SslSetFd, SslFree, Evict, ReadEvent, ReadTuple, envVars
<1> QED BY <1>1, <1>2

(* An event that a step may add to the ring buffer.                        *)
NewEvent(e) ==
  e \in EventSets /\ ~Settled(e) /\ Settled(e)' /\ Truthful(e)' /\ e.linked = NoTuple

Emits == UNCHANGED ring \/ \E e \in EventSets : ring' = Append(ring, e) /\ NewEvent(e)

LEMMA EmitsNew ==
  ASSUME NEW e, NewEvent(e), Emit(e)
  PROVE  Emits
BY DEF Emit, Emits, NewEvent

(* A UDP send is reported in the socket layer.                             *)
LEMMA SocketLayerEmits ==
  ASSUME CallTypeInv, CallInv, NEW t \in Threads, SocketLayer(t)
  PROVE  Emits
<1>1. CASE ~(IsUdp(inSyscall[t].object) /\ inSyscall[t].op \in Sends)
  BY <1>1 DEF SocketLayer, Emits
<1>2. CASE IsUdp(inSyscall[t].object) /\ inSyscall[t].op \in Sends
  <2>1. PICK s : s = inSyscall[t]
    OBVIOUS
  <2>2. PICK e : e = Event("plaintext", "send", 0, s.object, UdpDestination(s), s)
    OBVIOUS
  <2>3. s \in SyscallSet /\ t \in DOMAIN inSyscall /\ Admitted(s) /\ s.id \in 1..syscalls
    BY <2>1, PartialValue DEF SocketLayer, CallTypeInv, CallInv, CallsInv
  <2>4. objects[s.object] \in {"udp", "udp_connected"} /\ s.op \in Sends /\ ~s.hooked
    BY <1>2, <2>1 DEF IsUdp, SocketLayer
  <2>5. UdpDestination(s) \in PeerNames /\ UdpDestination(s) = s.peer
    BY <2>3, <2>4 DEF UdpDestination, SocketPeer, Admitted, SyscallSet
  <2>6. /\ e.source = "plaintext" /\ e.direction = "send" /\ e.tuple = s.object /\ e.peer = s.peer
        /\ e.linked = NoTuple /\ e.call = s
    BY <2>2, <2>5 DEF Event
  <2>7. e \in EventSets
    <3>1. s.object \in Nat
      BY <2>3 DEF SyscallSet
    <3> QED BY <2>2, <2>3, <2>5, <3>1 DEF Event, EventSets, EventSet, Directions, NoTuple
  <2>8. ~Settled(e)
    BY <2>1, <2>3, <2>4, <2>6 DEF Settled
  <2>9. UNCHANGED <<objects, syscalls>>
    BY DEF SocketLayer
  <2>10. HookStep(t)
    BY HookFields
  <2>11. \A u \in DOMAIN inSyscall : inSyscall[u].id = s.id => u = t
    BY <2>1, <2>3 DEF CallInv, CallsInv
  <2>12. Settled(e)'
    BY <2>1, <2>3, <2>4, <2>6, <2>9, <2>10, <2>11 DEF Settled, HookStep, IsUdp
  <2>13. Truthful(e)'
    BY <2>3, <2>4, <2>6, <2>9 DEF Truthful, IsSocket, Admitted, Free, DirectionOf, Sends
  <2>14. Emit(e)
    BY <1>2, <2>1, <2>2 DEF SocketLayer
  <2> QED BY <2>6, <2>7, <2>8, <2>12, <2>13, <2>14, EmitsNew DEF NewEvent
<1> QED BY <1>1, <1>2

(* Everything else is reported at the exit of the system call.             *)
LEMMA SysExitEmits ==
  ASSUME CallTypeInv, CallInv, NEW t \in Threads, NEW ok \in BOOLEAN, SysExit(t, ok)
  PROVE  Emits
<1> DEFINE call == io_calls[t]
<1>1. CASE ~(/\ inSyscall[t].op \in EntryProbes /\ ok /\ t \in DOMAIN io_calls
             /\ EmitsAtExit(io_calls[t]))
  BY <1>1 DEF SysExit, FinishIo, Emits
<1>2. CASE /\ inSyscall[t].op \in EntryProbes /\ ok /\ t \in DOMAIN io_calls
           /\ EmitsAtExit(io_calls[t])
  <2>1. PICK s : s = inSyscall[t]
    OBVIOUS
  <2>2. PICK e : e = Event("plaintext", call.direction, call.fd, call.tuple,
                           RecvfromPeer(call, s), s)
    OBVIOUS
  <2>3. s \in SyscallSet /\ t \in DOMAIN inSyscall /\ Admitted(s) /\ s.id \in 1..syscalls
    BY <2>1, PartialValue DEF SysExit, CallTypeInv, CallInv, CallsInv
  <2>4. call \in IoSet /\ Remembers(call, s) /\ call.tuple # NoTuple
    BY <1>2, <2>1, PartialValue DEF CallTypeInv, CallInv, IoInv, EmitsAtExit
  <2>5. ~(IsUdp(s.object) /\ s.op \in Sends) /\ s.hooked /\ call.tuple = s.object
    BY <1>2, <2>4 DEF EmitsAtExit, Remembers, DirectionOf
  <2>6. RecvfromPeer(call, s) \in {s.peer, NoPeer}
    BY <2>3, <2>4, <2>5 DEF RecvfromPeer, Remembers, SocketPeer, Admitted, IsUdp
  <2>7. /\ e.source = "plaintext" /\ e.direction = DirectionOf(s.op) /\ e.tuple = s.object
        /\ e.peer \in {s.peer, NoPeer} /\ e.linked = NoTuple /\ e.call = s
    BY <2>2, <2>4, <2>5, <2>6 DEF Event, Remembers
  <2>8. e \in EventSets
    <3>1. /\ call.direction \in Directions /\ call.fd \in Fds /\ call.tuple \in Nat
          /\ RecvfromPeer(call, s) \in PeerNames
      BY <2>3, <2>4, <2>6 DEF IoSet, SyscallSet, PeerNames
    <3> HIDE DEF call
    <3> QED BY <2>2, <2>3, <3>1 DEF Event, EventSets, EventSet, NoTuple
  <2>9. ~Settled(e)
    BY <2>1, <2>3, <2>5, <2>7 DEF Settled
  <2>10. UNCHANGED <<objects, syscalls>>
    BY DEF SysExit
  <2>11. /\ DOMAIN inSyscall' = DOMAIN inSyscall \ {t}
         /\ \A u \in DOMAIN inSyscall' : inSyscall'[u] = inSyscall[u]
    BY DEF SysExit, Without, Restrict
  <2>12. \A u \in DOMAIN inSyscall : inSyscall[u].id = s.id => u = t
    BY <2>1, <2>3 DEF CallInv, CallsInv
  <2>13. Settled(e)'
    BY <2>3, <2>7, <2>10, <2>11, <2>12 DEF Settled
  <2>14. Truthful(e)'
    BY <2>3, <2>4, <2>5, <2>7, <2>10 DEF Truthful, IsSocket, Admitted, Remembers
  <2>15. Emit(e)
    BY <1>2, <2>1, <2>2 DEF SysExit, FinishIo
  <2> QED BY <2>7, <2>8, <2>9, <2>13, <2>14, <2>15, EmitsNew DEF NewEvent
<1> QED BY <1>1, <1>2

LEMMA SslExitEmits ==
  ASSUME CallTypeInv, CallInv, NEW t \in Threads, NEW ok \in BOOLEAN, SslExit(t, ok)
  PROVE  Emits
<1> DEFINE k == <<t, inSsl[t].direction>>
<1>1. CASE ~(ok /\ k \in DOMAIN ssl_calls)
  BY <1>1 DEF SslExit, FinishSsl, Emits
<1>2. CASE ok /\ k \in DOMAIN ssl_calls
  <2>1. PICK s : s = inSsl[t]
    OBVIOUS
  <2>2. PICK e : e = Event("openssl", s.direction, ssl_calls[k].fd, ssl_calls[k].tuple, NoPeer, s)
    OBVIOUS
  <2>3. s \in SslSet /\ t \in DOMAIN inSsl /\ s.id \in 1..sslCalls
    BY <2>1, PartialValue DEF SslExit, CallTypeInv, CallInv, CallsInv
  <2>4. ssl_calls[k] \in [fd : Fds, tuple : Nat] /\ ssl_calls[k].tuple \in s.used \cup {NoTuple}
    BY <1>2, <2>1 DEF CallTypeInv, Partial, CallInv, SslInv
  <2>5. /\ e.source = "openssl" /\ e.direction = s.direction
        /\ e.tuple \in s.used \cup {NoTuple} /\ e.linked = NoTuple /\ e.call = s
    BY <2>2, <2>4 DEF Event
  <2>6. e \in EventSets
    <3>1. /\ s.direction \in Directions /\ ssl_calls[k].fd \in Fds /\ ssl_calls[k].tuple \in Nat
          /\ NoPeer \in PeerNames
      BY <2>3, <2>4 DEF SslSet, PeerNames
    <3> HIDE DEF k
    <3> QED BY <2>2, <2>3, <3>1 DEF Event, EventSets, EventSet, NoTuple
  <2>7. ~Settled(e)
    BY <2>1, <2>3, <2>5 DEF Settled
  <2>8. UNCHANGED sslCalls
    BY DEF SslExit
  <2>9. /\ DOMAIN inSsl' = DOMAIN inSsl \ {t}
        /\ \A u \in DOMAIN inSsl' : inSsl'[u] = inSsl[u]
    BY DEF SslExit, Without, Restrict
  <2>10. \A u \in DOMAIN inSsl : inSsl[u].id = s.id => u = t
    BY <2>1, <2>3 DEF CallInv, CallsInv
  <2>11. Settled(e)'
    BY <2>3, <2>5, <2>8, <2>9, <2>10 DEF Settled
  <2>12. Truthful(e)'
    BY <2>5 DEF Truthful
  <2>13. Emit(e)
    BY <1>2, <2>1, <2>2 DEF SslExit, FinishSsl
  <2> QED BY <2>5, <2>6, <2>7, <2>11, <2>12, <2>13, EmitsNew DEF NewEvent
<1> QED BY <1>1, <1>2

LEMMA ThreadEmits ==
  ASSUME CallTypeInv, CallInv, Next
  PROVE  \/ Emits /\ UNCHANGED <<resolving, delivered>>
         \/ ReadEvent
         \/ ReadTuple
<1>1. ASSUME NEW t \in Threads, Thread(t)
      PROVE  Emits /\ UNCHANGED <<resolving, delivered>>
  <2>1. ASSUME NEW fd \in Fds, SysEnter(t, fd)
        PROVE  Emits /\ UNCHANGED <<resolving, delivered>>
    BY <2>1 DEF SysEnter, Emits, readerVars
  <2>2. ASSUME SocketLayer(t)
        PROVE  Emits /\ UNCHANGED <<resolving, delivered>>
    <3>1. Emits
      BY <2>2, SocketLayerEmits
    <3> QED BY <2>2, <3>1 DEF SocketLayer, readerVars
  <2>3. ASSUME NEW ok \in BOOLEAN, SysExit(t, ok)
        PROVE  Emits /\ UNCHANGED <<resolving, delivered>>
    <3>1. Emits
      BY <2>3, SysExitEmits
    <3> QED BY <2>3, <3>1 DEF SysExit, readerVars
  <2>4. ASSUME NEW c \in Contexts, NEW direction \in {"send", "receive"}, SslEnter(t, c, direction)
        PROVE  Emits /\ UNCHANGED <<resolving, delivered>>
    BY <2>4 DEF SslEnter, Emits, readerVars
  <2>5. ASSUME NEW ok \in BOOLEAN, SslExit(t, ok)
        PROVE  Emits /\ UNCHANGED <<resolving, delivered>>
    <3>1. Emits
      BY <2>5, SslExitEmits
    <3> QED BY <2>5, <3>1 DEF SslExit, readerVars
  <2> QED BY <1>1, <2>1, <2>2, <2>3, <2>4, <2>5 DEF Thread
<1>2. CASE Process \/ Evict
  BY <1>2 DEF Process, Open, Close, SslSetFd, SslFree, Evict, Emits, readerVars
<1> QED BY <1>1, <1>2 DEF Next

(* Events that carry the same source and call are settled together.        *)
LEMMA SettledDiffers ==
  ASSUME NEW d, NEW e, Settled(d), ~Settled(e)
  PROVE  Differ(d, e) /\ Differ(e, d)
BY DEF Settled, Differ

EventInv == EventTypeInv /\ EventsInv /\ DistinctInv

LEMMA EmitsKeepsEvents ==
  ASSUME CallTypeInv, CallsInv, EventInv, Next, Emits, UNCHANGED <<resolving, delivered>>
  PROVE  EventInv'
<1>1. \A e \in EventSets : (Truthful(e) => Truthful(e)') /\ (Settled(e) => Settled(e)')
  BY EventStable
<1>2. /\ \A i \in 1..Len(resolving) : resolving[i] \in EventSets
      /\ \A i \in 1..Len(delivered) : delivered[i] \in EventSets
      /\ \A i \in 1..Len(ring) : ring[i] \in EventSets
  BY DEF EventInv, EventTypeInv
<1>3. ASSUME NEW i \in 1..Len(resolving)
      PROVE  /\ Truthful(resolving[i])' /\ Settled(resolving[i])'
             /\ resolving'[i].source = "openssl" /\ resolving'[i].linked # NoTuple
  <2>1. PICK e \in EventSets : e = resolving[i] /\ e = resolving'[i]
    BY <1>2
  <2>2. Truthful(e) /\ Settled(e) /\ e.source = "openssl" /\ e.linked # NoTuple
    BY <2>1 DEF EventInv, EventsInv
  <2>3. Truthful(e)' /\ Settled(e)'
    BY <1>1, <2>2
  <2> QED BY <2>1, <2>2, <2>3
<1>4. ASSUME NEW i \in 1..Len(delivered)
      PROVE  /\ Truthful(delivered[i])' /\ Settled(delivered[i])'
             /\ delivered'[i].linked # NoTuple => delivered'[i].tuple = delivered'[i].linked
  <2>1. PICK e \in EventSets : e = delivered[i] /\ e = delivered'[i]
    BY <1>2
  <2>2. Truthful(e) /\ Settled(e) /\ (e.linked # NoTuple => e.tuple = e.linked)
    BY <2>1 DEF EventInv, EventsInv
  <2>3. Truthful(e)' /\ Settled(e)'
    BY <1>1, <2>2
  <2> QED BY <2>1, <2>2, <2>3
<1>5. ASSUME NEW i \in 1..Len(ring), ring'[i] = ring[i]
      PROVE  Truthful(ring[i])' /\ Settled(ring[i])' /\ ring'[i].linked = NoTuple
  <2>1. PICK e \in EventSets : e = ring[i] /\ e = ring'[i]
    BY <1>2, <1>5
  <2>2. Truthful(e) /\ Settled(e) /\ e.linked = NoTuple
    BY <2>1 DEF EventInv, EventsInv
  <2>3. Truthful(e)' /\ Settled(e)'
    BY <1>1, <2>2
  <2> QED BY <2>1, <2>2, <2>3
<1>6. CASE UNCHANGED ring
  <2>1. EventTypeInv' /\ DistinctInv'
    BY <1>6 DEF EventInv, EventTypeInv, DistinctInv, Differ
  <2>2. EventsInv'
    BY <1>3, <1>4, <1>5, <1>6 DEF EventsInv
  <2> QED BY <2>1, <2>2 DEF EventInv
<1>7. ASSUME NEW e \in EventSets, ring' = Append(ring, e), NewEvent(e)
      PROVE  EventInv'
  <2>1. /\ ring' \in Seq(EventSets) /\ Len(ring') = Len(ring) + 1 /\ ring'[Len(ring) + 1] = e
        /\ \A i \in 1..Len(ring) : ring'[i] = ring[i]
        /\ Len(ring) \in Nat
    BY <1>7 DEF EventInv, EventTypeInv
  <2>2. EventTypeInv'
    BY <2>1 DEF EventInv, EventTypeInv
  <2>3. ASSUME NEW i \in 1..Len(ring')
        PROVE  Truthful(ring[i])' /\ Settled(ring[i])' /\ ring'[i].linked = NoTuple
    <3>1. CASE i = Len(ring) + 1
      <4>1. ring'[i] = e /\ Truthful(e)' /\ Settled(e)' /\ e.linked = NoTuple
        BY <1>7, <2>1, <3>1 DEF NewEvent
      <4> QED BY <4>1
    <3>2. CASE i \in 1..Len(ring)
      BY <1>5, <2>1, <3>2
    <3> QED BY <2>1, <3>1, <3>2
  <2>4. EventsInv'
    BY <1>3, <1>4, <2>3 DEF EventsInv
  <2>5. ASSUME NEW i \in 1..Len(ring)
        PROVE  Differ(ring[i], e) /\ Differ(e, ring[i])
    BY <1>7, SettledDiffers DEF NewEvent, EventInv, EventsInv
  <2>6. ASSUME NEW j \in 1..Len(resolving)
        PROVE  Differ(e, resolving[j])
    BY <1>7, SettledDiffers DEF NewEvent, EventInv, EventsInv
  <2>7. ASSUME NEW j \in 1..Len(delivered)
        PROVE  Differ(e, delivered[j])
    BY <1>7, SettledDiffers DEF NewEvent, EventInv, EventsInv
  <2>8. \A i \in 1..Len(ring') : i \in 1..Len(ring) \/ i = Len(ring) + 1
    BY <2>1
  <2>9. DistinctInv'
    <3>1. ASSUME NEW i \in 1..Len(ring'), NEW j \in 1..Len(ring'), i # j
          PROVE  Differ(ring'[i], ring'[j])
      BY <2>1, <2>5, <2>8, <3>1 DEF EventInv, DistinctInv
    <3>2. ASSUME NEW i \in 1..Len(ring'), NEW j \in 1..Len(resolving)
          PROVE  Differ(ring'[i], resolving[j])
      BY <2>1, <2>6, <2>8 DEF EventInv, DistinctInv
    <3>3. ASSUME NEW i \in 1..Len(ring'), NEW j \in 1..Len(delivered)
          PROVE  Differ(ring'[i], delivered[j])
      BY <2>1, <2>7, <2>8 DEF EventInv, DistinctInv
    <3> QED BY <3>1, <3>2, <3>3 DEF DistinctInv
  <2> QED BY <2>2, <2>4, <2>9 DEF EventInv
<1> QED BY <1>6, <1>7 DEF Emits

(* The reader hands on the oldest event, with a tuple or to the lookup.    *)
LEMMA ReadEventKeepsEvents ==
  ASSUME CallTypeInv, EventInv, ReadEvent
  PROVE  EventInv'
<1>1. /\ ring # <<>> /\ ring' = Tail(ring) /\ resolving = <<>>
      /\ UNCHANGED <<objects, open, syscalls, sslCalls, inSyscall, inSsl>>
  BY DEF ReadEvent, envVars
<1>2. /\ ring' \in Seq(EventSets) /\ Len(ring') = Len(ring) - 1 /\ Len(ring) \in Nat \ {0}
      /\ \A i \in 1..Len(ring') : ring'[i] = ring[i + 1] /\ i + 1 \in 1..Len(ring)
      /\ ring[1] \in EventSets /\ Head(ring) = ring[1]
  BY <1>1 DEF EventInv, EventTypeInv
<1>3. PICK e \in EventSets : e = ring[1]
  BY <1>2
<1>4. Truthful(e) /\ Settled(e) /\ e.linked = NoTuple
  BY <1>2, <1>3 DEF EventInv, EventsInv
<1>5. \A i \in 1..Len(ring') : Differ(ring'[i], e)
  BY <1>2, <1>3 DEF EventInv, DistinctInv
<1>6. PICK d : \/ resolving' = <<>> /\ delivered' = delivered /\ d = e
               \/ /\ resolving' = <<>> /\ delivered' = <<d>> /\ d \in EventSets
                  /\ d.source = e.source /\ d.call = e.call
                  /\ Truthful(d) /\ (d.linked # NoTuple => d.tuple = d.linked)
               \/ /\ delivered' = delivered /\ resolving' = <<d>> /\ d \in EventSets
                  /\ d.source = "openssl" /\ d.source = e.source /\ d.call = e.call
                  /\ Truthful(d) /\ d.linked # NoTuple
  <2>1. CASE e.tuple # NoTuple
    <3>1. delivered' = <<e>> /\ resolving' = <<>>
      BY <1>1, <1>2, <1>3, <2>1 DEF ReadEvent
    <3> QED BY <1>4, <3>1
  <2>2. CASE e.tuple = NoTuple
    <3>1. e.source = "openssl"
      BY <1>4, <2>2 DEF Truthful, IsSocket, NoTuple, Free
    <3> DEFINE inode == IF e.fd \in Fds THEN open[e.fd] ELSE Free
    <3>2. CASE ~IsSocket(inode)
      <4>1. UNCHANGED <<resolving, delivered>>
        BY <1>2, <1>3, <2>2, <3>2 DEF ReadEvent, readerVars
      <4> QED BY <1>1, <4>1
    <3>3. CASE IsSocket(inode)
      <4>1. inode \in Nat /\ inode # NoTuple
        BY <3>3 DEF CallTypeInv, IsSocket, Free, NoTuple
      <4>2. \/ /\ delivered' = <<[e EXCEPT !.tuple = cache[e.fd], !.linked = inode]>>
               /\ resolving' = <<>> /\ cache[e.fd] = inode
            \/ resolving' = <<[e EXCEPT !.linked = inode]>> /\ UNCHANGED delivered
        BY <1>1, <1>2, <1>3, <2>2, <3>3 DEF ReadEvent, Cached
      <4> HIDE DEF inode
      <4>3. ASSUME NEW d, \/ d = [e EXCEPT !.tuple = inode, !.linked = inode]
                          \/ d = [e EXCEPT !.linked = inode]
            PROVE  /\ d \in EventSets /\ d.source = e.source /\ d.call = e.call
                   /\ d.linked = inode /\ d.direction = e.direction
        BY <4>1, <4>3 DEF EventSets, EventSet
      <4>4. ASSUME NEW d, \/ d = [e EXCEPT !.tuple = inode, !.linked = inode]
                          \/ d = [e EXCEPT !.linked = inode]
            PROVE  Truthful(d)
        <5>1. d.source = "openssl" /\ d.call = e.call /\ d.linked = inode /\ d.direction = e.direction
          BY <3>1, <4>3, <4>4
        <5> QED BY <1>4, <3>1, <4>1, <5>1 DEF Truthful
      <4>5. CASE resolving' = <<[e EXCEPT !.linked = inode]>> /\ UNCHANGED delivered
        BY <3>1, <4>1, <4>3, <4>4, <4>5
      <4>6. CASE /\ delivered' = <<[e EXCEPT !.tuple = inode, !.linked = inode]>>
                 /\ resolving' = <<>>
        <5>1. PICK d : d = [e EXCEPT !.tuple = inode, !.linked = inode]
          OBVIOUS
        <5>2. d.tuple = inode
          BY <5>1 DEF EventSets, EventSet
        <5> QED BY <4>3, <4>4, <4>6, <5>1, <5>2
      <4> QED BY <4>2, <4>5, <4>6
    <3> QED BY <3>2, <3>3
  <2> QED BY <2>1, <2>2
<1>7. d.source = e.source /\ d.call = e.call /\ (Truthful(d) => Truthful(d)') /\ Settled(d)'
  BY <1>1, <1>4, <1>6 DEF Truthful, Settled, IsSocket, IsUdp
<1>8. EventTypeInv'
  <2>1. /\ resolving' \in Seq(EventSets) /\ Len(resolving') <= 1
        /\ delivered' \in Seq(EventSets) /\ Len(delivered') <= 1
    <3>1. /\ d \in EventSets
          /\ resolving' \in {<<>>, <<d>>} /\ delivered' \in {delivered, <<d>>}
      BY <1>6
    <3>2. <<d>> \in Seq(EventSets) /\ Len(<<d>>) = 1 /\ <<>> \in Seq(EventSets) /\ Len(<<>>) = 0
      BY <3>1
    <3>3. delivered \in Seq(EventSets) /\ Len(delivered) <= 1
      BY DEF EventInv, EventTypeInv
    <3>4. \A s \in {<<>>, <<d>>, delivered} : s \in Seq(EventSets) /\ Len(s) <= 1
      <4>1. 0 <= 1 /\ 1 <= 1
        OBVIOUS
      <4> QED BY <3>2, <3>3, <4>1
    <3> QED BY <3>1, <3>4, Zenon
  <2> QED BY <1>2, <2>1 DEF EventTypeInv
<1>9. DistinctInv'
  <2>1. \A i \in 1..Len(ring') : Differ(ring'[i], d)
    BY <1>5, <1>7 DEF Differ
  <2>2. \A i, j \in 1..Len(ring') : i # j => Differ(ring'[i], ring'[j])
    <3> SUFFICES ASSUME NEW i \in 1..Len(ring'), NEW j \in 1..Len(ring'), i # j
                 PROVE  Differ(ring'[i], ring'[j])
      OBVIOUS
    <3>1. ring'[i] = ring[i + 1] /\ ring'[j] = ring[j + 1]
      BY <1>2
    <3>2. i + 1 \in 1..Len(ring) /\ j + 1 \in 1..Len(ring) /\ i + 1 # j + 1
      BY <1>2
    <3> QED BY <3>1, <3>2 DEF EventInv, DistinctInv
  <2>3. \A i \in 1..Len(ring'), j \in 1..Len(delivered) : Differ(ring'[i], delivered[j])
    BY <1>2 DEF EventInv, DistinctInv
  <2> QED BY <1>6, <2>1, <2>2, <2>3 DEF DistinctInv, Differ
<1>10. EventsInv'
  <2>1. \A i \in 1..Len(ring') :
          Truthful(ring[i])' /\ Settled(ring[i])' /\ ring'[i].linked = NoTuple
    BY <1>1, <1>2 DEF EventInv, EventsInv, Truthful, Settled, IsSocket, IsUdp
  <2>2. CASE resolving' = <<>> /\ delivered' = delivered
    BY <1>1, <2>1, <2>2 DEF EventInv, EventsInv, Truthful, Settled, IsSocket, IsUdp
  <2>3. CASE resolving' = <<>> /\ delivered' = <<d>> /\ Truthful(d)
             /\ (d.linked # NoTuple => d.tuple = d.linked)
    BY <1>7, <2>1, <2>3 DEF EventsInv
  <2>4. CASE /\ delivered' = delivered /\ resolving' = <<d>> /\ d.source = "openssl"
             /\ Truthful(d) /\ d.linked # NoTuple
    <3>1. \A i \in 1..Len(delivered') :
            /\ Truthful(delivered[i])' /\ Settled(delivered[i])'
            /\ delivered'[i].linked # NoTuple => delivered'[i].tuple = delivered'[i].linked
      BY <1>1, <2>4 DEF EventInv, EventsInv, Truthful, Settled, IsSocket, IsUdp
    <3> QED BY <1>7, <2>1, <2>4, <3>1 DEF EventsInv
  <2> QED BY <1>6, <2>2, <2>3, <2>4
<1> QED BY <1>8, <1>9, <1>10 DEF EventInv

(* The lookup ends with the tuple of the socket that the link named.       *)
LEMMA ReadTupleKeepsEvents ==
  ASSUME CallTypeInv, EventInv, ReadTuple
  PROVE  EventInv'
<1>1. /\ resolving # <<>> /\ resolving' = <<>> /\ UNCHANGED ring
      /\ UNCHANGED <<objects, open, syscalls, sslCalls, inSyscall, inSsl>>
  BY DEF ReadTuple, envVars
<1>2. PICK e \in EventSets : e = resolving[1] /\ e = Head(resolving)
  BY <1>1 DEF EventInv, EventTypeInv
<1>3. 1 \in 1..Len(resolving)
  BY <1>1 DEF EventInv, EventTypeInv
<1>4. Truthful(e) /\ Settled(e) /\ e.source = "openssl" /\ e.linked # NoTuple
  BY <1>2, <1>3 DEF EventInv, EventsInv
<1>5. \/ delivered' = delivered
      \/ delivered' = <<[e EXCEPT !.tuple = e.linked]>>
  BY <1>2 DEF ReadTuple
<1>6. PICK d : d = [e EXCEPT !.tuple = e.linked]
  OBVIOUS
<1>7. /\ d \in EventSets /\ d.source = e.source /\ d.call = e.call /\ d.direction = e.direction
      /\ d.linked = e.linked /\ d.tuple = e.linked
  BY <1>6 DEF EventSets, EventSet
<1>8. Truthful(d)' /\ Settled(d)'
  BY <1>1, <1>4, <1>7 DEF Truthful, Settled, IsUdp
<1>9. EventTypeInv'
  BY <1>1, <1>5, <1>6, <1>7 DEF EventInv, EventTypeInv
<1>10. DistinctInv'
  <2>1. \A i \in 1..Len(ring) : Differ(ring[i], d)
    BY <1>2, <1>3, <1>7 DEF EventInv, DistinctInv, Differ
  <2>2. /\ \A i, j \in 1..Len(ring) : i # j => Differ(ring[i], ring[j])
        /\ \A i \in 1..Len(ring), j \in 1..Len(delivered) : Differ(ring[i], delivered[j])
    BY DEF EventInv, DistinctInv
  <2>3. \A i \in 1..Len(ring), j \in 1..Len(delivered') : Differ(ring[i], delivered'[j])
    BY <1>5, <1>6, <2>1, <2>2
  <2> QED BY <1>1, <2>2, <2>3 DEF DistinctInv
<1>11. EventsInv'
  <2>1. \A i \in 1..Len(ring') :
          Truthful(ring[i])' /\ Settled(ring[i])' /\ ring'[i].linked = NoTuple
    BY <1>1 DEF EventInv, EventsInv, Truthful, Settled, IsSocket, IsUdp
  <2>2. CASE delivered' = delivered
    BY <1>1, <2>1, <2>2 DEF EventInv, EventsInv, Truthful, Settled, IsSocket, IsUdp
  <2>3. CASE delivered' = <<d>>
    BY <1>1, <1>7, <1>8, <2>1, <2>3 DEF EventsInv
  <2> QED BY <1>5, <1>6, <2>2, <2>3
<1> QED BY <1>9, <1>10, <1>11 DEF EventInv

-----------------------------------------------------------------------------
LEMMA ProbesInvInvariant == Spec => []ProbesInv
<1>1. Init => ProbesInv
  <2> SUFFICES ASSUME Init PROVE ProbesInv
    OBVIOUS
  <2>1. CallTypeInv
    BY EmptyPartial DEF Init, CallTypeInv, Free
  <2>2. CallsInv /\ IoInv /\ SslInv
    BY EmptyPartial DEF Init, CallsInv, IoInv, SslInv
  <2>3. EventTypeInv /\ EventsInv /\ DistinctInv
    BY DEF Init, EventTypeInv, EventsInv, DistinctInv
  <2> QED BY <2>1, <2>2, <2>3 DEF ProbesInv, TypeInv
<1>2. ProbesInv /\ [Next]_vars => ProbesInv'
  <2> SUFFICES ASSUME ProbesInv, [Next]_vars PROVE ProbesInv'
    OBVIOUS
  <2> USE DEF ProbesInv, TypeInv
  <2>1. CASE Next
    <3>1. CallTypeInv' /\ CallsInv' /\ IoInv' /\ SslInv'
      BY <2>1, CallTypeNext, CallsNext, IoNext, SslNext
    <3>2. EventInv
      BY DEF EventInv
    <3>3. EventInv'
      BY <2>1, <3>2, ThreadEmits, EmitsKeepsEvents, ReadEventKeepsEvents, ReadTupleKeepsEvents
      DEF CallInv
    <3> QED BY <3>1, <3>3 DEF EventInv
  <2>2. CASE UNCHANGED vars
    <3>1. CallTypeInv' /\ CallsInv' /\ IoInv' /\ SslInv'
      BY <2>2 DEF vars, envVars, mapVars, CallTypeInv, CallsInv, IoInv, SslInv, Admitted, IsSocket,
                  Remembers, SocketPeer
    <3>2. EventTypeInv' /\ DistinctInv'
      BY <2>2 DEF vars, readerVars, EventTypeInv, DistinctInv
    <3>3. EventsInv'
      BY <2>2 DEF vars, envVars, readerVars, EventsInv, Truthful, Settled, IsSocket, IsUdp
    <3> QED BY <3>1, <3>2, <3>3
  <2> QED BY <2>1, <2>2
<1> QED BY <1>1, <1>2, PTL DEF Spec

(* The kernel attributes to a socket only what the reported call exchanged *)
(* on it: the map entry of a thread belongs to the call the thread is in,  *)
(* whatever was evicted, closed or reused in between.                      *)
THEOREM ProbesTellTheTruth == Spec => []FragmentsTrue
<1>1. ProbesInv => FragmentsTrue
  <2> SUFFICES ASSUME ProbesInv, NEW e \in Events, Truthful(e)
               PROVE  IF e.source = "openssl"
                      THEN /\ e.direction = e.call.direction
                           /\ e.linked = NoTuple => e.tuple \in e.call.used \cup {NoTuple}
                      ELSE /\ e.tuple = e.call.object
                           /\ IsSocket(e.tuple)
                           /\ e.call.op # "errqueue"
                           /\ e.direction = DirectionOf(e.call.op)
                           /\ e.peer \in {e.call.peer, NoPeer}
    BY DEF FragmentsTrue, Events, ProbesInv, EventsInv
  <2> QED BY DEF Truthful
<1> QED BY <1>1, ProbesInvInvariant, PTL

(* A call is reported once, by the socket layer or at the exit.            *)
THEOREM ProbesReportOnce == Spec => []OncePerCall
<1>1. ProbesInv => OncePerCall
  <2> SUFFICES ASSUME ProbesInv, NEW i \in 1..Len(Reported), NEW j \in 1..Len(Reported), i # j
               PROVE  Differ(Reported[i], Reported[j])
    BY DEF OncePerCall, Differ
  <2>1. /\ Len(Reported) = Len(ring) + Len(delivered)
        /\ Len(ring) \in Nat /\ Len(delivered) \in Nat
        /\ \A k \in 1..Len(Reported) :
             Reported[k] = IF k <= Len(ring) THEN ring[k] ELSE delivered[k - Len(ring)]
    <3>1. ring \in Seq(EventSets) /\ delivered \in Seq(EventSets) /\ Len(delivered) <= 1
      BY DEF ProbesInv, TypeInv, EventTypeInv
    <3>2. Len(ring) \in Nat /\ Len(delivered) \in Nat
      BY <3>1, LenProperties
    <3>3. /\ Len(ring \o delivered) = Len(ring) + Len(delivered)
          /\ \A k \in 1..(Len(ring) + Len(delivered)) :
               (ring \o delivered)[k] = IF k <= Len(ring) THEN ring[k] ELSE delivered[k - Len(ring)]
      BY <3>1, ConcatProperties
    <3> QED BY <3>2, <3>3 DEF Reported
  <2>2. \A d, e : Differ(d, e) => Differ(e, d)
    BY DEF Differ
  <2>3. CASE i <= Len(ring) /\ j <= Len(ring)
    <3>1. i \in 1..Len(ring) /\ j \in 1..Len(ring)
      BY <2>1, <2>3
    <3> QED BY <2>1, <2>3, <3>1 DEF ProbesInv, DistinctInv
  <2>4. CASE i <= Len(ring) /\ j > Len(ring)
    <3>1. i \in 1..Len(ring) /\ j - Len(ring) \in 1..Len(delivered)
      BY <2>1, <2>4
    <3> QED BY <2>1, <2>4, <3>1 DEF ProbesInv, DistinctInv
  <2>5. CASE j <= Len(ring) /\ i > Len(ring)
    <3>1. j \in 1..Len(ring) /\ i - Len(ring) \in 1..Len(delivered)
      BY <2>1, <2>5
    <3>2. Differ(Reported[j], Reported[i])
      BY <2>1, <2>5, <3>1 DEF ProbesInv, DistinctInv
    <3> QED BY <2>2, <3>2
  <2>6. Len(delivered) <= 1
    BY DEF ProbesInv, TypeInv, EventTypeInv
  <2> QED BY <2>1, <2>3, <2>4, <2>5, <2>6
<1> QED BY <1>1, ProbesInvInvariant, PTL

(* A tuple that user space adds is the one of the socket the descriptor    *)
(* referred to when the event was read.                                    *)
THEOREM ProbesResolveFresh == Spec => []ResolvedFresh
<1>1. ProbesInv => ResolvedFresh
  BY DEF ProbesInv, EventsInv, ResolvedFresh
<1> QED BY <1>1, ProbesInvInvariant, PTL
=============================================================================
