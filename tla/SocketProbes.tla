---------------------------- MODULE SocketProbes ----------------------------
(***************************************************************************)
(* The BPF programs that capture application data                          *)
(* (internal/collector/bpf/flow.bpf.c) and the user-space reader of their  *)
(* ring buffer with its socket resolver (loader_linux.go,                  *)
(* socket_resolver_linux.go).                                              *)
(*                                                                         *)
(* A system call is seen in three places: at its entry (which knows the    *)
(* descriptor and the buffer), in the socket layer (which knows the        *)
(* socket) and at its exit (which knows the length).  A map entry keyed by *)
(* the thread carries what one place learned to the next; entries may be   *)
(* evicted at any time, the maps are LRU.  OpenSSL calls are seen at their *)
(* entry and return, around the system calls they make.                    *)
(*                                                                         *)
(* The environment is one process whose threads open, close and reuse      *)
(* descriptors.  A kernel object (a socket or a file) is its serial        *)
(* number, which also stands for the tuple and the inode of a socket.      *)
(* Inside an OpenSSL call a thread uses no other descriptor than the one   *)
(* of the SSL object.  Whether a payload is HTTP or DNS, and whether a     *)
(* memory read succeeds, is left open: each program may decide not to      *)
(* emit.  The _ex variants of the OpenSSL calls differ in how the length   *)
(* is found only.                                                          *)
(***************************************************************************)
EXTENDS Integers, Sequences, Functions

CONSTANTS
  Threads,
  Fds,            \* file descriptors
  Contexts,       \* addresses of SSL objects
  Peers,          \* UDP peers
  CacheEntries,   \* socketResolver.maxEntries
  RingCapacity,   \* bound: events in the ring buffer
  MaxObjects,     \* bound: files and sockets ever opened
  MaxSyscalls,    \* bound: system calls
  MaxSslCalls,    \* bound: OpenSSL calls
  MaxCalls        \* bound: system calls and OpenSSL calls together

ASSUME ProbesAssumption ==
  /\ CacheEntries \in Nat \ {0}
  /\ RingCapacity \in Nat \ {0}
  /\ MaxObjects \in Nat
  /\ MaxSyscalls \in Nat
  /\ MaxSslCalls \in Nat
  /\ MaxCalls \in Nat

Free == 0
NoTuple == 0
NoPeer == "none"
Connected == "connected"     \* the peer of a connected UDP socket
ObjectKinds == {"tcp", "udp", "udp_connected", "file"}

Receives == {"read", "recvfrom", "errqueue", "recvmsg"}   \* errqueue: recvfrom with MSG_ERRQUEUE
Sends == {"write", "sendto", "sendmsg"}
EntryProbes == {"read", "write", "recvfrom", "errqueue", "sendto"}
DirectionOf(op) == IF op \in Sends THEN "send" ELSE "receive"

VARIABLES
  objects,    \* kind of every object ever opened
  open,       \* what each descriptor refers to
  syscalls,   \* number of system calls so far
  sslCalls,   \* number of OpenSSL calls so far
  inSyscall,  \* thread -> its system call
  inSsl,      \* thread -> its OpenSSL call
  bound,      \* live SSL object -> its descriptor
  \* BPF maps
  io_calls, ssl_fds, ssl_calls,
  ring,
  \* the reader
  resolving,  \* events whose tuple is looked up (at most one)
  cache,      \* socketResolver.cache: descriptor -> inode; the tuple follows from it
  recency,    \* its keys, most recent first
  delivered   \* the event that Read returned last

envVars == <<objects, open, syscalls, sslCalls, inSyscall, inSsl, bound>>
mapVars == <<io_calls, ssl_fds, ssl_calls>>
readerVars == <<resolving, cache, recency, delivered>>
vars == <<envVars, mapVars, ring, readerVars>>

EmptyMap == [x \in {} |-> x]
Set(map, key, value) == [k \in DOMAIN map \cup {key} |-> IF k = key THEN value ELSE map[k]]
Without(map, key) == Restrict(map, DOMAIN map \ {key})

Init ==
  /\ objects = <<>> /\ open = [fd \in Fds |-> Free] /\ syscalls = 0 /\ sslCalls = 0
  /\ inSyscall = EmptyMap /\ inSsl = EmptyMap /\ bound = EmptyMap
  /\ io_calls = EmptyMap /\ ssl_fds = EmptyMap /\ ssl_calls = EmptyMap
  /\ ring = <<>>
  /\ resolving = <<>> /\ cache = EmptyMap /\ recency = <<>> /\ delivered = <<>>

IsSocket(o) == o # Free /\ objects[o] # "file"
IsUdp(o) == objects[o] \in {"udp", "udp_connected"}
SocketPeer(o) == IF objects[o] = "udp_connected" THEN Connected ELSE NoPeer

-----------------------------------------------------------------------------
(***************************************************************************)
(* The process.                                                            *)
(***************************************************************************)
Open(fd, kind) ==
  /\ open[fd] = Free
  /\ Len(objects) < MaxObjects
  /\ objects' = Append(objects, kind)
  /\ open' = [open EXCEPT ![fd] = Len(objects) + 1]
  /\ UNCHANGED <<syscalls, sslCalls, inSyscall, inSsl, bound, mapVars, ring, readerVars>>

(* A close by any thread, with calls on the descriptor in flight or not.   *)
Close(fd) ==
  /\ open[fd] # Free
  /\ open' = [open EXCEPT ![fd] = Free]
  /\ UNCHANGED <<objects, syscalls, sslCalls, inSyscall, inSsl, bound, mapVars, ring, readerVars>>

(* The LRU maps make room at any time.                                     *)
Evict ==
  /\ \/ \E t \in DOMAIN io_calls :
          io_calls' = Without(io_calls, t) /\ UNCHANGED <<ssl_fds, ssl_calls>>
     \/ \E c \in DOMAIN ssl_fds :
          ssl_fds' = Without(ssl_fds, c) /\ UNCHANGED <<io_calls, ssl_calls>>
     \/ \E k \in DOMAIN ssl_calls :
          ssl_calls' = Without(ssl_calls, k) /\ UNCHANGED <<io_calls, ssl_fds>>
  /\ UNCHANGED <<envVars, ring, readerVars>>

(* emit_user_fragment, emit_dns_fragment: the payload is not of interest,  *)
(* or no space could be reserved, or the event is in the ring buffer.      *)
Emit(event) ==
  \/ UNCHANGED ring
  \/ Len(ring) < RingCapacity /\ ring' = Append(ring, event)

Event(source, direction, fd, tuple, peer, call) ==
  [source |-> source, direction |-> direction, fd |-> fd, tuple |-> tuple, peer |-> peer,
   linked |-> NoTuple, call |-> call]

-----------------------------------------------------------------------------
(***************************************************************************)
(* System calls.                                                           *)
(***************************************************************************)

(* A call on an object.  Its datagram, if it moves one, is exchanged with  *)
(* peer; named says whether the call was given an address argument.        *)
Syscalls(fd) ==
  {s \in [op : Receives \cup Sends, object : {open[fd]}, fd : {fd}, hooked : {FALSE},
          peer : Peers \cup {NoPeer, Connected}, named : BOOLEAN, id : {syscalls + 1}] :
     /\ objects[s.object] = "file" => s.op \in {"read", "write"}
     /\ s.named => s.op \notin {"read", "write"}
     /\ CASE objects[s.object] \in {"tcp", "file"} -> s.peer = NoPeer /\ ~s.named
          [] objects[s.object] = "udp" -> s.peer \in Peers /\ (s.op \in Sends => s.named)
          [] OTHER -> IF s.op \in Sends /\ s.named THEN s.peer \in Peers ELSE s.peer = Connected}

(* remember_io, after the error-queue test of observe_enter_recvfrom.      *)
RememberIo(t, s) ==
  IF s.op = "errqueue" THEN Without(io_calls, t)
  ELSE Set(io_calls, t, [fd |-> s.fd, direction |-> DirectionOf(s.op),
                         peerAddress |-> s.op = "recvfrom" /\ s.named,
                         tuple |-> NoTuple, peer |-> NoPeer])

SysEnter(t, fd) ==
  /\ t \notin DOMAIN inSyscall
  /\ open[fd] # Free
  /\ t \in DOMAIN inSsl => fd = inSsl[t].fd
  /\ syscalls < MaxSyscalls /\ syscalls + sslCalls < MaxCalls
  /\ syscalls' = syscalls + 1
  /\ \E s \in Syscalls(fd) :
       /\ inSyscall' = Set(inSyscall, t, s)
       /\ io_calls' = IF s.op \in EntryProbes THEN RememberIo(t, s) ELSE io_calls
  /\ UNCHANGED <<objects, open, sslCalls, inSsl, bound, ssl_fds, ssl_calls, ring, readerVars>>

(* The socket layer: tcp_sendmsg, tcp_recvmsg, udp_sendmsg, udp_recvmsg.   *)
(* The thread's calls in flight learn the socket.                          *)
RememberSocketContext(t, o) ==
  /\ io_calls' = [k \in DOMAIN io_calls |->
                    IF k = t THEN [io_calls[k] EXCEPT !.tuple = o, !.peer = SocketPeer(o)]
                             ELSE io_calls[k]]
  /\ ssl_calls' = [k \in DOMAIN ssl_calls |->
                     IF k[1] = t /\ ~IsUdp(o) THEN [ssl_calls[k] EXCEPT !.tuple = o]
                                              ELSE ssl_calls[k]]

(* observe_udp_send: the address argument overrides the connected peer.    *)
UdpDestination(s) == IF s.named THEN s.peer ELSE SocketPeer(s.object)

SocketLayer(t) ==
  /\ t \in DOMAIN inSyscall
  /\ LET s == inSyscall[t] IN
     /\ ~s.hooked
     /\ IsSocket(s.object)
     /\ inSyscall' = [inSyscall EXCEPT ![t].hooked = TRUE]
     /\ inSsl' = [k \in DOMAIN inSsl |->
                    IF k = t THEN [inSsl[k] EXCEPT !.used = @ \cup {s.object}] ELSE inSsl[k]]
     /\ RememberSocketContext(t, s.object)
     /\ IF IsUdp(s.object) /\ s.op \in Sends
        THEN Emit(Event("plaintext", "send", 0, s.object, UdpDestination(s), s))
        ELSE UNCHANGED ring
  /\ UNCHANGED <<objects, open, syscalls, sslCalls, bound, ssl_fds, readerVars>>

(* complete_recvfrom_peer: the sender of this datagram, if the caller asked*)
(* for it and the socket has no peer of its own.                           *)
RecvfromPeer(call, s) ==
  IF /\ IsUdp(call.tuple)
     /\ call.direction = "receive"
     /\ call.peer = NoPeer
     /\ call.peerAddress
  THEN s.peer
  ELSE call.peer

(* The programs at the exit skip what is not a socket, and UDP sends.      *)
(* Mutant: they do not skip UDP sends.                                     *)
EmitsAnySend(call) == call.tuple # NoTuple

EmitsAtExit(call) ==
  /\ call.tuple # NoTuple
  /\ ~(IsUdp(call.tuple) /\ call.direction = "send")

FinishIo(t, s, ok) ==
  /\ io_calls' = Without(io_calls, t)
  /\ IF ok /\ t \in DOMAIN io_calls /\ EmitsAtExit(io_calls[t])
     THEN Emit(Event("plaintext", io_calls[t].direction, io_calls[t].fd, io_calls[t].tuple,
                     RecvfromPeer(io_calls[t], s), s))
     ELSE UNCHANGED ring

(* ok: the call moved data, which a socket does below the socket layer.    *)
SysExit(t, ok) ==
  /\ t \in DOMAIN inSyscall
  /\ LET s == inSyscall[t] IN
     /\ ok => s.hooked \/ objects[s.object] = "file"
     /\ IF s.op \in EntryProbes THEN FinishIo(t, s, ok) ELSE UNCHANGED <<io_calls, ring>>
  /\ inSyscall' = Without(inSyscall, t)
  /\ UNCHANGED <<objects, open, syscalls, sslCalls, inSsl, bound, ssl_fds, ssl_calls, readerVars>>

-----------------------------------------------------------------------------
(***************************************************************************)
(* OpenSSL.                                                                *)
(***************************************************************************)
(* Two threads never use an SSL object at once.                            *)
InUse(c) == \E t \in DOMAIN inSsl : inSsl[t].context = c

SslSetFd(c, fd) ==
  /\ ~InUse(c)
  /\ open[fd] # Free /\ objects[open[fd]] = "tcp"
  /\ ~(c \in DOMAIN bound /\ bound[c] = fd)
  /\ bound' = Set(bound, c, fd)
  /\ ssl_fds' = Set(ssl_fds, c, fd)
  /\ UNCHANGED <<objects, open, syscalls, sslCalls, inSyscall, inSsl, io_calls, ssl_calls, ring, readerVars>>

SslFree(c) ==
  /\ ~InUse(c)
  /\ c \in DOMAIN bound
  /\ bound' = Without(bound, c)
  /\ ssl_fds' = Without(ssl_fds, c)
  /\ UNCHANGED <<objects, open, syscalls, sslCalls, inSyscall, inSsl, io_calls, ssl_calls, ring, readerVars>>

(* remember_ssl_call: only for an SSL object whose descriptor is known.    *)
SslEnter(t, c, direction) ==
  /\ t \notin DOMAIN inSyscall \cup DOMAIN inSsl
  /\ c \in DOMAIN bound
  /\ ~InUse(c)
  /\ sslCalls < MaxSslCalls /\ syscalls + sslCalls < MaxCalls
  /\ sslCalls' = sslCalls + 1
  /\ inSsl' = Set(inSsl, t, [context |-> c, fd |-> bound[c], direction |-> direction,
                             used |-> {}, id |-> sslCalls + 1])
  /\ ssl_calls' = IF c \in DOMAIN ssl_fds
                  THEN Set(ssl_calls, <<t, direction>>, [fd |-> ssl_fds[c], tuple |-> NoTuple])
                  ELSE ssl_calls
  /\ UNCHANGED <<objects, open, syscalls, inSyscall, bound, io_calls, ssl_fds, ring, readerVars>>

(* finish_ssl_call.  Mutant: the call is not forgotten.                    *)
FinishSslKept(t, direction, ok) ==
  LET k == <<t, direction>> IN
    /\ UNCHANGED ssl_calls
    /\ IF ok /\ k \in DOMAIN ssl_calls
       THEN Emit(Event("openssl", direction, ssl_calls[k].fd, ssl_calls[k].tuple, NoPeer, inSsl[t]))
       ELSE UNCHANGED ring

FinishSsl(t, direction, ok) ==
  LET k == <<t, direction>> IN
    /\ ssl_calls' = Without(ssl_calls, k)
    /\ IF ok /\ k \in DOMAIN ssl_calls
       THEN Emit(Event("openssl", direction, ssl_calls[k].fd, ssl_calls[k].tuple, NoPeer, inSsl[t]))
       ELSE UNCHANGED ring

SslExit(t, ok) ==
  /\ t \in DOMAIN inSsl \ DOMAIN inSyscall
  /\ FinishSsl(t, inSsl[t].direction, ok)
  /\ inSsl' = Without(inSsl, t)
  /\ UNCHANGED <<objects, open, syscalls, sslCalls, inSyscall, bound, io_calls, ssl_fds, readerVars>>

-----------------------------------------------------------------------------
(***************************************************************************)
(* The reader: bpfReader.Read, enrichL7Event, socketResolver.enrich.       *)
(***************************************************************************)
Touched(fd) == <<fd>> \o SelectSeq(recency, LAMBDA x : x # fd)

(* cachedTuple: an entry counts for the inode it was made for only.        *)
(* Mutant: any entry of the descriptor counts.                             *)
CachedForFd(fd, inode) == fd \in DOMAIN cache

Cached(fd, inode) == fd \in DOMAIN cache /\ cache[fd] = inode

ReadEvent ==
  /\ ring # <<>> /\ resolving = <<>>
  /\ ring' = Tail(ring)
  /\ LET e == Head(ring)
         inode == IF e.fd \in Fds THEN open[e.fd] ELSE Free IN
     \/ /\ e.tuple # NoTuple
        /\ delivered' = <<e>>
        /\ UNCHANGED <<resolving, cache, recency>>
     \/ (* the descriptor is closed or a file: a coverage drop *)
        /\ e.tuple = NoTuple
        /\ ~IsSocket(inode)
        /\ UNCHANGED readerVars
     \/ /\ e.tuple = NoTuple
        /\ IsSocket(inode)
        /\ IF Cached(e.fd, inode)
           THEN /\ delivered' = <<[e EXCEPT !.tuple = cache[e.fd], !.linked = inode]>>
                /\ recency' = Touched(e.fd)
                /\ UNCHANGED <<resolving, cache>>
           ELSE /\ resolving' = <<[e EXCEPT !.linked = inode]>>
                /\ cache' = Without(cache, e.fd)
                /\ recency' = SelectSeq(recency, LAMBDA x : x # e.fd)
                /\ UNCHANGED delivered
  /\ UNCHANGED <<envVars, mapVars>>

(* readProcessSocketTuple: the socket may have gone since the link was     *)
(* read, and a UDP socket is not in the table of TCP sockets.              *)
ReadTuple ==
  /\ resolving # <<>>
  /\ resolving' = <<>>
  /\ LET e == Head(resolving) IN
     IF (\E fd \in Fds : open[fd] = e.linked) /\ objects[e.linked] = "tcp"
     THEN LET keys == Touched(e.fd)
              kept == IF Len(keys) > CacheEntries THEN SubSeq(keys, 1, CacheEntries) ELSE keys IN
          /\ delivered' = <<[e EXCEPT !.tuple = e.linked]>>
          /\ recency' = kept
          /\ cache' = Restrict(Set(cache, e.fd, e.linked), {kept[i] : i \in 1..Len(kept)})
     ELSE UNCHANGED <<cache, recency, delivered>>
  /\ UNCHANGED <<envVars, mapVars, ring>>

-----------------------------------------------------------------------------
Process ==
  \/ \E fd \in Fds, kind \in ObjectKinds : Open(fd, kind)
  \/ \E fd \in Fds : Close(fd)
  \/ \E c \in Contexts, fd \in Fds : SslSetFd(c, fd)
  \/ \E c \in Contexts : SslFree(c)

Thread(t) ==
  \/ \E fd \in Fds : SysEnter(t, fd)
  \/ SocketLayer(t)
  \/ \E ok \in BOOLEAN : SysExit(t, ok)
  \/ \E c \in Contexts, direction \in {"send", "receive"} : SslEnter(t, c, direction)
  \/ \E ok \in BOOLEAN : SslExit(t, ok)

Next ==
  \/ Process
  \/ \E t \in Threads : Thread(t)
  \/ Evict
  \/ ReadEvent
  \/ ReadTuple

Spec == Init /\ [][Next]_vars

-----------------------------------------------------------------------------
Events == {ring[i] : i \in 1..Len(ring)} \cup {delivered[i] : i \in 1..Len(delivered)}

(* What the kernel attributes to a socket was exchanged on that socket, in *)
(* that direction and with that peer, by the very call that is reported:   *)
(* never on a descriptor's earlier or later socket, never a file or the    *)
(* error queue, never with the peer of another datagram.                   *)
FragmentsTrue ==
  \A e \in Events :
    IF e.source = "openssl"
    THEN /\ e.direction = e.call.direction
         /\ e.linked = NoTuple => e.tuple \in e.call.used \cup {NoTuple}
    ELSE /\ e.tuple = e.call.object
         /\ IsSocket(e.tuple)
         /\ e.call.op # "errqueue"
         /\ e.direction = DirectionOf(e.call.op)
         /\ e.peer \in {e.call.peer, NoPeer}

(* No call is reported twice, although a UDP send is seen both in the      *)
(* socket layer and at the exit of its system call.                        *)
Reported == ring \o delivered

OncePerCall ==
  \A i, j \in 1..Len(Reported) :
    Reported[i].source = Reported[j].source /\ Reported[i].call.id = Reported[j].call.id
      => i = j

(* A tuple that user space adds is the one of the socket that the          *)
(* descriptor refers to when the event is read, never a remembered one of  *)
(* a socket that had the descriptor before.                                *)
ResolvedFresh ==
  \A i \in 1..Len(delivered) :
    delivered[i].linked # NoTuple => delivered[i].tuple = delivered[i].linked
=============================================================================
