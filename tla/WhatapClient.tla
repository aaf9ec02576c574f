---------------------------- MODULE WhatapClient ----------------------------
(***************************************************************************)
(* whatap.Client (internal/whatap/client.go): Send writes one frame over a *)
(* session that is kept for the next call, or dials the servers in turn;   *)
(* a reader goroutine drains each established session; Close may be called *)
(* at any time.                                                            *)
(*                                                                         *)
(* The processes are the calls of Send, the callback that closes the       *)
(* connection of a call whose context is over (watchConnection), the       *)
(* readers, and Close.  The network decides how dials, handshakes and      *)
(* writes end; a deadline that ends one attempt is one of its failures.    *)
(* Frames, ciphers and the handshake's content are left out.               *)
(***************************************************************************)
EXTENDS Integers, FiniteSets

CONSTANTS
  Calls,      \* calls of Send
  NServers    \* len(Config.Servers)

ASSUME WhatapAssumption ==
  /\ IsFiniteSet(Calls)
  /\ NServers \in Nat \ {0}

Sessions == 1 .. Cardinality(Calls) * NServers    \* one dial per call and server
NoSession == 0

-----------------------------------------------------------------------------
VARIABLES
  \* per call
  at,        \* where it is
  sess,      \* its local s
  server,    \* its loop index i; 0 while it uses the session it found
  ctxDone,   \* its context is over: timeout, caller, or Close
  wrote,     \* history: the sessions on which it began to write its frame
  complete,  \* history: the sessions on which that write succeeded
  result,    \* "none", "nil", "ambiguous" or "error"
  \* the Client
  gate,      \* the token is in the channel
  session,   \* c.session
  closed,    \* c.closed, and closeCtx is cancelled
  \* sessions
  status,    \* "unused", "open" or "closed"
  reader,    \* "none", "running", "dropping" or "done"
  \* Close
  closeAt, closing

callVars == <<at, sess, server, ctxDone, wrote, complete, result>>
vars == <<callVars, gate, session, closed, status, reader, closeAt, closing>>

Init ==
  /\ at = [p \in Calls |-> "idle"]
  /\ sess = [p \in Calls |-> NoSession]
  /\ server = [p \in Calls |-> 0]
  /\ ctxDone = [p \in Calls |-> FALSE]
  /\ wrote = [p \in Calls |-> {}] /\ complete = [p \in Calls |-> {}]
  /\ result = [p \in Calls |-> "none"]
  /\ gate = TRUE /\ session = NoSession /\ closed = FALSE
  /\ status = [s \in Sessions |-> "unused"]
  /\ reader = [s \in Sessions |-> "none"]
  /\ closeAt = "open" /\ closing = NoSession

OperationError(p) == closed \/ ctxDone[p]

Goto(p, l) == at' = [at EXCEPT ![p] = l]

CloseConn(s) == status' = [status EXCEPT ![s] = "closed"]

(* Leaves Send; the deferred function puts the token back.                 *)
Return(p, r) ==
  /\ Goto(p, "done")
  /\ result' = [result EXCEPT ![p] = r]
  /\ gate' = TRUE

-----------------------------------------------------------------------------
(***************************************************************************)
(* Send: the gate, the pack, the session.                                  *)
(***************************************************************************)
Begin(p) ==
  /\ at[p] = "idle"
  /\ Goto(p, "gate")
  /\ UNCHANGED <<sess, server, ctxDone, wrote, complete, result, gate, session, closed,
                 status, reader, closeAt, closing>>

GiveUp(p) ==
  /\ at[p] = "gate"
  /\ OperationError(p)
  /\ Goto(p, "done")
  /\ result' = [result EXCEPT ![p] = "error"]
  /\ UNCHANGED <<sess, server, ctxDone, wrote, complete, gate, session, closed,
                 status, reader, closeAt, closing>>

Enter(p) ==
  /\ at[p] = "gate"
  /\ gate
  /\ gate' = FALSE
  /\ Goto(p, "serialize")
  /\ UNCHANGED <<sess, server, ctxDone, wrote, complete, result, session, closed,
                 status, reader, closeAt, closing>>

(* A pack with a foreign identity or over the frame limit is refused.      *)
Serialize(p) ==
  /\ at[p] = "serialize"
  /\ \/ Return(p, "error")
     \/ ~OperationError(p) /\ Goto(p, "current") /\ UNCHANGED <<result, gate>>
  /\ UNCHANGED <<sess, server, ctxDone, wrote, complete, session, closed,
                 status, reader, closeAt, closing>>

CurrentSession(p) ==
  /\ at[p] = "current"
  /\ sess' = [sess EXCEPT ![p] = session]
  /\ IF session = NoSession
     THEN Goto(p, "attempt") /\ server' = [server EXCEPT ![p] = 1]
     ELSE Goto(p, "frame") /\ UNCHANGED server
  /\ UNCHANGED <<ctxDone, wrote, complete, result, gate, session, closed,
                 status, reader, closeAt, closing>>

-----------------------------------------------------------------------------
(***************************************************************************)
(* Send: connect.                                                          *)
(***************************************************************************)

(* The head of the loop over the servers, and what follows the loop.       *)
Attempt(p) ==
  /\ at[p] = "attempt"
  /\ IF server[p] > NServers \/ OperationError(p)
     THEN Return(p, "error")
     ELSE Goto(p, "dial") /\ UNCHANGED <<result, gate>>
  /\ UNCHANGED <<sess, server, ctxDone, wrote, complete, session, closed,
                 status, reader, closeAt, closing>>

DialFail(p) ==
  /\ at[p] = "dial"
  /\ server' = [server EXCEPT ![p] = @ + 1]
  /\ Goto(p, "attempt")
  /\ UNCHANGED <<sess, ctxDone, wrote, complete, result, gate, session, closed,
                 status, reader, closeAt, closing>>

Dial(p) ==
  /\ at[p] = "dial"
  /\ \E s \in Sessions :
       /\ status[s] = "unused" /\ \A t \in 1..(s - 1) : status[t] # "unused"
       /\ status' = [status EXCEPT ![s] = "open"]
       /\ sess' = [sess EXCEPT ![p] = s]
  /\ Goto(p, "register")
  /\ UNCHANGED <<server, ctxDone, wrote, complete, result, gate, session, closed,
                 reader, closeAt, closing>>

Register(p) ==
  /\ at[p] = "register"
  /\ IF closed
     THEN /\ CloseConn(sess[p])
          /\ server' = [server EXCEPT ![p] = @ + 1]
          /\ Goto(p, "attempt")
          /\ UNCHANGED session
     ELSE /\ session' = sess[p]
          /\ Goto(p, "handshake")
          /\ UNCHANGED <<status, server>>
  /\ UNCHANGED <<sess, ctxDone, wrote, complete, result, gate, closed, reader,
                 closeAt, closing>>

HandshakeFail(p) ==
  /\ at[p] = "handshake"
  /\ Goto(p, "drop")
  /\ UNCHANGED <<sess, server, ctxDone, wrote, complete, result, gate, session, closed,
                 status, reader, closeAt, closing>>

Handshake(p) ==
  /\ at[p] = "handshake"
  /\ status[sess[p]] = "open"
  /\ Goto(p, "ready")
  /\ UNCHANGED <<sess, server, ctxDone, wrote, complete, result, gate, session, closed,
                 status, reader, closeAt, closing>>

(* stop: the callback cannot run any more, or has run to its end.          *)
Joined(p) == ctxDone[p] => status[sess[p]] = "closed"

Ready(p) ==
  /\ at[p] = "ready"
  /\ Joined(p)
  /\ Goto(p, IF OperationError(p) THEN "drop" ELSE "start")
  /\ UNCHANGED <<sess, server, ctxDone, wrote, complete, result, gate, session, closed,
                 status, reader, closeAt, closing>>

(* Mutant: neither Close nor the end of the session is looked at.          *)
StartUnchecked(p) ==
  /\ at[p] = "start"
  /\ reader' = [reader EXCEPT ![sess[p]] = "running"]
  /\ Goto(p, "frame")
  /\ UNCHANGED <<sess, server, ctxDone, wrote, complete, result, gate, session, closed,
                 status, closeAt, closing>>

(* Under mu, as Close's assignment of closed, so that Close waits for      *)
(* every reader that was started.                                          *)
Start(p) ==
  /\ at[p] = "start"
  /\ IF closed \/ status[sess[p]] = "closed"
     THEN Goto(p, "drop") /\ UNCHANGED reader
     ELSE Goto(p, "frame") /\ reader' = [reader EXCEPT ![sess[p]] = "running"]
  /\ UNCHANGED <<sess, server, ctxDone, wrote, complete, result, gate, session, closed,
                 status, closeAt, closing>>

-----------------------------------------------------------------------------
(***************************************************************************)
(* Send: sendFrame and dropSession.                                        *)
(***************************************************************************)
CheckFrame(p) ==
  /\ at[p] = "frame"
  /\ Goto(p, IF OperationError(p) \/ status[sess[p]] = "closed" THEN "drop" ELSE "encode")
  /\ UNCHANGED <<sess, server, ctxDone, wrote, complete, result, gate, session, closed,
                 status, reader, closeAt, closing>>

BeginWrite(p) ==
  /\ at[p] = "encode"
  /\ IF OperationError(p)
     THEN Goto(p, "drop") /\ UNCHANGED wrote
     ELSE Goto(p, "write") /\ wrote' = [wrote EXCEPT ![p] = @ \cup {sess[p]}]
  /\ UNCHANGED <<sess, server, ctxDone, complete, result, gate, session, closed,
                 status, reader, closeAt, closing>>

WriteFail(p) ==
  /\ at[p] = "write"
  /\ Goto(p, "written")
  /\ UNCHANGED <<sess, server, ctxDone, wrote, complete, result, gate, session, closed,
                 status, reader, closeAt, closing>>

Write(p) ==
  /\ at[p] = "write"
  /\ status[sess[p]] = "open"
  /\ complete' = [complete EXCEPT ![p] = @ \cup {sess[p]}]
  /\ Goto(p, "written")
  /\ UNCHANGED <<sess, server, ctxDone, wrote, result, gate, session, closed,
                 status, reader, closeAt, closing>>

AfterWrite(p) ==
  /\ at[p] = "written"
  /\ Joined(p)
  /\ IF ~OperationError(p) /\ sess[p] \in complete[p]
     THEN Return(p, "nil")
     ELSE Goto(p, "drop") /\ UNCHANGED <<result, gate>>
  /\ UNCHANGED <<sess, server, ctxDone, wrote, complete, session, closed,
                 status, reader, closeAt, closing>>

(* Mutant: the session is forgotten, its connection stays open.            *)
DropKeepsConn(p) ==
  /\ at[p] = "drop"
  /\ Goto(p, "clear")
  /\ UNCHANGED <<sess, server, ctxDone, wrote, complete, result, gate, session, closed,
                 status, reader, closeAt, closing>>

Drop(p) ==
  /\ at[p] = "drop"
  /\ CloseConn(sess[p])
  /\ Goto(p, "clear")
  /\ UNCHANGED <<sess, server, ctxDone, wrote, complete, result, gate, session, closed,
                 reader, closeAt, closing>>

Cleared(s) == IF session = s THEN NoSession ELSE session

(* Mutant: a frame whose write failed is sent to the next server.          *)
ClearRetries(p) ==
  /\ at[p] = "clear"
  /\ session' = Cleared(sess[p])
  /\ Goto(p, "attempt")
  /\ server' = [server EXCEPT ![p] = @ + 1]
  /\ UNCHANGED <<sess, ctxDone, wrote, complete, result, gate, closed, status, reader,
                 closeAt, closing>>

(* Nothing was attempted on this session: the next server is tried.  Else  *)
(* the collector may have the frame, and Send does not write it again.     *)
Clear(p) ==
  /\ at[p] = "clear"
  /\ session' = Cleared(sess[p])
  /\ IF sess[p] \in wrote[p]
     THEN Return(p, "ambiguous") /\ UNCHANGED server
     ELSE /\ Goto(p, "attempt")
          /\ server' = [server EXCEPT ![p] = @ + 1]
          /\ UNCHANGED <<result, gate>>
  /\ UNCHANGED <<sess, ctxDone, wrote, complete, closed, status, reader, closeAt, closing>>

-----------------------------------------------------------------------------
(***************************************************************************)
(* Contexts, the callback, readers and Close.                              *)
(***************************************************************************)
CtxEnds(p) == ctxDone' = [ctxDone EXCEPT ![p] = TRUE]

Running(p) == at[p] \notin {"idle", "done"}

(* The timeout of the client, or the caller.                               *)
Expire(p) ==
  /\ Running(p) /\ ~ctxDone[p]
  /\ CtxEnds(p)
  /\ UNCHANGED <<at, sess, server, wrote, complete, result, gate, session, closed, status,
                 reader, closeAt, closing>>

(* closeCtx is over: the callback that Send registered cancels its context.*)
CancelledByClose(p) ==
  /\ Running(p) /\ ~ctxDone[p] /\ closed
  /\ CtxEnds(p)
  /\ UNCHANGED <<at, sess, server, wrote, complete, result, gate, session, closed, status,
                 reader, closeAt, closing>>

Watched == {"handshake", "ready", "frame", "encode", "write", "written"}

WatchCloses(p) ==
  /\ at[p] \in Watched /\ ctxDone[p] /\ status[sess[p]] = "open"
  /\ CloseConn(sess[p])
  /\ UNCHANGED <<callVars, gate, session, closed, reader, closeAt, closing>>

(* A read fails: the connection was closed on either side, or the          *)
(* collector broke the protocol or stalled inside a frame.                 *)
ReaderEnds(s) ==
  /\ reader[s] = "running"
  /\ reader' = [reader EXCEPT ![s] = "dropping"]
  /\ CloseConn(s)
  /\ UNCHANGED <<callVars, gate, session, closed, closeAt, closing>>

ReaderDone(s) ==
  /\ reader[s] = "dropping"
  /\ session' = Cleared(s)
  /\ reader' = [reader EXCEPT ![s] = "done"]
  /\ UNCHANGED <<callVars, gate, closed, status, closeAt, closing>>

CloseBegin ==
  /\ closeAt = "open"
  /\ closed' = TRUE
  /\ closing' = session /\ session' = NoSession
  /\ closeAt' = "session"
  /\ UNCHANGED <<callVars, gate, status, reader>>

(* Mutant: Close waits for the readers of a session that it left open.     *)
CloseSessionOnlyWaits ==
  /\ closeAt = "session"
  /\ closeAt' = "wait"
  /\ UNCHANGED <<callVars, gate, session, closed, status, reader, closing>>

CloseSession ==
  /\ closeAt = "session"
  /\ IF closing = NoSession THEN UNCHANGED status ELSE CloseConn(closing)
  /\ closeAt' = "wait"
  /\ UNCHANGED <<callVars, gate, session, closed, reader, closing>>

CloseReturn ==
  /\ closeAt = "wait"
  /\ \A s \in Sessions : reader[s] \in {"none", "done"}
  /\ closeAt' = "returned"
  /\ UNCHANGED <<callVars, gate, session, closed, status, reader, closing>>

-----------------------------------------------------------------------------
(* Steps that wait for nobody.                                             *)
Local(p) ==
  \/ GiveUp(p) \/ Enter(p) \/ Serialize(p) \/ CurrentSession(p) \/ Attempt(p)
  \/ Register(p) \/ Ready(p) \/ Start(p)
  \/ CheckFrame(p) \/ BeginWrite(p) \/ AfterWrite(p) \/ Drop(p) \/ Clear(p)

(* What the network decides.                                               *)
Network(p) ==
  \/ DialFail(p) \/ Dial(p) \/ HandshakeFail(p) \/ Handshake(p)
  \/ WriteFail(p) \/ Write(p)

CallSteps(p) ==
  \/ Begin(p) \/ Local(p) \/ Network(p) \/ Expire(p) \/ CancelledByClose(p) \/ WatchCloses(p)

Next ==
  \/ \E p \in Calls : CallSteps(p)
  \/ \E s \in Sessions : ReaderEnds(s) \/ ReaderDone(s)
  \/ CloseBegin \/ CloseSession \/ CloseReturn

(* A blocked dial returns when its context is over, and a blocked          *)
(* handshake, write or read when its connection is closed.                 *)
Interrupted(p) ==
  \/ ctxDone[p] /\ DialFail(p)
  \/ at[p] \in {"handshake", "write"} /\ status[sess[p]] = "closed"
       /\ (HandshakeFail(p) \/ WriteFail(p))

(* Goroutines run; nothing is assumed of timeouts, of the collector or of  *)
(* whether Close is called.                                                *)
Fairness ==
  /\ \A p \in Calls :
       /\ WF_vars(Local(p)) /\ WF_vars(Interrupted(p))
       /\ WF_vars(CancelledByClose(p)) /\ WF_vars(WatchCloses(p))
  /\ \A s \in Sessions :
       /\ WF_vars(status[s] = "closed" /\ ReaderEnds(s))
       /\ WF_vars(ReaderDone(s))
  /\ WF_vars(CloseSession) /\ WF_vars(CloseReturn)

Spec == Init /\ [][Next]_vars
FairSpec == Spec /\ Fairness

-----------------------------------------------------------------------------
(***************************************************************************)
(* Properties.                                                             *)
(***************************************************************************)

(* A frame goes out on at most one session, whatever fails and however     *)
(* many servers are left; a call that returns nil has written all of it,   *)
(* and an error that is not ErrAmbiguousDelivery means none was written.   *)
WrittenAtMostOnce ==
  \A p \in Calls :
    /\ \A s, t \in wrote[p] : s = t
    /\ result[p] = "nil" => complete[p] # {}
    /\ result[p] = "error" => wrote[p] = {}

(* No connection is leaked: an open one is the client's, or a running Send *)
(* or Close holds it and will close it or hand it over.                    *)
NoSessionLeak ==
  \A s \in Sessions :
    status[s] = "open" =>
      \/ s = session
      \/ \E p \in Calls : Running(p) /\ sess[p] = s
      \/ closeAt = "session" /\ closing = s

(* "waits for its readers to exit": none runs, or starts, after Close has  *)
(* returned.                                                               *)
CloseJoins == closeAt = "returned" => \A s \in Sessions : reader[s] \in {"none", "done"}

(* "cancels dialing, handshakes, writes, and queued Sends": after Close    *)
(* was called every running Send returns and Close does, although no       *)
(* timeout elapses and the collector never answers.                        *)
CloseInterrupts ==
  closed ~> closeAt = "returned" /\ \A p \in Calls : ~Running(p)
=============================================================================
