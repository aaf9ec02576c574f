------------------------- MODULE WhatapClient_proofs -------------------------
(***************************************************************************)
(* What Send's result says about the frame, for every number of calls and  *)
(* servers.  WrittenAtMostOnce is not inductive: CallInv adds, for each    *)
(* place in Send, what the call can have written when it is there.         *)
(***************************************************************************)
EXTENDS WhatapClient, TLAPS

(* Places before the first write of this call.                             *)
Unwritten == {"idle", "gate", "serialize", "current", "attempt", "dial", "register",
              "handshake", "ready", "start", "frame", "encode"}

Places == Unwritten \cup {"write", "written", "drop", "clear", "done"}

HistoryTypeOK ==
  /\ at \in [Calls -> Places]
  /\ sess \in [Calls -> Sessions \cup {NoSession}]
  /\ wrote \in [Calls -> SUBSET (Sessions \cup {NoSession})]
  /\ complete \in [Calls -> SUBSET (Sessions \cup {NoSession})]
  /\ result \in [Calls -> {"none", "nil", "ambiguous", "error"}]
  /\ session \in Sessions \cup {NoSession}

CallInv(p) ==
  /\ at[p] \in Unwritten => wrote[p] = {}
  /\ at[p] \in {"write", "written"} => wrote[p] = {sess[p]}
  /\ at[p] \in {"drop", "clear"} => wrote[p] \subseteq {sess[p]}
  /\ at[p] # "done" => result[p] = "none"
  /\ \A s, t \in wrote[p] : s = t
  /\ result[p] = "nil" => complete[p] # {}
  /\ result[p] = "error" => wrote[p] = {}

SendInv == HistoryTypeOK /\ \A p \in Calls : CallInv(p)

LEMMA SendInvInit == Init => SendInv
BY DEF Init, SendInv, HistoryTypeOK, CallInv, Places, Unwritten

(* The steps of one call leave the history of the others alone.            *)
LEMMA SendInvCall ==
  ASSUME SendInv, NEW p \in Calls, CallSteps(p)
  PROVE  SendInv'
<1> USE DEF SendInv, HistoryTypeOK, CallInv, Places, Unwritten, Goto, Return, CtxEnds
<1>1. CASE Begin(p) \/ GiveUp(p) \/ Enter(p) \/ Serialize(p) \/ CurrentSession(p)
  BY <1>1 DEF Begin, GiveUp, Enter, Serialize, CurrentSession
<1>2. CASE Attempt(p) \/ DialFail(p) \/ Dial(p) \/ Register(p)
  BY <1>2 DEF Attempt, DialFail, Dial, Register
<1>3. CASE HandshakeFail(p) \/ Handshake(p) \/ Ready(p) \/ Start(p)
  BY <1>3 DEF HandshakeFail, Handshake, Ready, Start
<1>4. CASE CheckFrame(p) \/ BeginWrite(p) \/ WriteFail(p) \/ Write(p)
  BY <1>4 DEF CheckFrame, BeginWrite, WriteFail, Write
<1>5. CASE AfterWrite(p)
  BY <1>5 DEF AfterWrite
<1>6. CASE Drop(p) \/ Clear(p)
  BY <1>6 DEF Drop, Clear, Cleared
<1>7. CASE Expire(p) \/ CancelledByClose(p) \/ WatchCloses(p)
  BY <1>7 DEF Expire, CancelledByClose, WatchCloses, callVars
<1> QED
  BY <1>1, <1>2, <1>3, <1>4, <1>5, <1>6, <1>7 DEF CallSteps, Local, Network

LEMMA SendInvNext == SendInv /\ [Next]_vars => SendInv'
<1> SUFFICES ASSUME SendInv, [Next]_vars PROVE SendInv'
  OBVIOUS
<1>1. CASE \E p \in Calls : CallSteps(p)
  BY <1>1, SendInvCall
<1>2. ASSUME NEW s \in Sessions, ReaderEnds(s) \/ ReaderDone(s) PROVE SendInv'
  BY <1>2 DEF ReaderEnds, ReaderDone, Cleared, callVars, SendInv, HistoryTypeOK, CallInv
<1>3. CASE CloseBegin \/ CloseSession \/ CloseReturn
  BY <1>3 DEF CloseBegin, CloseSession, CloseReturn, callVars, SendInv, HistoryTypeOK, CallInv
<1>4. CASE UNCHANGED vars
  BY <1>4 DEF vars, callVars, SendInv, HistoryTypeOK, CallInv
<1> QED BY <1>1, <1>2, <1>3, <1>4 DEF Next

(* Send never writes its frame on a second session, nil means that all of  *)
(* it was written, and a plain error that none of it was.                  *)
THEOREM FrameWrittenAtMostOnce == Spec => []WrittenAtMostOnce
<1>1. SendInv => WrittenAtMostOnce
  BY DEF SendInv, CallInv, WrittenAtMostOnce
<1> QED BY <1>1, SendInvInit, SendInvNext, PTL DEF Spec

-----------------------------------------------------------------------------
(***************************************************************************)
(* Sessions.  The gate lets one call at a time beyond Enter, so the        *)
(* session that a call works on is the client's session, unless its reader *)
(* or Close took it away.                                                  *)
(***************************************************************************)
Dialing == {"attempt", "dial", "register"}
Holding == {"handshake", "ready", "start", "frame", "encode", "write", "written", "drop"}
Inside == {"serialize", "current"} \cup Dialing \cup Holding \cup {"clear"}

SessionTypeOK ==
  /\ HistoryTypeOK
  /\ gate \in BOOLEAN /\ closed \in BOOLEAN
  /\ status \in [Sessions -> {"unused", "open", "closed"}]
  /\ reader \in [Sessions -> {"none", "running", "dropping", "done"}]
  /\ closing \in Sessions \cup {NoSession}
  /\ closeAt \in {"open", "session", "wait", "returned"}
  /\ closeAt # "open" => closed
  /\ \A s \in Sessions : reader[s] \in {"dropping", "done"} => status[s] = "closed"

Exclusion ==
  /\ gate => \A p \in Calls : at[p] \notin Inside
  /\ \A p, q \in Calls : at[p] \in Inside /\ at[q] \in Inside => p = q

Owned(p) ==
  /\ at[p] \in Dialing => session = NoSession
  /\ at[p] \in {"attempt", "dial", "clear"} =>
       \A s \in Sessions : sess[p] = s => status[s] = "closed"
  /\ at[p] \in Holding \cup {"register", "clear"} => sess[p] \in Sessions
  /\ at[p] \in Holding \cup {"clear"} =>
       /\ session \in {NoSession, sess[p]}
       /\ status[sess[p]] = "open" => sess[p] = session \/ (closeAt = "session" /\ closing = sess[p])
  /\ at[p] \in {"idle", "gate", "serialize", "current"} => sess[p] = NoSession

SessionInv ==
  SessionTypeOK /\ Exclusion /\ CloseJoins /\ NoSessionLeak /\ \A p \in Calls : Owned(p)

LEMMA SessionsAreNumbers == Sessions \subseteq Nat /\ NoSession \notin Sessions
BY DEF Sessions, NoSession

LEMMA SessionInvInit == Init => SessionInv
<1> SUFFICES ASSUME Init PROVE SessionInv
  OBVIOUS
<1> USE SessionsAreNumbers DEF Init
<1>1. SessionTypeOK
  BY SendInvInit DEF SendInv, SessionTypeOK
<1>2. Exclusion /\ \A p \in Calls : Owned(p)
  BY DEF Exclusion, Owned, Inside, Dialing, Holding
<1>3. CloseJoins /\ NoSessionLeak
  BY DEF CloseJoins, NoSessionLeak
<1> QED BY <1>1, <1>2, <1>3 DEF SessionInv

(* A call that is alone beyond the gate and works on its own session keeps *)
(* the invariant; the calls that wait see only the gate.                   *)
LEMMA SessionInvCall ==
  ASSUME SessionInv, HistoryTypeOK', NEW p \in Calls, CallSteps(p)
  PROVE  SessionInv'
<1> USE SessionsAreNumbers
<1> USE DEF SessionInv, SessionTypeOK, HistoryTypeOK, Exclusion, CloseJoins, NoSessionLeak, Owned,
            Places, Unwritten, Inside, Dialing, Holding, Running, Goto, Return, CloseConn,
            OperationError, Joined
<1>1. CASE Begin(p)
  BY <1>1 DEF Begin
<1>2. CASE GiveUp(p)
  BY <1>2 DEF GiveUp
<1>3. CASE Enter(p)
  <2>1. SessionTypeOK' /\ CloseJoins'
    BY <1>3 DEF Enter
  <2>2. gate' => \A q \in Calls : at'[q] \notin Inside
    BY <1>3 DEF Enter
  <2>3. \A q, r \in Calls : at'[q] \in Inside /\ at'[r] \in Inside => q = r
    BY <1>3 DEF Enter
  <2>4. NoSessionLeak'
    BY <1>3 DEF Enter
  <2>5. \A q \in Calls : Owned(q)'
    BY <1>3 DEF Enter
  <2> QED BY <2>1, <2>2, <2>3, <2>4, <2>5
<1>4. CASE Serialize(p)
  <2>1. SessionTypeOK' /\ CloseJoins'
    BY <1>4 DEF Serialize
  <2>2. gate' => \A q \in Calls : at'[q] \notin Inside
    <3>1. at[p] \in Inside
      BY <1>4 DEF Serialize
    <3>2. \A q \in Calls \ {p} : at'[q] \notin Inside
      BY <1>4, <3>1 DEF Serialize
    <3>3. ~gate
      BY <3>1
    <3>4. at'[p] = "done" \/ gate' = gate
      BY <1>4 DEF Serialize
    <3> QED BY <3>2, <3>3, <3>4
  <2>3. \A q, r \in Calls : at'[q] \in Inside /\ at'[r] \in Inside => q = r
    BY <1>4 DEF Serialize
  <2>4. NoSessionLeak'
    BY <1>4 DEF Serialize
  <2>5. \A q \in Calls : Owned(q)'
    BY <1>4 DEF Serialize
  <2> QED BY <2>1, <2>2, <2>3, <2>4, <2>5
<1>5. CASE CurrentSession(p)
  BY <1>5 DEF CurrentSession
<1>6. CASE Attempt(p)
  <2>1. SessionTypeOK' /\ CloseJoins'
    BY <1>6 DEF Attempt
  <2>2. gate' => \A q \in Calls : at'[q] \notin Inside
    <3>1. at[p] \in Inside
      BY <1>6 DEF Attempt
    <3>2. \A q \in Calls \ {p} : at'[q] \notin Inside
      BY <1>6, <3>1 DEF Attempt
    <3>3. ~gate
      BY <3>1
    <3>4. at'[p] = "done" \/ gate' = gate
      BY <1>6 DEF Attempt
    <3> QED BY <3>2, <3>3, <3>4
  <2>3. \A q, r \in Calls : at'[q] \in Inside /\ at'[r] \in Inside => q = r
    BY <1>6 DEF Attempt
  <2>4. NoSessionLeak'
    BY <1>6 DEF Attempt
  <2>5. \A q \in Calls : Owned(q)'
    BY <1>6 DEF Attempt
  <2> QED BY <2>1, <2>2, <2>3, <2>4, <2>5
<1>7. CASE DialFail(p)
  BY <1>7 DEF DialFail
<1>8. CASE Dial(p)
  BY <1>8 DEF Dial
<1>9. CASE Register(p)
  BY <1>9 DEF Register
<1>10. CASE HandshakeFail(p)
  BY <1>10 DEF HandshakeFail
<1>11. CASE Handshake(p)
  BY <1>11 DEF Handshake
<1>12. CASE Ready(p)
  BY <1>12 DEF Ready
<1>13. CASE Start(p)
  BY <1>13 DEF Start
<1>14. CASE CheckFrame(p)
  BY <1>14 DEF CheckFrame
<1>15. CASE BeginWrite(p)
  BY <1>15 DEF BeginWrite
<1>16. CASE WriteFail(p)
  BY <1>16 DEF WriteFail
<1>17. CASE Write(p)
  BY <1>17 DEF Write
<1>18. CASE AfterWrite(p)
  <2>1. SessionTypeOK' /\ CloseJoins'
    BY <1>18 DEF AfterWrite
  <2>2. gate' => \A q \in Calls : at'[q] \notin Inside
    <3>1. at[p] \in Inside
      BY <1>18 DEF AfterWrite
    <3>2. \A q \in Calls \ {p} : at'[q] \notin Inside
      BY <1>18, <3>1 DEF AfterWrite
    <3>3. ~gate
      BY <3>1
    <3>4. at'[p] = "done" \/ gate' = gate
      BY <1>18 DEF AfterWrite
    <3> QED BY <3>2, <3>3, <3>4
  <2>3. \A q, r \in Calls : at'[q] \in Inside /\ at'[r] \in Inside => q = r
    BY <1>18 DEF AfterWrite
  <2>4. NoSessionLeak'
    BY <1>18 DEF AfterWrite
  <2>5. \A q \in Calls : Owned(q)'
    BY <1>18 DEF AfterWrite
  <2> QED BY <2>1, <2>2, <2>3, <2>4, <2>5
<1>19. CASE Drop(p)
  BY <1>19 DEF Drop
<1>20. CASE Clear(p)
  <2>1. SessionTypeOK' /\ CloseJoins'
    BY <1>20 DEF Clear, Cleared
  <2>2. gate' => \A q \in Calls : at'[q] \notin Inside
    <3>1. at[p] \in Inside
      BY <1>20 DEF Clear, Cleared
    <3>2. \A q \in Calls \ {p} : at'[q] \notin Inside
      BY <1>20, <3>1 DEF Clear, Cleared
    <3>3. ~gate
      BY <3>1
    <3>4. at'[p] = "done" \/ gate' = gate
      BY <1>20 DEF Clear, Cleared
    <3> QED BY <3>2, <3>3, <3>4
  <2>3. \A q, r \in Calls : at'[q] \in Inside /\ at'[r] \in Inside => q = r
    BY <1>20 DEF Clear, Cleared
  <2>4. NoSessionLeak'
    BY <1>20 DEF Clear, Cleared
  <2>5. \A q \in Calls : Owned(q)'
    BY <1>20 DEF Clear, Cleared
  <2> QED BY <2>1, <2>2, <2>3, <2>4, <2>5
<1>21. CASE Expire(p) \/ CancelledByClose(p)
  BY <1>21 DEF Expire, CancelledByClose
<1>22. CASE WatchCloses(p)
  BY <1>22 DEF WatchCloses, Watched, callVars
<1> QED
  BY <1>1, <1>2, <1>3, <1>4, <1>5, <1>6, <1>7, <1>8, <1>9, <1>10, <1>11, <1>12, <1>13, <1>14,
     <1>15, <1>16, <1>17, <1>18, <1>19, <1>20, <1>21, <1>22 DEF CallSteps, Local, Network

LEMMA SessionInvNext == SendInv /\ SessionInv /\ [Next]_vars => SessionInv'
<1> SUFFICES ASSUME SendInv, SessionInv, [Next]_vars PROVE SessionInv'
  OBVIOUS
<1>0. HistoryTypeOK'
  BY SendInvNext DEF SendInv
<1>1. CASE \E p \in Calls : CallSteps(p)
  BY <1>0, <1>1, SessionInvCall
<1> USE SessionsAreNumbers
<1> USE DEF SessionInv, SessionTypeOK, HistoryTypeOK, Exclusion, CloseJoins, NoSessionLeak, Owned,
            Inside, Dialing, Holding, Running, CloseConn, callVars
<1>2. ASSUME NEW s \in Sessions, ReaderEnds(s) PROVE SessionInv'
  BY <1>0, <1>2 DEF ReaderEnds
<1>3. ASSUME NEW s \in Sessions, ReaderDone(s) PROVE SessionInv'
  BY <1>0, <1>3 DEF ReaderDone, Cleared
<1>4. CASE CloseBegin
  BY <1>0, <1>4 DEF CloseBegin
<1>5. CASE CloseSession
  <2>1. CASE closing = NoSession
    BY <1>0, <1>5, <2>1 DEF CloseSession
  <2>2. CASE closing \in Sessions
    <3>1. /\ status' = [status EXCEPT ![closing] = "closed"] /\ closeAt' = "wait" /\ closed
          /\ UNCHANGED <<callVars, gate, session, closed, reader, closing>>
      BY <1>5, <2>2 DEF CloseSession
    <3>2. SessionTypeOK' /\ CloseJoins'
      BY <1>0, <2>2, <3>1
    <3>3. Exclusion'
      BY <3>1
    <3>4. NoSessionLeak'
      BY <2>2, <3>1
    <3>5. \A p \in Calls : Owned(p)'
      BY <2>2, <3>1
    <3> QED BY <3>2, <3>3, <3>4, <3>5
  <2> QED BY <2>1, <2>2
<1>6. CASE CloseReturn
  BY <1>0, <1>6 DEF CloseReturn
<1>7. CASE UNCHANGED vars
  BY <1>7 DEF vars
<1> QED BY <1>1, <1>2, <1>3, <1>4, <1>5, <1>6, <1>7 DEF Next

(* A connection that is open is the client's, or a running Send or Close   *)
(* holds it: none is leaked on any path of connect, sendFrame, dropSession *)
(* or Close.                                                               *)
THEOREM SessionsNotLeaked == Spec => []NoSessionLeak
<1>1. SessionInv => NoSessionLeak
  BY DEF SessionInv
<1> QED BY <1>1, SendInvInit, SendInvNext, SessionInvInit, SessionInvNext, PTL DEF Spec

(* No reader runs or starts once Close has returned.                       *)
THEOREM CloseWaitsForReaders == Spec => []CloseJoins
<1>1. SessionInv => CloseJoins
  BY DEF SessionInv
<1> QED BY <1>1, SendInvInit, SendInvNext, SessionInvInit, SessionInvNext, PTL DEF Spec
=============================================================================
