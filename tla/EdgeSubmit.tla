----------------------------- MODULE EdgeSubmit -----------------------------
(***************************************************************************)
(* network-edge-submit (cmd/network-edge-submit/main.go) and its           *)
(* bridge.Client (internal/bridge): completed windows, read as JSONL from  *)
(* the agent's stdout, go to the node's queue one request at a time, with  *)
(* an acknowledgement for each.  The first failure ends the program.       *)
(*                                                                         *)
(* A line is its kind and its number.  The node is external: it reads a    *)
(* frame when it likes, also after the client gave up on it, and queues or *)
(* rejects it.                                                             *)
(***************************************************************************)
EXTENDS Integers, Sequences

VARIABLES
  submitAt,                  \* "scan", "dial", "write", "ack", "exited"
  request,                   \* the window being submitted
  linesRead,
  accepted, failed, skipped, ignored,   \* the summary
  exitCode,
  frame,                     \* the node's side of the connection:
                             \* "none", "sent", "queued", "rejected"
  nodeQueue                  \* windows the node queued, in order

submitVars == <<submitAt, request, linesRead, accepted, failed, skipped, ignored, exitCode,
                frame, nodeQueue>>

SubmitInit ==
  /\ submitAt = "scan" /\ request = 0 /\ linesRead = 0
  /\ accepted = 0 /\ failed = 0 /\ skipped = 0 /\ ignored = 0
  /\ exitCode = 0 /\ frame = "none" /\ nodeQueue = <<>>

(* fail: counted, and the program returns.                                 *)
SubmitFails ==
  /\ failed' = failed + 1
  /\ exitCode' = 1
  /\ submitAt' = "exited"

(* RequestForWindow and validateWindow, by the kind of the line: a window  *)
(* that is partial, unmeasured or has an incomplete tuple is skipped, one  *)
(* that does not validate fails.  Other schemas are ignored; a raw         *)
(* observation has no schema and fails.                                    *)
ReadLine(line) ==
  /\ submitAt = "scan"
  /\ linesRead' = linesRead + 1
  /\ \/ /\ line.kind \in {"typed", "drop", "loss"}
        /\ ignored' = ignored + 1
        /\ UNCHANGED <<submitAt, request, skipped, failed, exitCode>>
     \/ /\ line.kind = "skippedWindow"
        /\ skipped' = skipped + 1
        /\ UNCHANGED <<submitAt, request, ignored, failed, exitCode>>
     \/ /\ line.kind \in {"raw", "invalidWindow"}
        /\ SubmitFails
        /\ UNCHANGED <<request, skipped, ignored>>
     \/ /\ line.kind = "window"
        /\ request' = line.id
        /\ submitAt' = "dial"
        /\ UNCHANGED <<skipped, ignored, failed, exitCode>>
  /\ UNCHANGED <<accepted, frame, nodeQueue>>

EndOfInput ==
  /\ submitAt = "scan"
  /\ submitAt' = "exited"
  /\ UNCHANGED <<request, linesRead, accepted, failed, skipped, ignored, exitCode, frame,
                 nodeQueue>>

(* Send: the connection, and the checks of the encoded request.            *)
Dial ==
  /\ submitAt = "dial"
  /\ \/ submitAt' = "write" /\ UNCHANGED <<failed, exitCode>>
     \/ SubmitFails
  /\ UNCHANGED <<request, linesRead, accepted, skipped, ignored, frame, nodeQueue>>

(* The write of the frame; one that fails may have delivered all of it.    *)
WriteFrame ==
  /\ submitAt = "write"
  /\ \/ frame' = "sent" /\ submitAt' = "ack" /\ UNCHANGED <<failed, exitCode>>
     \/ frame' \in {"none", "sent"} /\ SubmitFails
  /\ UNCHANGED <<request, linesRead, accepted, skipped, ignored, nodeQueue>>

(* External: the node reads the frame and answers.                         *)
NodeReceives ==
  /\ frame = "sent"
  /\ \/ frame' = "queued" /\ nodeQueue' = Append(nodeQueue, request)
     \/ frame' = "rejected" /\ UNCHANGED nodeQueue
  /\ UNCHANGED <<submitAt, request, linesRead, accepted, failed, skipped, ignored, exitCode>>

(* readAck: the answer for this request.                                   *)
ReadAck ==
  /\ submitAt = "ack"
  /\ \/ /\ frame = "queued"
        /\ accepted' = accepted + 1
        /\ submitAt' = "scan"
        /\ frame' = "none"
        /\ UNCHANGED <<failed, exitCode>>
     \/ /\ frame = "rejected"
        /\ SubmitFails
        /\ UNCHANGED <<accepted, frame>>
  /\ UNCHANGED <<request, linesRead, skipped, ignored, nodeQueue>>

(* The deadline, a closed connection or an answer that is not valid: the   *)
(* delivery is ambiguous.  Mutant: the window is submitted again.          *)
AckLostRetries ==
  /\ submitAt = "ack"
  /\ submitAt' = "dial"
  /\ UNCHANGED <<request, linesRead, accepted, failed, exitCode, skipped, ignored, frame,
                 nodeQueue>>

AckLost ==
  /\ submitAt = "ack"
  /\ SubmitFails
  /\ UNCHANGED <<request, linesRead, accepted, skipped, ignored, frame, nodeQueue>>

-----------------------------------------------------------------------------
Submitting == submitAt \in {"dial", "write", "ack"}

(* No window is queued by the node twice or out of order, however late the *)
(* node reads a frame; accepted counts exactly what the node queued but    *)
(* for the one request whose answer is outstanding or was lost, and the    *)
(* summary accounts for every line.                                        *)
SubmissionSound ==
  /\ \A i \in 1..Len(nodeQueue) - 1 : nodeQueue[i] < nodeQueue[i + 1]
  /\ Len(nodeQueue) - accepted \in
       (IF submitAt = "ack" \/ exitCode # 0 THEN {0, 1} ELSE {0})
  /\ linesRead = accepted + failed + skipped + ignored + (IF Submitting THEN 1 ELSE 0)
=============================================================================
