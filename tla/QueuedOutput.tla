---------------------------- MODULE QueuedOutput ----------------------------
(***************************************************************************)
(* queuedOutput (internal/app/output.go): a bounded queue between the      *)
(* event loop, which never waits for room, and one writer goroutine, which *)
(* may be arbitrarily slow.  Records that find the queue full are counted  *)
(* and reported in-band by the writer.                                     *)
(*                                                                         *)
(* A record is its serial number.  The caller's Encode tests failed first  *)
(* and sends later, with the JSON encoding in between; Close is the        *)
(* caller's last call.  OutputChain makes the calls.                       *)
(***************************************************************************)
EXTENDS Integers, Sequences, Subsequence

CONSTANT Capacity     \* of the queue: OutputQueueCapacity

ASSUME OutputAssumption == Capacity \in Nat \ {0}

NoRecord == 0

VARIABLES
  encodeAt,      \* the caller: "idle", "encoding", "closing", "closed"
  offered,       \* the records for which Encode reached the queue
  lineQueue, lineQueueClosed,
  totalLost,     \* atomic counter
  writerAt,      \* "take", "write", "loss", "writeLoss", "done"
  recordInHand,  \* the record the writer holds
  lossInHand,    \* the loss it is about to report
  reportedLost,  \* owned by the writer
  draining,      \* the writer saw the queue closed and empty
  outputFailed,
  output,        \* what reached the output: records and loss reports
  closeResult    \* of Close

callerVars == <<encodeAt, offered, lineQueueClosed, closeResult>>
writerVars == <<writerAt, recordInHand, lossInHand, reportedLost, draining, outputFailed,
                output>>
queuedOutputVars == <<callerVars, lineQueue, totalLost, writerVars>>

QueuedOutputInit ==
  /\ encodeAt = "idle" /\ offered = 0
  /\ lineQueue = <<>> /\ lineQueueClosed = FALSE /\ totalLost = 0
  /\ writerAt = "take" /\ recordInHand = NoRecord /\ lossInHand = 0 /\ reportedLost = 0
  /\ draining = FALSE /\ outputFailed = FALSE
  /\ output = <<>> /\ closeResult = "none"

-----------------------------------------------------------------------------
(***************************************************************************)
(* The caller.                                                             *)
(***************************************************************************)

(* Encode: after a failure it only returns the error; an oversized record  *)
(* is refused without being counted.                                       *)
EncodeBegin ==
  /\ encodeAt = "idle"
  /\ ~outputFailed
  /\ encodeAt' = "encoding"
  /\ UNCHANGED <<offered, lineQueueClosed, closeResult, lineQueue, totalLost, writerVars>>

EncodeRefused ==
  /\ encodeAt = "encoding"
  /\ encodeAt' = "idle"
  /\ UNCHANGED <<offered, lineQueueClosed, closeResult, lineQueue, totalLost, writerVars>>

(* The non-blocking send.  Mutant: a lost record is not counted.           *)
EncodeSendUncounted ==
  /\ encodeAt = "encoding"
  /\ encodeAt' = "idle"
  /\ offered' = offered + 1
  /\ lineQueue' = IF Len(lineQueue) < Capacity THEN Append(lineQueue, offered + 1)
                  ELSE lineQueue
  /\ UNCHANGED <<totalLost, lineQueueClosed, closeResult, writerVars>>

EncodeSend ==
  /\ encodeAt = "encoding"
  /\ encodeAt' = "idle"
  /\ offered' = offered + 1
  /\ IF Len(lineQueue) < Capacity
     THEN lineQueue' = Append(lineQueue, offered + 1) /\ UNCHANGED totalLost
     ELSE totalLost' = totalLost + 1 /\ UNCHANGED lineQueue
  /\ UNCHANGED <<lineQueueClosed, closeResult, writerVars>>

CloseLines ==
  /\ encodeAt = "idle"
  /\ lineQueueClosed' = TRUE
  /\ encodeAt' = "closing"
  /\ UNCHANGED <<offered, closeResult, lineQueue, totalLost, writerVars>>

(* Close waits for the writer, or for the drain timeout.  Mutant: it       *)
(* forgets the writer's error.                                             *)
LinesClosedIgnoresErr ==
  /\ encodeAt = "closing"
  /\ writerAt = "done"
  /\ closeResult' = "nil"
  /\ encodeAt' = "closed"
  /\ UNCHANGED <<offered, lineQueueClosed, lineQueue, totalLost, writerVars>>

LinesClosed ==
  /\ encodeAt = "closing"
  /\ writerAt = "done"
  /\ closeResult' = IF outputFailed THEN "error" ELSE "nil"
  /\ encodeAt' = "closed"
  /\ UNCHANGED <<offered, lineQueueClosed, lineQueue, totalLost, writerVars>>

LinesDrainTimeout ==
  /\ encodeAt = "closing"
  /\ closeResult' = "timeout"
  /\ encodeAt' = "closed"
  /\ UNCHANGED <<offered, lineQueueClosed, lineQueue, totalLost, writerVars>>

-----------------------------------------------------------------------------
(***************************************************************************)
(* The writer goroutine: run, write, writeLoss.                            *)
(***************************************************************************)
WriterTake ==
  /\ writerAt = "take"
  /\ \/ /\ lineQueue # <<>>
        /\ recordInHand' = Head(lineQueue)
        /\ lineQueue' = Tail(lineQueue)
        /\ writerAt' = "write"
        /\ UNCHANGED draining
     \/ /\ lineQueue = <<>>
        /\ lineQueueClosed
        /\ writerAt' = "loss"
        /\ draining' = TRUE
        /\ UNCHANGED <<recordInHand, lineQueue>>
  /\ UNCHANGED <<callerVars, totalLost, lossInHand, reportedLost, outputFailed, output>>

(* Mutant: losses are only reported when the queue is closed.              *)
WriterWriteOnly ==
  /\ writerAt = "write"
  /\ output' = Append(output, [record |-> recordInHand])
  /\ recordInHand' = NoRecord
  /\ writerAt' = "take"
  /\ UNCHANGED <<callerVars, lineQueue, totalLost, lossInHand, reportedLost, draining,
                 outputFailed>>

WriterWrite ==
  /\ writerAt = "write"
  /\ output' = Append(output, [record |-> recordInHand])
  /\ recordInHand' = NoRecord
  /\ writerAt' = "loss"
  /\ UNCHANGED <<callerVars, lineQueue, totalLost, lossInHand, reportedLost, draining,
                 outputFailed>>

(* An error, or a short write, is terminal and never retried.              *)
WriterFails ==
  /\ writerAt \in {"write", "writeLoss"}
  /\ outputFailed' = TRUE
  /\ writerAt' = "done"
  /\ UNCHANGED <<callerVars, lineQueue, totalLost, recordInHand, lossInHand, reportedLost,
                 draining, output>>

AfterLoss == IF draining THEN "done" ELSE "take"

(* writeLoss derives the report from one snapshot of the counter, and the  *)
(* counter may move on before the report is written.  Mutant: the total is *)
(* read again.                                                             *)
WriterReportReadsAgain ==
  /\ writerAt = "writeLoss"
  /\ output' = Append(output, [dropped |-> lossInHand, total |-> totalLost])
  /\ lossInHand' = 0
  /\ writerAt' = AfterLoss
  /\ UNCHANGED <<callerVars, lineQueue, totalLost, recordInHand, reportedLost, draining,
                 outputFailed>>

WriterLoss ==
  /\ writerAt = "loss"
  /\ IF totalLost = reportedLost
     THEN writerAt' = AfterLoss /\ UNCHANGED <<reportedLost, lossInHand>>
     ELSE /\ lossInHand' = totalLost - reportedLost
          /\ reportedLost' = totalLost
          /\ writerAt' = "writeLoss"
  /\ UNCHANGED <<callerVars, lineQueue, totalLost, recordInHand, draining, outputFailed,
                 output>>

WriterReport ==
  /\ writerAt = "writeLoss"
  /\ output' = Append(output, [dropped |-> lossInHand, total |-> reportedLost])
  /\ lossInHand' = 0
  /\ writerAt' = AfterLoss
  /\ UNCHANGED <<callerVars, lineQueue, totalLost, recordInHand, reportedLost, draining,
                 outputFailed>>

(* The queue by itself, whoever calls it.                                  *)
QueuedOutputNext ==
  \/ EncodeBegin \/ EncodeRefused \/ EncodeSend
  \/ CloseLines \/ LinesClosed \/ LinesDrainTimeout
  \/ WriterTake \/ WriterWrite \/ WriterFails \/ WriterLoss \/ WriterReport

QueuedOutputSpec == QueuedOutputInit /\ [][QueuedOutputNext]_queuedOutputVars

-----------------------------------------------------------------------------
(***************************************************************************)
(* Properties.                                                             *)
(***************************************************************************)
IsLossReport(line) == "dropped" \in DOMAIN line
RecordPositions == {i \in 1..Len(output) : ~IsLossReport(output[i])}
LossPositions == {i \in 1..Len(output) : IsLossReport(output[i])}
Records == At(output, RecordPositions)
LossReports == At(output, LossPositions)
ReportedTotal == IF LossReports = <<>> THEN 0 ELSE LossReports[Len(LossReports)].total

JsonlQueue == INSTANCE LossyQueue WITH
  lost     <- totalLost,
  waiting  <- (IF recordInHand = NoRecord THEN <<>> ELSE <<recordInHand>>) \o lineQueue,
  out      <- [i \in 1..Len(Records) |-> Records[i].record],
  closed   <- lineQueueClosed,
  consumer <- IF writerAt # "done" THEN "running"
              ELSE IF outputFailed THEN "failed" ELSE "ended"

(* The output queue implements LossyQueue: every record is written, on its *)
(* way or counted as lost, none twice, in order, and none is lost unless   *)
(* the queue is full, although Encode tests for failure long before it     *)
(* sends and the writer takes a record long before it has written it.      *)
JsonlIsLossyQueue == JsonlQueue!Spec

(* The loss reports in the output add up: each one's total is the one      *)
(* before plus its own count, and the last one, with the report being      *)
(* written, is what the writer believes to have reported, never more than  *)
(* was lost.                                                               *)
LossReportsExact ==
  /\ \A i \in 1..Len(LossReports) :
       LossReports[i].total =
         LossReports[i].dropped + (IF i = 1 THEN 0 ELSE LossReports[i - 1].total)
  /\ reportedLost = lossInHand + ReportedTotal
  /\ reportedLost <= totalLost
=============================================================================
