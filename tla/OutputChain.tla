----------------------------- MODULE OutputChain ----------------------------
(***************************************************************************)
(* The way out of the agent: eventOutput (internal/app/pipeline.go), which *)
(* the event loop calls, over its two queues, QueuedOutput for JSONL and   *)
(* TagCountExporter for the backend; the shutdown that runTagCount and     *)
(* finalizeTagCount (cmd/agentkubenetwork/tagcount.go) order; and          *)
(* EdgeSubmit, which reads the JSONL in the deployment that pipes it.      *)
(*                                                                         *)
(* The calls of the loop are those of Pipeline, in any order until Close;  *)
(* after an error it only writes typed records (the rest of a batch, the   *)
(* deferred DNS Finish) and closes.  A call is a sequence of lines to      *)
(* encode, each followed by its export.                                    *)
(***************************************************************************)
EXTENDS QueuedOutput, TagCountExporter, EdgeSubmit

CONSTANTS
  MaxRecords,   \* bound: records the loop produces with one of the two outputs,
  MaxRecordsBoth,   \* and with both
  MaxBatch      \* bound: windows that one Flush or Finish returns

ASSUME OutputChainAssumption == {MaxRecords, MaxRecordsBoth, MaxBatch} \subseteq Nat

VARIABLES
  deployment,     \* the command line: [jsonl, tagcount, mode]
  at,             \* the loop: "idle", "line", "export", "report", "finalReport",
                  \* "close", "closeExporter", "stopReporter", "done"
  after,          \* where it goes once todo is encoded
  todo,           \* the lines of this call
  serial,         \* number of records produced
  encoded,        \* history: lines Encode returned nil for; with JSONL, line n is
                  \* the n-th record of QueuedOutput
  tried,          \* history: lines handed to the exporter, in order
  rejections,     \* history: those it refused or rejected
  exportFailure,  \* the latch
  exportLost,
  runErr,         \* some error was returned to the loop, or by a Close
  jsonlError,     \* history: queuedOutput.Encode returned an error
  reporter        \* startTagCountReporter's goroutine: "running", "done"

loopVars == <<at, after, todo, serial, encoded, tried, rejections, exportFailure, exportLost,
              runErr, jsonlError>>
vars == <<queuedOutputVars, exporterVars, submitVars, loopVars, deployment, reporter>>

(* -export, -stdout and -output-mode: with TagCount the JSONL is discarded *)
(* unless it is asked for; without it, the windows are piped into          *)
(* network-edge-submit.  In mode "raw", the default, there is no window    *)
(* stream, and TagCount is refused.                                        *)
Deployments ==
  {[jsonl |-> FALSE, tagcount |-> TRUE,  mode |-> "windows"],
   [jsonl |-> TRUE,  tagcount |-> TRUE,  mode |-> "both"],
   [jsonl |-> TRUE,  tagcount |-> FALSE, mode |-> "windows"],
   [jsonl |-> TRUE,  tagcount |-> FALSE, mode |-> "raw"]}

HasStream == deployment.mode # "raw"

Piped == deployment.jsonl /\ ~deployment.tagcount /\ HasStream

RecordBound ==
  IF deployment.jsonl /\ deployment.tagcount THEN MaxRecordsBoth ELSE MaxRecords

Init ==
  /\ QueuedOutputInit /\ ExporterInit /\ SubmitInit
  /\ deployment \in Deployments
  /\ at = "idle" /\ after = "idle" /\ todo = <<>> /\ serial = 0
  /\ encoded = <<>> /\ tried = <<>> /\ rejections = {}
  /\ exportFailure = FALSE /\ exportLost = 0 /\ runErr = FALSE /\ jsonlError = FALSE
  /\ reporter = IF deployment.tagcount THEN "running" ELSE "done"

-----------------------------------------------------------------------------
(***************************************************************************)
(* The calls.                                                              *)
(***************************************************************************)
Start(calls, next) ==
  /\ todo' = calls
  /\ after' = next
  /\ at' = IF calls = <<>> THEN next ELSE "line"

Proceed(rest) ==
  /\ todo' = rest
  /\ at' = IF rest = <<>> THEN after ELSE "line"
  /\ UNCHANGED after

LoopOnly == UNCHANGED <<queuedOutputVars, exporterVars, submitVars, deployment, reporter>>
NoHistory == UNCHANGED <<encoded, tried, rejections, exportFailure, exportLost, runErr,
                         jsonlError>>

(* Encode of an observation.  One that the window stream refuses leaves an *)
(* aggregation drop record; unless the mode is "windows" the observation   *)
(* itself follows.  In that mode an accepted one writes nothing.           *)
EncodeObservation ==
  LET drop == <<[kind |-> "drop", id |-> serial + 1]>>
      raw  == <<[kind |-> "raw", id |-> serial + 1]>>
  IN
  /\ at = "idle" /\ ~runErr /\ serial < RecordBound
  /\ serial' = serial + 1
  /\ \/ HasStream /\ Start(IF deployment.mode = "both" THEN drop \o raw ELSE drop, "idle")
     \/ deployment.mode # "windows" /\ Start(raw, "idle")
  /\ NoHistory
  /\ LoopOnly

(* Encode of an HTTP, DNS or coverage record.                              *)
EncodeTyped ==
  /\ at = "idle" /\ serial < RecordBound
  /\ serial' = serial + 1
  /\ Start(<<[kind |-> "typed", id |-> serial + 1]>>, "idle")
  /\ NoHistory
  /\ LoopOnly

(* Flush and Close: the windows were already removed from the stream.      *)
EncodeBatch(next) ==
  /\ at = "idle"
  /\ \E n \in 0..(IF HasStream THEN MaxBatch ELSE 0) :
       /\ serial + n <= RecordBound
       /\ serial' = serial + n
       /\ \E kinds \in [1..n -> {"window", "skippedWindow", "invalidWindow"}] :
            Start([i \in 1..n |-> [kind |-> kinds[i], id |-> serial + i]], next)
  /\ NoHistory
  /\ LoopOnly

Flush == ~runErr /\ HasStream /\ EncodeBatch("report")
Close == EncodeBatch("finalReport")

(* queuedOutput.Encode of the next line; an error ends the call.           *)
LineBegin ==
  /\ at = "line" /\ deployment.jsonl
  /\ EncodeBegin
  /\ UNCHANGED <<exporterVars, submitVars, loopVars, deployment, reporter>>

Exportable(line) == line.kind \in {"typed", "window", "skippedWindow", "invalidWindow"}

LineTaken ==
  /\ encoded' = Append(encoded, Head(todo))
  /\ IF Exportable(Head(todo)) /\ deployment.tagcount
     THEN at' = "export" /\ UNCHANGED <<todo, after>>
     ELSE Proceed(Tail(todo))
  /\ UNCHANGED <<serial, tried, rejections, exportFailure, exportLost, runErr, jsonlError>>
  /\ UNCHANGED <<exporterVars, submitVars, deployment, reporter>>

LineSend ==
  /\ at = "line"
  /\ EncodeSend
  /\ LineTaken

(* With io.Discard nothing is encoded.                                     *)
LineDiscarded ==
  /\ at = "line" /\ ~deployment.jsonl
  /\ LineTaken
  /\ UNCHANGED queuedOutputVars

LineError ==
  /\ at = "line" /\ deployment.jsonl
  /\ \/ EncodeRefused
     \/ outputFailed /\ encodeAt = "idle" /\ UNCHANGED queuedOutputVars
  /\ Proceed(<<>>)
  /\ runErr' = TRUE /\ jsonlError' = TRUE
  /\ UNCHANGED <<serial, encoded, tried, rejections, exportFailure, exportLost, exporterVars,
                 submitVars, deployment, reporter>>

(* The exporter queues or drops a record, skips it, or rejects it.         *)
CallExporter(line) ==
  /\ tried' = Append(tried, line.id)
  /\ \/ /\ line.kind \in {"typed", "window"}
        /\ Export
        /\ UNCHANGED <<rejections, exportFailure, runErr>>
     \/ /\ line.kind = "skippedWindow" /\ ~ExportRefuses
        /\ UNCHANGED <<exporterVars, rejections, exportFailure, runErr>>
     \/ /\ line.kind \in {"typed", "invalidWindow"} \/ ExportRefuses
        /\ rejections' = rejections \cup {line.id}
        /\ exportFailure' = TRUE /\ runErr' = TRUE
        /\ UNCHANGED exporterVars

(* exportTyped and encodeWindows: nothing is exported after a rejection,   *)
(* and the rest of the batch is still encoded.  Mutants: the latch is not  *)
(* looked at; a rejection ends the batch.                                  *)
ExportLineUnlatched ==
  /\ at = "export"
  /\ CallExporter(Head(todo))
  /\ Proceed(Tail(todo))
  /\ UNCHANGED <<serial, encoded, exportLost, jsonlError>>
  /\ UNCHANGED <<queuedOutputVars, submitVars, deployment, reporter>>

ExportLineStops ==
  /\ at = "export"
  /\ IF exportFailure
     THEN UNCHANGED <<tried, rejections, exportFailure, runErr, exporterVars>>
     ELSE CallExporter(Head(todo))
  /\ Proceed(IF exportFailure' THEN <<>> ELSE Tail(todo))
  /\ UNCHANGED <<serial, encoded, exportLost, jsonlError>>
  /\ UNCHANGED <<queuedOutputVars, submitVars, deployment, reporter>>

ExportLine ==
  /\ at = "export"
  /\ IF exportFailure
     THEN UNCHANGED <<tried, rejections, exportFailure, runErr, exporterVars>>
     ELSE CallExporter(Head(todo))
  /\ Proceed(Tail(todo))
  /\ UNCHANGED <<serial, encoded, exportLost, jsonlError>>
  /\ UNCHANGED <<queuedOutputVars, submitVars, deployment, reporter>>

(* reportExportLoss, also after an error; exportLost moves even when the   *)
(* line is not taken.                                                      *)
ReportExportLoss ==
  /\ at \in {"report", "finalReport"}
  /\ Start(IF dropped = exportLost THEN <<>>
           ELSE <<[kind |-> "loss", dropped |-> dropped - exportLost, total |-> dropped]>>,
           IF at = "report" THEN "idle" ELSE "close")
  /\ exportLost' = dropped
  /\ UNCHANGED <<serial, encoded, tried, rejections, exportFailure, runErr, jsonlError>>
  /\ LoopOnly

-----------------------------------------------------------------------------
(***************************************************************************)
(* Shutdown: eventOutput.Close, then finalizeTagCount.                     *)
(***************************************************************************)
AfterLines == IF deployment.tagcount THEN "closeExporter" ELSE "done"

LoopWaits == UNCHANGED <<after, todo, serial, encoded, tried, rejections, exportFailure,
                         exportLost, jsonlError, submitVars, deployment, reporter>>

CloseLinesBegin ==
  /\ at = "close" /\ deployment.jsonl
  /\ CloseLines
  /\ UNCHANGED <<exporterVars, submitVars, loopVars, deployment, reporter>>

CloseLinesEnd ==
  /\ at = "close"
  /\ \/ LinesClosed
     \/ LinesDrainTimeout
     \/ ~deployment.jsonl /\ UNCHANGED queuedOutputVars
  /\ at' = AfterLines
  /\ runErr' = (runErr \/ closeResult' \notin {"none", "nil"})
  /\ UNCHANGED exporterVars
  /\ LoopWaits

(* exporter.Close comes before the join of the reporter, whose write may   *)
(* be blocked.  Mutant: it comes after it.                                 *)
FinalizeJoinsFirst ==
  /\ at = "closeExporter" /\ reporter = "done"
  /\ CloseBegin
  /\ UNCHANGED <<queuedOutputVars, submitVars, loopVars, deployment, reporter>>

FinalizeBegin ==
  /\ at = "closeExporter"
  /\ CloseBegin
  /\ UNCHANGED <<queuedOutputVars, submitVars, loopVars, deployment, reporter>>

FinalizeStep ==
  /\ CloseDrained \/ CloseTimeout \/ CloseSender \/ CloseSenderDone \/ CloseErr
  /\ UNCHANGED <<queuedOutputVars, submitVars, loopVars, deployment, reporter>>

FinalizeExporter ==
  /\ CloseReturn
  /\ at' = "stopReporter"
  /\ runErr' = (runErr \/ closeErr' # {})
  /\ UNCHANGED queuedOutputVars
  /\ LoopWaits

(* stopReporter returns once the goroutine has ended; the final summary is *)
(* written after it.                                                       *)
JoinReporter ==
  /\ at = "stopReporter" /\ reporter = "done"
  /\ at' = "done"
  /\ UNCHANGED <<runErr, queuedOutputVars, exporterVars>>
  /\ LoopWaits

(* The reporter ends when a write fails or its context is cancelled, but   *)
(* not while a write is blocked; nothing looks before the join.            *)
ReporterEnds ==
  /\ reporter = "running" /\ at = "stopReporter"
  /\ reporter' = "done"
  /\ UNCHANGED <<queuedOutputVars, exporterVars, submitVars, loopVars, deployment>>

-----------------------------------------------------------------------------
(***************************************************************************)
(* The other goroutines, until the process ends, and the other process.    *)
(***************************************************************************)
WriterStep ==
  /\ at # "done"
  /\ \/ WriterTake \/ WriterLoss \/ WriterFails
     \/ submitAt # "exited" /\ (WriterWrite \/ WriterReport)
  /\ UNCHANGED <<exporterVars, submitVars, loopVars, deployment, reporter>>

SenderStep ==
  /\ at # "done"
  /\ RunTake \/ RunCount \/ RunFail \/ RunCloseSender \/ RunDone \/ RunSend
  /\ UNCHANGED <<queuedOutputVars, submitVars, loopVars, deployment, reporter>>

LineRead(i) ==
  IF IsLossReport(output[i]) THEN [kind |-> "loss"] ELSE encoded[output[i].record]

SubmitStep ==
  /\ Piped
  /\ \/ linesRead < Len(output) /\ ReadLine(LineRead(linesRead + 1))
     \/ linesRead = Len(output) /\ at = "done" /\ EndOfInput
     \/ Dial \/ WriteFrame \/ ReadAck \/ AckLost \/ NodeReceives
  /\ UNCHANGED <<queuedOutputVars, exporterVars, loopVars, deployment, reporter>>

Ended == at = "done" /\ (Piped => submitAt = "exited") /\ UNCHANGED vars

LoopStep ==
  \/ EncodeObservation \/ EncodeTyped \/ Flush \/ Close
  \/ LineBegin \/ LineSend \/ LineDiscarded \/ LineError
  \/ ExportLine \/ ReportExportLoss

ShutdownStep ==
  \/ CloseLinesBegin \/ CloseLinesEnd
  \/ FinalizeBegin \/ FinalizeStep \/ FinalizeExporter \/ JoinReporter

Next == LoopStep \/ ShutdownStep \/ ReporterEnds \/ WriterStep \/ SenderStep \/ SubmitStep \/ Ended

(* The goroutines are scheduled and the drain timers fire.  A Write to     *)
(* stdout or of the diagnostics may block for good; so may Send, until its *)
(* context is cancelled.                                                   *)
Spec ==
  /\ Init /\ [][Next]_vars
  /\ WF_vars(at # "idle" /\ LoopStep)
  /\ WF_vars(ShutdownStep)
  /\ WF_vars(writerAt \in {"take", "loss"} /\ WriterStep)
  /\ WF_vars((runAt # "send" \/ ctxCancelled) /\ SenderStep)

-----------------------------------------------------------------------------
(***************************************************************************)
(* Properties.                                                             *)
(***************************************************************************)
IsExportLoss(line) == line.kind = "loss"
ExportLossPositions == {i \in 1..Len(encoded) : IsExportLoss(encoded[i])}
ExportablePositions == {i \in 1..Len(encoded) : Exportable(encoded[i])}
ExportLossLines == At(encoded, ExportLossPositions)
ExportableLines == At(encoded, ExportablePositions)
Evidence == {encoded[i].id : i \in {j \in 1..Len(encoded) : ~IsExportLoss(encoded[j])}}

(* The exporter sees exactly the exportable lines that Encode took, in     *)
(* order, up to and including the first one it refuses, and none after     *)
(* that, whenever its own goroutine fails: window and typed exports share  *)
(* one latch, so neither the rest of a batch nor a later one can leave a   *)
(* gap in what was exported.                                               *)
ExportsArePrefix ==
  /\ Len(tried) <= Len(ExportableLines)
  /\ \A i \in 1..Len(tried) : tried[i] = ExportableLines[i].id
  /\ rejections \subseteq {tried[i] : i \in {Len(tried)} \ {0}}
  /\ at = "idle" /\ rejections = {} /\ deployment.tagcount =>
       Len(tried) = Len(ExportableLines)

(* Unless queuedOutput refused a line, every record has one, those of a    *)
(* batch whose export was rejected half-way included; and the lines about  *)
(* export overflow add up to the exporter's counter, what is left of it    *)
(* being reported by Close.                                                *)
EvidenceKept ==
  ~jsonlError =>
    /\ at \notin {"line", "export"} => Evidence = 1..serial
    /\ \A i \in 1..Len(ExportLossLines) :
         ExportLossLines[i].total = ExportLossLines[i].dropped
           + (IF i = 1 THEN 0 ELSE ExportLossLines[i - 1].total)
    /\ at = "done" =>
         dropped = (IF ExportLossLines = <<>> THEN 0
                    ELSE ExportLossLines[Len(ExportLossLines)].total)

(* An agent that ends without an error has delivered every record: each    *)
(* line is in the output or in a loss report there, and each exportable    *)
(* one that was not skipped has been sent.  And if the program at the end  *)
(* of the pipe ends without an error too, every window it could submit is  *)
(* in the node's queue, unless the pipe carries the report of its loss.    *)
CleanShutdown ==
  at = "done" /\ ~runErr =>
    /\ deployment.jsonl =>
         /\ Len(Records) + totalLost = Len(encoded)
         /\ ReportedTotal = totalLost
    /\ deployment.tagcount =>
         Len(delivered) =
           Cardinality({i \in 1..Len(encoded) : encoded[i].kind \in {"typed", "window"}})
    /\ Piped /\ submitAt = "exited" /\ exitCode = 0 =>
         /\ linesRead = Len(output)
         /\ Len(nodeQueue) = accepted
         /\ \A i \in 1..Len(Records) :
              LET line == encoded[Records[i].record] IN
              line.kind = "window" => \E j \in 1..Len(nodeQueue) : nodeQueue[j] = line.id

(* The reports in the output catch up with the losses, without waiting for *)
(* Close, if the consumer never stops reading for good.                    *)
LossReported ==
  []<>(writerAt \notin {"write", "writeLoss"}) =>
    (totalLost > ReportedTotal ~> outputFailed \/ at = "done" \/ totalLost = ReportedTotal)

(* Shutdown passes both queues, whatever blocks: a stalled reader of the   *)
(* output, a Send that waits for its context, or a write of the periodic   *)
(* diagnostics, for which only the last join waits.                        *)
ShutdownTerminates == at = "close" ~> at \in {"stopReporter", "done"}
=============================================================================
