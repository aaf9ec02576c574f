-------------------------- MODULE TagCountExporter --------------------------
(***************************************************************************)
(* tagcount.Exporter (internal/tagcount/exporter.go, export_events.go):    *)
(* packs go through a bounded queue to one sender goroutine; nothing is    *)
(* resent, and every pack ends up in one counter of the summary.           *)
(*                                                                         *)
(* A pack is the ordinal that enqueueLocked appends to its record_id.  The *)
(* Sender is external: Send writes the pack, fails, or blocks until the    *)
(* context is cancelled or the sender closed; Close may fail.              *)
(* OutputChain makes the calls.                                            *)
(***************************************************************************)
EXTENDS Integers, Sequences

CONSTANT QueueCapacity   \* ExporterConfig.QueueCapacity

ASSUME ExporterAssumption == QueueCapacity \in Nat \ {0}

VARIABLES
  packQueue,
  closing,               \* guarded by mu; the queue is closed with it
  exporterErr,           \* guarded by mu: some error was recorded
  queued, written, failedCount, dropped,   \* summary, guarded by mu
  ctxCancelled,
  senderClosed,          \* senderOnce: "no", "running", "done"
  runAt,                 \* the sender goroutine: "take", "send", "count", "fail",
                         \* "closeSender", "closingSender", "done"
  packInHand,            \* the pack it holds
  sendOk,                \* what Send returned
  closeAt,               \* Close: "open", "wait", "closeSender", "closingSender",
                         \* "result", "snapshot", "returned"
  timedOut,
  closeErr,              \* the errors Close joined
  delivered              \* history: packs Send returned nil for, in order

summaryVars == <<queued, written, failedCount, dropped>>
closeVars == <<closeAt, timedOut, closeErr>>
runVars == <<runAt, packInHand, sendOk, delivered>>
exporterVars == <<packQueue, closing, exporterErr, summaryVars, ctxCancelled, senderClosed,
                  runVars, closeVars>>

NoPack == 0

ExporterInit ==
  /\ packQueue = <<>>
  /\ closing = FALSE /\ exporterErr = FALSE
  /\ queued = 0 /\ written = 0 /\ failedCount = 0 /\ dropped = 0
  /\ ctxCancelled = FALSE /\ senderClosed = "no"
  /\ runAt = "take" /\ packInHand = NoPack /\ sendOk = FALSE
  /\ closeAt = "open" /\ timedOut = FALSE /\ closeErr = {}
  /\ delivered = <<>>

-----------------------------------------------------------------------------
(* Export, exportEvent: closing or failed, they only return an error.      *)
ExportRefuses == closing \/ exporterErr

(* A dropped pack takes an ordinal too.                                    *)
NextOrdinal == queued + dropped + 1

(* enqueueLocked: mu is held from the ordinal to the counter.              *)
Export ==
  /\ ~ExportRefuses
  /\ IF Len(packQueue) < QueueCapacity
     THEN /\ packQueue' = Append(packQueue, NextOrdinal)
          /\ queued' = queued + 1
          /\ UNCHANGED dropped
     ELSE dropped' = dropped + 1 /\ UNCHANGED <<packQueue, queued>>
  /\ UNCHANGED <<closing, exporterErr, written, failedCount, ctxCancelled, senderClosed,
                 runVars, closeVars>>

-----------------------------------------------------------------------------
(***************************************************************************)
(* The sender goroutine.                                                   *)
(***************************************************************************)
RunIdle == UNCHANGED <<closing, ctxCancelled, queued, dropped, closeVars>>

(* range e.queue, and the look at the context.                             *)
RunTake ==
  /\ runAt = "take"
  /\ \/ /\ packQueue # <<>>
        /\ packInHand' = Head(packQueue)
        /\ packQueue' = Tail(packQueue)
        /\ runAt' = IF ctxCancelled THEN "closeSender" ELSE "send"
     \/ /\ packQueue = <<>> /\ closing
        /\ runAt' = "closeSender"
        /\ UNCHANGED <<packInHand, packQueue>>
  /\ UNCHANGED <<exporterErr, written, failedCount, senderClosed, sendOk, delivered>>
  /\ RunIdle

(* Send: external.  A cancelled context or a closed sender makes it fail.  *)
RunSend ==
  /\ runAt = "send"
  /\ \E ok \in BOOLEAN :
       /\ ok => senderClosed # "done"
       /\ sendOk' = ok
       /\ delivered' = IF ok THEN Append(delivered, packInHand) ELSE delivered
  /\ runAt' = "count"
  /\ UNCHANGED <<packQueue, exporterErr, written, failedCount, senderClosed, packInHand>>
  /\ RunIdle

(* The counters, under mu.  Mutants: a failed pack is not counted; it is   *)
(* queued again.                                                           *)
RunCountWritten ==
  /\ runAt = "count"
  /\ written' = IF sendOk THEN written + 1 ELSE written
  /\ packInHand' = NoPack
  /\ runAt' = IF sendOk THEN "take" ELSE "fail"
  /\ UNCHANGED <<packQueue, failedCount, exporterErr, senderClosed, sendOk, delivered>>
  /\ RunIdle

RunCountRequeues ==
  /\ runAt = "count"
  /\ written' = IF sendOk THEN written + 1 ELSE written
  /\ packQueue' = IF sendOk THEN packQueue ELSE Append(packQueue, packInHand)
  /\ packInHand' = NoPack
  /\ runAt' = "take"
  /\ UNCHANGED <<failedCount, exporterErr, senderClosed, sendOk, delivered>>
  /\ RunIdle

RunCount ==
  /\ runAt = "count"
  /\ IF sendOk
     THEN written' = written + 1 /\ UNCHANGED failedCount
     ELSE failedCount' = failedCount + 1 /\ UNCHANGED written
  /\ packInHand' = NoPack
  /\ runAt' = IF sendOk THEN "take" ELSE "fail"
  /\ UNCHANGED <<packQueue, exporterErr, senderClosed, sendOk, delivered>>
  /\ RunIdle

(* fail(err), in a critical section of its own.                            *)
RunFail ==
  /\ runAt = "fail"
  /\ exporterErr' = TRUE
  /\ runAt' = "closeSender"
  /\ UNCHANGED <<packQueue, written, failedCount, senderClosed, packInHand, sendOk, delivered>>
  /\ RunIdle

(* The deferred closeSender, once; a second caller waits for the first.    *)
RunCloseSender ==
  /\ runAt = "closeSender"
  /\ senderClosed = "no"
  /\ senderClosed' = "running"
  /\ runAt' = "closingSender"
  /\ UNCHANGED <<packQueue, exporterErr, written, failedCount, packInHand, sendOk, delivered>>
  /\ RunIdle

RunDone ==
  /\ \/ /\ runAt = "closingSender"
        /\ \E closeFails \in BOOLEAN : exporterErr' = (exporterErr \/ closeFails)
     \/ runAt = "closeSender" /\ senderClosed = "done" /\ UNCHANGED exporterErr
  /\ senderClosed' = "done"
  /\ runAt' = "done"
  /\ UNCHANGED <<packQueue, written, failedCount, packInHand, sendOk, delivered>>
  /\ RunIdle

-----------------------------------------------------------------------------
(***************************************************************************)
(* Close.                                                                  *)
(***************************************************************************)
CloseIdle == UNCHANGED <<packQueue, summaryVars, runVars>>

CloseBegin ==
  /\ closeAt = "open"
  /\ closing' = TRUE
  /\ closeAt' = "wait"
  /\ UNCHANGED <<exporterErr, ctxCancelled, senderClosed, timedOut, closeErr>>
  /\ CloseIdle

CloseDrained ==
  /\ closeAt = "wait"
  /\ runAt = "done"
  /\ closeAt' = "result"
  /\ UNCHANGED <<closing, exporterErr, ctxCancelled, senderClosed, timedOut, closeErr>>
  /\ CloseIdle

CloseTimeout ==
  /\ closeAt = "wait"
  /\ timedOut' = TRUE
  /\ ctxCancelled' = TRUE
  /\ closeAt' = "closeSender"
  /\ UNCHANGED <<closing, exporterErr, senderClosed, closeErr>>
  /\ CloseIdle

CloseSender ==
  /\ closeAt = "closeSender"
  /\ senderClosed = "no"
  /\ senderClosed' = "running"
  /\ closeAt' = "closingSender"
  /\ UNCHANGED <<closing, exporterErr, ctxCancelled, timedOut, closeErr>>
  /\ CloseIdle

CloseSenderDone ==
  /\ \/ /\ closeAt = "closingSender"
        /\ \E closeFails \in BOOLEAN : exporterErr' = (exporterErr \/ closeFails)
     \/ closeAt = "closeSender" /\ senderClosed = "done" /\ UNCHANGED exporterErr
  /\ senderClosed' = "done"
  /\ closeAt' = "result"
  /\ UNCHANGED <<closing, ctxCancelled, timedOut, closeErr>>
  /\ CloseIdle

(* Snapshot: unsigned arithmetic on the counters.                          *)
Pending == queued - written - failedCount

(* Err and Snapshot are two critical sections; the deferred cancel runs    *)
(* last.                                                                   *)
CloseErr ==
  /\ closeAt = "result"
  /\ closeErr' = (IF exporterErr THEN {"err"} ELSE {})
                   \cup (IF timedOut THEN {"ErrDrainTimeout"} ELSE {})
  /\ closeAt' = "snapshot"
  /\ UNCHANGED <<closing, exporterErr, ctxCancelled, senderClosed, timedOut>>
  /\ CloseIdle

CloseReturn ==
  /\ closeAt = "snapshot"
  /\ closeErr' = closeErr \cup (IF dropped > 0 THEN {"ErrQueueLoss"} ELSE {})
                          \cup (IF Pending > 0 THEN {"pending"} ELSE {})
  /\ ctxCancelled' = TRUE
  /\ closeAt' = "returned"
  /\ UNCHANGED <<closing, exporterErr, senderClosed, timedOut>>
  /\ CloseIdle

(* The exporter by itself, whoever calls it.                               *)
ExporterNext ==
  \/ Export
  \/ RunTake \/ RunSend \/ RunCount \/ RunFail \/ RunCloseSender \/ RunDone
  \/ CloseBegin \/ CloseDrained \/ CloseTimeout \/ CloseSender \/ CloseSenderDone
  \/ CloseErr \/ CloseReturn

ExporterSpec == ExporterInit /\ [][ExporterNext]_exporterVars

-----------------------------------------------------------------------------
(***************************************************************************)
(* Properties.                                                             *)
(***************************************************************************)
Sending == runAt \in {"take", "send"} \/ (runAt = "count" /\ sendOk)

ExportQueue == INSTANCE LossyQueue WITH
  Capacity <- QueueCapacity,
  offered  <- queued + dropped,
  lost     <- dropped,
  waiting  <- (IF packInHand = NoPack \/ runAt = "count" THEN <<>> ELSE <<packInHand>>)
                \o packQueue,
  out      <- delivered,
  closed   <- closing,
  consumer <- IF Sending THEN "running"
              ELSE IF failedCount > 0 \/ packInHand # NoPack THEN "failed" ELSE "ended"

(* The exporter implements LossyQueue: a pack is sent at most once and in  *)
(* order, nothing is sent after a failure, no ordinal is given out twice,  *)
(* and only overflow loses packs, whatever the drain timer interrupts.     *)
ExportIsLossyQueue == ExportQueue!Spec

(* The summary accounts for every pack at every moment, so that Pending,   *)
(* an unsigned difference of counters that two goroutines update, neither  *)
(* wraps nor misses a pack that is queued or on its way.                   *)
SummaryAccounts ==
  /\ Pending = Len(packQueue) + (IF packInHand = NoPack THEN 0 ELSE 1)
  /\ Len(delivered) = written + (IF runAt = "count" /\ sendOk THEN 1 ELSE 0)
=============================================================================
