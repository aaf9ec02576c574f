------------------------- MODULE OutputChain_proofs -------------------------
(***************************************************************************)
(* The way out of the agent, for every capacity of the two queues, every   *)
(* number of records and every batch: what the summaries and the loss      *)
(* reports say is exact, both queues implement LossyQueue, what is         *)
(* exported is a prefix of what was encoded, a shutdown without an error   *)
(* has delivered everything, and the node queues no window twice.          *)
(*                                                                         *)
(* The three components share no variable, so each has an invariant of its *)
(* own, kept by its own actions.  The invariants of the loop relate them.  *)
(***************************************************************************)
EXTENDS OutputChain, FiniteSetTheorems, TLAPS

-----------------------------------------------------------------------------
(***************************************************************************)
(* The JSONL queue.                                                        *)
(***************************************************************************)
WriterRunning == {"take", "write", "loss", "writeLoss"}
OutputLine == [record : Nat \ {0}] \cup [dropped : Nat, total : Nat]

JsonlTypeInv ==
  /\ encodeAt \in {"idle", "encoding", "closing", "closed"}
  /\ offered \in Nat /\ lineQueue \in Seq(Nat \ {0}) /\ lineQueueClosed \in BOOLEAN
  /\ totalLost \in Nat /\ reportedLost \in Nat /\ lossInHand \in Nat /\ recordInHand \in Nat
  /\ writerAt \in WriterRunning \cup {"done"}
  /\ draining \in BOOLEAN /\ outputFailed \in BOOLEAN
  /\ output \in Seq(OutputLine)
  /\ closeResult \in {"none", "nil", "error", "timeout"}

(* The k-th position exists.                                               *)
Ranked(I) == \A k \in 1..Cardinality(I) : Nth(I, k) \in I

Holding == IF recordInHand = NoRecord THEN 0 ELSE 1

(* What the writer holds belongs to the place it is at; once it drains     *)
(* there is nothing left to come, and the last report covers every loss.   *)
WriterInv ==
  /\ lineQueueClosed <=> encodeAt \in {"closing", "closed"}
  /\ outputFailed => writerAt = "done"
  /\ writerAt = "write" => recordInHand # NoRecord
  /\ recordInHand # NoRecord => writerAt = "write" \/ outputFailed
  /\ lossInHand # 0 => writerAt = "writeLoss" \/ outputFailed
  /\ draining => lineQueueClosed /\ lineQueue = <<>> /\ recordInHand = NoRecord
                   /\ writerAt \notin {"take", "write"}
  /\ writerAt = "done" /\ ~outputFailed => draining
  /\ draining /\ writerAt \in {"writeLoss", "done"} => totalLost = reportedLost

JsonlCountInv == offered = Len(Records) + Holding + Len(lineQueue) + totalLost

(* Records keep the order of the calls from the queue to the output.       *)
JsonlOrderInv ==
  /\ \A i, j \in RecordPositions : i < j => output[i].record < output[j].record
  /\ \A i \in RecordPositions :
       /\ output[i].record <= offered
       /\ recordInHand # NoRecord => output[i].record < recordInHand
       /\ \A k \in 1..Len(lineQueue) : output[i].record < lineQueue[k]
  /\ recordInHand <= offered
  /\ \A k \in 1..Len(lineQueue) :
       /\ recordInHand < lineQueue[k] /\ lineQueue[k] <= offered
       /\ \A l \in 1..Len(lineQueue) : k < l => lineQueue[k] < lineQueue[l]

JsonlInv ==
  /\ JsonlTypeInv /\ WriterInv
  /\ Ranked(RecordPositions) /\ Ranked(LossPositions)
  /\ LossReportsExact
  /\ JsonlCountInv /\ JsonlOrderInv

-----------------------------------------------------------------------------
(***************************************************************************)
(* The exporter.                                                           *)
(***************************************************************************)
RunEnding == {"closeSender", "closingSender", "done"}

ExporterTypeInv ==
  /\ packQueue \in Seq(Nat \ {0}) /\ closing \in BOOLEAN /\ exporterErr \in BOOLEAN
  /\ queued \in Nat /\ written \in Nat /\ failedCount \in Nat /\ dropped \in Nat
  /\ ctxCancelled \in BOOLEAN /\ senderClosed \in {"no", "running", "done"}
  /\ runAt \in {"take", "send", "count", "fail"} \cup RunEnding
  /\ packInHand \in Nat /\ sendOk \in BOOLEAN
  /\ closeAt \in {"open", "wait", "closeSender", "closingSender", "result", "snapshot",
                  "returned"}
  /\ timedOut \in BOOLEAN /\ delivered \in Seq(Nat)

(* A sender that ended without a failure and without a pack in its hand    *)
(* left nothing in the queue; one that failed has said so.                 *)
SenderInv ==
  /\ runAt \in {"send", "count"} => packInHand # NoPack
  /\ runAt \in {"take", "fail"} => packInHand = NoPack
  /\ runAt \in {"take", "send", "count"} => failedCount = 0
  /\ runAt = "fail" => failedCount > 0
  /\ runAt \in RunEnding /\ failedCount > 0 => exporterErr
  /\ runAt \in RunEnding /\ failedCount = 0 /\ packInHand = NoPack => closing /\ packQueue = <<>>

(* Close: without a timeout it has seen the sender end, so that what it    *)
(* reads after that no longer moves.                                       *)
ExporterCloseInv ==
  /\ closing <=> closeAt # "open"
  /\ closeAt \in {"closeSender", "closingSender"} => timedOut
  /\ closeAt \in {"result", "snapshot", "returned"} /\ ~timedOut => runAt = "done"
  /\ closeAt \in {"snapshot", "returned"} /\ closeErr = {} => ~timedOut /\ ~exporterErr
  /\ closeAt = "returned" /\ closeErr = {} => dropped = 0 /\ Pending <= 0

ExporterInv == ExporterTypeInv /\ SenderInv /\ ExporterCloseInv /\ SummaryAccounts

-----------------------------------------------------------------------------
(***************************************************************************)
(* The submitter, by itself.                                               *)
(***************************************************************************)
SubmitTypeInv ==
  /\ submitAt \in {"scan", "dial", "write", "ack", "exited"}
  /\ request \in Nat /\ linesRead \in Nat /\ accepted \in Nat /\ failed \in Nat
  /\ skipped \in Nat /\ ignored \in Nat /\ exitCode \in {0, 1}
  /\ frame \in {"none", "sent", "queued", "rejected"} /\ nodeQueue \in Seq(Nat)

(* A frame is outstanding while the submitter waits for the answer, or     *)
(* after it has given up; the node has not queued the request before.      *)
FrameInv ==
  /\ exitCode = 1 => submitAt = "exited"
  /\ submitAt = "ack" => frame # "none"
  /\ frame # "none" => submitAt = "ack" \/ exitCode = 1
  /\ Len(nodeQueue) = accepted + (IF frame = "queued" THEN 1 ELSE 0)
  /\ \A i \in 1..Len(nodeQueue) : nodeQueue[i] <= request
  /\ submitAt \in {"dial", "write"} \/ frame = "sent" =>
       \A i \in 1..Len(nodeQueue) : nodeQueue[i] < request
  /\ frame = "queued" => \E i \in 1..Len(nodeQueue) : nodeQueue[i] = request

SubmitInv == SubmitTypeInv /\ FrameInv /\ SubmissionSound

-----------------------------------------------------------------------------
(***************************************************************************)
(* The loop.                                                               *)
(***************************************************************************)
EvidenceKinds == {"drop", "raw", "typed", "window", "skippedWindow", "invalidWindow"}
EvidenceLine == [kind : EvidenceKinds, id : Nat \ {0}]
LossLine == [kind : {"loss"}, dropped : Nat, total : Nat]
Line == EvidenceLine \cup LossLine

Encoding == at \in {"line", "export"}
ShuttingDown == at \in {"close", "closeExporter", "stopReporter", "done"}

(* The lines of this call that are not encoded yet.                        *)
Rest == IF at = "export" THEN Tail(todo) ELSE todo

LoopTypeInv ==
  /\ deployment \in Deployments
  /\ at \in {"idle", "line", "export", "report", "finalReport", "close", "closeExporter",
             "stopReporter", "done"}
  /\ after \in {"idle", "report", "finalReport", "close"}
  /\ todo \in Seq(Line) /\ encoded \in Seq(Line) /\ serial \in Nat
  /\ tried \in Seq(Nat) /\ exportFailure \in BOOLEAN /\ exportLost \in Nat
  /\ runErr \in BOOLEAN /\ jsonlError \in BOOLEAN
  /\ Encoding <=> todo # <<>>
  /\ at = "export" => /\ deployment.tagcount /\ Exportable(Head(todo))
                      /\ Len(encoded) > 0 /\ encoded[Len(encoded)] = Head(todo)

(* The loop and the two queues: who is where.                              *)
PhaseInv ==
  /\ encodeAt = "encoding" => at = "line"
  /\ encodeAt = "closing" => at = "close"
  /\ encodeAt = "closed" <=> deployment.jsonl /\ at \in {"closeExporter", "stopReporter", "done"}
  /\ closeAt # "open" => at \in {"closeExporter", "stopReporter", "done"}
  /\ closeAt = "returned" <=> deployment.tagcount /\ at \in {"stopReporter", "done"}
  /\ at \in {"closeExporter", "stopReporter"} \/ closeAt # "open" => deployment.tagcount
  /\ encodeAt \notin {"idle", "closed"} => deployment.jsonl
  /\ encodeAt = "closed" =>
       (writerAt = "done" /\ ~outputFailed /\ closeResult = "nil") \/ runErr
  /\ closeAt = "returned" => closeErr = {} \/ runErr
  /\ deployment.jsonl => Len(encoded) = offered

(* What was exported.                                                      *)
AtExport == IF at = "export" THEN 1 ELSE 0
Exported == {i \in 1..Len(encoded) : encoded[i].kind \in {"typed", "window"}}
AtExported == IF at = "export" /\ Head(todo).kind \in {"typed", "window"} THEN 1 ELSE 0

ExportInv ==
  /\ Ranked(ExportablePositions)
  /\ Len(tried) <= Len(ExportableLines)
  /\ \A i \in 1..Len(tried) : tried[i] = ExportableLines[i].id
  /\ at = "export" => /\ Len(ExportableLines) > 0
                      /\ ExportableLines[Len(ExportableLines)] = Head(todo)
  /\ ~deployment.tagcount => tried = <<>> /\ ~exportFailure
  /\ deployment.tagcount /\ ~exportFailure =>
       /\ Len(tried) + AtExport = Len(ExportableLines)
       /\ queued + dropped + AtExported = Cardinality(Exported)
  /\ ~exportFailure => rejections = {}
  /\ exportFailure => runErr /\ Len(tried) > 0 /\ rejections = {tried[Len(tried)]}

(* What is evidence of every record, and the losses of the exporter.       *)
RestIds == {Rest[i].id : i \in {j \in 1..Len(Rest) : ~IsExportLoss(Rest[j])}}
LossTotal == IF ExportLossLines = <<>> THEN 0 ELSE ExportLossLines[Len(ExportLossLines)].total
LossInTodo == IF todo # <<>> /\ IsExportLoss(Head(todo)) THEN Head(todo).dropped ELSE 0

EvidenceInv ==
  /\ Evidence \cup RestIds \subseteq 1..serial
  /\ ~jsonlError => Evidence \cup RestIds = 1..serial

ExportLossInv ==
  /\ Ranked(ExportLossPositions)
  /\ exportLost <= dropped
  /\ \A i \in 1..Len(todo) : IsExportLoss(todo[i]) =>
       Len(todo) = 1 /\ at = "line" /\ todo[i].total = exportLost
  /\ Encoding /\ after = "close" => IsExportLoss(Head(todo))
  /\ ShuttingDown \/ (Encoding /\ after = "close") => dropped = exportLost
  /\ ~jsonlError =>
       /\ \A i \in 1..Len(ExportLossLines) :
            ExportLossLines[i].total = ExportLossLines[i].dropped
              + (IF i = 1 THEN 0 ELSE ExportLossLines[i - 1].total)
       /\ exportLost = LossTotal + LossInTodo

(* Windows have ids that grow.                                             *)
IsWindow(line) == line.kind = "window"

WindowsInv ==
  /\ \A i, j \in 1..Len(encoded) :
       i < j /\ IsWindow(encoded[i]) /\ IsWindow(encoded[j]) => encoded[i].id < encoded[j].id
  /\ \A i \in 1..Len(encoded), j \in 1..Len(Rest) :
       IsWindow(encoded[i]) /\ IsWindow(Rest[j]) => encoded[i].id < Rest[j].id
  /\ \A i, j \in 1..Len(Rest) :
       i < j /\ IsWindow(Rest[i]) /\ IsWindow(Rest[j]) => Rest[i].id < Rest[j].id

(* The submitter has read a prefix of the output: the request is the last  *)
(* window of it, and every other one is in the node's queue.               *)
WindowAt(p) == ~IsLossReport(output[p]) /\ IsWindow(encoded[output[p].record])

ReadInv ==
  Piped =>
    /\ linesRead <= Len(output)
    /\ request # 0 => \E p \in 1..linesRead :
                        WindowAt(p) /\ encoded[output[p].record].id = request
    /\ exitCode = 0 =>
         \A p \in 1..linesRead : WindowAt(p) =>
           \/ Submitting /\ encoded[output[p].record].id = request
           \/ \E i \in 1..Len(nodeQueue) : nodeQueue[i] = encoded[output[p].record].id
    /\ submitAt = "exited" /\ exitCode = 0 => at = "done" /\ linesRead = Len(output)

LoopInv ==
  /\ LoopTypeInv /\ PhaseInv /\ ExportInv /\ EvidenceInv /\ ExportLossInv /\ WindowsInv

ChainInv == JsonlInv /\ ExporterInv /\ SubmitInv /\ LoopInv /\ ReadInv

-----------------------------------------------------------------------------
(***************************************************************************)
(* Subsequences: what a position after the others adds.                    *)
(***************************************************************************)
Below(I, i) == {j \in I : j <= i}

LEMMA NthGrows ==
  ASSUME NEW n \in Nat, NEW I \in SUBSET (1..n), Ranked(I), NEW J, J = I \cup {n + 1}
  PROVE  /\ Cardinality(I) \in Nat /\ Cardinality(J) = Cardinality(I) + 1
         /\ \A k \in 1..Cardinality(I) : Nth(J, k) = Nth(I, k) /\ Nth(I, k) \in I
         /\ Nth(J, Cardinality(J)) = n + 1
         /\ Ranked(J)
<1>1. IsFiniteSet(I)
  <2>1. IsFiniteSet(1..n)
    BY FS_Interval
  <2> QED BY <2>1, FS_Subset
<1>2. Cardinality(I) \in Nat /\ Cardinality(J) = Cardinality(I) + 1
  <2>1. n + 1 \notin I
    OBVIOUS
  <2> QED BY <1>1, <2>1, FS_AddElement, FS_CardinalityType
<1>3. \A i \in I : Below(J, i) = Below(I, i)
  BY DEF Below
<1>4. Below(J, n + 1) = J
  <2>1. \A j \in J : j <= n + 1
    OBVIOUS
  <2> QED BY <2>1 DEF Below
<1>5. \A i \in I : Cardinality(Below(I, i)) \in Nat /\ Cardinality(Below(I, i)) <= Cardinality(I)
  <2>1. \A i \in I : Below(I, i) \subseteq I
    BY DEF Below
  <2> QED BY <1>1, <2>1, FS_Subset, FS_CardinalityType
<1>6. ASSUME NEW k \in 1..Cardinality(I)
      PROVE  Nth(J, k) = Nth(I, k) /\ Nth(I, k) \in I
  <2>1. \A i : i \in J /\ Cardinality(Below(J, i)) = k <=> i \in I /\ Cardinality(Below(I, i)) = k
    <3>1. Cardinality(Below(J, n + 1)) # k
      <4>1. k # Cardinality(I) + 1
        BY <1>2
      <4> QED BY <1>2, <1>4, <4>1
    <3> QED BY <1>3, <3>1
  <2>2. Nth(J, k) = Nth(I, k)
    BY <2>1 DEF Nth, Below
  <2> QED BY <2>2 DEF Ranked
<1>7. Nth(J, Cardinality(J)) = n + 1
  <2>1. \A i : i \in J /\ Cardinality(Below(J, i)) = Cardinality(J) <=> i = n + 1
    <3>1. \A i \in I : Cardinality(Below(J, i)) # Cardinality(J)
      <4> TAKE i \in I
      <4>1. Below(J, i) = Below(I, i)
        BY <1>3
      <4>2. Cardinality(Below(I, i)) \in Nat /\ Cardinality(Below(I, i)) <= Cardinality(I)
        BY <1>5
      <4>3. Cardinality(Below(I, i)) # Cardinality(I) + 1
        BY <1>2, <4>2
      <4> QED BY <1>2, <4>1, <4>3
    <3> QED BY <1>4, <3>1
  <2> QED BY <2>1 DEF Nth, Below
<1>8. Ranked(J)
  BY <1>2, <1>6, <1>7 DEF Ranked
<1> QED BY <1>2, <1>6, <1>7, <1>8

(* I are positions of the sequence s of elements of T.                     *)
Positions(s, T, I) == s \in Seq(T) /\ I \subseteq 1..Len(s) /\ Ranked(I)

LEMMA AtFacts ==
  ASSUME NEW T, NEW s, NEW I, Positions(s, T, I)
  PROVE  /\ Cardinality(I) \in Nat
         /\ At(s, I) \in Seq(T) /\ Len(At(s, I)) = Cardinality(I)
         /\ \A k \in 1..Cardinality(I) : At(s, I)[k] = s[Nth(I, k)] /\ Nth(I, k) \in I
<1> USE DEF Positions
<1>1. Cardinality(I) \in Nat
  <2>1. IsFiniteSet(1..Len(s))
    BY FS_Interval
  <2> QED BY <2>1, FS_Subset, FS_CardinalityType
<1>2. \A k \in 1..Cardinality(I) : Nth(I, k) \in 1..Len(s) /\ Nth(I, k) \in I
  BY DEF Ranked
<1> QED BY <1>1, <1>2 DEF At

(* u is s with e at its end, all of T.                                     *)
Grown(s, T, e, u) ==
  /\ e \in T /\ u \in Seq(T)
  /\ Len(u) = Len(s) + 1 /\ u[Len(s) + 1] = e
  /\ \A k \in 1..Len(s) : u[k] = s[k]

LEMMA AppendGrows ==
  ASSUME NEW T, NEW s \in Seq(T), NEW e \in T
  PROVE  Grown(s, T, e, Append(s, e))
BY DEF Grown

LEMMA GrownAppends ==
  ASSUME NEW T, NEW s \in Seq(T), NEW e, NEW u, Grown(s, T, e, u)
  PROVE  u = Append(s, e)
<1>0. e \in T /\ u \in Seq(T) /\ Append(s, e) \in Seq(T)
  BY DEF Grown
<1>1. PICK v \in Seq(T) : v = Append(s, e)
  BY <1>0
<1>2. Len(v) = Len(s) + 1 /\ Len(u) = Len(v) /\ Len(s) \in Nat
  BY <1>0, <1>1 DEF Grown
<1>3. \A k \in 1..Len(u) : u[k] = v[k]
  BY <1>0, <1>1, <1>2 DEF Grown
<1>4. u = v
  BY <1>0, <1>2, <1>3
<1> QED BY <1>1, <1>4

(* A position outside I changes nothing.                                   *)
LEMMA AtKept ==
  ASSUME NEW T, NEW s, NEW I, Positions(s, T, I), NEW e, NEW u, Grown(s, T, e, u)
  PROVE  At(u, I) = At(s, I)
<1>1. \A k \in 1..Cardinality(I) : Nth(I, k) \in 1..Len(s)
  BY AtFacts DEF Positions
<1>2. \A k \in 1..Len(s) : u[k] = s[k]
  BY DEF Grown
<1>3. \A k \in 1..Cardinality(I) : u[Nth(I, k)] = s[Nth(I, k)]
  BY <1>1, <1>2
<1> QED BY <1>3 DEF At

(* An element at a kept position is appended.                              *)
LEMMA AtAppend ==
  ASSUME NEW T, NEW s, NEW I, Positions(s, T, I), NEW e, NEW u, Grown(s, T, e, u)
  PROVE  /\ Grown(At(s, I), T, e, At(u, I \cup {Len(s) + 1}))
         /\ Cardinality(I \cup {Len(s) + 1}) = Cardinality(I) + 1
         /\ Ranked(I \cup {Len(s) + 1})
<1> DEFINE J == I \cup {Len(s) + 1}
           c == Cardinality(I)
<1>1. Len(s) \in Nat /\ Len(u) = Len(s) + 1 /\ u[Len(s) + 1] = e
      /\ \A i \in 1..Len(s) : u[i] = s[i]
      /\ e \in T /\ u \in Seq(T)
  BY DEF Positions, Grown
<1>2. /\ c \in Nat /\ Cardinality(J) = c + 1
      /\ \A k \in 1..c : Nth(J, k) = Nth(I, k) /\ Nth(I, k) \in 1..Len(s)
      /\ Nth(J, c + 1) = Len(s) + 1
      /\ Ranked(J)
  <2>1. PICK n \in Nat : n = Len(s)
    BY <1>1
  <2>2. I \in SUBSET (1..n) /\ Ranked(I) /\ J = I \cup {n + 1}
    BY <2>1 DEF Positions
  <2>3. /\ c \in Nat /\ Cardinality(J) = c + 1
        /\ \A k \in 1..c : Nth(J, k) = Nth(I, k) /\ Nth(I, k) \in I
        /\ Nth(J, Cardinality(J)) = n + 1
        /\ Ranked(J)
    BY <2>2, NthGrows
  <2> QED BY <2>1, <2>2, <2>3
<1>3. /\ At(s, I) \in Seq(T) /\ Len(At(s, I)) = c
      /\ \A k \in 1..c : At(s, I)[k] = s[Nth(I, k)]
  BY AtFacts
<1> HIDE DEF J, c
<1>5. Positions(u, T, J)
  <2>1. PICK n \in Nat : n = Len(s)
    BY <1>1
  <2>2. I \subseteq 1..n /\ J = I \cup {n + 1} /\ Len(u) = n + 1
    BY <1>1, <2>1 DEF Positions, J
  <2>3. J \subseteq 1..(n + 1)
    BY <2>2
  <2>4. J \subseteq 1..Len(u)
    BY <2>2, <2>3
  <2>5. u \in Seq(T)
    BY DEF Grown
  <2>6. Ranked(J)
    BY <1>2
  <2> QED BY <2>4, <2>5, <2>6 DEF Positions
<1>6. /\ At(u, J) \in Seq(T) /\ Len(At(u, J)) = c + 1
      /\ \A k \in 1..(c + 1) : At(u, J)[k] = u[Nth(J, k)]
  BY <1>2, <1>5, AtFacts
<1>7. \A k \in 1..c : At(u, J)[k] = At(s, I)[k]
  <2> TAKE k \in 1..c
  <2>1. k \in 1..(c + 1) /\ Nth(J, k) = Nth(I, k) /\ Nth(I, k) \in 1..Len(s)
    BY <1>2
  <2> QED BY <1>1, <1>3, <1>6, <2>1
<1>8. At(u, J)[c + 1] = e
  <2>1. c + 1 \in 1..(c + 1)
    BY <1>2
  <2> QED BY <1>1, <1>2, <1>6, <2>1
<1>9. Grown(At(s, I), T, e, At(u, J))
  BY <1>1, <1>3, <1>6, <1>7, <1>8 DEF Grown
<1> QED BY <1>2, <1>9 DEF J, c

(* Loss reports add up: each total is the one before plus its own count.   *)
AddsUp(s) ==
  \A i \in 1..Len(s) : s[i].total = s[i].dropped + (IF i = 1 THEN 0 ELSE s[i - 1].total)
LastTotal(s) == IF s = <<>> THEN 0 ELSE s[Len(s)].total

LEMMA AddsUpGrows ==
  ASSUME NEW T, NEW s \in Seq(T), NEW e, NEW u, Grown(s, T, e, u), AddsUp(s),
         e.total = e.dropped + LastTotal(s)
  PROVE  AddsUp(u) /\ LastTotal(u) = e.total
<1>1. PICK n \in Nat : n = Len(s)
  OBVIOUS
<1>2. u \in Seq(T) /\ Len(u) = n + 1 /\ u[n + 1] = e /\ \A k \in 1..n : u[k] = s[k]
  BY <1>1 DEF Grown
<1>3. LastTotal(s) = IF n = 0 THEN 0 ELSE s[n].total
  BY <1>1 DEF LastTotal
<1>4. LastTotal(u) = e.total
  <2>1. u # <<>>
    BY <1>2
  <2> QED BY <1>2, <2>1 DEF LastTotal
<1>5. ASSUME NEW i \in 1..(n + 1)
      PROVE  u[i].total = u[i].dropped + (IF i = 1 THEN 0 ELSE u[i - 1].total)
  <2>1. CASE i = n + 1
    <3>1. CASE n = 0
      BY <1>2, <1>3, <2>1, <3>1
    <3>2. CASE n # 0
      <4>1. i - 1 = n /\ n \in 1..n /\ i # 1
        BY <2>1, <3>2
      <4>2. u[i - 1] = s[n]
        BY <1>2, <4>1
      <4> QED BY <1>2, <1>3, <2>1, <3>2, <4>1, <4>2
    <3> QED BY <3>1, <3>2
  <2>2. CASE i # n + 1
    <3>1. i \in 1..n /\ (i # 1 => i - 1 \in 1..n)
      BY <2>2
    <3>2. u[i] = s[i] /\ (i # 1 => u[i - 1] = s[i - 1])
      BY <1>2, <3>1
    <3>3. s[i].total = s[i].dropped + (IF i = 1 THEN 0 ELSE s[i - 1].total)
      BY <1>1, <3>1 DEF AddsUp
    <3> QED BY <3>2, <3>3
  <2> QED BY <2>1, <2>2
<1>6. AddsUp(u)
  BY <1>2, <1>5 DEF AddsUp
<1> QED BY <1>4, <1>6

-----------------------------------------------------------------------------
(***************************************************************************)
(* The steps of the JSONL queue.                                           *)
(***************************************************************************)
RecordLine(n) == [record |-> n]
ReportLine(n, t) == [dropped |-> n, total |-> t]

LEMMA OutputLines ==
  /\ \A n \in Nat \ {0} :
       /\ RecordLine(n) \in OutputLine /\ ~IsLossReport(RecordLine(n))
       /\ RecordLine(n).record = n
  /\ \A n, t \in Nat :
       /\ ReportLine(n, t) \in OutputLine /\ IsLossReport(ReportLine(n, t))
       /\ ReportLine(n, t).dropped = n /\ ReportLine(n, t).total = t
BY DEF RecordLine, ReportLine, OutputLine, IsLossReport

LEMMA PositionFacts ==
  RecordPositions \subseteq 1..Len(output) /\ LossPositions \subseteq 1..Len(output)
BY DEF RecordPositions, LossPositions

(* A record written is the next of Records, a report of LossReports.       *)
LEMMA RecordAppended ==
  ASSUME JsonlTypeInv, Ranked(RecordPositions), Ranked(LossPositions),
         NEW n \in Nat \ {0}, output' = Append(output, RecordLine(n))
  PROVE  /\ RecordPositions' = RecordPositions \cup {Len(output) + 1}
         /\ LossPositions' = LossPositions
         /\ Grown(Records, OutputLine, RecordLine(n), Records') /\ LossReports' = LossReports
         /\ Ranked(RecordPositions)' /\ Ranked(LossPositions)'
<1>1. output \in Seq(OutputLine) /\ Len(output) \in Nat
  BY DEF JsonlTypeInv
<1>2. PICK e \in OutputLine : e = RecordLine(n) /\ ~IsLossReport(e)
  BY OutputLines
<1>3. PICK u : u = output' /\ Grown(output, OutputLine, e, u)
  BY <1>1, <1>2, AppendGrows
<1>4. RecordPositions' = RecordPositions \cup {Len(output) + 1} /\ LossPositions' = LossPositions
  BY <1>1, <1>2, <1>3 DEF RecordPositions, LossPositions, Grown
<1>5. /\ Positions(output, OutputLine, RecordPositions)
      /\ Positions(output, OutputLine, LossPositions)
  BY <1>1, PositionFacts DEF Positions
<1>6. /\ Grown(Records, OutputLine, e, At(u, RecordPositions \cup {Len(output) + 1}))
      /\ Ranked(RecordPositions \cup {Len(output) + 1})
      /\ At(u, LossPositions) = LossReports
  <2>1. /\ Grown(At(output, RecordPositions), OutputLine, e, At(u, RecordPositions \cup {Len(output) + 1}))
        /\ Ranked(RecordPositions \cup {Len(output) + 1})
    BY <1>3, <1>5, AtAppend
  <2>2. At(u, LossPositions) = At(output, LossPositions)
    BY <1>3, <1>5, AtKept
  <2> QED BY <2>1, <2>2 DEF Records, LossReports
<1>7. Ranked(RecordPositions') /\ Ranked(LossPositions')
  BY <1>4, <1>6
<1>8. Records' = At(u, RecordPositions \cup {Len(output) + 1}) /\ LossReports' = LossReports
  BY <1>3, <1>4, <1>6 DEF Records, LossReports
<1> QED BY <1>2, <1>4, <1>6, <1>7, <1>8 DEF Ranked

LEMMA ReportAppended ==
  ASSUME JsonlTypeInv, Ranked(RecordPositions), Ranked(LossPositions),
         NEW n \in Nat, NEW t \in Nat, output' = Append(output, ReportLine(n, t))
  PROVE  /\ LossPositions' = LossPositions \cup {Len(output) + 1}
         /\ RecordPositions' = RecordPositions
         /\ Grown(LossReports, OutputLine, ReportLine(n, t), LossReports') /\ Records' = Records
         /\ Ranked(RecordPositions)' /\ Ranked(LossPositions)'
<1>1. output \in Seq(OutputLine) /\ Len(output) \in Nat
  BY DEF JsonlTypeInv
<1>2. PICK e \in OutputLine : e = ReportLine(n, t) /\ IsLossReport(e)
  BY OutputLines
<1>3. PICK u : u = output' /\ Grown(output, OutputLine, e, u)
  BY <1>1, <1>2, AppendGrows
<1>4. LossPositions' = LossPositions \cup {Len(output) + 1} /\ RecordPositions' = RecordPositions
  BY <1>1, <1>2, <1>3 DEF RecordPositions, LossPositions, Grown
<1>5. /\ Positions(output, OutputLine, RecordPositions)
      /\ Positions(output, OutputLine, LossPositions)
  BY <1>1, PositionFacts DEF Positions
<1>6. /\ Grown(LossReports, OutputLine, e, At(u, LossPositions \cup {Len(output) + 1}))
      /\ Ranked(LossPositions \cup {Len(output) + 1})
      /\ At(u, RecordPositions) = Records
  <2>1. /\ Grown(At(output, LossPositions), OutputLine, e, At(u, LossPositions \cup {Len(output) + 1}))
        /\ Ranked(LossPositions \cup {Len(output) + 1})
    BY <1>3, <1>5, AtAppend
  <2>2. At(u, RecordPositions) = At(output, RecordPositions)
    BY <1>3, <1>5, AtKept
  <2> QED BY <2>1, <2>2 DEF Records, LossReports
<1>7. Ranked(RecordPositions') /\ Ranked(LossPositions')
  BY <1>4, <1>6
<1>8. LossReports' = At(u, LossPositions \cup {Len(output) + 1}) /\ Records' = Records
  BY <1>3, <1>4, <1>6 DEF Records, LossReports
<1> QED BY <1>2, <1>4, <1>6, <1>7, <1>8 DEF Ranked

LEMMA OutputKept ==
  ASSUME output' = output
  PROVE  /\ RecordPositions' = RecordPositions /\ LossPositions' = LossPositions
         /\ Records' = Records /\ LossReports' = LossReports
         /\ Ranked(RecordPositions)' <=> Ranked(RecordPositions)
         /\ Ranked(LossPositions)' <=> Ranked(LossPositions)
<1>1. RecordPositions' = RecordPositions /\ LossPositions' = LossPositions
  BY DEF RecordPositions, LossPositions
<1> QED BY <1>1 DEF Records, LossReports, Ranked

LEMMA JsonlTypeNext ==
  ASSUME JsonlTypeInv, WriterInv, reportedLost <= totalLost, QueuedOutputNext
  PROVE  JsonlTypeInv'
<1> USE DEF JsonlTypeInv, callerVars, writerVars, WriterRunning
<1>1. CASE EncodeBegin
  BY <1>1 DEF EncodeBegin
<1>2. CASE EncodeRefused
  BY <1>2 DEF EncodeRefused
<1>3. CASE EncodeSend
  <2>1. lineQueue' \in Seq(Nat \ {0}) /\ totalLost' \in Nat /\ offered' \in Nat
    <3>1. offered + 1 \in Nat \ {0} /\ totalLost + 1 \in Nat
      OBVIOUS
    <3>2. Append(lineQueue, offered + 1) \in Seq(Nat \ {0})
      BY <3>1
    <3> QED BY <1>3, <3>1, <3>2 DEF EncodeSend
  <2> QED BY <1>3, <2>1 DEF EncodeSend
<1>4. CASE CloseLines
  BY <1>4 DEF CloseLines
<1>5. CASE LinesClosed
  BY <1>5 DEF LinesClosed
<1>6. CASE LinesDrainTimeout
  BY <1>6 DEF LinesDrainTimeout
<1>7. CASE WriterTake
  <2>1. lineQueue' \in Seq(Nat \ {0}) /\ recordInHand' \in Nat
    <3>1. CASE lineQueue # <<>>
      <4>1. Head(lineQueue) \in Nat /\ Tail(lineQueue) \in Seq(Nat \ {0})
        BY <3>1
      <4> QED BY <1>7, <3>1, <4>1 DEF WriterTake
    <3>2. CASE lineQueue = <<>>
      BY <1>7, <3>2 DEF WriterTake
    <3> QED BY <3>1, <3>2
  <2> QED BY <1>7, <2>1 DEF WriterTake
<1>8. CASE WriterWrite
  <2>1. recordInHand \in Nat \ {0}
    BY <1>8 DEF WriterWrite, WriterInv, NoRecord
  <2>2. RecordLine(recordInHand) \in OutputLine /\ output' = Append(output, RecordLine(recordInHand))
    BY <1>8, <2>1, OutputLines DEF WriterWrite, RecordLine
  <2>3. output' \in Seq(OutputLine)
    BY <2>2
  <2> QED BY <1>8, <2>3 DEF WriterWrite, NoRecord
<1>9. CASE WriterFails
  BY <1>9 DEF WriterFails
<1>10. CASE WriterLoss
  <2>1. CASE totalLost = reportedLost
    BY <1>10, <2>1 DEF WriterLoss, AfterLoss
  <2>2. CASE totalLost # reportedLost
    <3>1. lossInHand' = totalLost - reportedLost /\ reportedLost' = totalLost
          /\ writerAt' = "writeLoss"
      BY <1>10, <2>2 DEF WriterLoss
    <3>2. lossInHand' \in Nat
      BY <3>1
    <3> QED BY <1>10, <3>1, <3>2 DEF WriterLoss
  <2> QED BY <2>1, <2>2
<1>11. CASE WriterReport
  <2>1. ReportLine(lossInHand, reportedLost) \in OutputLine
        /\ output' = Append(output, ReportLine(lossInHand, reportedLost))
    BY <1>11, OutputLines DEF WriterReport, ReportLine
  <2>2. output' \in Seq(OutputLine)
    BY <2>1
  <2> QED BY <1>11, <2>2 DEF WriterReport, AfterLoss
<1> QED
  BY <1>1, <1>2, <1>3, <1>4, <1>5, <1>6, <1>7, <1>8, <1>9, <1>10, <1>11 DEF QueuedOutputNext

LEMMA WriterNext ==
  ASSUME JsonlTypeInv, WriterInv, QueuedOutputNext
  PROVE  WriterInv'
<1> USE DEF JsonlTypeInv, WriterInv, callerVars, writerVars, WriterRunning, NoRecord
<1>1. CASE EncodeBegin
  BY <1>1 DEF EncodeBegin
<1>2. CASE EncodeRefused
  BY <1>2 DEF EncodeRefused
<1>3. CASE EncodeSend
  <2>1. ~lineQueueClosed /\ ~draining
    BY <1>3 DEF EncodeSend
  <2> QED BY <1>3, <2>1 DEF EncodeSend
<1>4. CASE CloseLines
  BY <1>4 DEF CloseLines
<1>5. CASE LinesClosed
  BY <1>5 DEF LinesClosed
<1>6. CASE LinesDrainTimeout
  BY <1>6 DEF LinesDrainTimeout
<1>7. CASE WriterTake
  <2>1. CASE lineQueue # <<>>
    <3>1. Head(lineQueue) \in Nat \ {0}
      BY <2>1
    <3> QED BY <1>7, <2>1, <3>1 DEF WriterTake
  <2>2. CASE lineQueue = <<>>
    BY <1>7, <2>2 DEF WriterTake
  <2> QED BY <2>1, <2>2
<1>8. CASE WriterWrite
  BY <1>8 DEF WriterWrite
<1>9. CASE WriterFails
  BY <1>9 DEF WriterFails
<1>10. CASE WriterLoss
  BY <1>10 DEF WriterLoss, AfterLoss
<1>11. CASE WriterReport
  BY <1>11 DEF WriterReport, AfterLoss
<1> QED
  BY <1>1, <1>2, <1>3, <1>4, <1>5, <1>6, <1>7, <1>8, <1>9, <1>10, <1>11 DEF QueuedOutputNext

LEMMA ReportFacts ==
  ASSUME JsonlTypeInv, Ranked(RecordPositions), Ranked(LossPositions)
  PROVE  /\ Records \in Seq(OutputLine) /\ LossReports \in Seq(OutputLine)
         /\ Len(Records) = Cardinality(RecordPositions)
         /\ \A k \in 1..Len(Records) :
              Nth(RecordPositions, k) \in RecordPositions
              /\ Records[k] = output[Nth(RecordPositions, k)]
         /\ ReportedTotal \in Nat /\ ReportedTotal = LastTotal(LossReports)
<1>1. output \in Seq(OutputLine)
  BY DEF JsonlTypeInv
<1>2. /\ Positions(output, OutputLine, RecordPositions)
      /\ Positions(output, OutputLine, LossPositions)
  BY <1>1, PositionFacts DEF Positions
<1>3. /\ Records \in Seq(OutputLine) /\ Len(Records) = Cardinality(RecordPositions)
      /\ \A k \in 1..Len(Records) :
           Nth(RecordPositions, k) \in RecordPositions
           /\ Records[k] = output[Nth(RecordPositions, k)]
  BY <1>2, AtFacts DEF Records
<1>4. /\ LossReports \in Seq(OutputLine)
      /\ \A k \in 1..Len(LossReports) :
           Nth(LossPositions, k) \in LossPositions
           /\ LossReports[k] = output[Nth(LossPositions, k)]
  BY <1>2, AtFacts DEF LossReports
<1>5. \A p \in LossPositions : output[p].total \in Nat
  <2>1. \A p \in LossPositions : output[p] \in OutputLine /\ IsLossReport(output[p])
    BY <1>1 DEF LossPositions
  <2>2. \A line \in OutputLine : IsLossReport(line) => line.total \in Nat
    BY DEF OutputLine, IsLossReport
  <2> QED BY <2>1, <2>2
<1>6. ReportedTotal = LastTotal(LossReports)
  BY DEF ReportedTotal, LastTotal
<1>7. LossReports # <<>> => Len(LossReports) \in 1..Len(LossReports)
  BY <1>4
<1>8. ReportedTotal \in Nat
  BY <1>4, <1>5, <1>6, <1>7 DEF LastTotal
<1> QED BY <1>3, <1>4, <1>6, <1>8

LEMMA LossReportsParts ==
  LossReportsExact <=>
    AddsUp(LossReports) /\ reportedLost = lossInHand + ReportedTotal /\ reportedLost <= totalLost
BY DEF LossReportsExact, AddsUp

(* The two loops over the reports: a step that writes none keeps them.     *)
LEMMA ReportsKept ==
  ASSUME LossReports' = LossReports
  PROVE  /\ AddsUp(LossReports)' <=> AddsUp(LossReports)
         /\ ReportedTotal' = ReportedTotal
BY DEF AddsUp, ReportedTotal

LEMMA LossReportsNext ==
  ASSUME JsonlTypeInv, WriterInv, Ranked(RecordPositions), Ranked(LossPositions),
         LossReportsExact, QueuedOutputNext
  PROVE  LossReportsExact' /\ Ranked(RecordPositions)' /\ Ranked(LossPositions)'
<1>1. /\ AddsUp(LossReports) /\ reportedLost = lossInHand + ReportedTotal
      /\ reportedLost <= totalLost
  BY LossReportsParts
<1>2. LossReports \in Seq(OutputLine) /\ ReportedTotal \in Nat
      /\ ReportedTotal = LastTotal(LossReports)
  BY ReportFacts
<1>3. totalLost \in Nat /\ reportedLost \in Nat /\ lossInHand \in Nat
  BY DEF JsonlTypeInv
<1>4. SUFFICES /\ AddsUp(LossReports)' /\ reportedLost' = lossInHand' + ReportedTotal'
               /\ reportedLost' <= totalLost'
               /\ Ranked(RecordPositions)' /\ Ranked(LossPositions)'
  BY DEF LossReportsExact, AddsUp
<1>5. CASE output' = output /\ UNCHANGED <<lossInHand, reportedLost>> /\ totalLost' >= totalLost
           /\ totalLost' \in Nat
  BY <1>1, <1>3, <1>5, OutputKept, ReportsKept
<1>6. CASE WriterLoss
  <2>1. output' = output /\ totalLost' = totalLost
    BY <1>6 DEF WriterLoss
  <2>2. lossInHand = 0
    BY <1>6 DEF WriterLoss, WriterInv
  <2>3. reportedLost' = lossInHand' + ReportedTotal /\ reportedLost' <= totalLost
    BY <1>1, <1>2, <1>3, <1>6, <2>2 DEF WriterLoss
  <2> QED BY <1>1, <2>1, <2>3, OutputKept, ReportsKept
<1>7. CASE WriterWrite
  <2>1. recordInHand \in Nat \ {0} /\ output' = Append(output, RecordLine(recordInHand))
    BY <1>7 DEF WriterWrite, WriterInv, JsonlTypeInv, NoRecord, RecordLine
  <2>2. LossReports' = LossReports /\ Ranked(RecordPositions)' /\ Ranked(LossPositions)'
    BY <2>1, RecordAppended
  <2>3. UNCHANGED <<lossInHand, reportedLost, totalLost>>
    BY <1>7 DEF WriterWrite
  <2> QED BY <1>1, <2>2, <2>3, ReportsKept
<1>8. CASE WriterReport
  <2>1. PICK e : e = ReportLine(lossInHand, reportedLost)
    OBVIOUS
  <2>2. output' = Append(output, ReportLine(lossInHand, reportedLost))
    BY <1>8 DEF WriterReport, ReportLine
  <2>3. Grown(LossReports, OutputLine, e, LossReports') /\ Ranked(RecordPositions)'
        /\ Ranked(LossPositions)'
    BY <1>3, <2>1, <2>2, ReportAppended
  <2>4. e.dropped = lossInHand /\ e.total = reportedLost
    BY <1>3, <2>1, OutputLines
  <2>5. e.total = e.dropped + LastTotal(LossReports)
    BY <1>1, <1>2, <2>4
  <2>6. PICK s : s = LossReports'
    OBVIOUS
  <2>7. AddsUp(s) /\ LastTotal(s) = reportedLost
    BY <1>1, <1>2, <2>3, <2>4, <2>5, <2>6, AddsUpGrows
  <2>8. AddsUp(LossReports)' /\ ReportedTotal' = reportedLost
    BY <2>6, <2>7 DEF AddsUp, LastTotal, ReportedTotal
  <2>9. lossInHand' = 0 /\ UNCHANGED <<reportedLost, totalLost>>
    BY <1>8 DEF WriterReport
  <2> QED BY <1>1, <1>3, <2>3, <2>8, <2>9
<1>9. CASE EncodeSend
  BY <1>3, <1>5, <1>9 DEF EncodeSend, writerVars
<1>10. CASE \/ EncodeBegin \/ EncodeRefused \/ CloseLines \/ LinesClosed \/ LinesDrainTimeout
            \/ WriterTake \/ WriterFails
  BY <1>3, <1>5, <1>10 DEF EncodeBegin, EncodeRefused, CloseLines, LinesClosed,
     LinesDrainTimeout, WriterTake, WriterFails, writerVars
<1> QED BY <1>6, <1>7, <1>8, <1>9, <1>10 DEF QueuedOutputNext

LEMMA JsonlCountNext ==
  ASSUME JsonlTypeInv, WriterInv, Ranked(RecordPositions), Ranked(LossPositions),
         JsonlCountInv, QueuedOutputNext
  PROVE  JsonlCountInv'
<1>1. Len(Records) \in Nat
  BY ReportFacts
<1>2. totalLost \in Nat /\ offered \in Nat /\ lineQueue \in Seq(Nat \ {0}) /\ recordInHand \in Nat
  BY DEF JsonlTypeInv
<1>3. offered = Len(Records) + Holding + Len(lineQueue) + totalLost
  BY DEF JsonlCountInv
<1>4. SUFFICES offered' = Len(Records)' + Holding' + Len(lineQueue)' + totalLost'
  BY DEF JsonlCountInv
<1>5. CASE UNCHANGED <<output, offered, recordInHand, lineQueue, totalLost>>
  BY <1>3, <1>5, OutputKept DEF Holding
<1>6. CASE EncodeSend
  <2>1. Holding' = Holding /\ Records' = Records
    BY <1>6, OutputKept DEF EncodeSend, writerVars, Holding
  <2>2. offered' = offered + 1 /\ Len(lineQueue)' + totalLost' = Len(lineQueue) + totalLost + 1
    BY <1>2, <1>6 DEF EncodeSend
  <2>3. Holding \in Nat
    BY DEF Holding
  <2>4. Len(lineQueue') \in Nat /\ totalLost' \in Nat /\ Len(lineQueue) \in Nat
    BY <1>2, <1>6 DEF EncodeSend
  <2> QED BY <1>1, <1>2, <1>3, <2>1, <2>2, <2>3, <2>4
<1>7. CASE WriterTake
  <2>1. Records' = Records /\ totalLost' = totalLost /\ offered' = offered
    BY <1>7, OutputKept DEF WriterTake, callerVars
  <2>2. CASE lineQueue # <<>>
    <3>1. recordInHand = NoRecord
      BY <1>7 DEF WriterTake, WriterInv
    <3>2. Head(lineQueue) \in Nat \ {0} /\ Len(Tail(lineQueue)) = Len(lineQueue) - 1
          /\ Len(lineQueue) \in Nat
      BY <1>2, <2>2
    <3>3. Holding = 0 /\ Holding' = 1 /\ Len(lineQueue)' = Len(lineQueue) - 1
      BY <1>7, <2>2, <3>1, <3>2 DEF WriterTake, Holding, NoRecord
    <3> QED BY <1>1, <1>2, <1>3, <2>1, <3>2, <3>3
  <2>3. CASE lineQueue = <<>>
    BY <1>3, <1>7, <2>1, <2>3 DEF WriterTake, Holding
  <2> QED BY <2>2, <2>3
<1>8. CASE WriterWrite
  <2>1. recordInHand \in Nat \ {0} /\ output' = Append(output, RecordLine(recordInHand))
    BY <1>2, <1>8 DEF WriterWrite, WriterInv, NoRecord, RecordLine
  <2>2. Len(Records)' = Len(Records) + 1
    BY <2>1, RecordAppended DEF Grown
  <2>3. Holding = 1 /\ Holding' = 0
    BY <1>8, <2>1 DEF WriterWrite, Holding, NoRecord
  <2>4. UNCHANGED <<offered, lineQueue, totalLost>>
    BY <1>8 DEF WriterWrite, callerVars
  <2>5. Len(lineQueue) \in Nat
    BY <1>2
  <2> QED BY <1>1, <1>2, <1>3, <2>2, <2>3, <2>4, <2>5
<1>9. CASE WriterReport
  <2>1. lossInHand \in Nat /\ reportedLost \in Nat
        /\ output' = Append(output, ReportLine(lossInHand, reportedLost))
    BY <1>9 DEF WriterReport, ReportLine, JsonlTypeInv
  <2>2. Records' = Records
    BY <2>1, ReportAppended
  <2> QED BY <1>3, <1>9, <2>2 DEF WriterReport, callerVars, Holding
<1>10. CASE \/ EncodeBegin \/ EncodeRefused \/ CloseLines \/ LinesClosed \/ LinesDrainTimeout
            \/ WriterLoss \/ WriterFails
  BY <1>5, <1>10 DEF EncodeBegin, EncodeRefused, CloseLines, LinesClosed,
     LinesDrainTimeout, WriterLoss, WriterFails, writerVars, callerVars
<1> QED BY <1>6, <1>7, <1>8, <1>9, <1>10 DEF QueuedOutputNext

LEMMA JsonlOrderNext ==
  ASSUME JsonlTypeInv, WriterInv, Ranked(RecordPositions), Ranked(LossPositions),
         JsonlOrderInv, QueuedOutputNext
  PROVE  JsonlOrderInv'
<1>1. /\ offered \in Nat /\ lineQueue \in Seq(Nat \ {0}) /\ recordInHand \in Nat
      /\ output \in Seq(OutputLine)
  BY DEF JsonlTypeInv
<1>2. \A i \in RecordPositions : i \in 1..Len(output) /\ output[i].record \in Nat
  <2>1. \A i \in RecordPositions : output[i] \in OutputLine /\ ~IsLossReport(output[i])
    BY <1>1 DEF RecordPositions
  <2>2. \A line \in OutputLine : ~IsLossReport(line) => line.record \in Nat
    BY DEF OutputLine, IsLossReport
  <2> QED BY <2>1, <2>2 DEF RecordPositions
<1>3. CASE UNCHANGED <<output, offered, recordInHand, lineQueue>>
  BY <1>3, OutputKept DEF JsonlOrderInv
<1>4. CASE EncodeSend
  <2>1. output' = output /\ recordInHand' = recordInHand /\ offered' = offered + 1
        /\ RecordPositions' = RecordPositions
    BY <1>4, OutputKept DEF EncodeSend, writerVars
  <2>2. CASE lineQueue' = lineQueue
    BY <1>1, <1>2, <2>1, <2>2 DEF JsonlOrderInv
  <2>3. CASE lineQueue' = Append(lineQueue, offered + 1)
    <3>1. PICK q : q = lineQueue'
      OBVIOUS
    <3>2. PICK n \in Nat : n = Len(lineQueue)
      BY <1>1
    <3>3. Len(q) = n + 1 /\ q[n + 1] = offered + 1 /\ \A k \in 1..n : q[k] = lineQueue[k]
      BY <1>1, <2>3, <3>1, <3>2
    <3>4. \A k \in 1..Len(q) : k \in 1..n \/ k = n + 1
      BY <3>3
    <3>5. \A k \in 1..n : lineQueue[k] \in Nat
      BY <1>1, <3>2
    <3>6. \A i \in RecordPositions :
            /\ output[i].record <= offered + 1
            /\ \A k \in 1..Len(q) : output[i].record < q[k]
      <4> TAKE i \in RecordPositions
      <4>1. output[i].record <= offered /\ output[i].record \in Nat
        BY <1>2 DEF JsonlOrderInv
      <4>2. \A k \in 1..n : output[i].record < lineQueue[k]
        BY <3>2 DEF JsonlOrderInv
      <4>3. output[i].record <= offered + 1 /\ output[i].record < offered + 1
        BY <1>1, <4>1
      <4> QED BY <3>3, <3>4, <4>2, <4>3
    <3>7. recordInHand <= offered + 1
      BY <1>1 DEF JsonlOrderInv
    <3>8. \A k \in 1..Len(q) :
            /\ recordInHand < q[k] /\ q[k] <= offered + 1
            /\ \A l \in 1..Len(q) : k < l => q[k] < q[l]
      <4> TAKE k \in 1..Len(q)
      <4>1. recordInHand < q[k] /\ q[k] <= offered + 1
        BY <1>1, <3>2, <3>3, <3>4, <3>5 DEF JsonlOrderInv
      <4>2. ASSUME NEW l \in 1..Len(q), k < l PROVE q[k] < q[l]
        <5>1. k \in 1..n
          BY <3>3, <4>2
        <5>2. CASE l = n + 1
          <6>1. lineQueue[k] <= offered /\ lineQueue[k] \in Nat
            BY <3>2, <3>5, <5>1 DEF JsonlOrderInv
          <6> QED BY <1>1, <3>3, <5>1, <5>2, <6>1
        <5>3. CASE l \in 1..n
          BY <3>2, <3>3, <4>2, <5>1, <5>3 DEF JsonlOrderInv
        <5> QED BY <3>4, <5>2, <5>3
      <4> QED BY <4>1, <4>2
    <3>9. \A i, j \in RecordPositions : i < j => output[i].record < output[j].record
      BY DEF JsonlOrderInv
    <3>10. \A i \in RecordPositions : recordInHand # NoRecord => output[i].record < recordInHand
      BY DEF JsonlOrderInv
    <3> QED BY <2>1, <3>1, <3>6, <3>7, <3>8, <3>9, <3>10 DEF JsonlOrderInv
  <2> QED BY <1>4, <2>2, <2>3 DEF EncodeSend
<1>5. CASE WriterTake
  <2>1. output' = output /\ offered' = offered /\ RecordPositions' = RecordPositions
    BY <1>5, OutputKept DEF WriterTake, callerVars
  <2>2. CASE lineQueue # <<>>
    <3>1. PICK q : q = lineQueue'
      OBVIOUS
    <3>2. PICK n \in Nat : Len(lineQueue) = n + 1
      <4>1. Len(lineQueue) \in Nat /\ Len(lineQueue) # 0
        BY <1>1, <2>2
      <4> QED BY <4>1
    <3>3. Len(q) = n /\ recordInHand' = lineQueue[1] /\ \A k \in 1..n : q[k] = lineQueue[k + 1]
      BY <1>1, <1>5, <2>2, <3>1, <3>2 DEF WriterTake
    <3>4. \A k \in 1..(n + 1) : lineQueue[k] \in Nat
      BY <1>1, <3>2
    <3>5. 1 \in 1..(n + 1) /\ \A k \in 1..n : k + 1 \in 1..(n + 1) /\ 1 < k + 1
      OBVIOUS
    <3>6. \A i \in RecordPositions :
            /\ output[i].record < lineQueue[1]
            /\ \A k \in 1..n : output[i].record < q[k]
      BY <1>2, <3>2, <3>3, <3>4, <3>5 DEF JsonlOrderInv
    <3>7. lineQueue[1] <= offered
      BY <3>2, <3>5 DEF JsonlOrderInv
    <3>8. \A k \in 1..n :
            /\ lineQueue[1] < q[k] /\ q[k] <= offered
            /\ \A l \in 1..n : k < l => q[k] < q[l]
      <4> TAKE k \in 1..n
      <4>1. lineQueue[1] < q[k] /\ q[k] <= offered
        BY <3>2, <3>3, <3>5 DEF JsonlOrderInv
      <4>2. ASSUME NEW l \in 1..n, k < l PROVE q[k] < q[l]
        <5>1. k + 1 \in 1..(n + 1) /\ l + 1 \in 1..(n + 1) /\ k + 1 < l + 1
          BY <4>2
        <5>2. lineQueue[k + 1] < lineQueue[l + 1]
          BY <3>2, <5>1 DEF JsonlOrderInv
        <5> QED BY <3>3, <5>2
      <4> QED BY <4>1, <4>2
    <3> QED BY <2>1, <3>1, <3>3, <3>6, <3>7, <3>8 DEF JsonlOrderInv
  <2>3. CASE lineQueue = <<>>
    <3>1. UNCHANGED <<recordInHand, lineQueue>>
      BY <1>5, <2>3 DEF WriterTake
    <3> QED BY <1>3, <2>1, <3>1
  <2> QED BY <2>2, <2>3
<1>6. CASE WriterWrite
  <2>1. recordInHand \in Nat \ {0} /\ output' = Append(output, RecordLine(recordInHand))
    BY <1>1, <1>6 DEF WriterWrite, WriterInv, NoRecord, RecordLine
  <2>2. RecordPositions' = RecordPositions \cup {Len(output) + 1}
    BY <2>1, RecordAppended
  <2>0. PICK e \in OutputLine : e = RecordLine(recordInHand) /\ e.record = recordInHand
    BY <2>1, OutputLines
  <2>3. PICK u : u = output' /\ Grown(output, OutputLine, e, u)
    BY <1>1, <2>0, <2>1, AppendGrows
  <2>4. PICK n \in Nat : n = Len(output)
    BY <1>1
  <2>5. Len(u) = n + 1 /\ u[n + 1].record = recordInHand /\ \A k \in 1..n : u[k] = output[k]
    BY <2>0, <2>3, <2>4 DEF Grown
  <2>6. UNCHANGED <<offered, lineQueue>> /\ recordInHand' = 0
    BY <1>6 DEF WriterWrite, callerVars, NoRecord
  <2>7. \A i \in RecordPositions : i \in 1..n /\ i < n + 1
    BY <1>2, <2>4
  <2>8. \A k \in 1..Len(lineQueue) : lineQueue[k] \in Nat \ {0}
    BY <1>1
  <2> QED BY <1>1, <1>2, <2>1, <2>2, <2>3, <2>4, <2>5, <2>6, <2>7, <2>8 DEF JsonlOrderInv, NoRecord
<1>7. CASE WriterReport
  <2>1. lossInHand \in Nat /\ reportedLost \in Nat
        /\ output' = Append(output, ReportLine(lossInHand, reportedLost))
    BY <1>7 DEF WriterReport, ReportLine, JsonlTypeInv
  <2>2. RecordPositions' = RecordPositions
    BY <2>1, ReportAppended
  <2>3. PICK u : u = output'
    OBVIOUS
  <2>4. \A k \in 1..Len(output) : u[k] = output[k]
    BY <1>1, <2>1, <2>3, OutputLines
  <2>5. \A i \in RecordPositions : u[i] = output[i]
    BY <1>2, <2>4
  <2> QED BY <1>7, <2>2, <2>3, <2>5 DEF WriterReport, callerVars, JsonlOrderInv
<1>8. CASE \/ EncodeBegin \/ EncodeRefused \/ CloseLines \/ LinesClosed \/ LinesDrainTimeout
            \/ WriterLoss \/ WriterFails
  BY <1>3, <1>8 DEF EncodeBegin, EncodeRefused, CloseLines, LinesClosed,
     LinesDrainTimeout, WriterLoss, WriterFails, writerVars, callerVars
<1> QED BY <1>4, <1>5, <1>6, <1>7, <1>8 DEF QueuedOutputNext

LEMMA JsonlInvInit ==
  ASSUME QueuedOutputInit
  PROVE  JsonlInv
<1>1. output = <<>> /\ Len(output) = 0
  BY DEF QueuedOutputInit
<1>2. RecordPositions = {} /\ LossPositions = {}
  BY <1>1 DEF RecordPositions, LossPositions
<1>3. Cardinality({}) = 0
  BY FS_EmptySet
<1>4. Ranked(RecordPositions) /\ Ranked(LossPositions)
  BY <1>2, <1>3 DEF Ranked
<1>5. Records = <<>> /\ LossReports = <<>>
  BY <1>2, <1>3 DEF Records, LossReports, At
<1>6. JsonlTypeInv /\ WriterInv
  <2>1. <<>> \in Seq(OutputLine) /\ <<>> \in Seq(Nat \ {0})
    OBVIOUS
  <2>2. JsonlTypeInv
    BY <2>1 DEF QueuedOutputInit, JsonlTypeInv, WriterRunning, NoRecord
  <2>3. WriterInv
    BY DEF QueuedOutputInit, WriterInv
  <2> QED BY <2>2, <2>3
<1>7. LossReportsExact
  BY <1>5 DEF LossReportsExact, ReportedTotal, QueuedOutputInit
<1>8. JsonlCountInv
  BY <1>5 DEF JsonlCountInv, Holding, QueuedOutputInit
<1>9. JsonlOrderInv
  BY <1>2 DEF JsonlOrderInv, QueuedOutputInit, NoRecord
<1> QED BY <1>4, <1>6, <1>7, <1>8, <1>9 DEF JsonlInv

LEMMA JsonlInvNext ==
  ASSUME JsonlInv, QueuedOutputNext
  PROVE  JsonlInv'
<1>1. /\ JsonlTypeInv /\ WriterInv /\ Ranked(RecordPositions) /\ Ranked(LossPositions)
      /\ LossReportsExact /\ JsonlCountInv /\ JsonlOrderInv
  BY DEF JsonlInv
<1>2. reportedLost <= totalLost
  BY <1>1 DEF LossReportsExact
<1>3. JsonlTypeInv'
  BY <1>1, <1>2, JsonlTypeNext
<1>4. WriterInv'
  BY <1>1, WriterNext
<1>5. LossReportsExact' /\ Ranked(RecordPositions)' /\ Ranked(LossPositions)'
  BY <1>1, LossReportsNext
<1>6. JsonlCountInv'
  BY <1>1, JsonlCountNext
<1>7. JsonlOrderInv'
  BY <1>1, JsonlOrderNext
<1> QED BY <1>3, <1>4, <1>5, <1>6, <1>7 DEF JsonlInv

LEMMA JsonlInvKept ==
  ASSUME JsonlInv, UNCHANGED queuedOutputVars
  PROVE  JsonlInv'
<1>1. /\ UNCHANGED <<encodeAt, offered, lineQueueClosed, closeResult, lineQueue, totalLost>>
      /\ UNCHANGED <<writerAt, recordInHand, lossInHand, reportedLost, draining, outputFailed>>
      /\ output' = output
  BY DEF queuedOutputVars, callerVars, writerVars
<1>2. /\ RecordPositions' = RecordPositions /\ LossPositions' = LossPositions
      /\ Records' = Records /\ LossReports' = LossReports
      /\ Ranked(RecordPositions)' /\ Ranked(LossPositions)'
  BY <1>1, OutputKept DEF JsonlInv
<1>3. JsonlTypeInv' /\ WriterInv'
  BY <1>1 DEF JsonlInv, JsonlTypeInv, WriterInv
<1>4. LossReportsExact'
  BY <1>1, <1>2 DEF JsonlInv, LossReportsExact, ReportedTotal
<1>5. JsonlCountInv' /\ JsonlOrderInv'
  BY <1>1, <1>2 DEF JsonlInv, JsonlCountInv, JsonlOrderInv, Holding
<1> QED BY <1>2, <1>3, <1>4, <1>5 DEF JsonlInv

-----------------------------------------------------------------------------
(***************************************************************************)
(* The JSONL queue implements LossyQueue.                                  *)
(***************************************************************************)
InHand(a) == IF a = 0 THEN <<>> ELSE <<a>>

LEMMA InHandFacts ==
  ASSUME NEW a \in Nat, NEW q \in Seq(Nat \ {0})
  PROVE  /\ InHand(a) \o q \in Seq(Nat)
         /\ a = 0 => InHand(a) \o q = q
         /\ a # 0 => /\ InHand(a) \o q # <<>> /\ Head(InHand(a) \o q) = a
                     /\ Tail(InHand(a) \o q) = q /\ Len(InHand(a) \o q) = Len(q) + 1
         /\ \A e \in Nat \ {0} : InHand(a) \o Append(q, e) = Append(InHand(a) \o q, e)
<1>1. CASE a = 0
  BY <1>1 DEF InHand
<1>2. CASE a # 0
  <2>1. InHand(a) = <<a>> /\ <<a>> \in Seq(Nat)
    BY <1>2 DEF InHand
  <2>2. \A e \in Nat \ {0} : <<a>> \o Append(q, e) = Append(<<a>> \o q, e)
    OBVIOUS
  <2>3. Tail(<<a>> \o q) = q
    OBVIOUS
  <2>4. <<a>> \o q \in Seq(Nat)
    BY <2>1
  <2>5. <<a>> \o q # <<>> /\ Head(<<a>> \o q) = a /\ Len(<<a>> \o q) = Len(q) + 1
    OBVIOUS
  <2> QED BY <1>2, <2>1, <2>2, <2>3, <2>4, <2>5
<1> QED BY <1>1, <1>2

LEMMA TakeInHand ==
  ASSUME NEW q \in Seq(Nat \ {0}), q # <<>>
  PROVE  InHand(Head(q)) \o Tail(q) = q
<1>1. Head(q) \in Nat \ {0} /\ Tail(q) \in Seq(Nat \ {0})
  OBVIOUS
<1>2. InHand(Head(q)) = <<Head(q)>>
  BY <1>1 DEF InHand
<1>3. <<Head(q)>> \o Tail(q) = q
  OBVIOUS
<1> QED BY <1>2, <1>3

JsonlWaiting == InHand(recordInHand) \o lineQueue
JsonlOut == [i \in 1..Len(Records) |-> Records[i].record]
JsonlConsumer == IF writerAt # "done" THEN "running"
                 ELSE IF outputFailed THEN "failed" ELSE "ended"

LEMMA JsonlOutType ==
  ASSUME JsonlInv
  PROVE  JsonlOut \in Seq(Nat) /\ Len(JsonlOut) = Len(Records)
         /\ \A k \in 1..Len(Records) : JsonlOut[k] = Records[k].record
<1>1. /\ Records \in Seq(OutputLine)
      /\ \A k \in 1..Len(Records) :
           Nth(RecordPositions, k) \in RecordPositions
           /\ Records[k] = output[Nth(RecordPositions, k)]
  BY ReportFacts DEF JsonlInv
<1>2. \A i \in RecordPositions : output[i].record \in Nat
  <2>1. \A i \in RecordPositions : output[i] \in OutputLine /\ ~IsLossReport(output[i])
    BY DEF RecordPositions, JsonlInv, JsonlTypeInv
  <2>2. \A line \in OutputLine : ~IsLossReport(line) => line.record \in Nat
    BY DEF OutputLine, IsLossReport
  <2> QED BY <2>1, <2>2
<1>3. \A k \in 1..Len(Records) : Records[k].record \in Nat
  BY <1>1, <1>2
<1> QED BY <1>1, <1>3 DEF JsonlOut

LEMMA JsonlStep ==
  ASSUME JsonlInv, QueuedOutputNext
  PROVE  JsonlQueue!Next \/ UNCHANGED JsonlQueue!vars
<1>0. /\ JsonlTypeInv /\ WriterInv /\ JsonlInv'
  BY JsonlInvNext DEF JsonlInv
<1>1. /\ recordInHand \in Nat /\ lineQueue \in Seq(Nat \ {0}) /\ offered \in Nat
      /\ JsonlWaiting \in Seq(Nat) /\ Len(lineQueue) \in Nat
      /\ Len(JsonlWaiting) = Len(lineQueue) + Holding /\ Holding \in {0, 1}
  <2>1. recordInHand \in Nat /\ lineQueue \in Seq(Nat \ {0}) /\ offered \in Nat
    BY <1>0 DEF JsonlTypeInv
  <2>2. Len(lineQueue) \in Nat
    BY <2>1
  <2>3. JsonlWaiting \in Seq(Nat)
    BY <2>1, InHandFacts DEF JsonlWaiting
  <2>4. CASE recordInHand = 0
    BY <2>1, <2>2, <2>3, <2>4, InHandFacts DEF JsonlWaiting, Holding, NoRecord
  <2>5. CASE recordInHand # 0
    BY <2>1, <2>2, <2>3, <2>5, InHandFacts DEF JsonlWaiting, Holding, NoRecord
  <2> QED BY <2>4, <2>5
<1>2. ASSUME Records' = Records PROVE JsonlOut' = JsonlOut
  BY <1>2 DEF JsonlOut
<1> USE DEF InHand, NoRecord
<1>3. CASE EncodeBegin \/ EncodeRefused \/ LinesClosed \/ LinesDrainTimeout
  <2>1. UNCHANGED <<offered, totalLost, lineQueue, recordInHand, output, lineQueueClosed, writerAt,
                    outputFailed>>
    BY <1>3 DEF EncodeBegin, EncodeRefused, LinesClosed, LinesDrainTimeout, writerVars
  <2>2. JsonlOut' = JsonlOut
    BY <1>2, <2>1, OutputKept
  <2> QED BY <2>1, <2>2 DEF JsonlQueue!vars, JsonlOut
<1>4. CASE EncodeSend
  <2>1. ~lineQueueClosed /\ offered' = offered + 1
        /\ UNCHANGED <<recordInHand, output, lineQueueClosed, writerAt, outputFailed>>
    BY <1>0, <1>4 DEF EncodeSend, WriterInv, writerVars
  <2>2. JsonlOut' = JsonlOut
    BY <1>2, <2>1, OutputKept
  <2>3. \/ Len(JsonlWaiting) <= Capacity /\ JsonlWaiting' = Append(JsonlWaiting, offered + 1)
           /\ totalLost' = totalLost
        \/ Len(JsonlWaiting) >= Capacity /\ totalLost' = totalLost + 1
           /\ JsonlWaiting' = JsonlWaiting
    <3>1. CASE Len(lineQueue) < Capacity
      <4>1. lineQueue' = Append(lineQueue, offered + 1) /\ totalLost' = totalLost
        BY <1>4, <3>1 DEF EncodeSend
      <4>2. offered + 1 \in Nat \ {0}
        BY <1>1
      <4>3. JsonlWaiting' = Append(JsonlWaiting, offered + 1)
        BY <1>1, <2>1, <4>1, <4>2, InHandFacts DEF JsonlWaiting
      <4>4. Len(JsonlWaiting) <= Capacity
        BY <1>1, <3>1, OutputAssumption
      <4> QED BY <4>1, <4>3, <4>4
    <3>2. CASE ~(Len(lineQueue) < Capacity)
      <4>1. totalLost' = totalLost + 1 /\ lineQueue' = lineQueue
        BY <1>4, <3>2 DEF EncodeSend
      <4>2. Len(JsonlWaiting) >= Capacity
        BY <1>1, <3>2, OutputAssumption
      <4> QED BY <2>1, <4>1, <4>2 DEF JsonlWaiting
    <3> QED BY <3>1, <3>2
  <2>4. JsonlQueue!Offer
    BY <2>1, <2>2, <2>3 DEF JsonlQueue!Offer, JsonlOut, JsonlWaiting
  <2> QED BY <2>4 DEF JsonlQueue!Next
<1>5. CASE CloseLines
  <2>1. ~lineQueueClosed /\ lineQueueClosed'
        /\ UNCHANGED <<offered, totalLost, lineQueue, recordInHand, output, writerAt, outputFailed>>
    BY <1>0, <1>5 DEF CloseLines, WriterInv, writerVars
  <2>2. JsonlOut' = JsonlOut
    BY <1>2, <2>1, OutputKept
  <2>3. JsonlQueue!Close
    BY <2>1, <2>2 DEF JsonlQueue!Close, JsonlOut
  <2> QED BY <2>3 DEF JsonlQueue!Next
<1>6. CASE WriterTake
  <2>1. UNCHANGED <<offered, totalLost, output, lineQueueClosed, outputFailed>>
        /\ writerAt = "take" /\ writerAt' # "done"
    BY <1>6 DEF WriterTake, callerVars
  <2>2. JsonlOut' = JsonlOut
    BY <1>2, <2>1, OutputKept
  <2>3. JsonlWaiting' = JsonlWaiting
    <3>1. CASE lineQueue # <<>>
      <4>1. recordInHand = 0
        BY <1>0, <1>6 DEF WriterTake, WriterInv
      <4>2. JsonlWaiting = lineQueue
        BY <1>1, <4>1, InHandFacts DEF JsonlWaiting
      <4>3. JsonlWaiting' = InHand(Head(lineQueue)) \o Tail(lineQueue)
        BY <1>6, <3>1 DEF WriterTake, JsonlWaiting
      <4> QED BY <1>1, <3>1, <4>2, <4>3, TakeInHand
    <3>2. CASE lineQueue = <<>>
      BY <1>6, <3>2 DEF WriterTake, JsonlWaiting
    <3> QED BY <3>1, <3>2
  <2> QED BY <2>1, <2>2, <2>3 DEF JsonlQueue!vars, JsonlOut, JsonlWaiting
<1>7. CASE WriterWrite
  <2>1. /\ recordInHand \in Nat \ {0} /\ output' = Append(output, RecordLine(recordInHand))
        /\ writerAt = "write" /\ writerAt' = "loss" /\ recordInHand' = 0
        /\ UNCHANGED <<offered, totalLost, lineQueue, lineQueueClosed, outputFailed>>
    BY <1>0, <1>1, <1>7 DEF WriterWrite, WriterInv, RecordLine, callerVars
  <2>2. PICK e \in OutputLine : e = RecordLine(recordInHand) /\ e.record = recordInHand
    BY <2>1, OutputLines
  <2>3. Grown(Records, OutputLine, e, Records')
    BY <2>1, <2>2, RecordAppended DEF JsonlInv
  <2>4. /\ JsonlOut \in Seq(Nat) /\ Len(JsonlOut) = Len(Records)
        /\ \A k \in 1..Len(Records) : JsonlOut[k] = Records[k].record
    BY JsonlOutType
  <2>5. PICK o : o = JsonlOut'
    OBVIOUS
  <2>6. PICK r : r = Records'
    OBVIOUS
  <2>7. o = [i \in 1..Len(r) |-> r[i].record]
    BY <2>5, <2>6 DEF JsonlOut
  <2>8. PICK n \in Nat : n = Len(Records)
    BY <2>4
  <2>9. Len(r) = n + 1 /\ r[n + 1] = e /\ \A k \in 1..n : r[k] = Records[k]
    BY <2>3, <2>6, <2>8 DEF Grown
  <2>10. Grown(JsonlOut, Nat, recordInHand, o)
    <3>1. \A k \in 1..n : JsonlOut[k] \in Nat /\ JsonlOut[k] = Records[k].record
      BY <2>4, <2>8
    <3>2. \A k \in 1..n : k \in 1..(n + 1) /\ r[k].record = JsonlOut[k]
      BY <2>9, <3>1
    <3>3. n + 1 \in 1..(n + 1) /\ r[n + 1].record = recordInHand
      BY <2>2, <2>9
    <3>4. o = [i \in 1..(n + 1) |-> r[i].record]
      BY <2>7, <2>9
    <3>5. \A i \in 1..(n + 1) : r[i].record \in Nat
      <4> TAKE i \in 1..(n + 1)
      <4>1. i \in 1..n \/ i = n + 1
        OBVIOUS
      <4> QED BY <2>1, <3>1, <3>2, <3>3, <4>1
    <3>6. o \in Seq(Nat) /\ Len(o) = n + 1
      BY <3>4, <3>5
    <3>7. o[n + 1] = recordInHand /\ \A k \in 1..n : o[k] = JsonlOut[k]
      BY <3>2, <3>3, <3>4
    <3> QED BY <1>1, <2>4, <2>8, <3>6, <3>7 DEF Grown
  <2>11. JsonlOut' = Append(JsonlOut, recordInHand)
    BY <2>4, <2>5, <2>10, GrownAppends
  <2>12. JsonlWaiting # <<>> /\ Head(JsonlWaiting) = recordInHand /\ JsonlWaiting' = Tail(JsonlWaiting)
    <3>1. JsonlWaiting # <<>> /\ Head(JsonlWaiting) = recordInHand /\ Tail(JsonlWaiting) = lineQueue
      BY <1>1, <2>1, InHandFacts DEF JsonlWaiting
    <3>2. JsonlWaiting' = lineQueue
      <4>1. JsonlWaiting' = InHand(0) \o lineQueue
        BY <2>1 DEF JsonlWaiting
      <4> QED BY <1>1, <4>1, InHandFacts
    <3> QED BY <3>1, <3>2
  <2>13. JsonlQueue!Deliver
    BY <2>1, <2>11, <2>12 DEF JsonlQueue!Deliver, JsonlOut, JsonlWaiting
  <2> QED BY <2>13 DEF JsonlQueue!Next
<1>8. CASE WriterFails
  <2>1. /\ writerAt # "done" /\ writerAt' = "done" /\ outputFailed'
        /\ UNCHANGED <<offered, totalLost, lineQueue, recordInHand, output, lineQueueClosed>>
    BY <1>8 DEF WriterFails, callerVars
  <2>2. JsonlOut' = JsonlOut
    BY <1>2, <2>1, OutputKept
  <2>3. JsonlQueue!Fail
    BY <2>1, <2>2 DEF JsonlQueue!Fail, JsonlOut
  <2> QED BY <2>3 DEF JsonlQueue!Next
<1>9. CASE WriterLoss \/ WriterReport
  <2>1. /\ writerAt \in {"loss", "writeLoss"}
        /\ writerAt' \in {"done", "take", "writeLoss"} /\ (writerAt' = "done" => draining)
        /\ UNCHANGED <<offered, totalLost, lineQueue, recordInHand, lineQueueClosed, outputFailed>>
    BY <1>9 DEF WriterLoss, WriterReport, AfterLoss, callerVars
  <2>2. Records' = Records
    <3>1. CASE WriterLoss
      BY <3>1, OutputKept DEF WriterLoss
    <3>2. CASE WriterReport
      <4>1. lossInHand \in Nat /\ reportedLost \in Nat
            /\ output' = Append(output, ReportLine(lossInHand, reportedLost))
        BY <1>0, <3>2 DEF WriterReport, ReportLine, JsonlTypeInv
      <4> QED BY <4>1, ReportAppended DEF JsonlInv
    <3> QED BY <1>9, <3>1, <3>2
  <2>3. JsonlOut' = JsonlOut
    BY <1>2, <2>2
  <2>4. CASE writerAt' # "done"
    BY <2>1, <2>3, <2>4 DEF JsonlQueue!vars, JsonlOut
  <2>5. CASE writerAt' = "done"
    <3>1. ~outputFailed /\ lineQueueClosed /\ lineQueue = <<>> /\ recordInHand = 0
      BY <1>0, <2>1, <2>5 DEF WriterInv
    <3>2. JsonlWaiting = <<>>
      BY <1>1, <3>1, InHandFacts DEF JsonlWaiting
    <3>3. JsonlQueue!End
      BY <2>1, <2>3, <2>5, <3>1, <3>2 DEF JsonlQueue!End, JsonlOut, JsonlWaiting
    <3> QED BY <3>3 DEF JsonlQueue!Next
  <2> QED BY <2>4, <2>5
<1> QED BY <1>3, <1>4, <1>5, <1>6, <1>7, <1>8, <1>9 DEF QueuedOutputNext

-----------------------------------------------------------------------------
(***************************************************************************)
(* The steps of the exporter.                                              *)
(***************************************************************************)
LEMMA ExporterInvInit ==
  ASSUME ExporterInit
  PROVE  ExporterInv
<1>1. <<>> \in Seq(Nat) /\ <<>> \in Seq(Nat \ {0}) /\ Len(<<>>) = 0
  OBVIOUS
<1>2. ExporterTypeInv
  BY <1>1 DEF ExporterInit, ExporterTypeInv, NoPack
<1>3. SenderInv
  BY DEF ExporterInit, SenderInv, RunEnding
<1>4. ExporterCloseInv
  BY DEF ExporterInit, ExporterCloseInv
<1>5. SummaryAccounts
  BY <1>1 DEF ExporterInit, SummaryAccounts, Pending
<1> QED BY <1>2, <1>3, <1>4, <1>5 DEF ExporterInv

LEMMA PackTaken ==
  ASSUME ExporterTypeInv, packQueue # <<>>
  PROVE  /\ Head(packQueue) \in Nat \ {0} /\ Tail(packQueue) \in Seq(Nat \ {0})
         /\ Len(Tail(packQueue)) = Len(packQueue) - 1 /\ Len(packQueue) \in Nat
BY DEF ExporterTypeInv

LEMMA PackQueued ==
  ASSUME ExporterTypeInv, Export
  PROVE  /\ packQueue' \in Seq(Nat \ {0}) /\ queued' \in Nat /\ dropped' \in Nat
         /\ queued' - Len(packQueue') = queued - Len(packQueue)
         /\ Len(packQueue) \in Nat /\ Len(packQueue') \in Nat
<1>1. NextOrdinal \in Nat \ {0}
  BY DEF ExporterTypeInv, NextOrdinal
<1>2. CASE Len(packQueue) < QueueCapacity
  <2>1. packQueue' = Append(packQueue, NextOrdinal) /\ queued' = queued + 1 /\ dropped' = dropped
    BY <1>2 DEF Export
  <2> QED BY <1>1, <2>1 DEF ExporterTypeInv
<1>3. CASE ~(Len(packQueue) < QueueCapacity)
  <2>1. dropped' = dropped + 1 /\ UNCHANGED <<packQueue, queued>>
    BY <1>3 DEF Export
  <2> QED BY <2>1 DEF ExporterTypeInv
<1> QED BY <1>2, <1>3

LEMMA ExporterTypeNext ==
  ASSUME ExporterTypeInv, ExporterNext
  PROVE  ExporterTypeInv'
<1> USE DEF RunEnding, runVars, closeVars, summaryVars, RunIdle, CloseIdle, NoPack
<1>1. CASE Export
  <2>1. packQueue' \in Seq(Nat \ {0}) /\ queued' \in Nat /\ dropped' \in Nat
    BY <1>1, PackQueued
  <2> QED BY <1>1, <2>1 DEF Export, ExporterTypeInv
<1>2. CASE RunTake
  <2>1. CASE packQueue # <<>>
    BY <1>2, <2>1, PackTaken DEF RunTake, ExporterTypeInv
  <2>2. CASE packQueue = <<>>
    BY <1>2, <2>2 DEF RunTake, ExporterTypeInv
  <2> QED BY <2>1, <2>2
<1>3. CASE RunSend
  <2>1. delivered' \in Seq(Nat) /\ sendOk' \in BOOLEAN
    BY <1>3 DEF RunSend, ExporterTypeInv
  <2> QED BY <1>3, <2>1 DEF RunSend, ExporterTypeInv
<1>4. CASE RunCount
  BY <1>4 DEF RunCount, ExporterTypeInv
<1>5. CASE RunFail \/ RunCloseSender
  BY <1>5 DEF RunFail, RunCloseSender, ExporterTypeInv
<1>6. CASE RunDone
  <2>1. exporterErr' \in BOOLEAN
    BY <1>6 DEF RunDone, ExporterTypeInv
  <2> QED BY <1>6, <2>1 DEF RunDone, ExporterTypeInv
<1>7. CASE CloseBegin \/ CloseDrained \/ CloseTimeout \/ CloseSender
  BY <1>7 DEF CloseBegin, CloseDrained, CloseTimeout, CloseSender, ExporterTypeInv
<1>8. CASE CloseSenderDone
  <2>1. exporterErr' \in BOOLEAN
    BY <1>8 DEF CloseSenderDone, ExporterTypeInv
  <2> QED BY <1>8, <2>1 DEF CloseSenderDone, ExporterTypeInv
<1>9. CASE CloseErr \/ CloseReturn
  BY <1>9 DEF CloseErr, CloseReturn, ExporterTypeInv
<1> QED BY <1>1, <1>2, <1>3, <1>4, <1>5, <1>6, <1>7, <1>8, <1>9 DEF ExporterNext

LEMMA SenderNext ==
  ASSUME ExporterTypeInv, SenderInv, ExporterNext
  PROVE  SenderInv'
<1> USE DEF RunEnding, runVars, closeVars, summaryVars, RunIdle, CloseIdle, NoPack,
            SenderInv, ExporterTypeInv
<1>1. CASE Export
  BY <1>1 DEF Export, ExportRefuses
<1>2. CASE RunTake
  <2>1. CASE packQueue # <<>>
    BY <1>2, <2>1, PackTaken DEF RunTake
  <2>2. CASE packQueue = <<>>
    BY <1>2, <2>2 DEF RunTake
  <2> QED BY <2>1, <2>2
<1>3. CASE RunSend
  BY <1>3 DEF RunSend
<1>4. CASE RunCount
  BY <1>4 DEF RunCount
<1>5. CASE RunFail \/ RunCloseSender
  BY <1>5 DEF RunFail, RunCloseSender
<1>6. CASE RunDone
  BY <1>6 DEF RunDone
<1>7. CASE CloseBegin \/ CloseDrained \/ CloseTimeout \/ CloseSender
  BY <1>7 DEF CloseBegin, CloseDrained, CloseTimeout, CloseSender
<1>8. CASE CloseSenderDone
  BY <1>8 DEF CloseSenderDone
<1>9. CASE CloseErr \/ CloseReturn
  BY <1>9 DEF CloseErr, CloseReturn
<1> QED BY <1>1, <1>2, <1>3, <1>4, <1>5, <1>6, <1>7, <1>8, <1>9 DEF ExporterNext

LEMMA ExporterCloseNext ==
  ASSUME ExporterTypeInv, ExporterCloseInv, ExporterNext
  PROVE  ExporterCloseInv'
<1> USE DEF RunEnding, runVars, closeVars, summaryVars, RunIdle, CloseIdle, NoPack,
            ExporterCloseInv, ExporterTypeInv, Pending
<1>1. CASE Export
  BY <1>1 DEF Export, ExportRefuses
<1>2. CASE RunTake
  BY <1>2 DEF RunTake
<1>3. CASE RunSend
  BY <1>3 DEF RunSend
<1>4. CASE RunCount
  BY <1>4 DEF RunCount
<1>5. CASE RunFail \/ RunCloseSender
  BY <1>5 DEF RunFail, RunCloseSender
<1>6. CASE RunDone
  BY <1>6 DEF RunDone
<1>7. CASE CloseBegin \/ CloseDrained \/ CloseTimeout \/ CloseSender
  BY <1>7 DEF CloseBegin, CloseDrained, CloseTimeout, CloseSender
<1>8. CASE CloseSenderDone
  BY <1>8 DEF CloseSenderDone
<1>9. CASE CloseErr
  BY <1>9 DEF CloseErr
<1>10. CASE CloseReturn
  BY <1>10 DEF CloseReturn
<1> QED BY <1>1, <1>2, <1>3, <1>4, <1>5, <1>6, <1>7, <1>8, <1>9, <1>10 DEF ExporterNext

LEMMA SummaryNext ==
  ASSUME ExporterTypeInv, SenderInv, SummaryAccounts, ExporterNext
  PROVE  SummaryAccounts'
<1> USE DEF runVars, closeVars, summaryVars, RunIdle, CloseIdle, NoPack, SummaryAccounts, Pending
<1>1. CASE Export
  BY <1>1, PackQueued DEF Export, ExporterTypeInv
<1>2. CASE RunTake
  <2>1. packInHand = 0 /\ runAt = "take" /\ runAt' # "count" /\ written' = written
        /\ UNCHANGED <<delivered, queued, failedCount>>
    BY <1>2 DEF RunTake, SenderInv
  <2>2. CASE packQueue # <<>>
    <3>1. packInHand' # 0 /\ Len(packQueue') = Len(packQueue) - 1 /\ Len(packQueue) \in Nat
      BY <1>2, <2>2, PackTaken DEF RunTake
    <3> QED BY <2>1, <3>1 DEF ExporterTypeInv
  <2>3. CASE packQueue = <<>>
    BY <1>2, <2>1, <2>3 DEF RunTake
  <2> QED BY <2>2, <2>3
<1>3. CASE RunSend
  <2>1. runAt = "send" /\ runAt' = "count" /\ UNCHANGED <<queued, written, failedCount, packQueue,
                                                         packInHand>>
    BY <1>3 DEF RunSend
  <2>2. Len(delivered') = Len(delivered) + (IF sendOk' THEN 1 ELSE 0)
    BY <1>3 DEF RunSend, ExporterTypeInv
  <2> QED BY <2>1, <2>2 DEF ExporterTypeInv
<1>4. CASE RunCount
  <2>1. packInHand # 0 /\ packInHand' = 0 /\ runAt = "count" /\ runAt' # "count"
        /\ UNCHANGED <<packQueue, queued, delivered>>
    BY <1>4 DEF RunCount, SenderInv
  <2>2. Len(packQueue) \in Nat /\ Len(delivered) \in Nat
    BY DEF ExporterTypeInv
  <2> QED BY <1>4, <2>1, <2>2 DEF RunCount, ExporterTypeInv
<1>5. CASE RunFail \/ RunCloseSender \/ RunDone
  BY <1>5 DEF RunFail, RunCloseSender, RunDone
<1>6. CASE CloseBegin \/ CloseDrained \/ CloseTimeout \/ CloseSender \/ CloseSenderDone
           \/ CloseErr \/ CloseReturn
  BY <1>6 DEF CloseBegin, CloseDrained, CloseTimeout, CloseSender, CloseSenderDone, CloseErr,
     CloseReturn
<1> QED BY <1>1, <1>2, <1>3, <1>4, <1>5, <1>6 DEF ExporterNext

LEMMA ExporterInvNext ==
  ASSUME ExporterInv, ExporterNext
  PROVE  ExporterInv'
BY ExporterTypeNext, SenderNext, ExporterCloseNext, SummaryNext DEF ExporterInv

LEMMA ExporterInvKept ==
  ASSUME ExporterInv, UNCHANGED exporterVars
  PROVE  ExporterInv'
BY DEF ExporterInv, ExporterTypeInv, SenderInv, ExporterCloseInv, SummaryAccounts, Pending,
   exporterVars, summaryVars, closeVars, runVars

-----------------------------------------------------------------------------
(***************************************************************************)
(* The exporter implements LossyQueue.                                     *)
(***************************************************************************)
ExportHand == IF packInHand = NoPack \/ runAt = "count" THEN <<>> ELSE <<packInHand>>
ExportWaiting == ExportHand \o packQueue
ExportConsumer == IF Sending THEN "running"
                  ELSE IF failedCount > 0 \/ packInHand # NoPack THEN "failed" ELSE "ended"

(* What LossyQueue sees of the exporter.                                   *)
ExportSeen == <<queued + dropped, dropped, ExportWaiting, delivered, closing, ExportConsumer>>

LEMMA ExportHandIs ==
  ASSUME NEW a \in Nat, packInHand = a
  PROVE  ExportHand = InHand(IF runAt = "count" THEN 0 ELSE a)
BY DEF ExportHand, InHand, NoPack

LEMMA ExportWaitingFacts ==
  ASSUME ExporterInv
  PROVE  /\ Len(packQueue) \in Nat
         /\ Len(ExportWaiting) \in {Len(packQueue), Len(packQueue) + 1}
         /\ \A e \in Nat \ {0} : ExportHand \o Append(packQueue, e) = Append(ExportWaiting, e)
         /\ packInHand = 0 \/ runAt = "count" => ExportWaiting = packQueue
         /\ packInHand # 0 /\ runAt # "count" =>
              /\ ExportWaiting # <<>> /\ Head(ExportWaiting) = packInHand
              /\ Tail(ExportWaiting) = packQueue
<1>1. packInHand \in Nat /\ packQueue \in Seq(Nat \ {0})
  BY DEF ExporterInv, ExporterTypeInv
<1>2. PICK a \in Nat : a = IF runAt = "count" THEN 0 ELSE packInHand
  BY <1>1
<1>3. ExportHand = InHand(a)
  BY <1>1, <1>2, ExportHandIs
<1>4. ExportWaiting = InHand(a) \o packQueue
  BY <1>3 DEF ExportWaiting
<1>5. Len(packQueue) \in Nat
  BY <1>1
<1>6. CASE a = 0
  <2>1. InHand(a) \o packQueue = packQueue
        /\ \A e \in Nat \ {0} : InHand(a) \o Append(packQueue, e) = Append(InHand(a) \o packQueue, e)
    BY <1>1, <1>6, InHandFacts
  <2> QED BY <1>2, <1>3, <1>4, <1>5, <1>6, <2>1
<1>7. CASE a # 0
  <2>1. /\ InHand(a) \o packQueue # <<>> /\ Head(InHand(a) \o packQueue) = a
        /\ Tail(InHand(a) \o packQueue) = packQueue
        /\ Len(InHand(a) \o packQueue) = Len(packQueue) + 1
        /\ \A e \in Nat \ {0} : InHand(a) \o Append(packQueue, e) = Append(InHand(a) \o packQueue, e)
    BY <1>1, <1>7, InHandFacts
  <2> QED BY <1>2, <1>3, <1>4, <1>5, <1>7, <2>1
<1> QED BY <1>6, <1>7

LEMMA ExportStep ==
  ASSUME ExporterInv, ExporterNext
  PROVE  ExportQueue!Next \/ UNCHANGED ExportQueue!vars
<1>0. ExporterTypeInv /\ SenderInv
  BY DEF ExporterInv
<1>1. ASSUME UNCHANGED ExportSeen PROVE UNCHANGED ExportQueue!vars
  BY <1>1 DEF ExportSeen, ExportWaiting, ExportHand, ExportConsumer, ExportQueue!vars
<1>2. ASSUME UNCHANGED <<packInHand, packQueue>>, (runAt = "count") <=> (runAt' = "count")
      PROVE  ExportWaiting' = ExportWaiting
  BY <1>2 DEF ExportWaiting, ExportHand
<1> USE DEF NoPack, Sending
<1>3. CASE Export
  <2>1. /\ ~closing
        /\ UNCHANGED <<closing, failedCount, runAt, packInHand, sendOk, delivered>>
    BY <1>3 DEF Export, ExportRefuses, runVars
  <2>2. ExportConsumer' = ExportConsumer /\ ExportHand' = ExportHand
    BY <2>1 DEF ExportConsumer, ExportHand
  <2>3. PICK n \in Nat : n = queued + dropped
    BY <1>0 DEF ExporterTypeInv
  <2>4. queued' + dropped' = n + 1
    BY <1>0, <1>3, <2>3 DEF Export, ExporterTypeInv
  <2>5. \/ Len(ExportWaiting) <= QueueCapacity /\ ExportWaiting' = Append(ExportWaiting, n + 1)
           /\ dropped' = dropped
        \/ Len(ExportWaiting) >= QueueCapacity /\ dropped' = dropped + 1
           /\ ExportWaiting' = ExportWaiting
    <3>1. CASE Len(packQueue) < QueueCapacity
      <4>1. packQueue' = Append(packQueue, n + 1) /\ dropped' = dropped
        BY <1>3, <2>3, <3>1 DEF Export, NextOrdinal
      <4>2. ExportWaiting' = ExportHand \o Append(packQueue, n + 1)
        BY <2>2, <4>1 DEF ExportWaiting
      <4>3. ExportWaiting' = Append(ExportWaiting, n + 1)
        BY <4>2, ExportWaitingFacts
      <4>4. Len(ExportWaiting) <= QueueCapacity
        BY <3>1, ExportWaitingFacts, ExporterAssumption
      <4> QED BY <4>1, <4>3, <4>4
    <3>2. CASE ~(Len(packQueue) < QueueCapacity)
      <4>1. packQueue' = packQueue /\ dropped' = dropped + 1
        BY <1>3, <3>2 DEF Export
      <4>2. Len(ExportWaiting) >= QueueCapacity
        BY <3>2, ExportWaitingFacts, ExporterAssumption
      <4> QED BY <2>2, <4>1, <4>2 DEF ExportWaiting
    <3> QED BY <3>1, <3>2
  <2>6. ExportQueue!Offer
    BY <2>1, <2>2, <2>3, <2>4, <2>5 DEF ExportQueue!Offer, ExportWaiting, ExportHand, ExportConsumer
  <2> QED BY <2>6 DEF ExportQueue!Next
<1>4. CASE RunTake
  <2>1. /\ runAt = "take" /\ packInHand = 0 /\ failedCount = 0 /\ Sending
        /\ UNCHANGED <<queued, dropped, closing, delivered, failedCount>>
    BY <1>0, <1>4 DEF RunTake, RunIdle, SenderInv
  <2>2. ExportWaiting = packQueue
    BY <2>1, ExportWaitingFacts
  <2>3. CASE packQueue # <<>>
    <3>1. /\ packInHand' = Head(packQueue) /\ packQueue' = Tail(packQueue)
          /\ runAt' = IF ctxCancelled THEN "closeSender" ELSE "send"
      BY <1>4, <2>3 DEF RunTake
    <3>2. packQueue \in Seq(Nat \ {0}) /\ Head(packQueue) \in Nat \ {0}
      BY <1>0, <2>3, PackTaken DEF ExporterTypeInv
    <3>3. ExportWaiting' = InHand(Head(packQueue)) \o Tail(packQueue)
      BY <3>1, <3>2 DEF ExportWaiting, ExportHand, InHand
    <3>4. ExportWaiting' = ExportWaiting
      BY <2>2, <2>3, <3>2, <3>3, TakeInHand
    <3>5. CASE ctxCancelled
      <4>1. ExportConsumer = "running" /\ ExportConsumer' = "failed"
        BY <2>1, <3>1, <3>2, <3>5 DEF ExportConsumer
      <4>2. ExportQueue!Fail
        BY <2>1, <3>4, <4>1 DEF ExportQueue!Fail, ExportWaiting, ExportHand, ExportConsumer
      <4> QED BY <4>2 DEF ExportQueue!Next
    <3>6. CASE ~ctxCancelled
      <4>1. ExportConsumer = "running" /\ ExportConsumer' = "running"
        BY <2>1, <3>1, <3>6 DEF ExportConsumer
      <4>2. UNCHANGED ExportSeen
        BY <2>1, <3>4, <4>1 DEF ExportSeen
      <4> QED BY <1>1, <4>2
    <3> QED BY <3>5, <3>6
  <2>4. CASE packQueue = <<>>
    <3>1. closing /\ runAt' = "closeSender" /\ UNCHANGED <<packInHand, packQueue>>
      BY <1>4, <2>4 DEF RunTake
    <3>2. ExportWaiting' = ExportWaiting /\ ExportWaiting = <<>>
      BY <1>2, <2>1, <2>2, <2>4, <3>1
    <3>3. ExportConsumer = "running" /\ ExportConsumer' = "ended"
      BY <2>1, <3>1 DEF ExportConsumer
    <3>4. ExportQueue!End
      BY <2>1, <3>1, <3>2, <3>3 DEF ExportQueue!End, ExportWaiting, ExportHand, ExportConsumer
    <3> QED BY <3>4 DEF ExportQueue!Next
  <2> QED BY <2>3, <2>4
<1>5. CASE RunSend
  <2>1. /\ runAt = "send" /\ runAt' = "count" /\ packInHand # 0 /\ Sending
        /\ UNCHANGED <<queued, dropped, closing, failedCount, packInHand, packQueue>>
    BY <1>0, <1>5 DEF RunSend, RunIdle, SenderInv
  <2>2. /\ ExportWaiting # <<>> /\ Head(ExportWaiting) = packInHand
        /\ Tail(ExportWaiting) = packQueue
    BY <2>1, ExportWaitingFacts
  <2>3. ExportWaiting' = packQueue
    <3>1. packQueue \in Seq(Nat \ {0})
      BY <1>0 DEF ExporterTypeInv
    <3>2. ExportWaiting' = <<>> \o packQueue
      BY <2>1 DEF ExportWaiting, ExportHand
    <3> QED BY <3>1, <3>2
  <2>4. CASE sendOk'
    <3>1. delivered' = Append(delivered, packInHand)
      BY <1>5, <2>4 DEF RunSend
    <3>2. ExportConsumer = "running" /\ ExportConsumer' = "running"
      BY <2>1, <2>4 DEF ExportConsumer
    <3>3. ExportQueue!Deliver
      BY <2>1, <2>2, <2>3, <3>1, <3>2
         DEF ExportQueue!Deliver, ExportWaiting, ExportHand, ExportConsumer
    <3> QED BY <3>3 DEF ExportQueue!Next
  <2>5. CASE ~sendOk'
    <3>1. delivered' = delivered
      BY <1>5, <2>5 DEF RunSend
    <3>2. ExportConsumer = "running" /\ ExportConsumer' = "failed"
      BY <2>1, <2>5 DEF ExportConsumer
    <3>3. ExportQueue!Fail
      BY <2>1, <2>2, <2>3, <3>1, <3>2
         DEF ExportQueue!Fail, ExportWaiting, ExportHand, ExportConsumer
    <3> QED BY <3>3 DEF ExportQueue!Next
  <2> QED BY <2>4, <2>5
<1>6. CASE RunCount
  <2>1. /\ runAt = "count" /\ packInHand # 0 /\ packInHand' = 0 /\ runAt' # "count"
        /\ failedCount = 0
        /\ UNCHANGED <<queued, dropped, closing, delivered, packQueue, sendOk>>
    BY <1>0, <1>6 DEF RunCount, RunIdle, SenderInv
  <2>2. ExportWaiting' = ExportWaiting
    BY <2>1 DEF ExportWaiting, ExportHand
  <2>3. ExportConsumer' = ExportConsumer
    <3>1. CASE sendOk
      BY <1>6, <2>1, <3>1 DEF RunCount, ExportConsumer
    <3>2. CASE ~sendOk
      BY <1>6, <2>1, <3>2 DEF RunCount, ExportConsumer
    <3> QED BY <3>1, <3>2
  <2> QED BY <1>1, <2>1, <2>2, <2>3 DEF ExportSeen
<1>7. CASE RunFail \/ RunCloseSender \/ RunDone
  <2>1. /\ runAt \in {"fail", "closeSender", "closingSender"}
        /\ runAt' \in {"closeSender", "closingSender", "done"}
        /\ UNCHANGED <<queued, dropped, closing, delivered, packQueue, packInHand, failedCount>>
    BY <1>7 DEF RunFail, RunCloseSender, RunDone, RunIdle
  <2>2. ExportWaiting' = ExportWaiting
    BY <1>2, <2>1
  <2>3. ExportConsumer' = ExportConsumer
    BY <2>1 DEF ExportConsumer
  <2> QED BY <1>1, <2>1, <2>2, <2>3 DEF ExportSeen
<1>8. CASE CloseBegin
  <2>1. ~closing /\ closing' /\ UNCHANGED <<packQueue, queued, dropped, failedCount, runAt, packInHand,
                                           sendOk, delivered>>
    BY <1>8 DEF CloseBegin, CloseIdle, summaryVars, runVars, ExporterInv, ExporterCloseInv
  <2>2. ExportWaiting' = ExportWaiting /\ ExportConsumer' = ExportConsumer
    BY <1>2, <2>1 DEF ExportConsumer
  <2>3. ExportQueue!Close
    BY <2>1, <2>2 DEF ExportQueue!Close, ExportWaiting, ExportHand, ExportConsumer
  <2> QED BY <2>3 DEF ExportQueue!Next
<1>9. CASE CloseDrained \/ CloseTimeout \/ CloseSender \/ CloseSenderDone \/ CloseErr \/ CloseReturn
  <2>1. UNCHANGED <<closing, packQueue, queued, dropped, failedCount, runAt, packInHand, sendOk,
                    delivered>>
    BY <1>9 DEF CloseDrained, CloseTimeout, CloseSender, CloseSenderDone, CloseErr, CloseReturn,
       CloseIdle, summaryVars, runVars
  <2>2. ExportWaiting' = ExportWaiting /\ ExportConsumer' = ExportConsumer
    BY <1>2, <2>1 DEF ExportConsumer
  <2> QED BY <1>1, <2>1, <2>2 DEF ExportSeen
<1> QED BY <1>3, <1>4, <1>5, <1>6, <1>7, <1>8, <1>9 DEF ExporterNext

-----------------------------------------------------------------------------
(***************************************************************************)
(* The chain makes the calls: whatever it does, a component takes one of   *)
(* its own steps or none.                                                  *)
(***************************************************************************)
LEMMA JsonlCalls ==
  ASSUME Next
  PROVE  QueuedOutputNext \/ UNCHANGED queuedOutputVars
<1>1. CASE EncodeObservation \/ EncodeTyped \/ Flush \/ Close \/ ReportExportLoss
  BY <1>1 DEF EncodeObservation, EncodeTyped, Flush, Close, EncodeBatch, ReportExportLoss, LoopOnly
<1>2. CASE LineBegin \/ LineSend \/ LineDiscarded \/ LineError \/ ExportLine
  BY <1>2 DEF LineBegin, LineSend, LineDiscarded, LineError, ExportLine, QueuedOutputNext
<1>3. CASE ShutdownStep
  BY <1>3 DEF ShutdownStep, CloseLinesBegin, CloseLinesEnd, FinalizeBegin, FinalizeStep,
     FinalizeExporter, JoinReporter, QueuedOutputNext
<1>4. CASE ReporterEnds \/ SenderStep \/ SubmitStep
  BY <1>4 DEF ReporterEnds, SenderStep, SubmitStep
<1>5. CASE WriterStep
  BY <1>5 DEF WriterStep, QueuedOutputNext
<1>6. CASE Ended
  BY <1>6 DEF Ended, vars
<1> QED BY <1>1, <1>2, <1>3, <1>4, <1>5, <1>6 DEF Next, LoopStep

LEMMA ExporterCalls ==
  ASSUME Next
  PROVE  ExporterNext \/ UNCHANGED exporterVars
<1>1. CASE EncodeObservation \/ EncodeTyped \/ Flush \/ Close \/ ReportExportLoss
  BY <1>1 DEF EncodeObservation, EncodeTyped, Flush, Close, EncodeBatch, ReportExportLoss, LoopOnly
<1>2. CASE LineBegin \/ LineSend \/ LineDiscarded \/ LineError
  BY <1>2 DEF LineBegin, LineSend, LineDiscarded, LineError, LineTaken
<1>3. CASE ExportLine
  BY <1>3 DEF ExportLine, CallExporter, ExporterNext
<1>4. CASE ShutdownStep
  BY <1>4 DEF ShutdownStep, CloseLinesBegin, CloseLinesEnd, FinalizeBegin, FinalizeStep,
     FinalizeExporter, JoinReporter, ExporterNext
<1>5. CASE ReporterEnds \/ WriterStep \/ SubmitStep
  BY <1>5 DEF ReporterEnds, WriterStep, SubmitStep
<1>6. CASE SenderStep
  BY <1>6 DEF SenderStep, ExporterNext
<1>7. CASE Ended
  BY <1>7 DEF Ended, vars
<1> QED BY <1>1, <1>2, <1>3, <1>4, <1>5, <1>6, <1>7 DEF Next, LoopStep

LEMMA JsonlInvariant == Spec => []JsonlInv
<1>1. Init => JsonlInv
  BY JsonlInvInit DEF Init
<1>2. JsonlInv /\ [Next]_vars => JsonlInv'
  <2> SUFFICES ASSUME JsonlInv, [Next]_vars PROVE JsonlInv'
    OBVIOUS
  <2>1. CASE Next
    BY <2>1, JsonlCalls, JsonlInvNext, JsonlInvKept
  <2>2. CASE UNCHANGED vars
    BY <2>2, JsonlInvKept DEF vars
  <2> QED BY <2>1, <2>2
<1> QED BY <1>1, <1>2, PTL DEF Spec

LEMMA ExporterInvariant == Spec => []ExporterInv
<1>1. Init => ExporterInv
  BY ExporterInvInit DEF Init
<1>2. ExporterInv /\ [Next]_vars => ExporterInv'
  <2> SUFFICES ASSUME ExporterInv, [Next]_vars PROVE ExporterInv'
    OBVIOUS
  <2>1. CASE Next
    BY <2>1, ExporterCalls, ExporterInvNext, ExporterInvKept
  <2>2. CASE UNCHANGED vars
    BY <2>2, ExporterInvKept DEF vars
  <2> QED BY <2>1, <2>2
<1> QED BY <1>1, <1>2, PTL DEF Spec

(* The loss reports in the JSONL add up to the losses: writeLoss takes one *)
(* snapshot of a counter that Encode may move before the report is written *)
(* (internal/app/output.go).                                               *)
THEOREM LossReportsAreExact == Spec => []LossReportsExact
<1>1. JsonlInv => LossReportsExact
  BY DEF JsonlInv
<1> QED BY <1>1, JsonlInvariant, PTL

(* The exporter's summary accounts for every pack whatever the sender      *)
(* goroutine, Export and Close do to the counters, so that the unsigned    *)
(* Pending never wraps (internal/tagcount/exporter.go).                    *)
THEOREM SummaryIsExact == Spec => []SummaryAccounts
<1>1. ExporterInv => SummaryAccounts
  BY DEF ExporterInv
<1> QED BY <1>1, ExporterInvariant, PTL

(* queuedOutput implements LossyQueue: in order, none twice, and none lost *)
(* but to a full queue (internal/app/output.go).                           *)
THEOREM JsonlImplementsLossyQueue == Spec => JsonlIsLossyQueue
<1>1. Init => JsonlQueue!Init
  <2> SUFFICES ASSUME Init PROVE JsonlQueue!Init
    OBVIOUS
  <2>1. RecordPositions = {} /\ Cardinality({}) = 0
    BY FS_EmptySet DEF Init, QueuedOutputInit, RecordPositions
  <2>2. Len(Records) = 0
    BY <2>1 DEF Records, At
  <2>3. JsonlOut = <<>>
    BY <2>2 DEF JsonlOut
  <2>4. <<>> \o <<>> = <<>>
    OBVIOUS
  <2> QED BY <2>3, <2>4 DEF Init, QueuedOutputInit, JsonlQueue!Init, JsonlOut, NoRecord
<1>2. JsonlInv /\ [Next]_vars => [JsonlQueue!Next]_JsonlQueue!vars
  <2> SUFFICES ASSUME JsonlInv, [Next]_vars PROVE JsonlQueue!Next \/ UNCHANGED JsonlQueue!vars
    OBVIOUS
  <2>1. CASE UNCHANGED queuedOutputVars
    <3>1. UNCHANGED <<offered, totalLost, lineQueue, recordInHand, output, lineQueueClosed, writerAt,
                      outputFailed>>
      BY <2>1 DEF queuedOutputVars, callerVars, writerVars
    <3>2. JsonlOut' = JsonlOut
      BY <3>1, OutputKept DEF JsonlOut
    <3> QED BY <3>1, <3>2 DEF JsonlQueue!vars, JsonlOut
  <2>2. CASE Next
    BY <2>1, <2>2, JsonlCalls, JsonlStep
  <2>3. CASE UNCHANGED vars
    BY <2>1, <2>3 DEF vars
  <2> QED BY <2>2, <2>3
<1> QED BY <1>1, <1>2, JsonlInvariant, PTL DEF Spec, JsonlIsLossyQueue, JsonlQueue!Spec

(* tagcount.Exporter implements LossyQueue too, although its drain timer   *)
(* may cancel the context while the sender holds a pack                    *)
(* (internal/tagcount/exporter.go).                                        *)
THEOREM ExportImplementsLossyQueue == Spec => ExportIsLossyQueue
<1>1. Init => ExportQueue!Init
  <2>1. <<>> \o <<>> = <<>>
    OBVIOUS
  <2> QED BY <2>1 DEF Init, ExporterInit, ExportQueue!Init, Sending, NoPack
<1>2. ExporterInv /\ [Next]_vars => [ExportQueue!Next]_ExportQueue!vars
  <2> SUFFICES ASSUME ExporterInv, [Next]_vars PROVE ExportQueue!Next \/ UNCHANGED ExportQueue!vars
    OBVIOUS
  <2>1. CASE UNCHANGED exporterVars
    BY <2>1 DEF exporterVars, summaryVars, runVars, ExportQueue!vars, Sending
  <2>2. CASE Next
    BY <2>1, <2>2, ExporterCalls, ExportStep
  <2>3. CASE UNCHANGED vars
    BY <2>1, <2>3 DEF vars
  <2> QED BY <2>2, <2>3
<1> QED BY <1>1, <1>2, ExporterInvariant, PTL DEF Spec, ExportIsLossyQueue, ExportQueue!Spec

-----------------------------------------------------------------------------
(***************************************************************************)
(* The steps of the submitter.  Lines of windows have numbers that grow.   *)
(***************************************************************************)
LEMMA SubmitInvInit ==
  ASSUME SubmitInit
  PROVE  SubmitInv
<1>1. <<>> \in Seq(Nat) /\ Len(<<>>) = 0
  OBVIOUS
<1>2. SubmitTypeInv
  BY <1>1 DEF SubmitInit, SubmitTypeInv
<1>3. FrameInv
  BY <1>1 DEF SubmitInit, FrameInv
<1>4. SubmissionSound
  BY <1>1 DEF SubmitInit, SubmissionSound, Submitting
<1> QED BY <1>2, <1>3, <1>4 DEF SubmitInv

SubmitterStep(line) ==
  \/ ReadLine(line) \/ EndOfInput \/ Dial \/ WriteFrame \/ ReadAck \/ AckLost \/ NodeReceives

Growing(line) == line.kind = "window" => line.id \in Nat /\ request < line.id

LEMMA SubmitTypeNext ==
  ASSUME SubmitTypeInv, NEW line, Growing(line), SubmitterStep(line)
  PROVE  SubmitTypeInv'
<1> USE DEF SubmitTypeInv, SubmitFails
<1>1. CASE ReadLine(line)
  BY <1>1 DEF ReadLine, Growing
<1>2. CASE EndOfInput \/ Dial \/ WriteFrame \/ ReadAck \/ AckLost
  BY <1>2 DEF EndOfInput, Dial, WriteFrame, ReadAck, AckLost
<1>3. CASE NodeReceives
  <2>1. nodeQueue' \in Seq(Nat)
    BY <1>3 DEF NodeReceives
  <2> QED BY <1>3, <2>1 DEF NodeReceives
<1> QED BY <1>1, <1>2, <1>3 DEF SubmitterStep

LEMMA FrameNext ==
  ASSUME SubmitTypeInv, FrameInv, NEW line, Growing(line), SubmitterStep(line)
  PROVE  FrameInv'
<1>0. request \in Nat /\ Len(nodeQueue) \in Nat /\ accepted \in Nat /\ exitCode \in {0, 1}
      /\ \A i \in 1..Len(nodeQueue) : nodeQueue[i] \in Nat
  BY DEF SubmitTypeInv
<1>1. CASE ReadLine(line)
  <2>1. frame = "none" /\ exitCode = 0 /\ UNCHANGED <<accepted, frame, nodeQueue>>
    BY <1>0, <1>1 DEF ReadLine, FrameInv
  <2>2. CASE line.kind = "window" /\ request' = line.id /\ submitAt' = "dial" /\ exitCode' = exitCode
    <3>1. \A i \in 1..Len(nodeQueue) : nodeQueue[i] <= line.id /\ nodeQueue[i] < line.id
      BY <1>0, <2>2 DEF Growing, FrameInv
    <3> QED BY <2>1, <2>2, <3>1 DEF FrameInv
  <2>3. CASE request' = request /\ \/ submitAt' = "scan" /\ exitCode' = 0
                                   \/ submitAt' = "exited" /\ exitCode' = 1
    BY <2>1, <2>3 DEF FrameInv
  <2> QED BY <1>0, <1>1, <2>1, <2>2, <2>3 DEF ReadLine, SubmitFails
<1>2. CASE EndOfInput \/ Dial \/ WriteFrame \/ AckLost
  BY <1>0, <1>2 DEF EndOfInput, Dial, WriteFrame, AckLost, SubmitFails, FrameInv
<1>3. CASE ReadAck
  BY <1>0, <1>3 DEF ReadAck, SubmitFails, FrameInv
<1>4. CASE NodeReceives
  <2>1. /\ frame = "sent" /\ (submitAt = "ack" \/ exitCode = 1)
        /\ UNCHANGED <<submitAt, request, accepted, exitCode>>
    BY <1>4 DEF NodeReceives, FrameInv
  <2>2. CASE frame' = "queued" /\ nodeQueue' = Append(nodeQueue, request)
    <3>1. PICK n \in Nat : n = Len(nodeQueue)
      BY <1>0
    <3>2. PICK q : q = nodeQueue'
      OBVIOUS
    <3>3. Len(q) = n + 1 /\ q[n + 1] = request /\ \A i \in 1..n : q[i] = nodeQueue[i]
      BY <2>2, <3>1, <3>2 DEF SubmitTypeInv
    <3>4. \A i \in 1..n : q[i] <= request
      BY <3>1, <3>3 DEF FrameInv
    <3>5. \A i \in 1..Len(q) : i \in 1..n \/ i = n + 1
      BY <3>3
    <3>6. \A i \in 1..Len(q) : q[i] <= request
      BY <1>0, <3>3, <3>4, <3>5
    <3>7. n + 1 \in 1..Len(q)
      BY <3>3
    <3>8. Len(q) = accepted + 1
      <4>1. n = accepted
        BY <1>0, <2>1, <3>1 DEF FrameInv
      <4> QED BY <3>3, <4>1
    <3>9. submitAt \notin {"dial", "write"}
      BY <2>1 DEF FrameInv
    <3> QED BY <2>1, <2>2, <3>2, <3>3, <3>6, <3>7, <3>8, <3>9 DEF FrameInv
  <2>3. CASE frame' = "rejected" /\ nodeQueue' = nodeQueue
    BY <2>1, <2>3 DEF FrameInv
  <2> QED BY <1>4, <2>2, <2>3 DEF NodeReceives
<1> QED BY <1>1, <1>2, <1>3, <1>4 DEF SubmitterStep

LEMMA SubmissionNext ==
  ASSUME SubmitTypeInv, FrameInv, SubmissionSound, NEW line, Growing(line), SubmitterStep(line)
  PROVE  SubmissionSound'
<1>0. /\ Len(nodeQueue) \in Nat /\ linesRead \in Nat /\ accepted \in Nat /\ failed \in Nat
      /\ skipped \in Nat /\ ignored \in Nat /\ exitCode \in {0, 1} /\ request \in Nat
  BY DEF SubmitTypeInv
<1>1. SubmitTypeInv' /\ FrameInv'
  BY SubmitTypeNext, FrameNext
<1>2. (Len(nodeQueue) - accepted \in (IF submitAt = "ack" \/ exitCode # 0 THEN {0, 1} ELSE {0}))'
  BY <1>1 DEF FrameInv, SubmitTypeInv
<1>3. linesRead' = accepted' + failed' + skipped' + ignored' + (IF Submitting' THEN 1 ELSE 0)
  <2>0. linesRead = accepted + failed + skipped + ignored + (IF Submitting THEN 1 ELSE 0)
    BY DEF SubmissionSound
  <2> USE DEF Submitting, SubmitFails
  <2>1. CASE ReadLine(line)
    BY <1>0, <2>0, <2>1 DEF ReadLine
  <2>2. CASE EndOfInput
    BY <2>0, <2>2 DEF EndOfInput
  <2>3. CASE Dial \/ WriteFrame \/ AckLost
    BY <1>0, <2>0, <2>3 DEF Dial, WriteFrame, AckLost
  <2>4. CASE ReadAck
    BY <1>0, <2>0, <2>4 DEF ReadAck
  <2>5. CASE NodeReceives
    BY <2>0, <2>5 DEF NodeReceives
  <2> QED BY <2>1, <2>2, <2>3, <2>4, <2>5 DEF SubmitterStep
<1>4. \A i \in 1..Len(nodeQueue') - 1 : nodeQueue'[i] < nodeQueue'[i + 1]
  <2>1. CASE nodeQueue' = nodeQueue
    BY <2>1 DEF SubmissionSound
  <2>2. CASE frame = "sent" /\ nodeQueue' = Append(nodeQueue, request)
    <3>1. PICK n \in Nat : n = Len(nodeQueue)
      BY <1>0
    <3>2. PICK q : q = nodeQueue'
      OBVIOUS
    <3>3. Len(q) = n + 1 /\ q[n + 1] = request /\ \A i \in 1..n : q[i] = nodeQueue[i]
      BY <2>2, <3>1, <3>2 DEF SubmitTypeInv
    <3>4. \A i \in 1..n : nodeQueue[i] < request
      BY <2>2, <3>1 DEF FrameInv
    <3>5. \A i \in 1..(n - 1) : nodeQueue[i] < nodeQueue[i + 1]
      BY <3>1 DEF SubmissionSound
    <3>6. ASSUME NEW i \in 1..n PROVE q[i] < q[i + 1]
      <4>1. CASE i = n
        BY <3>3, <3>4, <4>1
      <4>2. CASE i # n
        <5>1. i \in 1..(n - 1) /\ i + 1 \in 1..n
          BY <4>2
        <5> QED BY <3>3, <3>5, <5>1
      <4> QED BY <4>1, <4>2
    <3>7. 1..Len(q) - 1 = 1..n
      BY <3>3
    <3> QED BY <3>2, <3>6, <3>7
  <2> QED
    BY <2>1, <2>2 DEF SubmitterStep, ReadLine, EndOfInput, Dial, WriteFrame, ReadAck, AckLost,
       NodeReceives
<1> QED BY <1>2, <1>3, <1>4 DEF SubmissionSound

LEMMA SubmitInvNext ==
  ASSUME SubmitInv, NEW line, Growing(line), SubmitterStep(line)
  PROVE  SubmitInv'
BY SubmitTypeNext, FrameNext, SubmissionNext DEF SubmitInv

LEMMA SubmitInvKept ==
  ASSUME SubmitInv, UNCHANGED submitVars
  PROVE  SubmitInv'
BY DEF SubmitInv, SubmitTypeInv, FrameInv, SubmissionSound, Submitting, submitVars

-----------------------------------------------------------------------------
(***************************************************************************)
(* The steps of the loop, by what they do to its variables.                *)
(***************************************************************************)

(* A call: its lines stand for the n records after the ones produced.      *)
Call(n, calls, next) ==
  /\ at = "idle" /\ Start(calls, next)
  /\ serial' = serial + n
  /\ NoHistory /\ LoopOnly

CallLines(n, calls) ==
  /\ n \in Nat /\ calls \in Seq(EvidenceLine)
  /\ \A i \in 1..Len(calls) : calls[i].id \in (serial + 1)..(serial + n)
  /\ \A k \in (serial + 1)..(serial + n) : \E i \in 1..Len(calls) : calls[i].id = k
  /\ \A i, j \in 1..Len(calls) :
       i < j /\ IsWindow(calls[i]) /\ IsWindow(calls[j]) => calls[i].id < calls[j].id

Calling == EncodeObservation \/ EncodeTyped \/ Flush \/ Close

EvLine(kind, id) == [kind |-> kind, id |-> id]

LEMMA EvLineFacts ==
  ASSUME NEW kind \in EvidenceKinds, NEW id \in Nat \ {0}
  PROVE  EvLine(kind, id) \in EvidenceLine /\ EvLine(kind, id).id = id /\ EvLine(kind, id).kind = kind
BY DEF EvLine, EvidenceLine

LEMMA CallOne ==
  ASSUME serial \in Nat, NEW kind \in EvidenceKinds
  PROVE  CallLines(1, <<EvLine(kind, serial + 1)>>)
<1>1. PICK e \in EvidenceLine : e = EvLine(kind, serial + 1) /\ e.id = serial + 1
  BY EvLineFacts
<1>2. <<e>> \in Seq(EvidenceLine) /\ Len(<<e>>) = 1 /\ <<e>>[1] = e
  OBVIOUS
<1>3. (serial + 1)..(serial + 1) = {serial + 1}
  OBVIOUS
<1>4. \A i \in 1..Len(<<e>>) : i = 1
  BY <1>2
<1>5. 1 \in 1..Len(<<e>>)
  BY <1>2
<1> QED BY <1>1, <1>2, <1>3, <1>4, <1>5 DEF CallLines

LEMMA CallObserved ==
  ASSUME serial \in Nat
  PROVE  CallLines(1, <<EvLine("drop", serial + 1)>> \o <<EvLine("raw", serial + 1)>>)
<1>1. PICK d \in EvidenceLine : d = EvLine("drop", serial + 1) /\ d.id = serial + 1 /\ d.kind = "drop"
  BY EvLineFacts DEF EvidenceKinds
<1>2. PICK r \in EvidenceLine : r = EvLine("raw", serial + 1) /\ r.id = serial + 1 /\ r.kind = "raw"
  BY EvLineFacts DEF EvidenceKinds
<1>3. PICK c : c = <<d>> \o <<r>>
  OBVIOUS
<1>4. c \in Seq(EvidenceLine) /\ Len(c) = 2 /\ c[1] = d /\ c[2] = r
  BY <1>3
<1>5. \A i \in 1..Len(c) : i = 1 \/ i = 2
  BY <1>4
<1>6. (serial + 1)..(serial + 1) = {serial + 1} /\ 1 \in 1..Len(c)
  BY <1>4
<1>7. CallLines(1, c)
  BY <1>1, <1>2, <1>4, <1>5, <1>6 DEF CallLines, IsWindow
<1> QED BY <1>1, <1>2, <1>3, <1>7

LEMMA CallBatch ==
  ASSUME serial \in Nat, NEW n \in Nat,
         NEW kinds \in [1..n -> {"window", "skippedWindow", "invalidWindow"}]
  PROVE  CallLines(n, [i \in 1..n |-> EvLine(kinds[i], serial + i)])
<1>1. \A i \in 1..n : kinds[i] \in EvidenceKinds /\ serial + i \in Nat \ {0}
  BY DEF EvidenceKinds
<1>2. \A i \in 1..n : /\ EvLine(kinds[i], serial + i) \in EvidenceLine
                      /\ EvLine(kinds[i], serial + i).id = serial + i
  BY <1>1, EvLineFacts
<1>3. PICK c : c = [i \in 1..n |-> EvLine(kinds[i], serial + i)]
  OBVIOUS
<1>4. c \in Seq(EvidenceLine) /\ Len(c) = n /\ \A i \in 1..n : c[i].id = serial + i
  BY <1>2, <1>3
<1>5. \A k \in (serial + 1)..(serial + n) : k - serial \in 1..n /\ serial + (k - serial) = k
  OBVIOUS
<1>6. \A k \in (serial + 1)..(serial + n) : \E i \in 1..n : c[i].id = k
  BY <1>4, <1>5
<1>7. \A i \in 1..n : serial + i \in (serial + 1)..(serial + n)
  OBVIOUS
<1>8. \A i, j \in 1..n : i < j => c[i].id < c[j].id
  BY <1>4
<1>9. CallLines(n, c)
  BY <1>4, <1>6, <1>7, <1>8 DEF CallLines
<1> QED BY <1>3, <1>9

LEMMA CallStarts ==
  ASSUME serial \in Nat, Calling
  PROVE  \E n, calls : \E next \in {"idle", "report", "finalReport"} :
           CallLines(n, calls) /\ Call(n, calls, next)
<1>1. CASE EncodeObservation
  <2>1. \/ Call(1, <<EvLine("raw", serial + 1)>>, "idle")
        \/ Call(1, <<EvLine("drop", serial + 1)>> \o <<EvLine("raw", serial + 1)>>, "idle")
        \/ Call(1, <<EvLine("drop", serial + 1)>>, "idle")
    BY <1>1 DEF EncodeObservation, Call, EvLine
  <2>2. CallLines(1, <<EvLine("raw", serial + 1)>>) /\ CallLines(1, <<EvLine("drop", serial + 1)>>)
    BY CallOne DEF EvidenceKinds
  <2> QED BY <2>1, <2>2, CallObserved
<1>2. CASE EncodeTyped
  <2>1. Call(1, <<EvLine("typed", serial + 1)>>, "idle")
    BY <1>2 DEF EncodeTyped, Call, EvLine
  <2>2. CallLines(1, <<EvLine("typed", serial + 1)>>)
    BY CallOne DEF EvidenceKinds
  <2> QED BY <2>1, <2>2
<1>3. ASSUME NEW next \in {"report", "finalReport"}, EncodeBatch(next)
      PROVE  \E n, calls : CallLines(n, calls) /\ Call(n, calls, next)
  <2>0. PICK b \in {MaxBatch, 0} : b = IF HasStream THEN MaxBatch ELSE 0
    OBVIOUS
  <2>1. PICK n \in 0..b :
          /\ serial' = serial + n
          /\ \E kinds \in [1..n -> {"window", "skippedWindow", "invalidWindow"}] :
               Start([i \in 1..n |-> [kind |-> kinds[i], id |-> serial + i]], next)
    BY <1>3, <2>0 DEF EncodeBatch
  <2>2. PICK kinds \in [1..n -> {"window", "skippedWindow", "invalidWindow"}] :
          Start([i \in 1..n |-> EvLine(kinds[i], serial + i)], next)
    BY <2>1 DEF EvLine
  <2>3. n \in Nat
    BY OutputChainAssumption
  <2>4. CallLines(n, [i \in 1..n |-> EvLine(kinds[i], serial + i)])
    BY <2>3, CallBatch
  <2>5. Call(n, [i \in 1..n |-> EvLine(kinds[i], serial + i)], next)
    BY <1>3, <2>1, <2>2 DEF EncodeBatch, Call
  <2> QED BY <2>4, <2>5
<1>4. CASE Flush
  BY <1>3, <1>4 DEF Flush
<1>5. CASE Close
  BY <1>3, <1>5 DEF Close
<1> QED BY <1>1, <1>2, <1>4, <1>5 DEF Calling

(* A line is taken, by the JSONL queue or by nobody.                       *)
Taking ==
  /\ at = "line" /\ LineTaken
  /\ EncodeSend \/ (~deployment.jsonl /\ UNCHANGED queuedOutputVars)

Ending == CloseLinesEnd \/ FinalizeExporter \/ JoinReporter

LEMMA LoopCases ==
  ASSUME Next
  PROVE  /\ deployment' = deployment
         /\ \/ Calling \/ Taking \/ LineError \/ ExportLine \/ ReportExportLoss
            \/ Ending \/ UNCHANGED loopVars
<1>1. CASE Calling
  BY <1>1 DEF Calling, EncodeObservation, EncodeTyped, Flush, Close, EncodeBatch, LoopOnly
<1>2. CASE LineSend \/ LineDiscarded
  BY <1>2 DEF LineSend, LineDiscarded, Taking, LineTaken
<1>3. CASE LineError \/ ExportLine \/ ReportExportLoss
  BY <1>3 DEF LineError, ExportLine, ReportExportLoss, LoopOnly
<1>4. CASE Ending
  BY <1>4 DEF Ending, CloseLinesEnd, FinalizeExporter, JoinReporter, LoopWaits
<1>5. CASE LineBegin \/ CloseLinesBegin \/ FinalizeBegin \/ FinalizeStep \/ ReporterEnds
           \/ WriterStep \/ SenderStep \/ SubmitStep
  BY <1>5 DEF LineBegin, CloseLinesBegin, FinalizeBegin, FinalizeStep, ReporterEnds, WriterStep,
     SenderStep, SubmitStep
<1>6. CASE Ended
  BY <1>6 DEF Ended, vars
<1> QED
  BY <1>1, <1>2, <1>3, <1>4, <1>5, <1>6 DEF Next, LoopStep, ShutdownStep, Calling, Ending

LEMMA LineFacts ==
  /\ EvidenceLine \subseteq Line /\ LossLine \subseteq Line
  /\ \A line \in EvidenceLine :
       ~IsExportLoss(line) /\ line.id \in Nat \ {0} /\ line.kind \in EvidenceKinds
  /\ \A line \in LossLine :
       IsExportLoss(line) /\ line.total \in Nat /\ line.dropped \in Nat /\ ~Exportable(line)
       /\ ~IsWindow(line)
BY DEF Line, EvidenceLine, LossLine, EvidenceKinds, IsExportLoss, Exportable, IsWindow

(* todo while a line of it is being encoded.                               *)
LEMMA TodoFacts ==
  ASSUME LoopTypeInv, at \in {"line", "export"}
  PROVE  /\ todo \in Seq(Line) /\ todo # <<>> /\ Head(todo) \in Line /\ Tail(todo) \in Seq(Line)
         /\ Head(todo) = todo[1] /\ Len(todo) \in Nat \ {0} /\ Len(Tail(todo)) = Len(todo) - 1
         /\ \A i \in 1..(Len(todo) - 1) : Tail(todo)[i] = todo[i + 1]
<1>1. todo \in Seq(Line) /\ todo # <<>>
  BY DEF LoopTypeInv, Encoding
<1>2. Len(todo) \in Nat \ {0}
  BY <1>1
<1> QED BY <1>1, <1>2

(* A report is one line about what the exporter has lost since the last.   *)
ReportedLines == IF dropped = exportLost THEN <<>>
                 ELSE <<[kind |-> "loss", dropped |-> dropped - exportLost, total |-> dropped]>>

LEMMA ReportedFacts ==
  ASSUME dropped \in Nat, exportLost \in Nat, exportLost <= dropped
  PROVE  /\ ReportedLines \in Seq(Line)
         /\ dropped = exportLost => ReportedLines = <<>>
         /\ dropped # exportLost =>
              /\ Len(ReportedLines) = 1 /\ ReportedLines # <<>>
              /\ Head(ReportedLines) = ReportedLines[1]
              /\ ReportedLines[1] \in LossLine
              /\ ReportedLines[1].dropped = dropped - exportLost
              /\ ReportedLines[1].total = dropped
<1>1. CASE dropped = exportLost
  BY <1>1 DEF ReportedLines
<1>2. CASE dropped # exportLost
  <2>1. PICK e : e = [kind |-> "loss", dropped |-> dropped - exportLost, total |-> dropped]
    OBVIOUS
  <2>2. e \in LossLine /\ e.dropped = dropped - exportLost /\ e.total = dropped
    BY <2>1 DEF LossLine
  <2>3. e \in Line
    BY <2>2, LineFacts
  <2>4. ReportedLines = <<e>>
    BY <1>2, <2>1 DEF ReportedLines
  <2> QED BY <1>2, <2>2, <2>3, <2>4
<1> QED BY <1>1, <1>2

LEMMA LoopTypeNext ==
  ASSUME LoopTypeInv, PhaseInv, ExporterInv, exportLost <= dropped, Next
  PROVE  LoopTypeInv'
<1>0. dropped \in Nat /\ exportLost \in Nat /\ serial \in Nat /\ deployment' = deployment
  BY LoopCases DEF ExporterInv, ExporterTypeInv, LoopTypeInv
<1>1. CASE Calling
  <2>1. PICK n, calls : \E next \in {"idle", "report", "finalReport"} :
          CallLines(n, calls) /\ Call(n, calls, next)
    BY <1>0, <1>1, CallStarts
  <2>2. PICK next \in {"idle", "report", "finalReport"} : CallLines(n, calls) /\ Call(n, calls, next)
    BY <2>1
  <2>3. calls \in Seq(Line) /\ serial' \in Nat
    <3>1. calls \in Seq(EvidenceLine) /\ n \in Nat
      BY <2>2 DEF CallLines
    <3>2. calls \in Seq(Line)
      BY <3>1, LineFacts
    <3> QED BY <1>0, <2>2, <3>1, <3>2 DEF Call
  <2>4. todo' = calls /\ after' = next /\ at' = (IF calls = <<>> THEN next ELSE "line")
        /\ NoHistory
    BY <2>2 DEF Call, Start
  <2> QED BY <1>0, <2>3, <2>4 DEF LoopTypeInv, Encoding, NoHistory
<1>2. CASE Taking
  <2>1. /\ Head(todo) \in Line /\ todo \in Seq(Line) /\ todo # <<>> /\ Tail(todo) \in Seq(Line)
    BY <1>2, TodoFacts DEF Taking
  <2>2. PICK e : e = encoded'
    OBVIOUS
  <2>3. e \in Seq(Line) /\ Len(e) > 0 /\ e[Len(e)] = Head(todo)
    BY <1>2, <2>1, <2>2 DEF Taking, LineTaken, LoopTypeInv
  <2>4. UNCHANGED <<serial, tried, exportFailure, exportLost, runErr, jsonlError, after>>
    BY <1>2 DEF Taking, LineTaken, Proceed
  <2>5. CASE Exportable(Head(todo)) /\ deployment.tagcount
    <3>1. at' = "export" /\ todo' = todo
      BY <1>2, <2>5 DEF Taking, LineTaken
    <3>2. (Exportable(Head(todo)))'
      BY <2>5, <3>1 DEF Exportable
    <3> QED BY <1>0, <2>1, <2>2, <2>3, <2>4, <2>5, <3>1, <3>2 DEF LoopTypeInv, Encoding
  <2>6. CASE ~(Exportable(Head(todo)) /\ deployment.tagcount)
    <3>1. todo' = Tail(todo) /\ at' = (IF todo' = <<>> THEN after ELSE "line")
      BY <1>2, <2>6 DEF Taking, LineTaken, Proceed
    <3> QED BY <1>0, <2>1, <2>2, <2>3, <2>4, <3>1 DEF LoopTypeInv, Encoding
  <2> QED BY <2>5, <2>6
<1>3. CASE LineError
  <2>1. <<>> \in Seq(Line)
    OBVIOUS
  <2> QED BY <1>0, <1>3, <2>1 DEF LineError, Proceed, LoopTypeInv, Encoding
<1>4. CASE ExportLine
  <2>1. /\ Head(todo) \in Line /\ todo # <<>> /\ Tail(todo) \in Seq(Line)
    BY <1>4, TodoFacts DEF ExportLine
  <2>2. todo' = Tail(todo) /\ at' = (IF todo' = <<>> THEN after ELSE "line") /\ after' = after
        /\ UNCHANGED <<serial, encoded, exportLost, jsonlError>>
    BY <1>4 DEF ExportLine, Proceed
  <2>3. tried' \in Seq(Nat) /\ exportFailure' \in BOOLEAN /\ runErr' \in BOOLEAN
    <3>1. Head(todo).id \in Nat
      <4>1. Exportable(Head(todo))
        BY <1>4 DEF LoopTypeInv, ExportLine
      <4> QED BY <2>1, <4>1, LineFacts DEF Line
    <3>2. CASE tried' = tried
      BY <1>4, <3>2 DEF ExportLine, CallExporter, LoopTypeInv
    <3>3. CASE tried' = Append(tried, Head(todo).id)
      <4>1. tried' \in Seq(Nat)
        BY <3>1, <3>3 DEF LoopTypeInv
      <4> QED BY <1>4, <4>1 DEF ExportLine, CallExporter, LoopTypeInv
    <3> QED BY <1>4, <3>2, <3>3 DEF ExportLine, CallExporter
  <2> QED BY <1>0, <2>1, <2>2, <2>3 DEF LoopTypeInv, Encoding
<1>5. CASE ReportExportLoss
  <2>1. ReportedLines \in Seq(Line)
    BY <1>0, ReportedFacts
  <2>2. /\ todo' = ReportedLines /\ after' = (IF at = "report" THEN "idle" ELSE "close")
        /\ at' = (IF ReportedLines = <<>> THEN after' ELSE "line") /\ exportLost' = dropped
        /\ UNCHANGED <<serial, encoded, tried, exportFailure, runErr, jsonlError>>
    BY <1>5 DEF ReportExportLoss, Start, ReportedLines
  <2> QED BY <1>0, <2>1, <2>2 DEF LoopTypeInv, Encoding
<1>6. CASE Ending
  <2>1. at' \in {"closeExporter", "stopReporter", "done"} /\ runErr' \in BOOLEAN
        /\ UNCHANGED <<after, todo, serial, encoded, tried, exportFailure, exportLost, jsonlError>>
    BY <1>6 DEF Ending, CloseLinesEnd, FinalizeExporter, JoinReporter, LoopWaits, AfterLines,
       LoopTypeInv
  <2>2. at \notin {"line", "export"}
    BY <1>6 DEF Ending, CloseLinesEnd, FinalizeExporter, JoinReporter, CloseReturn, PhaseInv
  <2> QED BY <1>0, <2>1, <2>2 DEF LoopTypeInv, Encoding
<1>7. CASE UNCHANGED loopVars
  BY <1>0, <1>7 DEF loopVars, LoopTypeInv, Encoding, Exportable
<1> QED BY <1>1, <1>2, <1>3, <1>4, <1>5, <1>6, <1>7, LoopCases

LEMMA DeploymentFacts ==
  ASSUME LoopTypeInv
  PROVE  deployment.jsonl \in BOOLEAN /\ deployment.tagcount \in BOOLEAN
<1>1. \A d \in Deployments : d \in [jsonl : BOOLEAN, tagcount : BOOLEAN, mode : {"windows", "both", "raw"}]
  <2> DEFINE R == [jsonl : BOOLEAN, tagcount : BOOLEAN, mode : {"windows", "both", "raw"}]
  <2>1. /\ [jsonl |-> FALSE, tagcount |-> TRUE,  mode |-> "windows"] \in R
        /\ [jsonl |-> TRUE,  tagcount |-> TRUE,  mode |-> "both"] \in R
        /\ [jsonl |-> TRUE,  tagcount |-> FALSE, mode |-> "windows"] \in R
        /\ [jsonl |-> TRUE,  tagcount |-> FALSE, mode |-> "raw"] \in R
    OBVIOUS
  <2> HIDE DEF R
  <2>2. \A d \in Deployments : d \in R
    BY <2>1, Zenon DEF Deployments
  <2> QED BY <2>2 DEF R
<1>2. deployment \in [jsonl : BOOLEAN, tagcount : BOOLEAN, mode : {"windows", "both", "raw"}]
  BY <1>1 DEF LoopTypeInv
<1> QED BY <1>2

(* A step of the loop by itself leaves both queues alone.                  *)
LEMMA PhaseKept ==
  ASSUME PhaseInv, LoopTypeInv, deployment' = deployment,
         encodeAt \notin {"encoding", "closing"} \/ at' = at,
         at \notin {"closeExporter", "stopReporter", "done"} \/ at' = at,
         at' \notin {"closeExporter", "stopReporter", "done"} \/ at' = at,
         at # "close" \/ at' = at, runErr => runErr',
         UNCHANGED <<encodeAt, writerAt, outputFailed, closeResult, closeAt, closeErr>>,
         deployment.jsonl => Len(encoded') = offered'
  PROVE  PhaseInv'
BY DEF PhaseInv

LEMMA ExporterAlone ==
  ASSUME UNCHANGED exporterVars
  PROVE  UNCHANGED <<closeAt, closeErr, runAt, queued, dropped, written, failedCount>>
BY DEF exporterVars, closeVars, summaryVars, runVars

LEMMA JsonlAlone ==
  ASSUME UNCHANGED queuedOutputVars
  PROVE  UNCHANGED <<encodeAt, offered, writerAt, outputFailed, closeResult, output>>
BY DEF queuedOutputVars, callerVars, writerVars

LEMMA PhaseNext ==
  ASSUME LoopTypeInv, PhaseInv, JsonlInv, ExporterInv, Next
  PROVE  PhaseInv'
<1>0. deployment' = deployment /\ deployment.jsonl \in BOOLEAN /\ deployment.tagcount \in BOOLEAN
  BY LoopCases, DeploymentFacts
<1>1. CASE Calling \/ ReportExportLoss
  <2>1. UNCHANGED queuedOutputVars /\ UNCHANGED exporterVars /\ UNCHANGED <<encoded, runErr>>
        /\ at \in {"idle", "report", "finalReport"}
        /\ at' \in {"idle", "report", "finalReport", "line", "close"}
    BY <1>1 DEF Calling, EncodeObservation, EncodeTyped, Flush, Close, EncodeBatch,
       ReportExportLoss, Start, NoHistory, LoopOnly
  <2>2. encodeAt \notin {"encoding", "closing"}
    BY <2>1 DEF PhaseInv
  <2>3. deployment.jsonl => Len(encoded') = offered'
    BY <2>1, JsonlAlone DEF PhaseInv
  <2> QED BY <1>0, <2>1, <2>2, <2>3, PhaseKept, JsonlAlone, ExporterAlone
<1>2. CASE Taking
  <2>1. at = "line" /\ at' \in {"export", "idle", "report", "finalReport", "close", "line"}
        /\ UNCHANGED exporterVars /\ runErr' = runErr
    BY <1>2 DEF Taking, LineTaken, Proceed, LoopTypeInv
  <2>2. Len(encoded') = Len(encoded) + 1
    BY <1>2 DEF Taking, LineTaken, LoopTypeInv
  <2>3. UNCHANGED <<closeAt, closeErr>>
    BY <2>1, ExporterAlone
  <2>4. CASE EncodeSend
    <3>1. encodeAt = "encoding" /\ encodeAt' = "idle" /\ offered' = offered + 1
      BY <2>4 DEF EncodeSend
    <3> QED BY <1>0, <2>1, <2>2, <2>3, <3>1 DEF PhaseInv
  <2>5. CASE ~deployment.jsonl /\ UNCHANGED queuedOutputVars
    <3>1. encodeAt' = encodeAt /\ encodeAt = "idle"
      BY <2>1, <2>5, JsonlAlone DEF PhaseInv, JsonlInv, JsonlTypeInv
    <3> QED BY <1>0, <2>1, <2>3, <2>5, <3>1 DEF PhaseInv
  <2> QED BY <1>2, <2>4, <2>5 DEF Taking
<1>3. CASE LineError
  <2>1. at = "line" /\ at' \in {"idle", "report", "finalReport", "close"} /\ deployment.jsonl
        /\ UNCHANGED exporterVars /\ runErr' /\ encoded' = encoded
    BY <1>3 DEF LineError, Proceed, LoopTypeInv
  <2>2. encodeAt' = "idle" /\ offered' = offered
    BY <1>3 DEF LineError, EncodeRefused, queuedOutputVars, callerVars
  <2>3. UNCHANGED <<closeAt, closeErr>>
    BY <2>1, ExporterAlone
  <2> QED BY <1>0, <2>1, <2>2, <2>3 DEF PhaseInv
<1>4. CASE ExportLine
  <2>1. at = "export" /\ at' \in {"idle", "report", "finalReport", "close", "line"}
        /\ UNCHANGED queuedOutputVars /\ encoded' = encoded
    BY <1>4 DEF ExportLine, Proceed, LoopTypeInv
  <2>2. UNCHANGED <<closeAt, closeErr>> /\ (runErr => runErr')
    BY <1>4 DEF ExportLine, CallExporter, Export, closeVars, exporterVars
  <2>3. encodeAt \notin {"encoding", "closing"}
    BY <2>1 DEF PhaseInv
  <2>4. deployment.jsonl => Len(encoded') = offered'
    BY <2>1, JsonlAlone DEF PhaseInv
  <2> QED BY <1>0, <2>1, <2>2, <2>3, <2>4, PhaseKept, JsonlAlone
<1>5. CASE CloseLinesEnd
  <2>1. at = "close" /\ at' = AfterLines /\ UNCHANGED exporterVars /\ encoded' = encoded
        /\ runErr' = (runErr \/ closeResult' \notin {"none", "nil"})
    BY <1>5 DEF CloseLinesEnd, LoopWaits
  <2>2. UNCHANGED <<closeAt, closeErr>> /\ closeAt = "open"
    BY <2>1, ExporterAlone DEF PhaseInv
  <2>3. CASE LinesClosed \/ LinesDrainTimeout
    <3>1. encodeAt = "closing" /\ encodeAt' = "closed" /\ deployment.jsonl /\ offered' = offered
      BY <2>3 DEF LinesClosed, LinesDrainTimeout, PhaseInv
    <3>2. (writerAt' = "done" /\ ~outputFailed' /\ closeResult' = "nil") \/ runErr'
      BY <2>1, <2>3 DEF LinesClosed, LinesDrainTimeout, writerVars
    <3> QED BY <1>0, <2>1, <2>2, <3>1, <3>2 DEF PhaseInv, AfterLines
  <2>4. CASE ~deployment.jsonl /\ UNCHANGED queuedOutputVars
    <3>1. encodeAt' = encodeAt /\ encodeAt = "idle"
      BY <2>1, <2>4, JsonlAlone DEF PhaseInv, JsonlInv, JsonlTypeInv
    <3> QED BY <1>0, <2>1, <2>2, <2>4, <3>1 DEF PhaseInv, AfterLines
  <2> QED BY <1>5, <2>3, <2>4 DEF CloseLinesEnd
<1>6. CASE FinalizeExporter
  <2>1. /\ closeAt = "snapshot" /\ closeAt' = "returned" /\ at' = "stopReporter"
        /\ runErr' = (runErr \/ closeErr' # {})
        /\ UNCHANGED queuedOutputVars /\ encoded' = encoded
    BY <1>6 DEF FinalizeExporter, CloseReturn, LoopWaits
  <2>2. at = "closeExporter" /\ deployment.tagcount
    BY <2>1 DEF PhaseInv
  <2>3. closeErr' = {} \/ runErr'
    BY <2>1
  <2>4. UNCHANGED <<encodeAt, offered, writerAt, outputFailed, closeResult>>
    BY <2>1, JsonlAlone
  <2>5. encodeAt = "closed" <=> deployment.jsonl
    BY <2>2 DEF PhaseInv
  <2>6. runErr => runErr'
    BY <2>1
  <2> QED BY <1>0, <2>1, <2>2, <2>3, <2>4, <2>5, <2>6 DEF PhaseInv
<1>7. CASE JoinReporter
  <2>1. at = "stopReporter" /\ at' = "done" /\ UNCHANGED <<runErr, encoded>>
        /\ UNCHANGED queuedOutputVars /\ UNCHANGED exporterVars
    BY <1>7 DEF JoinReporter, LoopWaits
  <2> QED BY <1>0, <2>1, JsonlAlone, ExporterAlone DEF PhaseInv
<1>8. CASE LineBegin
  <2>1. at = "line" /\ deployment.jsonl /\ encodeAt' = "encoding" /\ offered' = offered
        /\ UNCHANGED <<at, encoded>> /\ UNCHANGED exporterVars
    BY <1>8 DEF LineBegin, EncodeBegin, loopVars
  <2> QED BY <1>0, <2>1, ExporterAlone DEF PhaseInv
<1>9. CASE CloseLinesBegin
  <2>1. at = "close" /\ deployment.jsonl /\ encodeAt' = "closing" /\ offered' = offered
        /\ UNCHANGED <<at, encoded>> /\ UNCHANGED exporterVars
    BY <1>9 DEF CloseLinesBegin, CloseLines, loopVars
  <2> QED BY <1>0, <2>1, ExporterAlone DEF PhaseInv
<1>10. CASE FinalizeBegin \/ FinalizeStep
  <2>1. UNCHANGED <<at, encoded, runErr>> /\ UNCHANGED queuedOutputVars
    BY <1>10 DEF FinalizeBegin, FinalizeStep, loopVars
  <2>2. /\ closeAt # "returned" /\ closeAt' \notin {"returned", "open"}
        /\ at = "closeExporter" \/ closeAt # "open"
    BY <1>10 DEF FinalizeBegin, FinalizeStep, CloseBegin, CloseDrained, CloseTimeout, CloseSender,
       CloseSenderDone, CloseErr
  <2>3. at \in {"closeExporter", "stopReporter", "done"} /\ deployment.tagcount
    BY <2>2 DEF PhaseInv
  <2>4. ~(deployment.tagcount /\ at \in {"stopReporter", "done"})
    BY <2>2 DEF PhaseInv
  <2>5. UNCHANGED <<encodeAt, offered, writerAt, outputFailed, closeResult>>
    BY <2>1, JsonlAlone
  <2> QED BY <1>0, <2>1, <2>2, <2>3, <2>4, <2>5 DEF PhaseInv
<1>11. CASE WriterStep
  <2>1. UNCHANGED <<at, encoded, runErr>> /\ UNCHANGED exporterVars
        /\ UNCHANGED <<encodeAt, offered, closeResult>> /\ writerAt # "done"
    BY <1>11 DEF WriterStep, WriterTake, WriterLoss, WriterFails, WriterWrite, WriterReport,
       loopVars, callerVars
  <2> QED BY <1>0, <2>1, ExporterAlone DEF PhaseInv
<1>12. CASE SenderStep
  <2>1. UNCHANGED <<at, encoded, runErr>> /\ UNCHANGED queuedOutputVars
        /\ UNCHANGED <<closeAt, closeErr>>
    BY <1>12 DEF SenderStep, RunTake, RunCount, RunFail, RunCloseSender, RunDone, RunSend, RunIdle,
       closeVars, loopVars
  <2> QED BY <1>0, <2>1, JsonlAlone DEF PhaseInv
<1>13. CASE ReporterEnds \/ SubmitStep \/ Ended
  <2>1. UNCHANGED <<at, encoded, runErr>> /\ UNCHANGED queuedOutputVars /\ UNCHANGED exporterVars
    BY <1>13 DEF ReporterEnds, SubmitStep, Ended, vars, loopVars
  <2> QED BY <1>0, <2>1, JsonlAlone, ExporterAlone DEF PhaseInv
<1>14. CASE LineSend \/ LineDiscarded
  BY <1>2, <1>14 DEF LineSend, LineDiscarded, Taking
<1> QED
  BY <1>1, <1>3, <1>4, <1>5, <1>6, <1>7, <1>8, <1>9, <1>10, <1>11, <1>12, <1>13, <1>14
     DEF Next, LoopStep, ShutdownStep, Calling

(* Only an export changes what the exporter has queued and dropped.        *)
LEMMA CountersKept ==
  ASSUME Next
  PROVE  ExportLine \/ UNCHANGED <<queued, dropped>>
<1>1. CASE Calling \/ ReportExportLoss \/ LineError \/ LineSend \/ LineDiscarded \/ LineBegin
           \/ CloseLinesBegin \/ CloseLinesEnd \/ JoinReporter \/ ReporterEnds \/ WriterStep
           \/ SubmitStep
  <2>1. UNCHANGED exporterVars
    BY <1>1 DEF Calling, EncodeObservation, EncodeTyped, Flush, Close, EncodeBatch, LoopOnly,
       ReportExportLoss, LineError, LineSend, LineDiscarded, LineTaken, LineBegin, CloseLinesBegin,
       CloseLinesEnd, JoinReporter, ReporterEnds, WriterStep, SubmitStep
  <2> QED BY <2>1, ExporterAlone
<1>2. CASE FinalizeBegin \/ FinalizeStep \/ FinalizeExporter
  BY <1>2 DEF FinalizeBegin, FinalizeStep, FinalizeExporter, CloseBegin, CloseDrained, CloseTimeout,
     CloseSender, CloseSenderDone, CloseErr, CloseReturn, CloseIdle, summaryVars
<1>3. CASE SenderStep
  BY <1>3 DEF SenderStep, RunTake, RunCount, RunFail, RunCloseSender, RunDone, RunSend, RunIdle
<1>4. CASE Ended
  BY <1>4, ExporterAlone DEF Ended, vars
<1> QED BY <1>1, <1>2, <1>3, <1>4 DEF Next, LoopStep, ShutdownStep, Calling

(* Only a line that is taken changes what was encoded.                     *)
LEMMA EncodedKept ==
  ASSUME Next
  PROVE  Taking \/ encoded' = encoded
<1>1. CASE Calling
  BY <1>1 DEF Calling, EncodeObservation, EncodeTyped, Flush, Close, EncodeBatch, NoHistory
<1>2. CASE LineError \/ ExportLine \/ ReportExportLoss \/ Ending \/ UNCHANGED loopVars
  BY <1>2 DEF LineError, ExportLine, ReportExportLoss, Ending, CloseLinesEnd, FinalizeExporter,
     JoinReporter, LoopWaits, loopVars
<1> QED BY <1>1, <1>2, LoopCases

LEMMA EncodedPositions ==
  ASSUME LoopTypeInv, Ranked(ExportablePositions), Ranked(ExportLossPositions)
  PROVE  /\ Positions(encoded, Line, ExportablePositions)
         /\ Positions(encoded, Line, ExportLossPositions)
         /\ ExportableLines \in Seq(Line) /\ ExportLossLines \in Seq(Line)
<1>1. ExportablePositions \subseteq 1..Len(encoded) /\ ExportLossPositions \subseteq 1..Len(encoded)
  BY DEF ExportablePositions, ExportLossPositions
<1>2. encoded \in Seq(Line)
  BY DEF LoopTypeInv
<1>3. /\ Positions(encoded, Line, ExportablePositions)
      /\ Positions(encoded, Line, ExportLossPositions)
  BY <1>1, <1>2 DEF Positions
<1> QED BY <1>3, AtFacts DEF ExportableLines, ExportLossLines

LEMMA EncodedSame ==
  ASSUME encoded' = encoded
  PROVE  /\ ExportablePositions' = ExportablePositions /\ ExportLossPositions' = ExportLossPositions
         /\ ExportableLines' = ExportableLines /\ ExportLossLines' = ExportLossLines
         /\ Ranked(ExportablePositions)' <=> Ranked(ExportablePositions)
         /\ Ranked(ExportLossPositions)' <=> Ranked(ExportLossPositions)
         /\ Exported' = Exported /\ Evidence' = Evidence
<1>1. ExportablePositions' = ExportablePositions /\ ExportLossPositions' = ExportLossPositions
  BY DEF ExportablePositions, ExportLossPositions, Exportable, IsExportLoss
<1>2. Exported' = Exported /\ Evidence' = Evidence
  BY DEF Exported, Evidence, IsExportLoss
<1> QED BY <1>1, <1>2 DEF ExportableLines, ExportLossLines, Ranked

LEMMA EncodedTaken ==
  ASSUME LoopTypeInv, Ranked(ExportablePositions), Ranked(ExportLossPositions),
         NEW e \in Line, encoded' = Append(encoded, e)
  PROVE  /\ Exportable(e) => Grown(ExportableLines, Line, e, ExportableLines')
         /\ ~Exportable(e) => ExportableLines' = ExportableLines
         /\ IsExportLoss(e) => Grown(ExportLossLines, Line, e, ExportLossLines')
         /\ ~IsExportLoss(e) => ExportLossLines' = ExportLossLines
         /\ Ranked(ExportablePositions)' /\ Ranked(ExportLossPositions)'
<1>1. encoded \in Seq(Line) /\ Len(encoded) \in Nat
  BY DEF LoopTypeInv
<1>2. PICK u : u = encoded' /\ Grown(encoded, Line, e, u)
  BY <1>1, AppendGrows
<1>3. PICK n : n = Len(encoded) + 1
  OBVIOUS
<1>4. /\ Positions(encoded, Line, ExportablePositions)
      /\ Positions(encoded, Line, ExportLossPositions)
  BY EncodedPositions
<1>5. /\ Exportable(e) => ExportablePositions' = ExportablePositions \cup {n}
      /\ ~Exportable(e) => ExportablePositions' = ExportablePositions
  BY <1>1, <1>2, <1>3 DEF ExportablePositions, Exportable, Grown
<1>6. /\ IsExportLoss(e) => ExportLossPositions' = ExportLossPositions \cup {n}
      /\ ~IsExportLoss(e) => ExportLossPositions' = ExportLossPositions
  BY <1>1, <1>2, <1>3 DEF ExportLossPositions, IsExportLoss, Grown
<1>7. /\ Grown(At(encoded, ExportablePositions), Line, e, At(u, ExportablePositions \cup {n}))
      /\ Ranked(ExportablePositions \cup {n})
      /\ Grown(At(encoded, ExportLossPositions), Line, e, At(u, ExportLossPositions \cup {n}))
      /\ Ranked(ExportLossPositions \cup {n})
  BY <1>2, <1>3, <1>4, AtAppend
<1>8. /\ At(u, ExportablePositions) = At(encoded, ExportablePositions)
      /\ At(u, ExportLossPositions) = At(encoded, ExportLossPositions)
  BY <1>2, <1>4, AtKept
<1>9. /\ ExportableLines' = At(u, ExportablePositions') /\ ExportLossLines' = At(u, ExportLossPositions')
  BY <1>2 DEF ExportableLines, ExportLossLines
<1>10. Ranked(ExportablePositions') /\ Ranked(ExportLossPositions')
  BY <1>5, <1>6, <1>7
<1>11. Ranked(ExportablePositions)' /\ Ranked(ExportLossPositions)'
  BY <1>10 DEF Ranked
<1> QED BY <1>5, <1>6, <1>7, <1>8, <1>9, <1>11 DEF ExportableLines, ExportLossLines

LEMMA ExportedTaken ==
  ASSUME LoopTypeInv, NEW e \in Line, encoded' = Append(encoded, e)
  PROVE  /\ Cardinality(Exported) \in Nat
         /\ Cardinality(Exported') = Cardinality(Exported)
                                       + (IF e.kind \in {"typed", "window"} THEN 1 ELSE 0)
<1>1. encoded \in Seq(Line) /\ Len(encoded) \in Nat
  BY DEF LoopTypeInv
<1>2. PICK u : u = encoded' /\ Grown(encoded, Line, e, u)
  BY <1>1, AppendGrows
<1>3. PICK n \in Nat : n = Len(encoded)
  BY <1>1
<1>4. Exported \subseteq 1..n
  BY <1>3 DEF Exported
<1>5. IsFiniteSet(Exported) /\ n + 1 \notin Exported
  <2>1. IsFiniteSet(1..n)
    BY FS_Interval
  <2>2. Exported \in SUBSET (1..n)
    BY <1>4
  <2>3. IsFiniteSet(Exported)
    BY <2>1, <2>2, FS_Subset
  <2>4. n + 1 \notin 1..n
    OBVIOUS
  <2> QED BY <1>4, <2>3, <2>4
<1>6. CASE e.kind \in {"typed", "window"}
  <2>1. Exported' = Exported \cup {n + 1}
    BY <1>2, <1>3, <1>6 DEF Exported, Grown
  <2>2. Cardinality(Exported \cup {n + 1}) = Cardinality(Exported) + 1
    BY <1>5, FS_AddElement
  <2> QED BY <1>5, <1>6, <2>1, <2>2, FS_CardinalityType
<1>7. CASE e.kind \notin {"typed", "window"}
  <2>1. Exported' = Exported
    BY <1>2, <1>3, <1>7 DEF Exported, Grown
  <2> QED BY <1>5, <1>7, <2>1, FS_CardinalityType
<1> QED BY <1>6, <1>7

LEMMA ExportKept ==
  ASSUME ExportInv, encoded' = encoded, deployment' = deployment, runErr => runErr',
         UNCHANGED <<tried, exportFailure, rejections, queued, dropped>>,
         (at # "export" /\ at' # "export") \/ UNCHANGED <<at, todo>>
  PROVE  ExportInv'
<1>1. /\ ExportablePositions' = ExportablePositions /\ ExportableLines' = ExportableLines
      /\ Ranked(ExportablePositions)' <=> Ranked(ExportablePositions)
      /\ Exported' = Exported
  BY EncodedSame
<1>2. AtExport' = AtExport /\ AtExported' = AtExported
  BY DEF AtExport, AtExported
<1>3. at' = "export" => at = "export" /\ todo' = todo
  OBVIOUS
<1> QED BY <1>1, <1>2, <1>3 DEF ExportInv

(* The prefix that was tried is one of the longer sequence too.            *)
LEMMA TriedGrows ==
  ASSUME NEW s \in Seq(Line), NEW u, NEW e, Grown(s, Line, e, u), NEW t \in Seq(Nat),
         Len(t) <= Len(s), \A i \in 1..Len(t) : t[i] = s[i].id
  PROVE  Len(t) <= Len(u) /\ \A i \in 1..Len(t) : t[i] = u[i].id
<1>1. PICK n \in Nat : n = Len(s)
  OBVIOUS
<1>2. Len(u) = n + 1 /\ \A k \in 1..n : u[k] = s[k]
  BY <1>1 DEF Grown
<1>3. Len(t) \in Nat /\ Len(t) <= n
  BY <1>1
<1>4. \A i \in 1..Len(t) : i \in 1..n
  BY <1>3
<1> QED BY <1>2, <1>3, <1>4

LEMMA ExportTaken ==
  ASSUME LoopTypeInv, ExportInv, Ranked(ExportLossPositions), ExporterInv, Taking
  PROVE  ExportInv'
<1>0. at = "line" /\ LineTaken
  BY DEF Taking
<1>1. PICK e \in Line : e = Head(todo)
  BY <1>0, TodoFacts
<1>2. encoded' = Append(encoded, e) /\ deployment' = deployment
      /\ UNCHANGED <<tried, exportFailure, rejections, queued, dropped, runErr>>
  BY <1>0, <1>1, ExporterAlone DEF LineTaken
<1>3. Ranked(ExportablePositions) /\ ExportableLines \in Seq(Line)
  BY EncodedPositions DEF ExportInv
<1>4. /\ Exportable(e) => Grown(ExportableLines, Line, e, ExportableLines')
      /\ ~Exportable(e) => ExportableLines' = ExportableLines
      /\ Ranked(ExportablePositions)'
  BY <1>2, <1>3, EncodedTaken
<1>5. tried \in Seq(Nat) /\ Len(tried) <= Len(ExportableLines)
      /\ \A i \in 1..Len(tried) : tried[i] = ExportableLines[i].id
  BY DEF ExportInv, LoopTypeInv
<1>6. PICK u : u = ExportableLines'
  OBVIOUS
<1>7. Len(tried) <= Len(u) /\ \A i \in 1..Len(tried) : tried[i] = u[i].id
  BY <1>3, <1>4, <1>5, <1>6, TriedGrows
<1>8. /\ Cardinality(Exported) \in Nat
      /\ Cardinality(Exported') = Cardinality(Exported)
                                    + (IF e.kind \in {"typed", "window"} THEN 1 ELSE 0)
  BY <1>2, ExportedTaken
<1>9. queued \in Nat /\ dropped \in Nat /\ Len(tried) \in Nat /\ Len(ExportableLines) \in Nat
  BY <1>3, <1>5 DEF ExporterInv, ExporterTypeInv
<1>10. /\ ~deployment.tagcount => tried = <<>> /\ ~exportFailure
       /\ ~exportFailure => rejections = {}
       /\ exportFailure => runErr /\ Len(tried) > 0 /\ rejections = {tried[Len(tried)]}
  BY DEF ExportInv
<1>11. deployment.tagcount /\ ~exportFailure =>
         Len(tried) = Len(ExportableLines) /\ queued + dropped = Cardinality(Exported)
  BY <1>0, <1>8, <1>9 DEF ExportInv, AtExport, AtExported
<1>12. CASE Exportable(e) /\ deployment.tagcount
  <2>1. at' = "export" /\ todo' = todo
    BY <1>0, <1>1, <1>12 DEF LineTaken
  <2>2. Len(u) = Len(ExportableLines) + 1 /\ u[Len(u)] = e
    BY <1>4, <1>6, <1>9, <1>12 DEF Grown
  <2>3. AtExport' = 1 /\ AtExported' = (IF e.kind \in {"typed", "window"} THEN 1 ELSE 0)
    BY <1>1, <2>1 DEF AtExport, AtExported
  <2>4. ~exportFailure => /\ Len(tried) + AtExport' = Len(u)
                          /\ queued + dropped + AtExported' = Cardinality(Exported')
    BY <1>8, <1>9, <1>11, <1>12, <2>2, <2>3
  <2>5. Len(u) > 0 /\ u[Len(u)] = Head(todo')
    BY <1>1, <1>9, <2>1, <2>2
  <2> QED BY <1>2, <1>4, <1>6, <1>7, <1>10, <2>4, <2>5 DEF ExportInv
<1>13. CASE ~(Exportable(e) /\ deployment.tagcount)
  <2>1. at' # "export"
    BY <1>0, <1>1, <1>13 DEF LineTaken, Proceed, LoopTypeInv
  <2>2. AtExport' = 0 /\ AtExported' = 0
    BY <2>1 DEF AtExport, AtExported
  <2>3. deployment.tagcount => u = ExportableLines /\ Cardinality(Exported') = Cardinality(Exported)
    <3>1. ~Exportable(e) => e.kind \notin {"typed", "window"}
      BY DEF Exportable
    <3> QED BY <1>4, <1>6, <1>8, <1>13, <3>1
  <2>4. deployment.tagcount /\ ~exportFailure =>
          /\ Len(tried) + AtExport' = Len(u)
          /\ queued + dropped + AtExported' = Cardinality(Exported')
    BY <1>9, <1>11, <2>2, <2>3
  <2> QED BY <1>2, <1>4, <1>6, <1>7, <1>10, <2>1, <2>4 DEF ExportInv
<1> QED BY <1>12, <1>13

LEMMA ExportLineKeeps ==
  ASSUME LoopTypeInv, ExportInv, Ranked(ExportLossPositions), ExporterInv, ExportLine
  PROVE  ExportInv'
<1>1. PICK e \in Line : e = Head(todo)
  BY TodoFacts DEF ExportLine
<1>2. at = "export" /\ at' # "export" /\ encoded' = encoded /\ deployment' = deployment
      /\ deployment.tagcount
  BY DEF ExportLine, Proceed, LoopTypeInv
<1>3. /\ ExportableLines' = ExportableLines /\ Ranked(ExportablePositions)' /\ Exported' = Exported
      /\ ExportableLines \in Seq(Line)
  BY <1>2, EncodedSame, EncodedPositions DEF ExportInv
<1>4. AtExport' = 0 /\ AtExported' = 0
  BY <1>2 DEF AtExport, AtExported
<1>5. PICK n \in Nat : n = Len(ExportableLines)
  BY <1>3
<1>6. tried \in Seq(Nat) /\ queued \in Nat /\ dropped \in Nat
  BY DEF LoopTypeInv, ExporterInv, ExporterTypeInv
<1>7. CASE exportFailure
  <2>1. UNCHANGED <<tried, rejections, exportFailure, runErr>>
    BY <1>7 DEF ExportLine
  <2> QED BY <1>2, <1>3, <1>7, <2>1 DEF ExportInv
<1>8. CASE ~exportFailure
  <2>1. CallExporter(e)
    BY <1>1, <1>8 DEF ExportLine
  <2>2. Len(tried) + 1 = n /\ n > 0 /\ ExportableLines[n] = e /\ rejections = {}
        /\ \A i \in 1..Len(tried) : tried[i] = ExportableLines[i].id
    BY <1>1, <1>2, <1>5, <1>8 DEF ExportInv, AtExport
  <2>3. PICK t : t = tried'
    OBVIOUS
  <2>4. e.id \in Nat
    <3>1. Exportable(e)
      BY <1>1, <1>2 DEF LoopTypeInv
    <3> QED BY <3>1, LineFacts DEF Line
  <2>5. Len(t) = n /\ t[n] = e.id /\ \A i \in 1..(n - 1) : t[i] = tried[i]
    <3>1. t = Append(tried, e.id)
      BY <2>1, <2>3 DEF CallExporter
    <3>2. PICK m \in Nat : m = Len(tried)
      BY <1>6
    <3>3. Len(t) = m + 1 /\ t[m + 1] = e.id /\ \A i \in 1..m : t[i] = tried[i]
      BY <1>6, <2>4, <3>1, <3>2
    <3> QED BY <2>2, <3>2, <3>3
  <2>6. \A i \in 1..n : t[i] = ExportableLines[i].id
    <3> TAKE i \in 1..n
    <3>1. CASE i = n
      BY <2>2, <2>5, <3>1
    <3>2. CASE i # n
      <4>1. i \in 1..(n - 1) /\ i \in 1..Len(tried)
        BY <1>6, <2>2, <3>2
      <4> QED BY <2>2, <2>5, <4>1
    <3> QED BY <3>1, <3>2
  <2>7. CASE exportFailure'
    <3>1. rejections' = {e.id} /\ runErr'
      BY <1>8, <2>1, <2>2, <2>7 DEF CallExporter
    <3>2. rejections' = {t[Len(t)]} /\ Len(t) > 0
      BY <2>2, <2>5, <3>1
    <3> QED BY <1>2, <1>3, <1>5, <2>3, <2>5, <2>6, <2>7, <3>1, <3>2 DEF ExportInv
  <2>8. CASE ~exportFailure'
    <3>1. rejections' = {}
      BY <2>1, <2>2, <2>8 DEF CallExporter
    <3>2. queued' + dropped' = Cardinality(Exported)
      <4>1. queued + dropped + (IF e.kind \in {"typed", "window"} THEN 1 ELSE 0) = Cardinality(Exported)
        BY <1>1, <1>2, <1>8 DEF ExportInv, AtExported
      <4>2. CASE e.kind \in {"typed", "window"} /\ Export
        <5>1. queued' + dropped' = queued + dropped + 1
          BY <1>6, <4>2 DEF Export
        <5> QED BY <4>1, <4>2, <5>1
      <4>3. CASE e.kind = "skippedWindow" /\ UNCHANGED exporterVars
        <5>1. UNCHANGED <<queued, dropped>>
          BY <4>3, ExporterAlone
        <5> QED BY <1>6, <4>1, <4>3, <5>1
      <4> QED BY <2>1, <2>8, <4>2, <4>3 DEF CallExporter
    <3>3. queued' \in Nat /\ dropped' \in Nat
      BY ExporterInvNext, ExporterInvKept, <2>1, <1>6 DEF CallExporter, ExporterNext, ExporterInv, ExporterTypeInv
    <3>4. Len(t) + AtExport' = n /\ queued' + dropped' + AtExported' = Cardinality(Exported)
      BY <1>4, <2>5, <3>2, <3>3
    <3> QED BY <1>2, <1>3, <1>5, <2>3, <2>5, <2>6, <2>8, <3>1, <3>4 DEF ExportInv
  <2> QED BY <2>7, <2>8
<1> QED BY <1>7, <1>8

LEMMA ExportInvNext ==
  ASSUME LoopTypeInv, PhaseInv, ExportInv, Ranked(ExportLossPositions), ExporterInv, Next
  PROVE  ExportInv'
<1>0. deployment' = deployment
  BY LoopCases
<1>1. CASE Taking
  BY <1>1, ExportTaken
<1>2. CASE ExportLine
  BY <1>2, ExportLineKeeps
<1>3. CASE ~Taking /\ ~ExportLine
  <2>1. encoded' = encoded /\ UNCHANGED <<queued, dropped>>
    BY <1>3, EncodedKept, CountersKept
  <2>2. /\ UNCHANGED <<tried, exportFailure, rejections>> /\ (runErr => runErr')
        /\ (at # "export" /\ at' # "export") \/ UNCHANGED <<at, todo>>
    <3>1. CASE Calling
      <4>1. PICK n, calls : \E next \in {"idle", "report", "finalReport"} :
              CallLines(n, calls) /\ Call(n, calls, next)
        BY <3>1, CallStarts DEF LoopTypeInv
      <4>2. NoHistory /\ at = "idle" /\ at' # "export"
        BY <4>1 DEF Call, Start
      <4> QED BY <4>2 DEF NoHistory
    <3>2. CASE LineError
      BY <3>2 DEF LineError, Proceed, LoopTypeInv
    <3>3. CASE ReportExportLoss
      BY <3>3 DEF ReportExportLoss, Start
    <3>4. CASE Ending
      BY <3>4 DEF Ending, CloseLinesEnd, FinalizeExporter, CloseReturn, JoinReporter, LoopWaits,
         AfterLines, PhaseInv
    <3>5. CASE UNCHANGED loopVars
      BY <3>5 DEF loopVars
    <3> QED BY <1>3, <3>1, <3>2, <3>3, <3>4, <3>5, LoopCases
  <2> QED BY <1>0, <2>1, <2>2, ExportKept
<1> QED BY <1>1, <1>2, <1>3

(* What a step does to the lines that are still to be encoded.             *)
LEMMA RestCases ==
  ASSUME LoopTypeInv, PhaseInv
  PROVE  /\ \A n, calls, next : next # "export" /\ Call(n, calls, next) => Rest = <<>> /\ Rest' = calls
         /\ Taking => Rest = todo /\ Rest' = Tail(todo)
         /\ LineError => Rest' = <<>>
         /\ ExportLine => Rest' = Rest
         /\ ReportExportLoss => Rest = <<>> /\ Rest' = ReportedLines
         /\ Ending \/ UNCHANGED loopVars => Rest' = Rest
<1> USE DEF Rest
<1>1. ASSUME NEW n, NEW calls, NEW next, next # "export", Call(n, calls, next)
      PROVE  Rest = <<>> /\ Rest' = calls
  BY <1>1 DEF Call, Start, LoopTypeInv, Encoding
<1>2. ASSUME Taking PROVE Rest = todo /\ Rest' = Tail(todo)
  <2>1. at = "line" /\ after # "export"
    BY <1>2 DEF Taking, LoopTypeInv
  <2>2. CASE Exportable(Head(todo)) /\ deployment.tagcount
    BY <1>2, <2>1, <2>2 DEF Taking, LineTaken
  <2>3. CASE ~(Exportable(Head(todo)) /\ deployment.tagcount)
    <3>1. todo' = Tail(todo) /\ at' = (IF Tail(todo) = <<>> THEN after ELSE "line")
      BY <1>2, <2>3 DEF Taking, LineTaken, Proceed
    <3>2. at' # "export"
      BY <2>1, <3>1
    <3> QED BY <2>1, <3>1, <3>2
  <2> QED BY <2>2, <2>3
<1>3. ASSUME LineError PROVE Rest' = <<>>
  BY <1>3 DEF LineError, Proceed, LoopTypeInv
<1>4. ASSUME ExportLine PROVE Rest' = Rest
  <2>1. at = "export" /\ todo' = Tail(todo) /\ at' = (IF Tail(todo) = <<>> THEN after ELSE "line")
    BY <1>4 DEF ExportLine, Proceed
  <2>2. at' # "export"
    BY <2>1 DEF LoopTypeInv
  <2> QED BY <2>1, <2>2
<1>5. ASSUME ReportExportLoss PROVE Rest = <<>> /\ Rest' = ReportedLines
  <2>1. todo = <<>> /\ at # "export"
    BY <1>5 DEF ReportExportLoss, LoopTypeInv, Encoding
  <2>2. todo' = ReportedLines /\ at' # "export"
    BY <1>5 DEF ReportExportLoss, Start, ReportedLines
  <2> QED BY <2>1, <2>2
<1>6. ASSUME Ending PROVE Rest' = Rest
  <2>1. todo' = todo /\ at # "export" /\ at' # "export"
    BY <1>6 DEF Ending, CloseLinesEnd, FinalizeExporter, CloseReturn, JoinReporter, LoopWaits,
       AfterLines, PhaseInv
  <2> QED BY <2>1
<1>7. ASSUME UNCHANGED loopVars PROVE Rest' = Rest
  BY <1>7 DEF loopVars
<1> QED BY <1>1, <1>2, <1>3, <1>4, <1>5, <1>6, <1>7

Ids(s) == {s[i].id : i \in {j \in 1..Len(s) : ~IsExportLoss(s[j])}}

LEMMA IdsAre ==
  /\ Evidence = Ids(encoded) /\ RestIds = Ids(Rest)
  /\ Ids(<<>>) = {}
  /\ \A s, k : k \in Ids(s) <=> \E i \in 1..Len(s) : ~IsExportLoss(s[i]) /\ s[i].id = k
BY DEF Evidence, RestIds, Ids

HeadIds(e) == IF IsExportLoss(e) THEN {} ELSE {e.id}

LEMMA IdsGrow ==
  ASSUME NEW s \in Seq(Line), NEW e, NEW u, Grown(s, Line, e, u)
  PROVE  Ids(u) = Ids(s) \cup HeadIds(e)
<1>1. PICK n \in Nat : n = Len(s)
  OBVIOUS
<1>2. Len(u) = n + 1 /\ u[n + 1] = e /\ \A k \in 1..n : u[k] = s[k]
  BY <1>1 DEF Grown
<1>3. \A i : i \in 1..(n + 1) <=> i \in 1..n \/ i = n + 1
  OBVIOUS
<1>4. \A k : k \in Ids(u) <=> k \in Ids(s) \/ k \in HeadIds(e)
  <2> TAKE k
  <2>1. k \in Ids(u) <=> \E i \in 1..(n + 1) : ~IsExportLoss(u[i]) /\ u[i].id = k
    BY <1>2, IdsAre
  <2>2. k \in Ids(s) <=> \E i \in 1..n : ~IsExportLoss(s[i]) /\ s[i].id = k
    BY <1>1, IdsAre
  <2>3. k \in HeadIds(e) <=> ~IsExportLoss(e) /\ e.id = k
    BY DEF HeadIds
  <2> QED BY <1>2, <1>3, <2>1, <2>2, <2>3
<1> QED BY <1>4

LEMMA IdsTail ==
  ASSUME NEW s \in Seq(Line), s # <<>>
  PROVE  Ids(s) = Ids(Tail(s)) \cup HeadIds(Head(s))
<1>1. PICK n \in Nat : Len(s) = n + 1
  <2>1. Len(s) \in Nat /\ Len(s) # 0
    OBVIOUS
  <2> QED BY <2>1
<1>2. PICK q : q = Tail(s)
  OBVIOUS
<1>3. Len(q) = n /\ Head(s) = s[1] /\ \A i \in 1..n : q[i] = s[i + 1]
  BY <1>1, <1>2
<1>4. \A i \in 1..(n + 1) : i = 1 \/ (i - 1 \in 1..n /\ q[i - 1] = s[i])
  <2> TAKE i \in 1..(n + 1)
  <2>1. CASE i # 1
    <3>1. i - 1 \in 1..n /\ (i - 1) + 1 = i
      BY <2>1
    <3> QED BY <1>3, <3>1
  <2> QED BY <2>1
<1>5. \A i \in 1..n : i + 1 \in 1..(n + 1)
  OBVIOUS
<1>6. \A k : k \in Ids(s) <=> k \in Ids(q) \/ k \in HeadIds(s[1])
  <2> TAKE k
  <2>1. k \in Ids(q) <=> \E i \in 1..n : ~IsExportLoss(q[i]) /\ q[i].id = k
    <3>1. Len(q) = n
      BY <1>3
    <3>2. k \in Ids(q) <=> \E i \in 1..Len(q) : ~IsExportLoss(q[i]) /\ q[i].id = k
      BY IdsAre
    <3> QED BY <3>1, <3>2
  <2>2. k \in Ids(s) <=> \E i \in 1..(n + 1) : ~IsExportLoss(s[i]) /\ s[i].id = k
    BY <1>1, IdsAre
  <2>3. k \in HeadIds(s[1]) <=> ~IsExportLoss(s[1]) /\ s[1].id = k
    BY DEF HeadIds
  <2>4. 1 \in 1..(n + 1)
    OBVIOUS
  <2> QED BY <1>3, <1>4, <1>5, <2>1, <2>2, <2>3, <2>4
<1> QED BY <1>2, <1>3, <1>6

LEMMA EvidenceNext ==
  ASSUME LoopTypeInv, PhaseInv, EvidenceInv, ExporterInv, exportLost <= dropped, Next
  PROVE  EvidenceInv'
<1>0. serial \in Nat /\ encoded \in Seq(Line)
  BY DEF LoopTypeInv
<1>1. PICK old : old = Ids(encoded) \cup Ids(Rest)
  OBVIOUS
<1>2. old \subseteq 1..serial /\ (~jsonlError => old = 1..serial)
  BY <1>1, IdsAre DEF EvidenceInv
<1>3. PICK c, r : c = encoded' /\ r = Rest'
  OBVIOUS
<1>4. PICK new : new = Ids(c) \cup Ids(r)
  OBVIOUS
<1>5. SUFFICES new \subseteq 1..serial' /\ (~jsonlError' => new = 1..serial')
  BY <1>3, <1>4 DEF EvidenceInv, Evidence, RestIds, Ids, IsExportLoss
<1>6. CASE new = old /\ UNCHANGED <<serial, jsonlError>>
  BY <1>2, <1>6
<1>7. CASE Calling
  <2>1. PICK n, calls : \E next \in {"idle", "report", "finalReport"} :
          CallLines(n, calls) /\ Call(n, calls, next)
    BY <1>0, <1>7, CallStarts
  <2>2. Rest = <<>> /\ r = calls
    BY <1>3, <2>1, RestCases
  <2>3. c = encoded /\ serial' = serial + n /\ jsonlError' = jsonlError
    BY <1>3, <2>1 DEF Call, NoHistory
  <2>4. old = Ids(encoded)
    BY <1>1, <2>2, IdsAre
  <2>5. new = old \cup Ids(calls)
    BY <1>4, <2>2, <2>3, <2>4
  <2>6. n \in Nat /\ Ids(calls) = (serial + 1)..(serial + n)
    <3>1. n \in Nat /\ calls \in Seq(EvidenceLine)
      BY <2>1 DEF CallLines
    <3>2. \A i \in 1..Len(calls) : calls[i] \in EvidenceLine
      BY <3>1
    <3>3. \A i \in 1..Len(calls) : ~IsExportLoss(calls[i])
      BY <3>2, LineFacts
    <3>4. \A k : k \in Ids(calls) <=> \E i \in 1..Len(calls) : calls[i].id = k
      BY <3>3, IdsAre
    <3>5. \A k : k \in Ids(calls) <=> k \in (serial + 1)..(serial + n)
      BY <2>1, <3>4 DEF CallLines
    <3> QED BY <3>1, <3>5
  <2>7. 1..(serial + n) = (1..serial) \cup ((serial + 1)..(serial + n))
    BY <1>0, <2>6
  <2> QED BY <1>2, <2>3, <2>5, <2>6, <2>7
<1>8. CASE Taking
  <2>1. /\ todo \in Seq(Line) /\ todo # <<>> /\ Head(todo) \in Line
    BY <1>8, TodoFacts DEF Taking
  <2>2. Grown(encoded, Line, Head(todo), c) /\ UNCHANGED <<serial, jsonlError>>
    BY <1>0, <1>3, <1>8, <2>1, AppendGrows DEF Taking, LineTaken
  <2>3. Rest = todo /\ r = Tail(todo)
    BY <1>3, <1>8, RestCases
  <2>4. Ids(c) = Ids(encoded) \cup HeadIds(Head(todo))
    BY <1>0, <2>2, IdsGrow
  <2>5. Ids(Rest) = Ids(r) \cup HeadIds(Head(todo))
    BY <2>1, <2>3, IdsTail
  <2>6. new = old
    BY <1>1, <1>4, <2>4, <2>5
  <2> QED BY <1>6, <2>2, <2>6
<1>9. CASE LineError
  <2>1. c = encoded /\ r = <<>> /\ serial' = serial /\ jsonlError'
    BY <1>3, <1>9, RestCases DEF LineError
  <2>2. new \subseteq old
    BY <1>1, <1>4, <2>1, IdsAre
  <2> QED BY <1>2, <2>1, <2>2
<1>10. CASE ExportLine \/ Ending \/ UNCHANGED loopVars
  <2>1. r = Rest
    BY <1>3, <1>10, RestCases
  <2>2. c = encoded /\ UNCHANGED <<serial, jsonlError>>
    BY <1>3, <1>10 DEF ExportLine, Ending, CloseLinesEnd, FinalizeExporter, JoinReporter, LoopWaits,
       loopVars
  <2>3. new = old
    BY <1>1, <1>4, <2>1, <2>2
  <2> QED BY <1>6, <2>2, <2>3
<1>11. CASE ReportExportLoss
  <2>1. Rest = <<>> /\ r = ReportedLines
    BY <1>3, <1>11, RestCases
  <2>2. c = encoded /\ UNCHANGED <<serial, jsonlError>>
    BY <1>3, <1>11 DEF ReportExportLoss
  <2>3. Ids(ReportedLines) = {}
    <3>1. dropped \in Nat /\ exportLost \in Nat
      BY DEF LoopTypeInv, ExporterInv, ExporterTypeInv
    <3>2. CASE dropped = exportLost
      BY <3>1, <3>2, ReportedFacts, IdsAre
    <3>3. CASE dropped # exportLost
      <4>1. Len(ReportedLines) = 1 /\ ReportedLines[1] \in LossLine
        BY <3>1, <3>3, ReportedFacts
      <4>2. \A i \in 1..1 : i = 1
        OBVIOUS
      <4>3. IsExportLoss(ReportedLines[1])
        BY <4>1, LineFacts
      <4>4. \A k : k \notin Ids(ReportedLines)
        BY <4>1, <4>2, <4>3, IdsAre
      <4> QED BY <4>4
    <3> QED BY <3>2, <3>3
  <2>4. new = old
    BY <1>1, <1>4, <2>1, <2>2, <2>3, IdsAre
  <2> QED BY <1>6, <2>2, <2>4
<1> QED BY <1>7, <1>8, <1>9, <1>10, <1>11, LoopCases

LEMMA ExportLossParts ==
  /\ LossTotal = LastTotal(ExportLossLines)
  /\ (\A i \in 1..Len(ExportLossLines) :
        ExportLossLines[i].total = ExportLossLines[i].dropped
          + (IF i = 1 THEN 0 ELSE ExportLossLines[i - 1].total)) <=> AddsUp(ExportLossLines)
BY DEF LossTotal, LastTotal, AddsUp

(* No loss line among those of a call; a loss line stands alone.           *)
LossAlone ==
  \A i \in 1..Len(todo) : IsExportLoss(todo[i]) =>
    Len(todo) = 1 /\ at = "line" /\ todo[i].total = exportLost

Closing == ShuttingDown \/ (Encoding /\ after = "close")

LossBalanced ==
  ~jsonlError => AddsUp(ExportLossLines) /\ exportLost = LastTotal(ExportLossLines) + LossInTodo

LEMMA ExportLossIs ==
  ExportLossInv <=>
    /\ Ranked(ExportLossPositions) /\ exportLost <= dropped /\ LossAlone
    /\ Encoding /\ after = "close" => IsExportLoss(Head(todo))
    /\ Closing => dropped = exportLost
    /\ LossBalanced
BY DEF ExportLossInv, LossAlone, Closing, LossBalanced, LossTotal, LastTotal, AddsUp

LEMMA LossTotalType ==
  ASSUME LoopTypeInv, Ranked(ExportablePositions), Ranked(ExportLossPositions)
  PROVE  LastTotal(ExportLossLines) \in Nat
<1>1. \A k \in 1..Len(ExportLossLines) :
        /\ Nth(ExportLossPositions, k) \in ExportLossPositions
        /\ ExportLossLines[k] = encoded[Nth(ExportLossPositions, k)]
  BY EncodedPositions, AtFacts DEF ExportLossLines
<1>2. \A p \in ExportLossPositions : encoded[p] \in Line /\ IsExportLoss(encoded[p])
  BY DEF ExportLossPositions, LoopTypeInv
<1>3. \A line \in Line : IsExportLoss(line) => line.total \in Nat
  BY LineFacts DEF Line
<1>4. \A k \in 1..Len(ExportLossLines) : ExportLossLines[k].total \in Nat
  BY <1>1, <1>2, <1>3
<1>5. ExportLossLines # <<>> => Len(ExportLossLines) \in 1..Len(ExportLossLines)
  BY EncodedPositions
<1> QED BY <1>4, <1>5 DEF LastTotal

LEMMA ExportLossTaken ==
  ASSUME LoopTypeInv, ExportLossInv, Ranked(ExportablePositions), ExporterInv, Taking
  PROVE  ExportLossInv'
<1>0. at = "line" /\ LineTaken
  BY DEF Taking
<1>1. /\ todo \in Seq(Line) /\ todo # <<>> /\ Head(todo) \in Line /\ Tail(todo) \in Seq(Line)
      /\ Head(todo) = todo[1] /\ Len(todo) \in Nat \ {0} /\ Len(Tail(todo)) = Len(todo) - 1
      /\ \A i \in 1..(Len(todo) - 1) : Tail(todo)[i] = todo[i + 1]
  BY <1>0, TodoFacts
<1>2. PICK e \in Line : e = Head(todo)
  BY <1>1
<1>3. /\ encoded' = Append(encoded, e) /\ UNCHANGED <<exportLost, jsonlError, dropped, after>>
  BY <1>0, <1>2, ExporterAlone DEF LineTaken, Proceed
<1>4. /\ IsExportLoss(e) => Grown(ExportLossLines, Line, e, ExportLossLines')
      /\ ~IsExportLoss(e) => ExportLossLines' = ExportLossLines
      /\ Ranked(ExportLossPositions)' /\ ExportLossLines \in Seq(Line)
  BY <1>3, EncodedTaken, EncodedPositions, ExportLossIs
<1>5. /\ exportLost <= dropped /\ LossAlone /\ (Closing => dropped = exportLost) /\ LossBalanced
      /\ after = "close" => IsExportLoss(e)
  BY <1>0, <1>2, ExportLossIs DEF Encoding
<1>6. CASE IsExportLoss(e)
  <2>1. Len(todo) = 1 /\ e.total = exportLost
    <3>1. 1 \in 1..Len(todo)
      BY <1>1
    <3> QED BY <1>1, <1>2, <1>5, <1>6, <3>1 DEF LossAlone
  <2>2. Tail(todo) = <<>>
    <3>1. PICK q \in Seq(Line) : q = Tail(todo)
      BY <1>1
    <3>2. Len(q) = 0
      BY <1>1, <2>1, <3>1
    <3>3. q = <<>>
      BY <3>2
    <3> QED BY <3>1, <3>3
  <2>3. ~Exportable(e)
    BY <1>6 DEF IsExportLoss, Exportable
  <2>4. todo' = <<>> /\ at' = after
    BY <1>0, <1>2, <2>2, <2>3 DEF LineTaken, Proceed
  <2>5. LossAlone' /\ ~Encoding' /\ LossInTodo' = 0
    BY <1>3, <2>4 DEF LossAlone, Encoding, LossInTodo, LoopTypeInv
  <2>6. Closing' => dropped' = exportLost'
    <3>1. Closing' => after = "close"
      BY <2>4, <2>5 DEF Closing, ShuttingDown, LoopTypeInv
    <3>2. after = "close" => Closing
      BY <1>0 DEF Closing, Encoding
    <3> QED BY <1>3, <1>5, <3>1, <3>2
  <2>7. LossBalanced'
    <3>1. ASSUME ~jsonlError PROVE AddsUp(ExportLossLines)' /\ (exportLost = LastTotal(ExportLossLines))'
      <4>1. AddsUp(ExportLossLines) /\ exportLost = LastTotal(ExportLossLines) + LossInTodo
        BY <1>5, <3>1 DEF LossBalanced
      <4>2. LossInTodo = e.dropped
        BY <1>1, <1>2, <1>6 DEF LossInTodo
      <4>3. exportLost \in Nat /\ e.dropped \in Nat
        <5>1. e \in LossLine
          BY <1>6, LineFacts DEF Line
        <5> QED BY <5>1, LineFacts DEF LoopTypeInv
      <4>4. LastTotal(ExportLossLines) \in Nat
        BY LossTotalType, ExportLossIs
      <4>5. e.total = e.dropped + LastTotal(ExportLossLines)
        BY <2>1, <4>1, <4>2, <4>3, <4>4
      <4>6. PICK s : s = ExportLossLines'
        OBVIOUS
      <4>7. AddsUp(s) /\ LastTotal(s) = e.total
        BY <1>4, <1>6, <4>1, <4>5, <4>6, AddsUpGrows
      <4> QED BY <1>3, <2>1, <4>6, <4>7 DEF AddsUp, LastTotal
    <3>2. exportLost' \in Nat
      BY <1>3 DEF LoopTypeInv
    <3> QED BY <1>3, <2>5, <3>1, <3>2 DEF LossBalanced
  <2>8. ExportLossInv'
    BY <1>3, <1>4, <1>5, <2>5, <2>6, <2>7 DEF ExportLossInv, LossAlone, Closing, LossBalanced,
       LossTotal, LastTotal, AddsUp
  <2> QED BY <2>8
<1>7. CASE ~IsExportLoss(e)
  <2>1. after # "close"
    BY <1>5, <1>7
  <2>2. \A i \in 1..Len(todo) : ~IsExportLoss(todo[i])
    <3>1. \A i \in 1..Len(todo) : Len(todo) = 1 => i = 1
      BY <1>1
    <3> QED BY <1>1, <1>2, <1>5, <1>7, <3>1 DEF LossAlone
  <2>3. \A i \in 1..Len(todo') : ~IsExportLoss(todo'[i])
    <3>1. CASE todo' = todo
      BY <2>2, <3>1
    <3>2. CASE todo' = Tail(todo)
      <4>1. \A i \in 1..(Len(todo) - 1) : i + 1 \in 1..Len(todo)
        BY <1>1
      <4> QED BY <1>1, <2>2, <3>2, <4>1
    <3> QED BY <1>0, <3>1, <3>2 DEF LineTaken, Proceed
  <2>4. LossInTodo = 0 /\ LossInTodo' = 0
    <3>1. LossInTodo = 0
      BY <1>2, <1>7 DEF LossInTodo
    <3>2. todo' # <<>> => 1 \in 1..Len(todo') /\ Head(todo') = todo'[1]
      <4>1. todo' \in Seq(Line)
        BY <1>0, <1>1 DEF LineTaken, Proceed
      <4> QED BY <4>1
    <3> QED BY <2>3, <3>1, <3>2 DEF LossInTodo, IsExportLoss
  <2>5. LossAlone'
    BY <2>3 DEF LossAlone, IsExportLoss
  <2>6. ~Closing' /\ ~(Encoding' /\ after' = "close")
    <3>1. at' \in {after, "line", "export"}
      BY <1>0 DEF LineTaken, Proceed
    <3> QED BY <1>3, <2>1, <3>1 DEF Closing, ShuttingDown, LoopTypeInv
  <2>7. LossBalanced'
    BY <1>3, <1>4, <1>5, <1>7, <2>4 DEF LossBalanced, AddsUp, LastTotal
  <2> QED BY <1>3, <1>4, <1>5, <2>5, <2>6, <2>7 DEF ExportLossInv, LossAlone, Closing, LossBalanced,
             LossTotal, LastTotal, AddsUp
<1> QED BY <1>6, <1>7

LEMMA ExportLossNext ==
  ASSUME LoopTypeInv, PhaseInv, ExportLossInv, Ranked(ExportablePositions), ExporterInv, Next
  PROVE  ExportLossInv'
<1>0. /\ Ranked(ExportLossPositions) /\ exportLost <= dropped /\ LossAlone
      /\ Encoding /\ after = "close" => IsExportLoss(Head(todo))
      /\ Closing => dropped = exportLost
      /\ LossBalanced /\ exportLost \in Nat /\ dropped \in Nat
  BY ExportLossIs DEF LoopTypeInv, ExporterInv, ExporterTypeInv
<1>1. SUFFICES ASSUME ~Taking PROVE ExportLossInv'
  BY ExportLossTaken
<1>2. encoded' = encoded
  BY <1>1, EncodedKept
<1>3. /\ ExportLossLines' = ExportLossLines /\ Ranked(ExportLossPositions)'
      /\ AddsUp(ExportLossLines)' <=> AddsUp(ExportLossLines)
      /\ LastTotal(ExportLossLines)' = LastTotal(ExportLossLines)
  <2>1. ExportLossLines' = ExportLossLines /\ Ranked(ExportLossPositions)'
    BY <1>0, <1>2, EncodedSame
  <2> QED BY <2>1 DEF AddsUp, LastTotal
<1>4. SUFFICES /\ (exportLost <= dropped)' /\ LossAlone'
               /\ (Encoding /\ after = "close" => IsExportLoss(Head(todo)))'
               /\ (Closing => dropped = exportLost)'
               /\ LossBalanced'
  BY <1>3 DEF ExportLossInv, LossAlone, Closing, LossBalanced, LossTotal, LastTotal, AddsUp
<1>5. CASE Calling
  <2>0. ~ExportLine
    BY <1>5 DEF Calling, EncodeObservation, EncodeTyped, Flush, Close, EncodeBatch, ExportLine
  <2>1. PICK n, calls : \E next \in {"idle", "report", "finalReport"} :
          CallLines(n, calls) /\ Call(n, calls, next)
    BY <1>5, CallStarts DEF LoopTypeInv
  <2>2. /\ todo = <<>> /\ UNCHANGED <<exportLost, jsonlError, dropped>> /\ todo' = calls
        /\ after' # "close" /\ at' \in {"line", "idle", "report", "finalReport"}
    BY <2>0, <2>1, CountersKept DEF Call, Start, NoHistory, LoopTypeInv, Encoding
  <2>3. calls \in Seq(EvidenceLine)
    BY <2>1 DEF CallLines
  <2>4. \A i \in 1..Len(calls) : ~IsExportLoss(calls[i])
    <3>1. \A i \in 1..Len(calls) : calls[i] \in EvidenceLine
      BY <2>3
    <3> QED BY <3>1, LineFacts
  <2>5. LossInTodo = 0 /\ LossInTodo' = 0
    <3>1. calls # <<>> => 1 \in 1..Len(calls) /\ Head(calls) = calls[1]
      BY <2>3
    <3> QED BY <2>2, <2>4, <3>1 DEF LossInTodo, IsExportLoss
  <2>6. LossAlone'
    BY <2>2, <2>4 DEF LossAlone, IsExportLoss
  <2>7. ~Closing' /\ ~(Encoding' /\ after' = "close")
    BY <2>2 DEF Closing, ShuttingDown
  <2> QED BY <1>0, <1>3, <2>2, <2>5, <2>6, <2>7 DEF LossBalanced
<1>6. CASE LineError
  <2>1. at = "line" /\ todo' = <<>> /\ at' = after /\ after' = after /\ jsonlError'
        /\ exportLost' = exportLost
    BY <1>6 DEF LineError, Proceed
  <2>2. dropped' = dropped
    BY <1>6, <2>1, CountersKept DEF ExportLine
  <2>3. LossAlone' /\ ~Encoding' /\ LossBalanced'
    BY <2>1 DEF LossAlone, Encoding, LossBalanced, LoopTypeInv
  <2>4. Closing' => Closing
    BY <2>1, <2>3 DEF Closing, ShuttingDown, Encoding, LoopTypeInv
  <2> QED BY <1>0, <2>1, <2>2, <2>3, <2>4
<1>7. CASE ExportLine
  <2>1. at = "export" /\ todo' = Tail(todo) /\ at' = (IF todo' = <<>> THEN after ELSE "line")
        /\ UNCHANGED <<after, exportLost, jsonlError>>
    BY <1>7 DEF ExportLine, Proceed
  <2>2. \A i \in 1..Len(todo) : ~IsExportLoss(todo[i])
    BY <1>0, <2>1 DEF LossAlone
  <2>3. /\ todo \in Seq(Line) /\ todo # <<>> /\ Head(todo) = todo[1] /\ Len(todo) \in Nat \ {0}
        /\ Tail(todo) \in Seq(Line) /\ Len(Tail(todo)) = Len(todo) - 1
        /\ \A i \in 1..(Len(todo) - 1) : Tail(todo)[i] = todo[i + 1]
    BY <2>1, TodoFacts
  <2>4. PICK q \in Seq(Line) : q = Tail(todo)
    BY <2>3
  <2>5. \A i \in 1..Len(q) : ~IsExportLoss(q[i])
    <3>1. \A i \in 1..(Len(todo) - 1) : i + 1 \in 1..Len(todo)
      BY <2>3
    <3> QED BY <2>2, <2>3, <2>4, <3>1
  <2>6. LossInTodo = 0 /\ LossInTodo' = 0
    <3>1. q # <<>> => 1 \in 1..Len(q) /\ Head(q) = q[1]
      OBVIOUS
    <3>2. 1 \in 1..Len(todo)
      BY <2>3
    <3> QED BY <2>1, <2>2, <2>3, <2>4, <2>5, <3>1, <3>2 DEF LossInTodo, IsExportLoss
  <2>7. LossAlone'
    BY <2>1, <2>4, <2>5 DEF LossAlone, IsExportLoss
  <2>8. after # "close"
    <3>1. 1 \in 1..Len(todo)
      BY <2>3
    <3> QED BY <1>0, <2>1, <2>2, <2>3, <3>1 DEF Encoding
  <2>9. ~Closing' /\ ~(Encoding' /\ after' = "close")
    BY <2>1, <2>8 DEF Closing, ShuttingDown, LoopTypeInv
  <2>10. exportLost <= dropped'
    <3>1. dropped' \in Nat /\ dropped <= dropped'
      <4>1. CASE UNCHANGED exporterVars
        BY <1>0, <4>1, ExporterAlone
      <4>2. CASE Export
        BY <1>0, <4>2 DEF Export
      <4> QED BY <1>7, <4>1, <4>2 DEF ExportLine, CallExporter
    <3> QED BY <1>0, <3>1
  <2> QED BY <1>0, <1>3, <2>1, <2>6, <2>7, <2>9, <2>10 DEF LossBalanced
<1>8. CASE ReportExportLoss
  <2>1. /\ todo = <<>> /\ todo' = ReportedLines /\ at' = (IF todo' = <<>> THEN after' ELSE "line")
        /\ exportLost' = dropped /\ jsonlError' = jsonlError
        /\ UNCHANGED exporterVars
    BY <1>8 DEF ReportExportLoss, Start, ReportedLines, LoopOnly, LoopTypeInv, Encoding
  <2>2. dropped' = dropped
    BY <2>1, ExporterAlone
  <2>3. LossInTodo = 0 /\ LossInTodo' = dropped - exportLost
        /\ LossAlone' /\ (todo' # <<>> => IsExportLoss(Head(todo')))
    <3>1. CASE dropped = exportLost
      <4>1. todo' = <<>>
        BY <1>0, <2>1, <3>1, ReportedFacts
      <4> QED BY <1>0, <2>1, <3>1, <4>1 DEF LossInTodo, LossAlone
    <3>2. CASE dropped # exportLost
      <4>1. PICK q : q = ReportedLines
        OBVIOUS
      <4>2. /\ Len(q) = 1 /\ q # <<>> /\ Head(q) = q[1] /\ IsExportLoss(q[1])
            /\ q[1].dropped = dropped - exportLost /\ q[1].total = dropped
        BY <1>0, <3>2, <4>1, ReportedFacts, LineFacts
      <4>3. todo' = q /\ at' = "line"
        BY <2>1, <4>1, <4>2
      <4>4. \A i \in 1..1 : i = 1
        OBVIOUS
      <4> QED BY <2>1, <4>2, <4>3, <4>4 DEF LossInTodo, LossAlone, IsExportLoss
    <3> QED BY <3>1, <3>2
  <2>4. LossBalanced'
    <3>1. ASSUME ~jsonlError PROVE dropped = LastTotal(ExportLossLines) + (dropped - exportLost)
      <4>1. LastTotal(ExportLossLines) \in Nat
        BY <1>0, LossTotalType
      <4> QED BY <1>0, <2>3, <3>1, <4>1 DEF LossBalanced
    <3> QED BY <1>0, <1>3, <2>1, <2>3, <3>1 DEF LossBalanced
  <2>5. (Encoding /\ after = "close" => IsExportLoss(Head(todo)))'
    <3>1. after' # "line" /\ after' # "export"
      BY <1>8 DEF ReportExportLoss, Start
    <3>2. Encoding' => todo' # <<>>
      BY <2>1, <3>1 DEF Encoding
    <3> QED BY <2>3, <3>2 DEF IsExportLoss
  <2> QED BY <1>0, <2>1, <2>2, <2>3, <2>4, <2>5
<1>9. CASE Ending
  <2>1. /\ at \in {"close", "closeExporter", "stopReporter"}
        /\ at' \in {"closeExporter", "stopReporter", "done"}
        /\ UNCHANGED <<todo, after, exportLost, jsonlError>>
    BY <1>9 DEF Ending, CloseLinesEnd, FinalizeExporter, CloseReturn, JoinReporter, LoopWaits,
       AfterLines, PhaseInv
  <2>2. dropped' = dropped
    BY <2>1, CountersKept DEF ExportLine
  <2>3. todo = <<>>
    BY <2>1 DEF LoopTypeInv, Encoding
  <2>4. LossAlone' /\ ~Encoding' /\ LossInTodo' = LossInTodo
    BY <2>1, <2>3 DEF LossAlone, Encoding, LossInTodo
  <2>5. Closing
    BY <2>1 DEF Closing, ShuttingDown
  <2> QED BY <1>0, <1>3, <2>1, <2>2, <2>4, <2>5 DEF LossBalanced
<1>10. CASE UNCHANGED loopVars
  <2>1. UNCHANGED <<at, todo, after, exportLost, jsonlError>>
    BY <1>10 DEF loopVars
  <2>2. dropped' = dropped
    <3>1. CASE ExportLine
      <4>1. at = "export" /\ todo' = Tail(todo)
        BY <3>1 DEF ExportLine, Proceed
      <4>2. at' # "export"
        BY <3>1, <4>1 DEF ExportLine, Proceed, LoopTypeInv
      <4> QED BY <2>1, <4>1, <4>2
    <3> QED BY <3>1, CountersKept
  <2> QED BY <1>0, <1>3, <2>1, <2>2 DEF LossAlone, Closing, ShuttingDown, Encoding, LossBalanced,
             LossInTodo, IsExportLoss
<1> QED BY <1>1, <1>5, <1>6, <1>7, <1>8, <1>9, <1>10, LoopCases

(* Windows of s, and of s and then r, have numbers that grow.              *)
WindowsGrow(s) ==
  \A i, j \in 1..Len(s) : i < j /\ IsWindow(s[i]) /\ IsWindow(s[j]) => s[i].id < s[j].id
WindowsBelow(s, r) ==
  \A i \in 1..Len(s), j \in 1..Len(r) : IsWindow(s[i]) /\ IsWindow(r[j]) => s[i].id < r[j].id

LEMMA WindowsAre ==
  WindowsInv <=> WindowsGrow(encoded) /\ WindowsBelow(encoded, Rest) /\ WindowsGrow(Rest)
BY DEF WindowsInv, WindowsGrow, WindowsBelow

(* The first of the lines still to be encoded moves to the encoded ones.   *)
LEMMA WindowMoves ==
  ASSUME NEW s \in Seq(Line), NEW r \in Seq(Line), r # <<>>, NEW u, Grown(s, Line, Head(r), u),
         WindowsGrow(s), WindowsBelow(s, r), WindowsGrow(r)
  PROVE  WindowsGrow(u) /\ WindowsBelow(u, Tail(r)) /\ WindowsGrow(Tail(r))
<1>1. PICK n \in Nat : n = Len(s)
  OBVIOUS
<1>2. PICK m \in Nat : Len(r) = m + 1
  <2>1. Len(r) \in Nat /\ Len(r) # 0
    OBVIOUS
  <2> QED BY <2>1
<1>3. PICK q : q = Tail(r)
  OBVIOUS
<1>4. Len(q) = m /\ Head(r) = r[1] /\ \A i \in 1..m : q[i] = r[i + 1]
  BY <1>2, <1>3
<1>5. Len(u) = n + 1 /\ u[n + 1] = r[1] /\ \A k \in 1..n : u[k] = s[k]
  BY <1>1, <1>4 DEF Grown
<1>6. \A i \in 1..m : i + 1 \in 1..(m + 1) /\ 1 < i + 1
  OBVIOUS
<1>7. 1 \in 1..(m + 1)
  OBVIOUS
<1>8. \A i \in 1..(n + 1) : i \in 1..n \/ i = n + 1
  OBVIOUS
<1>9. ASSUME NEW i \in 1..(n + 1), NEW j \in 1..(n + 1), i < j, IsWindow(u[i]), IsWindow(u[j])
      PROVE  u[i].id < u[j].id
  <2>1. i \in 1..n
    BY <1>9
  <2>2. CASE j = n + 1
    BY <1>1, <1>2, <1>5, <1>7, <1>9, <2>1, <2>2 DEF WindowsBelow
  <2>3. CASE j \in 1..n
    BY <1>1, <1>5, <1>9, <2>1, <2>3 DEF WindowsGrow
  <2> QED BY <1>8, <2>2, <2>3
<1>10. ASSUME NEW i \in 1..(n + 1), NEW j \in 1..m, IsWindow(u[i]), IsWindow(q[j])
       PROVE  u[i].id < q[j].id
  <2>1. q[j] = r[j + 1] /\ j + 1 \in 1..(m + 1) /\ 1 < j + 1
    BY <1>4, <1>6
  <2>2. CASE i = n + 1
    BY <1>2, <1>5, <1>7, <1>10, <2>1, <2>2 DEF WindowsGrow
  <2>3. CASE i \in 1..n
    BY <1>1, <1>2, <1>5, <1>10, <2>1, <2>3 DEF WindowsBelow
  <2> QED BY <1>8, <2>2, <2>3
<1>11. ASSUME NEW i \in 1..m, NEW j \in 1..m, i < j, IsWindow(q[i]), IsWindow(q[j])
       PROVE  q[i].id < q[j].id
  <2>1. q[i] = r[i + 1] /\ i + 1 \in 1..(m + 1) /\ q[j] = r[j + 1] /\ j + 1 \in 1..(m + 1)
    BY <1>4, <1>6
  <2>2. i + 1 < j + 1
    BY <1>11
  <2> QED BY <1>2, <1>11, <2>1, <2>2 DEF WindowsGrow
<1> QED BY <1>3, <1>4, <1>5, <1>9, <1>10, <1>11 DEF WindowsGrow, WindowsBelow

LEMMA WindowsNext ==
  ASSUME LoopTypeInv, PhaseInv, EvidenceInv, WindowsInv, ExporterInv, exportLost <= dropped, Next
  PROVE  WindowsInv'
<1>0. WindowsGrow(encoded) /\ WindowsBelow(encoded, Rest) /\ WindowsGrow(Rest)
      /\ encoded \in Seq(Line) /\ serial \in Nat
  BY WindowsAre DEF LoopTypeInv
<1>1. PICK c, r : c = encoded' /\ r = Rest'
  OBVIOUS
<1>2. SUFFICES WindowsGrow(c) /\ WindowsBelow(c, r) /\ WindowsGrow(r)
  BY <1>1 DEF WindowsInv, WindowsGrow, WindowsBelow, IsWindow
<1>3. ASSUME r = <<>>, c = encoded PROVE WindowsGrow(c) /\ WindowsBelow(c, r) /\ WindowsGrow(r)
  BY <1>0, <1>3 DEF WindowsGrow, WindowsBelow
<1>4. CASE Calling
  <2>1. PICK n, calls : \E next \in {"idle", "report", "finalReport"} :
          CallLines(n, calls) /\ Call(n, calls, next)
    BY <1>0, <1>4, CallStarts
  <2>2. r = calls /\ c = encoded
    BY <1>1, <2>1, RestCases DEF Call, NoHistory
  <2>3. WindowsGrow(calls) /\ n \in Nat
        /\ \A i \in 1..Len(calls) : calls[i].id \in (serial + 1)..(serial + n)
    BY <2>1 DEF CallLines, WindowsGrow
  <2>4. \A i \in 1..Len(encoded) : IsWindow(encoded[i]) => encoded[i].id \in 1..serial
    <3>1. Evidence \subseteq 1..serial
      BY DEF EvidenceInv
    <3>2. \A i \in 1..Len(encoded) : IsWindow(encoded[i]) => ~IsExportLoss(encoded[i])
      BY DEF IsWindow, IsExportLoss
    <3> QED BY <3>1, <3>2 DEF Evidence
  <2>5. WindowsBelow(encoded, calls)
    BY <1>0, <2>3, <2>4 DEF WindowsBelow
  <2> QED BY <1>0, <2>2, <2>3, <2>5
<1>5. CASE Taking
  <2>1. todo \in Seq(Line) /\ todo # <<>> /\ Head(todo) \in Line
    BY <1>5, TodoFacts DEF Taking
  <2>2. Rest = todo /\ r = Tail(todo) /\ Grown(encoded, Line, Head(todo), c)
    BY <1>0, <1>1, <1>5, <2>1, RestCases, AppendGrows DEF Taking, LineTaken
  <2> QED BY <1>0, <2>1, <2>2, WindowMoves
<1>6. CASE LineError
  BY <1>1, <1>3, <1>6, RestCases DEF LineError
<1>7. CASE ExportLine \/ Ending \/ UNCHANGED loopVars
  <2>1. c = encoded
    BY <1>1, <1>7 DEF ExportLine, Ending, CloseLinesEnd, FinalizeExporter, JoinReporter, LoopWaits,
       loopVars
  <2>2. r = Rest
    BY <1>1, <1>7, RestCases
  <2> QED BY <1>0, <2>1, <2>2
<1>8. CASE ReportExportLoss
  <2>1. r = ReportedLines /\ c = encoded
    BY <1>1, <1>8, RestCases DEF ReportExportLoss
  <2>2. dropped \in Nat /\ exportLost \in Nat
    BY DEF LoopTypeInv, ExporterInv, ExporterTypeInv
  <2>3. CASE dropped = exportLost
    BY <1>3, <2>1, <2>2, <2>3, ReportedFacts
  <2>4. CASE dropped # exportLost
    <3>1. Len(r) = 1 /\ r[1] \in LossLine
      BY <2>1, <2>2, <2>4, ReportedFacts
    <3>2. \A i \in 1..Len(r) : i = 1
      BY <3>1
    <3>3. ~IsWindow(r[1])
      BY <3>1, LineFacts
    <3>4. \A i \in 1..Len(r) : ~IsWindow(r[i])
      BY <3>2, <3>3
    <3> QED BY <1>0, <2>1, <3>4 DEF WindowsGrow, WindowsBelow
  <2> QED BY <2>3, <2>4
<1> QED BY <1>4, <1>5, <1>6, <1>7, <1>8, LoopCases

-----------------------------------------------------------------------------
(***************************************************************************)
(* The submitter reads the output.                                         *)
(***************************************************************************)

(* A record in the output is one of the encoded lines.                     *)
LEMMA RecordIsEncoded ==
  ASSUME JsonlInv, PhaseInv, LoopTypeInv, Piped, NEW p \in 1..Len(output), ~IsLossReport(output[p])
  PROVE  /\ p \in RecordPositions
         /\ output[p].record \in 1..Len(encoded)
         /\ encoded[output[p].record] \in Line
<1>1. p \in RecordPositions
  BY DEF RecordPositions
<1>2. output[p].record \in Nat \ {0}
  <2>1. output[p] \in OutputLine
    BY DEF JsonlInv, JsonlTypeInv
  <2>2. \A line \in OutputLine : ~IsLossReport(line) => line.record \in Nat \ {0}
    BY DEF OutputLine, IsLossReport
  <2> QED BY <2>1, <2>2
<1>3. output[p].record <= offered
  BY <1>1 DEF JsonlInv, JsonlOrderInv
<1>4. offered = Len(encoded) /\ offered \in Nat
  BY DEF Piped, PhaseInv, JsonlInv, JsonlTypeInv
<1>5. output[p].record \in 1..Len(encoded)
  BY <1>2, <1>3, <1>4
<1> QED BY <1>1, <1>5 DEF LoopTypeInv

LEMMA WindowIsEvidence ==
  ASSUME NEW line \in Line, IsWindow(line)
  PROVE  line.id \in Nat \ {0}
BY LineFacts DEF Line, IsWindow

LEMMA NextLineGrows ==
  ASSUME JsonlInv, PhaseInv, LoopTypeInv, WindowsInv, SubmitInv, ReadInv, Piped,
         linesRead < Len(output)
  PROVE  Growing(LineRead(linesRead + 1))
<1>1. PICK p : p = linesRead + 1
  OBVIOUS
<1>2. SUFFICES ASSUME LineRead(p).kind = "window"
               PROVE  LineRead(p).id \in Nat /\ request < LineRead(p).id
  BY <1>1 DEF Growing
<1>3. linesRead \in Nat /\ Len(output) \in Nat /\ p \in 1..Len(output) /\ request \in Nat
  BY <1>1 DEF SubmitInv, SubmitTypeInv, JsonlInv, JsonlTypeInv
<1>4. ~IsLossReport(output[p]) /\ LineRead(p) = encoded[output[p].record]
  BY <1>2 DEF LineRead
<1>5. p \in RecordPositions /\ output[p].record \in 1..Len(encoded)
      /\ encoded[output[p].record] \in Line
  BY <1>3, <1>4, RecordIsEncoded
<1>6. IsWindow(encoded[output[p].record])
  BY <1>2, <1>4 DEF IsWindow
<1>7. LineRead(p).id \in Nat \ {0}
  BY <1>4, <1>5, <1>6, WindowIsEvidence
<1>8. CASE request = 0
  BY <1>7, <1>8
<1>9. CASE request # 0
  <2>1. PICK o \in 1..linesRead : WindowAt(o) /\ encoded[output[o].record].id = request
    BY <1>9 DEF ReadInv
  <2>2. o \in 1..Len(output) /\ o < p
    BY <1>1, <1>3
  <2>3. ~IsLossReport(output[o]) /\ IsWindow(encoded[output[o].record])
    BY <2>1 DEF WindowAt
  <2>4. o \in RecordPositions /\ output[o].record \in 1..Len(encoded)
    BY <2>2, <2>3, RecordIsEncoded
  <2>5. output[o].record < output[p].record
    BY <1>5, <2>2, <2>4 DEF JsonlInv, JsonlOrderInv
  <2>6. encoded[output[o].record].id < encoded[output[p].record].id
    BY <1>5, <1>6, <2>3, <2>4, <2>5 DEF WindowsInv
  <2> QED BY <1>4, <1>7, <2>1, <2>6
<1> QED BY <1>7, <1>8, <1>9

(* Both sequences only grow at their end, the output not after the end.    *)
LEMMA OutputOnlyGrows ==
  ASSUME JsonlInv, Next
  PROVE  /\ Len(output) <= Len(output')
         /\ \A p \in 1..Len(output) : output'[p] = output[p]
         /\ at = "done" => output' = output
<1>0. output \in Seq(OutputLine) /\ Len(output) \in Nat
  BY DEF JsonlInv, JsonlTypeInv
<1>1. CASE output' = output
  BY <1>0, <1>1
<1>2. CASE WriterStep
  <2>1. at # "done"
    BY <1>2 DEF WriterStep
  <2>2. CASE WriterWrite
    <3>1. PICK e \in OutputLine : e = RecordLine(recordInHand) /\ output' = Append(output, e)
      <4>1. recordInHand \in Nat \ {0}
        BY <2>2 DEF WriterWrite, JsonlInv, WriterInv, JsonlTypeInv, NoRecord
      <4> QED BY <2>2, <4>1, OutputLines DEF WriterWrite, RecordLine
    <3> QED BY <1>0, <2>1, <3>1
  <2>3. CASE WriterReport
    <3>1. PICK e \in OutputLine : output' = Append(output, e)
      <4>1. lossInHand \in Nat /\ reportedLost \in Nat
        BY DEF JsonlInv, JsonlTypeInv
      <4> QED BY <2>3, <4>1, OutputLines DEF WriterReport, ReportLine
    <3> QED BY <1>0, <2>1, <3>1
  <2>4. CASE WriterTake \/ WriterLoss \/ WriterFails
    BY <1>1, <2>4 DEF WriterTake, WriterLoss, WriterFails
  <2> QED BY <1>2, <2>2, <2>3, <2>4 DEF WriterStep
<1>3. CASE Calling \/ ReportExportLoss \/ ExportLine \/ FinalizeBegin \/ FinalizeStep
           \/ FinalizeExporter \/ JoinReporter \/ ReporterEnds \/ SenderStep \/ SubmitStep
           \/ LineDiscarded
  <2>1. UNCHANGED queuedOutputVars
    BY <1>3 DEF Calling, EncodeObservation, EncodeTyped, Flush, Close, EncodeBatch, LoopOnly,
       ReportExportLoss, ExportLine, FinalizeBegin, FinalizeStep, FinalizeExporter, JoinReporter,
       ReporterEnds, SenderStep, SubmitStep, LineDiscarded
  <2> QED BY <1>1, <2>1, JsonlAlone
<1>4. CASE LineSend \/ LineError \/ LineBegin
  BY <1>1, <1>4, JsonlAlone
     DEF LineSend, LineError, LineBegin, EncodeSend, EncodeRefused, EncodeBegin, writerVars
<1>5. CASE CloseLinesBegin \/ CloseLinesEnd
  BY <1>1, <1>5, JsonlAlone
     DEF CloseLinesBegin, CloseLinesEnd, CloseLines, LinesClosed, LinesDrainTimeout, writerVars
<1>6. CASE Ended
  BY <1>1, <1>6, JsonlAlone DEF Ended, vars
<1> QED BY <1>2, <1>3, <1>4, <1>5, <1>6 DEF Next, LoopStep, ShutdownStep, Calling

LEMMA EncodedOnlyGrows ==
  ASSUME LoopTypeInv, Next
  PROVE  \A k \in 1..Len(encoded) : encoded'[k] = encoded[k]
<1>1. CASE Taking
  <2>1. encoded \in Seq(Line) /\ Head(todo) \in Line
    BY <1>1, TodoFacts DEF Taking, LoopTypeInv
  <2> QED BY <1>1, <2>1 DEF Taking, LineTaken
<1> QED BY <1>1, EncodedKept

LEMMA DoneStays ==
  ASSUME PhaseInv, LoopTypeInv, Next, at = "done"
  PROVE  at' = "done"
<1>1. ~Calling
  BY DEF Calling, EncodeObservation, EncodeTyped, Flush, Close, EncodeBatch
<1>2. ~Taking /\ ~LineError /\ ~ExportLine /\ ~ReportExportLoss
  BY DEF Taking, LineError, ExportLine, ReportExportLoss
<1>3. ~Ending
  BY DEF Ending, CloseLinesEnd, FinalizeExporter, CloseReturn, JoinReporter, PhaseInv
<1> QED BY <1>1, <1>2, <1>3, LoopCases DEF loopVars

WindowId(p) == encoded[output[p].record].id
InQueue(k) == \E i \in 1..Len(nodeQueue) : nodeQueue[i] = k

ReadParts ==
  /\ linesRead <= Len(output)
  /\ request # 0 => \E p \in 1..linesRead : WindowAt(p) /\ WindowId(p) = request
  /\ exitCode = 0 =>
       \A p \in 1..linesRead :
         WindowAt(p) => (Submitting /\ WindowId(p) = request) \/ InQueue(WindowId(p))
  /\ submitAt = "exited" /\ exitCode = 0 => at = "done" /\ linesRead = Len(output)

LEMMA ReadIs == ReadInv <=> (Piped => ReadParts)
BY DEF ReadInv, ReadParts, WindowId, InQueue

LEMMA ReadInvKept ==
  ASSUME JsonlInv, PhaseInv, LoopTypeInv, SubmitInv, ReadInv, Next, UNCHANGED submitVars
  PROVE  ReadInv'
<1>0. Piped' <=> Piped
  BY LoopCases DEF Piped, HasStream
<1>1. SUFFICES ASSUME Piped PROVE ReadParts'
  BY <1>0 DEF ReadInv, ReadParts, WindowId, InQueue
<1>2. ReadParts
  BY <1>1, ReadIs
<1>3. UNCHANGED <<submitAt, request, linesRead, exitCode, nodeQueue>>
  BY DEF submitVars
<1>4. linesRead \in Nat /\ Len(output) \in Nat /\ linesRead <= Len(output)
  BY <1>2 DEF SubmitInv, SubmitTypeInv, JsonlInv, JsonlTypeInv, ReadParts
<1>5. ASSUME NEW p \in 1..linesRead
      PROVE  /\ WindowAt(p)' <=> WindowAt(p)
             /\ WindowAt(p) => WindowId(p)' = WindowId(p)
  <2>1. p \in 1..Len(output)
    BY <1>4
  <2>2. output'[p] = output[p]
    BY <2>1, OutputOnlyGrows
  <2>3. CASE IsLossReport(output[p])
    BY <2>2, <2>3 DEF WindowAt, IsLossReport
  <2>4. CASE ~IsLossReport(output[p])
    <3>1. output[p].record \in 1..Len(encoded)
      BY <1>1, <2>1, <2>4, RecordIsEncoded
    <3>2. encoded'[output[p].record] = encoded[output[p].record]
      BY <3>1, EncodedOnlyGrows
    <3> QED BY <2>2, <3>2 DEF WindowAt, WindowId, IsLossReport, IsWindow
  <2> QED BY <2>3, <2>4
<1>7. linesRead' <= Len(output')
  <2>1. Len(output) <= Len(output') /\ Len(output') \in Nat
    <3>1. JsonlInv'
      BY JsonlCalls, JsonlInvNext, JsonlInvKept
    <3> QED BY <3>1, OutputOnlyGrows DEF JsonlInv, JsonlTypeInv
  <2> QED BY <1>3, <1>4, <2>1
<1>8. request' # 0 => \E p \in 1..linesRead' : WindowAt(p)' /\ WindowId(p)' = request'
  BY <1>2, <1>3, <1>5 DEF ReadParts
<1>9. ASSUME exitCode' = 0, NEW p \in 1..linesRead', WindowAt(p)'
      PROVE  (Submitting' /\ WindowId(p)' = request') \/ InQueue(WindowId(p))'
  <2>1. p \in 1..linesRead /\ WindowAt(p) /\ WindowId(p)' = WindowId(p)
    BY <1>3, <1>5, <1>9
  <2>2. (Submitting /\ WindowId(p) = request) \/ InQueue(WindowId(p))
    BY <1>2, <1>3, <1>9, <2>1 DEF ReadParts
  <2> QED BY <1>3, <2>1, <2>2 DEF Submitting, InQueue
<1>10. submitAt' = "exited" /\ exitCode' = 0 => at' = "done" /\ linesRead' = Len(output')
  BY <1>2, <1>3, DoneStays, OutputOnlyGrows DEF ReadParts
<1> QED BY <1>7, <1>8, <1>9, <1>10 DEF ReadParts

LEMMA ReadInvSubmit ==
  ASSUME JsonlInv, PhaseInv, LoopTypeInv, SubmitInv, ReadInv, SubmitStep
  PROVE  ReadInv'
<1>0. /\ Piped /\ Piped' /\ UNCHANGED <<output, encoded, at, deployment>>
  BY DEF SubmitStep, Piped, HasStream, queuedOutputVars, writerVars, loopVars
<1>1. SUFFICES ReadParts'
  BY <1>0 DEF ReadInv, ReadParts, WindowId, InQueue
<1>2. ReadParts
  BY <1>0, ReadIs
<1>3. \A p : (WindowAt(p)' <=> WindowAt(p)) /\ WindowId(p)' = WindowId(p)
  BY <1>0 DEF WindowAt, WindowId, IsLossReport, IsWindow
<1>4. /\ linesRead \in Nat /\ Len(output) \in Nat /\ linesRead <= Len(output)
      /\ exitCode \in {0, 1} /\ (exitCode = 1 => submitAt = "exited")
  BY <1>2 DEF SubmitInv, SubmitTypeInv, FrameInv, JsonlInv, JsonlTypeInv, ReadParts
<1>5. CASE linesRead < Len(output) /\ ReadLine(LineRead(linesRead + 1))
  <2>1. PICK q : q = linesRead + 1
    OBVIOUS
  <2>2. submitAt = "scan" /\ exitCode = 0 /\ linesRead' = q /\ nodeQueue' = nodeQueue
    BY <1>4, <1>5, <2>1 DEF ReadLine
  <2>3. linesRead' <= Len(output)
    BY <1>4, <1>5, <2>1, <2>2
  <2>4. ~Submitting
    BY <2>2 DEF Submitting
  <2>5. \A p \in 1..linesRead : WindowAt(p) => InQueue(WindowId(p))
    BY <1>2, <2>2, <2>4 DEF ReadParts
  <2>6. \A p : p \in 1..q <=> p \in 1..linesRead \/ p = q
    BY <1>4, <2>1
  <2>7. LineRead(q).kind = "window" <=> WindowAt(q)
    BY DEF LineRead, WindowAt, IsWindow
  <2>8. \A k : InQueue(k)' <=> InQueue(k)
    BY <2>2 DEF InQueue
  <2>9. CASE WindowAt(q)
    <3>1. request' = LineRead(q).id /\ submitAt' = "dial" /\ exitCode' = exitCode
      BY <1>5, <2>1, <2>7, <2>9 DEF ReadLine
    <3>2. LineRead(q).id = WindowId(q)
      BY <2>9 DEF LineRead, WindowAt, WindowId
    <3>3. Submitting'
      BY <3>1 DEF Submitting
    <3> QED BY <1>0, <1>3, <2>2, <2>3, <2>5, <2>6, <2>8, <2>9, <3>1, <3>2, <3>3 DEF ReadParts
  <2>10. CASE ~WindowAt(q)
    <3>1. request' = request /\ (exitCode' = 0 => submitAt' = "scan")
      BY <1>5, <2>1, <2>2, <2>7, <2>10 DEF ReadLine, SubmitFails
    <3>2. request # 0 => \E p \in 1..linesRead : WindowAt(p) /\ WindowId(p) = request
      BY <1>2 DEF ReadParts
    <3> QED BY <1>0, <1>3, <2>2, <2>3, <2>5, <2>6, <2>8, <2>10, <3>1, <3>2 DEF ReadParts
  <2> QED BY <2>9, <2>10
<1>6. CASE linesRead = Len(output) /\ at = "done" /\ EndOfInput
  <2>1. submitAt = "scan" /\ UNCHANGED <<request, linesRead, exitCode, nodeQueue>>
    BY <1>6 DEF EndOfInput
  <2>2. \A k : InQueue(k)' <=> InQueue(k)
    BY <2>1 DEF InQueue
  <2> QED BY <1>0, <1>2, <1>3, <1>6, <2>1, <2>2 DEF ReadParts, Submitting
<1>7. CASE Dial \/ WriteFrame \/ AckLost
  <2>1. /\ Submitting /\ UNCHANGED <<request, linesRead, nodeQueue>>
        /\ exitCode' = 0 => exitCode = 0 /\ Submitting' /\ submitAt' # "exited"
    BY <1>4, <1>7 DEF Dial, WriteFrame, AckLost, SubmitFails, Submitting
  <2>2. \A k : InQueue(k)' <=> InQueue(k)
    BY <2>1 DEF InQueue
  <2> QED BY <1>0, <1>2, <1>3, <2>1, <2>2 DEF ReadParts
<1>8. CASE ReadAck
  <2>1. submitAt = "ack" /\ UNCHANGED <<request, linesRead, nodeQueue>>
    BY <1>8 DEF ReadAck
  <2>2. \A k : InQueue(k)' <=> InQueue(k)
    BY <2>1 DEF InQueue
  <2>3. exitCode' = 0 => exitCode = 0 /\ submitAt' # "exited" /\ frame = "queued"
    BY <1>8 DEF ReadAck, SubmitFails
  <2>4. frame = "queued" => InQueue(request)
    BY DEF SubmitInv, FrameInv, InQueue
  <2>5. exitCode' = 0 => \A p \in 1..linesRead : WindowAt(p) => InQueue(WindowId(p))
    BY <1>2, <2>3, <2>4 DEF ReadParts
  <2> QED BY <1>0, <1>2, <1>3, <2>1, <2>2, <2>3, <2>5 DEF ReadParts
<1>9. CASE NodeReceives
  <2>1. UNCHANGED <<submitAt, request, linesRead, exitCode>>
    BY <1>9 DEF NodeReceives
  <2>2. \A k : InQueue(k) => InQueue(k)'
    <3>1. CASE nodeQueue' = nodeQueue
      BY <3>1 DEF InQueue
    <3>2. CASE nodeQueue' = Append(nodeQueue, request)
      <4>1. nodeQueue \in Seq(Nat) /\ request \in Nat
        BY DEF SubmitInv, SubmitTypeInv
      <4>2. PICK q : q = nodeQueue'
        OBVIOUS
      <4>3. /\ \A i \in 1..Len(nodeQueue) : i \in 1..Len(q) /\ q[i] = nodeQueue[i]
        BY <3>2, <4>1, <4>2
      <4> QED BY <4>2, <4>3 DEF InQueue
    <3> QED BY <1>9, <3>1, <3>2 DEF NodeReceives
  <2> QED BY <1>0, <1>2, <1>3, <2>1, <2>2 DEF ReadParts, Submitting
<1> QED BY <1>5, <1>6, <1>7, <1>8, <1>9 DEF SubmitStep

-----------------------------------------------------------------------------
(***************************************************************************)
(* The invariant of the whole chain.                                       *)
(***************************************************************************)
LEMMA LoopInvInit ==
  ASSUME Init
  PROVE  LoopInv /\ ReadInv
<1>1. /\ at = "idle" /\ todo = <<>> /\ encoded = <<>> /\ tried = <<>> /\ serial = 0
      /\ rejections = {} /\ exportLost = 0 /\ ~exportFailure /\ ~runErr /\ ~jsonlError
      /\ after = "idle" /\ deployment \in Deployments
      /\ exportFailure = FALSE /\ runErr = FALSE /\ jsonlError = FALSE
  BY DEF Init
<1>2. Len(<<>>) = 0 /\ 1..0 = {} /\ Cardinality({}) = 0
  BY FS_EmptySet
<1>3. ExportablePositions = {} /\ ExportLossPositions = {} /\ Exported = {} /\ Evidence = {}
  BY <1>1, <1>2 DEF ExportablePositions, ExportLossPositions, Exported, Evidence
<1>4. ExportableLines = <<>> /\ ExportLossLines = <<>>
      /\ Ranked(ExportablePositions) /\ Ranked(ExportLossPositions)
  BY <1>2, <1>3 DEF ExportableLines, ExportLossLines, At, Ranked
<1>5. Rest = <<>> /\ RestIds = {}
  BY <1>1, <1>2 DEF Rest, RestIds
<1>6. LoopTypeInv
  <2>1. <<>> \in Seq(Line) /\ <<>> \in Seq(Nat)
    OBVIOUS
  <2> QED BY <1>1, <2>1 DEF LoopTypeInv, Encoding
<1>7. PhaseInv
  <2>1. encodeAt = "idle" /\ closeAt = "open" /\ offered = 0
    BY DEF Init, QueuedOutputInit, ExporterInit
  <2> QED BY <1>1, <1>2, <2>1 DEF PhaseInv
<1>8. ExportInv
  <2>1. queued = 0 /\ dropped = 0
    BY DEF Init, ExporterInit
  <2> QED BY <1>1, <1>2, <1>3, <1>4, <2>1 DEF ExportInv, AtExport, AtExported
<1>9. EvidenceInv
  BY <1>1, <1>2, <1>3, <1>5 DEF EvidenceInv
<1>10. ExportLossInv
  <2>1. dropped = 0
    BY DEF Init, ExporterInit
  <2> QED BY <1>1, <1>2, <1>4, <2>1
             DEF ExportLossInv, LossTotal, LossInTodo, ShuttingDown, Encoding
<1>11. WindowsInv
  BY <1>1, <1>2, <1>5 DEF WindowsInv
<1>12. ReadInv
  <2>1. linesRead = 0 /\ request = 0 /\ submitAt = "scan" /\ Len(output) = 0
    BY DEF Init, SubmitInit, QueuedOutputInit
  <2> QED BY <1>2, <2>1 DEF ReadInv
<1> QED BY <1>6, <1>7, <1>8, <1>9, <1>10, <1>11, <1>12 DEF LoopInv

LEMMA ChainInvKept ==
  ASSUME ChainInv, UNCHANGED vars
  PROVE  ChainInv'
<1>1. /\ UNCHANGED queuedOutputVars /\ UNCHANGED exporterVars /\ UNCHANGED submitVars
      /\ UNCHANGED loopVars /\ deployment' = deployment
  BY DEF vars
<1>2. JsonlInv' /\ ExporterInv' /\ SubmitInv'
  BY <1>1, JsonlInvKept, ExporterInvKept, SubmitInvKept DEF ChainInv
<1>3. /\ UNCHANGED <<encodeAt, offered, writerAt, outputFailed, closeResult, output>>
      /\ UNCHANGED <<queued, dropped, closeAt, closeErr>>
      /\ UNCHANGED <<submitAt, request, linesRead, exitCode, nodeQueue>>
      /\ UNCHANGED <<at, after, todo, serial, encoded, tried, rejections, exportFailure,
                     exportLost, runErr, jsonlError>>
  BY <1>1 DEF queuedOutputVars, callerVars, writerVars, exporterVars, summaryVars, closeVars,
     submitVars, loopVars
<1>4. /\ ExportableLines' = ExportableLines /\ ExportLossLines' = ExportLossLines
      /\ Ranked(ExportablePositions)' <=> Ranked(ExportablePositions)
      /\ Ranked(ExportLossPositions)' <=> Ranked(ExportLossPositions)
      /\ Exported' = Exported /\ Evidence' = Evidence
  BY <1>3, EncodedSame
<1>5. LoopTypeInv' /\ PhaseInv'
  BY <1>1, <1>3 DEF ChainInv, LoopInv, LoopTypeInv, PhaseInv, Encoding, Exportable
<1>6. ExportInv'
  BY <1>1, <1>3, <1>4 DEF ChainInv, LoopInv, ExportInv, AtExport, AtExported
<1>7. Rest' = Rest /\ RestIds' = RestIds
  BY <1>3 DEF Rest, RestIds, IsExportLoss
<1>8. EvidenceInv'
  BY <1>3, <1>4, <1>7 DEF ChainInv, LoopInv, EvidenceInv
<1>9. ExportLossInv'
  BY <1>3, <1>4 DEF ChainInv, LoopInv, ExportLossInv, LossTotal, LossInTodo, IsExportLoss,
     ShuttingDown, Encoding
<1>10. WindowsInv'
  BY <1>3, <1>7 DEF ChainInv, LoopInv, WindowsInv, IsWindow
<1>11. ReadInv'
  BY <1>1, <1>3 DEF ChainInv, ReadInv, Piped, HasStream, WindowAt, IsLossReport, IsWindow, Submitting
<1> QED BY <1>2, <1>5, <1>6, <1>8, <1>9, <1>10, <1>11 DEF ChainInv, LoopInv

(* The submitter moves only in SubmitStep.                                 *)
LEMMA SubmitCalls ==
  ASSUME Next
  PROVE  SubmitStep \/ UNCHANGED submitVars
<1>1. CASE EncodeObservation \/ EncodeTyped \/ Flush \/ Close \/ ReportExportLoss
  BY <1>1 DEF EncodeObservation, EncodeTyped, Flush, Close, EncodeBatch, ReportExportLoss, LoopOnly
<1>2. CASE LineBegin \/ LineSend \/ LineDiscarded \/ LineError \/ ExportLine
  BY <1>2 DEF LineBegin, LineSend, LineDiscarded, LineError, LineTaken, ExportLine
<1>3. CASE ShutdownStep
  BY <1>3 DEF ShutdownStep, CloseLinesBegin, CloseLinesEnd, FinalizeBegin, FinalizeStep,
     FinalizeExporter, JoinReporter, LoopWaits
<1>4. CASE ReporterEnds \/ SenderStep \/ WriterStep
  BY <1>4 DEF ReporterEnds, SenderStep, WriterStep
<1>5. CASE Ended
  BY <1>5 DEF Ended, vars
<1> QED BY <1>1, <1>2, <1>3, <1>4, <1>5 DEF Next, LoopStep

LEMMA SubmitStepKeeps ==
  ASSUME ChainInv, SubmitStep
  PROVE  SubmitInv'
<1>1. CASE linesRead < Len(output) /\ ReadLine(LineRead(linesRead + 1))
  <2>1. Growing(LineRead(linesRead + 1))
    BY <1>1, NextLineGrows DEF ChainInv, LoopInv, SubmitStep
  <2> QED BY <1>1, <2>1, SubmitInvNext DEF ChainInv, SubmitterStep
<1>2. CASE EndOfInput \/ Dial \/ WriteFrame \/ ReadAck \/ AckLost \/ NodeReceives
  <2>1. PICK line : line.kind = "loss"
    <3>1. [kind |-> "loss"].kind = "loss"
      OBVIOUS
    <3> QED BY <3>1
  <2>2. Growing(line) /\ SubmitterStep(line)
    BY <1>2, <2>1 DEF Growing, SubmitterStep
  <2> QED BY <2>2, SubmitInvNext DEF ChainInv
<1> QED BY <1>1, <1>2 DEF SubmitStep

LEMMA ChainInvNext ==
  ASSUME ChainInv, Next
  PROVE  ChainInv'
<1>1. /\ JsonlInv /\ ExporterInv /\ SubmitInv /\ ReadInv
      /\ LoopTypeInv /\ PhaseInv /\ ExportInv /\ EvidenceInv /\ ExportLossInv /\ WindowsInv
  BY DEF ChainInv, LoopInv
<1>2. /\ Ranked(ExportablePositions) /\ Ranked(ExportLossPositions) /\ exportLost <= dropped
  BY <1>1 DEF ExportInv, ExportLossInv
<1>3. JsonlInv' /\ ExporterInv'
  BY <1>1, JsonlCalls, JsonlInvNext, JsonlInvKept, ExporterCalls, ExporterInvNext, ExporterInvKept
<1>4. LoopTypeInv' /\ PhaseInv'
  BY <1>1, <1>2, LoopTypeNext, PhaseNext
<1>5. ExportInv' /\ ExportLossInv'
  BY <1>1, <1>2, ExportInvNext, ExportLossNext
<1>6. EvidenceInv' /\ WindowsInv'
  BY <1>1, <1>2, EvidenceNext, WindowsNext
<1>7. SubmitInv'
  BY <1>1, SubmitCalls, SubmitStepKeeps, SubmitInvKept
<1>8. ReadInv'
  BY <1>1, SubmitCalls, ReadInvKept, ReadInvSubmit
<1> QED BY <1>3, <1>4, <1>5, <1>6, <1>7, <1>8 DEF ChainInv, LoopInv

LEMMA ChainInvariant == Spec => []ChainInv
<1>1. Init => ChainInv
  BY JsonlInvInit, ExporterInvInit, SubmitInvInit, LoopInvInit DEF Init, ChainInv
<1>2. ChainInv /\ [Next]_vars => ChainInv'
  BY ChainInvNext, ChainInvKept
<1> QED BY <1>1, <1>2, PTL DEF Spec

-----------------------------------------------------------------------------
(***************************************************************************)
(* What the invariant of the chain gives.                                  *)
(***************************************************************************)

(* What reached the exporter is a prefix of the exportable lines that      *)
(* Encode took, up to the first it rejects: exportTyped and encodeWindows  *)
(* share one latch, and the batch goes on (internal/app/pipeline.go).      *)
THEOREM ExportsAreAPrefix == Spec => []ExportsArePrefix
<1>1. ChainInv => ExportsArePrefix
  <2> SUFFICES ASSUME ChainInv PROVE ExportsArePrefix
    OBVIOUS
  <2>1. ExportInv /\ exportFailure \in BOOLEAN /\ tried \in Seq(Nat)
    BY DEF ChainInv, LoopInv, LoopTypeInv
  <2>2. rejections \subseteq {tried[i] : i \in {Len(tried)} \ {0}}
    BY <2>1 DEF ExportInv
  <2>3. at = "idle" /\ rejections = {} /\ deployment.tagcount => Len(tried) = Len(ExportableLines)
    <3> HAVE at = "idle" /\ rejections = {} /\ deployment.tagcount
    <3>1. ~exportFailure
      BY <2>1 DEF ExportInv
    <3>2. Len(tried) + AtExport = Len(ExportableLines) /\ AtExport = 0
      BY <2>1, <3>1 DEF ExportInv, AtExport
    <3>3. Len(tried) \in Nat
      BY <2>1
    <3> QED BY <3>2, <3>3
  <2> QED BY <2>1, <2>2, <2>3 DEF ExportInv, ExportsArePrefix
<1> QED BY <1>1, ChainInvariant, PTL

(* Every record has its line, also the rest of a batch whose export was    *)
(* rejected, and the lines reportExportLoss writes add up to the           *)
(* exporter's counter, the last one being written by Close                 *)
(* (internal/app/pipeline.go).                                             *)
THEOREM EvidenceIsKept == Spec => []EvidenceKept
<1>1. ChainInv => EvidenceKept
  <2> SUFFICES ASSUME ChainInv, ~jsonlError PROVE EvidenceKept
    BY DEF EvidenceKept
  <2>1. LoopTypeInv /\ EvidenceInv /\ ExportLossInv /\ ExportInv
    BY DEF ChainInv, LoopInv
  <2>2. at \notin {"line", "export"} => Evidence = 1..serial
    <3> HAVE at \notin {"line", "export"}
    <3>1. Rest = <<>>
      BY <2>1 DEF LoopTypeInv, Encoding, Rest
    <3>2. RestIds = {}
      BY <3>1, IdsAre
    <3> QED BY <2>1, <3>2 DEF EvidenceInv
  <2>3. at = "done" => dropped = LossTotal
    <3> HAVE at = "done"
    <3>1. dropped = exportLost
      BY <2>1 DEF ExportLossInv, ShuttingDown
    <3>2. LossInTodo = 0
      BY <2>1 DEF LoopTypeInv, Encoding, LossInTodo
    <3>3. LossTotal \in Nat
      BY <2>1, LossTotalType, ExportLossParts DEF ExportInv, ExportLossInv
    <3>4. exportLost = LossTotal + LossInTodo
      BY <2>1 DEF ExportLossInv
    <3> QED BY <3>1, <3>2, <3>3, <3>4
  <2> QED BY <2>1, <2>2, <2>3 DEF EvidenceKept, ExportLossInv, LossTotal
<1> QED BY <1>1, ChainInvariant, PTL

(* The node queues no window twice or out of order, and the summary of     *)
(* network-edge-submit accounts for every line, however late the node      *)
(* reads a frame and whichever answer is lost                              *)
(* (cmd/network-edge-submit/main.go, internal/bridge/client.go).           *)
THEOREM SubmissionsAreSound == Spec => []SubmissionSound
<1>1. ChainInv => SubmissionSound
  BY DEF ChainInv, SubmitInv
<1> QED BY <1>1, ChainInvariant, PTL

(* The lines of a JSONL queue that was closed without an error.            *)
LEMMA LinesAllWritten ==
  ASSUME ChainInv, at = "done", ~runErr, deployment.jsonl
  PROVE  Len(Records) + totalLost = Len(encoded) /\ ReportedTotal = totalLost
<1>1. JsonlTypeInv /\ WriterInv /\ JsonlCountInv /\ LossReportsExact /\ PhaseInv
      /\ Ranked(RecordPositions) /\ Ranked(LossPositions)
  BY DEF ChainInv, JsonlInv, LoopInv
<1>2. writerAt = "done" /\ ~outputFailed
  BY <1>1 DEF PhaseInv
<1>3. lineQueue = <<>> /\ Holding = 0 /\ totalLost = reportedLost /\ lossInHand = 0
  BY <1>1, <1>2 DEF WriterInv, Holding
<1>4. Len(lineQueue) = 0 /\ Len(encoded) = offered /\ totalLost \in Nat
  BY <1>1, <1>3 DEF PhaseInv, JsonlTypeInv
<1>5. Len(Records) \in Nat /\ ReportedTotal \in Nat
  BY <1>1, ReportFacts
<1>6. offered = Len(Records) + Holding + Len(lineQueue) + totalLost
      /\ reportedLost = lossInHand + ReportedTotal
  BY <1>1 DEF JsonlCountInv, LossReportsExact
<1> QED BY <1>3, <1>4, <1>5, <1>6

(* The packs of an exporter that was closed without an error.              *)
LEMMA PacksAllSent ==
  ASSUME ChainInv, at = "done", ~runErr, deployment.tagcount
  PROVE  Len(delivered) = Cardinality(Exported)
<1>1. ExporterTypeInv /\ SenderInv /\ ExporterCloseInv /\ SummaryAccounts /\ PhaseInv /\ ExportInv
  BY DEF ChainInv, ExporterInv, LoopInv
<1>2. closeAt = "returned" /\ closeErr = {}
  BY <1>1 DEF PhaseInv
<1>3. ~timedOut /\ ~exporterErr /\ dropped = 0 /\ Pending <= 0
  BY <1>1, <1>2 DEF ExporterCloseInv
<1>4. runAt = "done"
  BY <1>1, <1>2, <1>3 DEF ExporterCloseInv
<1>5. ~(failedCount > 0)
  BY <1>1, <1>3, <1>4 DEF SenderInv, RunEnding
<1>6. Len(delivered) = written /\ Pending >= 0
  BY <1>1, <1>4 DEF SummaryAccounts, ExporterTypeInv
<1>7. queued + dropped + AtExported = Cardinality(Exported) /\ AtExported = 0
  BY <1>1 DEF ExportInv, AtExported
<1>8. queued \in Nat /\ written \in Nat /\ failedCount \in Nat
  BY <1>1 DEF ExporterTypeInv
<1> QED BY <1>3, <1>5, <1>6, <1>7, <1>8 DEF Pending

(* The windows behind a pipe whose reader ended without an error.          *)
LEMMA WindowsAllQueued ==
  ASSUME ChainInv, Piped, submitAt = "exited", exitCode = 0
  PROVE  /\ linesRead = Len(output)
         /\ Len(nodeQueue) = accepted
         /\ \A i \in 1..Len(Records) :
              encoded[Records[i].record].kind = "window" =>
                \E j \in 1..Len(nodeQueue) : nodeQueue[j] = encoded[Records[i].record].id
<1>1. SubmitTypeInv /\ FrameInv /\ ReadParts /\ JsonlTypeInv /\ Ranked(RecordPositions)
  BY ReadIs DEF ChainInv, SubmitInv, JsonlInv
<1>2. linesRead = Len(output) /\ ~Submitting
  BY <1>1 DEF ReadParts, Submitting
<1>3. Len(nodeQueue) = accepted
  BY <1>1 DEF FrameInv, SubmitTypeInv
<1>4. ASSUME NEW i \in 1..Len(Records), encoded[Records[i].record].kind = "window"
      PROVE  InQueue(encoded[Records[i].record].id)
  <2>1. Positions(output, OutputLine, RecordPositions)
    BY <1>1 DEF Positions, RecordPositions, JsonlTypeInv
  <2>2. PICK p \in RecordPositions : Records[i] = output[p]
    BY <2>1, AtFacts DEF Records
  <2>3. p \in 1..linesRead /\ WindowAt(p)
    BY <1>2, <1>4, <2>2 DEF RecordPositions, WindowAt, IsWindow
  <2>4. InQueue(WindowId(p))
    BY <1>1, <1>2, <2>3 DEF ReadParts
  <2> QED BY <2>2, <2>4 DEF WindowId
<1> QED BY <1>2, <1>3, <1>4 DEF InQueue

(* Without an error everything was delivered: Close of queuedOutput and of *)
(* the exporter cannot return nil with something left behind, neither      *)
(* after a drain timeout nor when the writer or the sender fails last, and *)
(* network-edge-submit exits with 0 only at the end of the JSONL           *)
(* (internal/app/output.go, internal/tagcount/exporter.go,                 *)
(* cmd/agentkubenetwork/tagcount.go, cmd/network-edge-submit/main.go).     *)
THEOREM ShutdownsAreClean == Spec => []CleanShutdown
<1>1. ChainInv => CleanShutdown
  <2> SUFFICES ASSUME ChainInv, at = "done", ~runErr PROVE CleanShutdown
    BY DEF CleanShutdown
  <2> QED BY LinesAllWritten, PacksAllSent, WindowsAllQueued DEF CleanShutdown, Exported
<1> QED BY <1>1, ChainInvariant, PTL
=============================================================================
