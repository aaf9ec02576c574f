----------------------------- MODULE LossyQueue -----------------------------
(***************************************************************************)
(* What both output queues of the agent promise: queuedOutput              *)
(* (internal/app/output.go) and tagcount.Exporter implement this.          *)
(*                                                                         *)
(* Items are numbered in the order of the calls.  A call never waits: it   *)
(* takes the item, or counts it as lost, and it loses one only when        *)
(* Capacity items are waiting.  One consumer delivers the items that were  *)
(* taken, in order and each at most once, until it fails; after that       *)
(* nothing is delivered.  It ends without a failure only once the queue is *)
(* closed and everything taken has been delivered.                         *)
(***************************************************************************)
EXTENDS Integers, Sequences

CONSTANT Capacity

VARIABLES
  offered,    \* number of calls
  lost,       \* number of items counted as lost
  waiting,    \* items taken and not yet delivered
  out,        \* items delivered
  closed,
  consumer    \* "running", "failed", "ended"

vars == <<offered, lost, waiting, out, closed, consumer>>

Init ==
  /\ offered = 0 /\ lost = 0
  /\ waiting = <<>> /\ out = <<>>
  /\ closed = FALSE /\ consumer = "running"

Offer ==
  /\ ~closed
  /\ offered' = offered + 1
  /\ \/ /\ Len(waiting) <= Capacity   \* the consumer may hold one more
        /\ waiting' = Append(waiting, offered + 1)
        /\ UNCHANGED lost
     \/ /\ Len(waiting) >= Capacity
        /\ lost' = lost + 1
        /\ UNCHANGED waiting
  /\ UNCHANGED <<out, closed, consumer>>

Deliver ==
  /\ consumer = "running" /\ waiting # <<>>
  /\ out' = Append(out, Head(waiting))
  /\ waiting' = Tail(waiting)
  /\ UNCHANGED <<offered, lost, closed, consumer>>

(* The item the consumer fails on may be gone with it.                     *)
Fail ==
  /\ consumer = "running"
  /\ consumer' = "failed"
  /\ \/ UNCHANGED waiting
     \/ waiting # <<>> /\ waiting' = Tail(waiting)
  /\ UNCHANGED <<offered, lost, out, closed>>

Close ==
  /\ ~closed
  /\ closed' = TRUE
  /\ UNCHANGED <<offered, lost, waiting, out, consumer>>

End ==
  /\ consumer = "running" /\ closed /\ waiting = <<>>
  /\ consumer' = "ended"
  /\ UNCHANGED <<offered, lost, waiting, out, closed>>

Next == Offer \/ Deliver \/ Fail \/ Close \/ End

Spec == Init /\ [][Next]_vars
=============================================================================
