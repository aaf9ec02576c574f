------------------------------ MODULE WallClock -----------------------------
(***************************************************************************)
(* time.Now: a monotonic reading, and a wall-clock reading that runs       *)
(* behind it by skew after somebody has set the clock back.  Two readings  *)
(* are compared by the monotonic clock unless one of them went through     *)
(* UTC(), as the time of an observation does (collector/event.go).         *)
(***************************************************************************)
EXTENDS Integers

CONSTANTS
  Instants,   \* bound: the times at which something happens; 0 is the zero time
  StepBack    \* by how much the wall clock is set back, if it is

ASSUME WallClockAssumption ==
  /\ Instants \subseteq Nat \ {0}
  /\ StepBack \in Nat /\ \A t \in Instants : StepBack < t

VARIABLES now, skew

clockVars == <<now, skew>>

ZeroTime == 0
Wall == now - skew

ClockInit == now \in Instants /\ (\A t \in Instants : now <= t) /\ skew = 0

Advance ==
  /\ now' \in {t \in Instants : t > now}
  /\ UNCHANGED skew

SetBack ==
  /\ skew = 0 /\ skew' = StepBack
  /\ UNCHANGED now
=============================================================================
