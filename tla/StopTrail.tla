-------------------------------- MODULE StopTrail --------------------------------
(***************************************************************************)
(* The pure part of src/execution/position_tracker.py: the trailing-stop   *)
(* decision of InstitutionalTradeLifecycleManager.                         *)
(*                                                                         *)
(* Prices are integers measured from the entry along the favourable axis:  *)
(* entry = 0, the initial stop is -RiskUnits, a BUY and a SELL read the    *)
(* same.  RiskUnits is one R; the two buffers of the code (0.20 R, 0.15 R) *)
(* are the same fractions of it (4 and 3 when RiskUnits = 20).             *)
(***************************************************************************)
EXTENDS Integers

CONSTANTS
  RiskUnits,        \* price units in one R: |entry - initial_stop_loss|
  ConfirmBuffer,    \* confirmation_buffer_r, in price units
  TrailBuffer,      \* trailing_buffer_r, in price units
  MilestoneCap      \* maximum_milestones

ASSUME TrailAssumption ==
  /\ RiskUnits \in Nat \ {0}
  /\ ConfirmBuffer \in 0 .. RiskUnits - 1
  /\ TrailBuffer \in 0 .. RiskUnits - 1
  /\ MilestoneCap \in Nat \ {0}

Smaller(a, b) == IF a <= b THEN a ELSE b
Larger(a, b) == IF a >= b THEN a ELSE b

InitialStop == -RiskUnits

\* The last milestone of a plan whose final target lies tp units away.
MaximumMilestone(tp) == Smaller(MilestoneCap, Larger(1, tp \div RiskUnits))

\* The milestone a completed candle confirms: it closed beyond it plus the buffer.
ConfirmedBy(close, tp) ==
  Smaller(MaximumMilestone(tp), (close - ConfirmBuffer) \div RiskUnits)

\* The stop kept slightly behind the milestone before the confirmed one.
StopFor(milestone) == Larger(0, milestone - 1) * RiskUnits - TrailBuffer

\* Mutant: the test is left to the broker.
ImprovesAlways(proposed, current) == TRUE

\* The one-way test, made by the evaluation and again by the gateway.
Improves(proposed, current) == proposed > current

\* Mutant: the stop follows the milestone confirmed before this candle.
EvaluateBehind(close, tp, currentStop, last) ==
  LET confirmed == ConfirmedBy(close, tp)
      stop      == StopFor(last)
      news      == confirmed > last /\ confirmed >= 1
  IN  [ modify    |-> news /\ Improves(stop, currentStop),
        stop      |-> stop,
        confirmed |-> IF news THEN confirmed ELSE last ]

\* evaluate_candle_confirmed_trail: what to do with one completed candle.
EvaluateTrail(close, tp, currentStop, last) ==
  LET confirmed == ConfirmedBy(close, tp)
      stop      == StopFor(confirmed)
      news      == confirmed > last /\ confirmed >= 1
  IN  [ modify    |-> news /\ Improves(stop, currentStop),
        stop      |-> stop,
        confirmed |-> IF news THEN confirmed ELSE last ]
==================================================================================
