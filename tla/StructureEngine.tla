---------------------------- MODULE StructureEngine ----------------------------
(***************************************************************************)
(* analytics/structure_engine.py: the pivots of three closed candles and   *)
(* the structural levels that a later close breaks.                        *)
(*                                                                         *)
(* A candle is its high, low and close.  Of the lookback list only the     *)
(* last three candles are ever read.  Levels are sets of one price or      *)
(* none.                                                                   *)
(***************************************************************************)
EXTENDS Integers, Sequences

VARIABLES
  recent,           \* _candles[-3:]
  structuralHigh,   \* _current_structural_high
  structuralLow     \* _current_structural_low

structureVars == <<recent, structuralHigh, structuralLow>>

StructureInit == recent = <<>> /\ structuralHigh = {} /\ structuralLow = {}

\* _candles after the append
Window(k) == IF Len(recent) < 3 THEN Append(recent, k) ELSE <<recent[2], recent[3], k>>

\* _evaluate_local_pivots: a candle that is both counts as a high only
PivotHigh(w) == Len(w) = 3 /\ w[2].high > w[1].high /\ w[2].high > w[3].high
PivotLow(w) == Len(w) = 3 /\ ~PivotHigh(w) /\ w[2].low < w[1].low /\ w[2].low < w[3].low

\* Mutant: a level is broken by a close beyond it by more than one.
BrokenFar(up, level, close) == IF up THEN close > level + 1 ELSE close < level - 1

Broken(up, level, close) == IF up THEN close > level ELSE close < level

\* ingest_candle_close: first the pivot, then the two breaks
StructureIngest(k) ==
  LET w == Window(k)
      high == IF PivotHigh(w) THEN {w[2].high} ELSE structuralHigh
      low == IF PivotLow(w) THEN {w[2].low} ELSE structuralLow
  IN  /\ recent' = w
      /\ structuralHigh' = {p \in high : ~Broken(TRUE, p, k.close)}
      /\ structuralLow' = {p \in low : ~Broken(FALSE, p, k.close)}

\* The break types it reports (and every caller drops): an upward break is a shift
\* only when there is no structural low left, a downward one when the high is gone.
BreakType(oppositeLevel) == IF oppositeLevel = {} THEN "MSS" ELSE "BOS"

-------------------------------------------------------------------------------
StructureNext ==
  \E high, low, close \in Int : /\ low <= close /\ close <= high
                                /\ StructureIngest([high |-> high, low |-> low, close |-> close])

StructureSpec == StructureInit /\ [][StructureNext]_structureVars

StructureTypeOK ==
  /\ recent \in Seq([high : Int, low : Int, close : Int]) /\ Len(recent) <= 3
  /\ structuralHigh \subseteq Int /\ structuralLow \subseteq Int

\* The last close lies between the two levels in force, so they never cross and one
\* candle never breaks both.
LevelsBracketClose ==
  recent # <<>> =>
    LET close == recent[Len(recent)].close
    IN  (\A p \in structuralHigh : close <= p) /\ (\A p \in structuralLow : p <= close)
===============================================================================
