------------------------------ MODULE SwingPoints ------------------------------
(***************************************************************************)
(* analytics/ict_smc/swing_points.py: swing highs and lows of a list of    *)
(* closed candles, confirmed by the candles to their right, and the filter *)
(* that makes one list of them.                                            *)
(*                                                                         *)
(* A swing is a record of its kind (1 a high, -1 a low), the position at   *)
(* of its candle and a strength in hundredths.  Its price is that candle's *)
(* extreme.  Candles carry no volume and no session or HTF text.           *)
(***************************************************************************)
EXTENDS Candles, SequencesExt

CONSTANTS
  LeftBars,         \* left_bars
  RightBars,        \* right_bars
  MinCandleGap      \* min_candle_gap

AtrPeriod == 14

\* _calculate_atr: one value for each candle, of the candles up to it.
AtrAt(t, i) == Atr(UpTo(t, i), AtrPeriod)

PriceOf(t, s) == s.kind * Hi(s.kind, t[s.at])
ConfirmedAt(s) == s.at + RightBars

\* _reaction_after_swing, in the thresholds of _score_raw_swing
ReactionScore(t, d, i) ==
  LET reaction == Larger(0, Hi(d, t[i]) - Min({Lo(d, t[j]) : j \in i + 1 .. i + RightBars}))
      AtLeast(tenths) == 10 * reaction >= tenths * AtrAt(t, i)
  IN  IF AtLeast(15) THEN 200 ELSE IF 100 * reaction >= 75 * AtrAt(t, i) THEN 100
      ELSE If(AtLeast(5), 50)

\* _chop_penalty: small or undecided candles, two on either side
ChopPenalty(t, i) ==
  LET local == Larger(1, i - 2) .. Smaller(Len(t), i + 2)
      chop == Cardinality({j \in local : \/ 100 * Size(t[j]) < 45 * AtrAt(t, i)
                                         \/ ~BodyAtLeast(t[j], 20)})
  IN  IF Cardinality(local) < 3 THEN 0 ELSE IF chop >= 4 THEN 150 ELSE If(chop >= 2, 50)

\* _score_raw_swing; 175 is the liquidity, session and volume share of a candle
\* that says nothing about the last two
Strength(t, d, i) == Clamp(375 + ReactionScore(t, d, i) - ChopPenalty(t, i), 0, 1000)

\* _collect_raw_swings, _build_swing: the swing of a candle strictly beyond all its neighbours
RawAt(t, d, i) ==
  IF /\ i \in LeftBars + 1 .. Len(t) - RightBars
     /\ \A j \in (i - LeftBars .. i + RightBars) \ {i} : Hi(d, t[i]) > Hi(d, t[j])
  THEN {[kind |-> d, at |-> i, strength |-> Strength(t, d, i)]} ELSE {}

Raw(t) == UNION {RawAt(t, d, i) : d \in Directions, i \in DOMAIN t}

MoreExtreme(t, left, right) ==
  IF Hi(left.kind, t[right.at]) > Hi(left.kind, t[left.at]) THEN right ELSE left

Stronger(left, right) == IF right.strength > left.strength THEN right ELSE left

\* _with_distance_score: the bonus of being away from the accepted swing before
WithDistance(t, s, before) ==
  LET distance == Abs(PriceOf(t, s) - PriceOf(t, before))
      atr == AtrAt(t, ConfirmedAt(s))
      bonus == IF distance >= atr THEN 100 ELSE If(4 * distance >= atr, 50)
  IN  [s EXCEPT !.strength = Clamp(@ + bonus, 0, 1000)]

\* Mutant: a swing too close to the last one is added to it.
JoinedNoGap(t, accepted, s) ==
  IF accepted = <<>> THEN <<s>>
  ELSE IF s.kind = Last(accepted).kind THEN Append(Front(accepted), MoreExtreme(t, Last(accepted), s))
  ELSE Append(accepted, WithDistance(t, s, Last(accepted)))

\* One round of _filter_and_rescore: a swing of the kind of the last one, or too
\* close to it, takes its place or is dropped; any other joins.
Joined(t, accepted, s) ==
  IF accepted = <<>> THEN <<s>>
  ELSE LET last == Last(accepted)
       IN  IF s.kind = last.kind THEN Append(Front(accepted), MoreExtreme(t, last, s))
           ELSE IF s.at - last.at < MinCandleGap THEN Append(Front(accepted), Stronger(last, s))
           ELSE Append(accepted, WithDistance(t, s, last))

\* The rounds of one candle: sorted by confirmation, its high comes before its low.
Round(t, accepted, raw) == IF raw = {} THEN accepted ELSE Joined(t, accepted, The(raw))
Rounds(t, accepted, i) ==
  LET withHigh == Round(t, accepted, RawAt(t, 1, i))
  IN  Round(t, withHigh, RawAt(t, -1, i))

\* detect
Detected(t) ==
  LET upTo[i \in 0 .. Len(t)] == IF i = 0 THEN <<>> ELSE Rounds(t, upTo[i - 1], i)
  IN  upTo[Len(t)]

-------------------------------------------------------------------------------
\* Accepted swings are MinCandleGap apart, however often one replaced another.
GapKept(t) ==
  LET swings == Detected(t)
  IN  \A i \in 1 .. Len(swings) - 1 : swings[i + 1].at - swings[i].at >= MinCandleGap

\* docs/ict_smc_swing_points.md:16-17: a confirmed swing does not go away.
Kept(t, later) ==
  \A s \in ToSet(Detected(t)) : \E x \in ToSet(Detected(later)) : x.kind = s.kind /\ x.at = s.at
===============================================================================
