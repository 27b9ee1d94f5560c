--------------------------- MODULE ChangeOfCharacter ---------------------------
(***************************************************************************)
(* analytics/ict_smc/change_of_character.py: the early warning, a break of *)
(* the latest confirmed swing against the movement before it.              *)
(*                                                                         *)
(* swings are records of kind, at, strength, known and price; sweeps are   *)
(* the caller's valid liquidity events, records of dir and at.  Wick       *)
(* candidates are allowed; candles carry no trend (the defaults).          *)
(***************************************************************************)
EXTENDS Candles

CONSTANTS
  MinStrength,      \* minimum_swing_strength, in hundredths
  UpgradeStrength,  \* mss_upgrade_swing_strength
  MaxSweepBars,     \* max_sweep_to_choch_bars
  FailedLookahead   \* failed_choch_lookahead

\* _calculate_atr: one value for each candle, of the candles up to it
AtrAt(t, i) == Atr(UpTo(t, i), 14)

\* _previous_movement: the closes of the last five candles, unless the last one
\* made the lowest low (the highest high) of them
Previous(t, i) ==
  LET first == Larger(1, i - 4)
      before == first .. i - 1
      Moves(d) == /\ Cl(d, t[i]) > Cl(d, t[first])
                  /\ Lo(d, t[i]) >= Min({Lo(d, t[j]) : j \in before})
  IN  IF i - first < 2 THEN 0 ELSE IF Moves(1) THEN 1 ELSE IF Moves(-1) THEN -1 ELSE 0

\* _latest_confirmed_swing: the latest one, used up or not
Latest(swings, d, i) ==
  LET candidates == {s \in swings : s.kind = d /\ s.known < i /\ s.strength >= MinStrength}
  IN  {s \in candidates :
         \A x \in candidates : x.known < s.known \/ (x.known = s.known /\ x.strength <= s.strength)}

\* Mutant: a wick does not use the swing up.
UsedByClose(warnings) == {e.swing : e \in {x \in warnings : x.closed}}

\* used_swing_keys: a close or a wick beyond the swing uses it up
Used(warnings) == {e.swing : e \in warnings}

\* One candle of detect, _evaluate_break
WarningsAt(t, swings, before, i) ==
  LET Beyond(d, s, price) == 100 * (price - d * s.price) > 8 * AtrAt(t, i)
      Of(d) ==
        {[at |-> i, dir |-> d, swing |-> s, closed |-> Beyond(d, s, Cl(d, t[i]))] :
           s \in {x \in Latest(swings, d, i) \ Used(before) : Beyond(d, x, Hi(d, t[i]))}}
  IN  UNION {Of(d) : d \in Directions \ {Previous(t, i)}}

\* detect, candle by candle
Warnings(t, swings) ==
  LET upTo[i \in 0 .. Len(t)] ==
        IF i = 0 THEN {} ELSE LET before == upTo[i - 1] IN before \cup WarningsAt(t, swings, before, i)
  IN  upTo[Len(t)]

\* _failed_after_break
Failed(t, e) ==
  /\ e.closed
  /\ \E j \in e.at + 1 .. Smaller(Len(t), e.at + FailedLookahead) :
       Cl(e.dir, t[j]) < e.dir * e.swing.price

\* _liquidity_context: a sweep of the same candle counts too
SweptBefore(sweeps, e) ==
  \E s \in sweeps : s.dir = e.dir /\ s.at <= e.at /\ e.at - s.at <= MaxSweepBars

\* _displacement (hundredths)
DisplacementScore(t, d, i) ==
  If(With(d, t[i]), 200) + If(BodyAtLeast(t[i], 52), 200)
  + If(100 * Size(t[i]) >= 85 * AtrAt(t, i), 200)
  + If(Size(t[i]) > 0 /\ ClosesAtLeast(d, t[i], 75), 100)

\* _is_choppy: eight candles whose bodies cover little of their range
Choppy(t, i) ==
  LET window == Larger(1, i - 7) .. i
      range == Max({t[j].h : j \in window}) - Min({t[j].l : j \in window})
      BodyOf(j) == Body(t[j])
  IN  Cardinality(window) >= 4 /\ (range <= 0 \/ 100 * MapThenSumSet(BodyOf, window) < 65 * range)

GapMade(t, d, i) == i > 2 /\ Hi(d, t[i - 2]) < Lo(d, t[i])

\* _quality_score
Quality(t, sweeps, e) ==
  Clamp(100 + Smaller(200, e.swing.strength \div 4)
        + (IF e.closed THEN 150 ELSE -100)
        + (IF SweptBefore(sweeps, e) THEN 150 ELSE -50)
        + Smaller(200, DisplacementScore(t, e.dir, e.at) \div 3)
        + If(GapMade(t, e.dir, e.at), 80) - If(Choppy(t, e.at), 100), 0, 1000)

\* The status of _evaluate_break: the upgrade overrides the failure.
Status(t, sweeps, e) ==
  IF ~e.closed THEN "wick_only_candidate"
  ELSE IF /\ SweptBefore(sweeps, e)
          /\ DisplacementScore(t, e.dir, e.at) >= 400
          /\ e.swing.strength >= UpgradeStrength THEN "upgraded_to_mss_candidate"
  ELSE IF Failed(t, e) THEN "failed" ELSE "confirmed"

-------------------------------------------------------------------------------
\* A swing warns once, by wick or by close.
WarnedOnce(t, swings) == \A a, b \in Warnings(t, swings) : a.swing = b.swing => a = b
===============================================================================
