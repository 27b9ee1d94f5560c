---------------------------- MODULE FvgContinuation ----------------------------
(***************************************************************************)
(* src/strategy/ict_smc_strategies/fvg_continuation.py: with the higher    *)
(* timeframe, a close beyond a swing, the displacement around it, a fair   *)
(* value gap it left, the return into that gap and the reaction.           *)
(*                                                                         *)
(* Default configuration, a context whose bias is given, without           *)
(* restrictions or blockers, and whose pools carry zones.  Prices of a     *)
(* definition are on the axis of the bias.  Scores are hundredths of the   *)
(* code's; entry2 is twice the entry.                                      *)
(***************************************************************************)
EXTENDS Candles

CONSTANTS
  Bias,             \* htf_bias["bias_direction"]
  BiasScore,        \* htf_bias["confidence_score"], in hundredths
  Pools,            \* context["liquidity_pools"]: a sequence of pools that are not swept
  Swings,           \* context["swings"]: a set, empty if the tape's own are to be used
  DisplacementWait, \* max_displacement_wait_candles
  RetracementWait,  \* max_retracement_wait_candles
  ReactionWait,     \* reaction_wait_candles
  Spread,           \* spread_status
  MinScore          \* minimum_setup_score, in hundredths

\* _atr: the mean range of the candles up to i, 14 at most
RangeAt(t, i) ==
  LET last == Larger(1, i - 13) .. i
      SizeAt(j) == Size(t[j])
  IN  Larger(1, MapThenSumSet(SizeAt, last) \div Cardinality(last))

\* detect_bos, the breaks by a close: the first one of each swing of the bias
ClosesBeyond(t, s) == {i \in s.at + 1 .. Len(t) : Cl(Bias, t[i]) > s.price}

Breaks(t) ==
  {[swing |-> s.at, at |-> Min(ClosesBeyond(t, s)), level |-> s.price] :
     s \in {x \in SwingLevels(Swings, Bias, t) : ClosesBeyond(t, x) # {}}}

BreakScore(t, b) == 500 + Smaller(350, (200 * (Cl(Bias, t[b.at]) - b.level)) \div RangeAt(t, b.at))

\* detect_fvg: candles i - 2 and i leave a gap between them.
Gaps(t) == {i \in 3 .. Len(t) : Hi(Bias, t[i - 2]) < Lo(Bias, t[i])}
GapLo(t, i) == Hi(Bias, t[i - 2])
GapHi(t, i) == Lo(Bias, t[i])

\* detect_displacement: of the candles from one before the break on, the strongest one (the
\* first of equals), whether or not it is strong enough.
Strength(t, i) ==
    Smaller(300, (30000 * Body(t[i])) \div (55 * Size(t[i]))) + Smaller(300, (400 * Size(t[i])) \div RangeAt(t, i))
  + Smaller(200, (20000 * (Cl(Bias, t[i]) - Lo(Bias, t[i]))) \div (68 * Size(t[i])))
  + 100 + If(\E g \in Gaps(t) : i - 1 <= g /\ g <= i + 2, 100)

Displacement(t, b) ==
  LET around == {i \in Larger(1, b.at - 1) .. Smaller(Len(t), b.at + DisplacementWait) : With(Bias, t[i])}
  IN  {i \in around : \A j \in around \ {i} :
         Strength(t, i) > Strength(t, j) \/ (Strength(t, i) = Strength(t, j) /\ i < j)}

Confirmed(t, i) ==
  BodyAtLeast(t[i], 55) /\ 4 * Size(t[i]) >= 3 * RangeAt(t, i) /\ ClosesAtLeast(Bias, t[i], 68) /\ Strength(t, i) >= 600

\* validate_fvg_continuation: what a gap needs; the order they are tried in is their own.
Usable(t, b, disp, g) ==
  LET size == GapHi(t, g) - GapLo(t, g)
  IN  /\ g >= b.at /\ Abs(g - disp) <= 2
      /\ 100 * size >= 3 * RangeAt(t, g) /\ size <= 3 * RangeAt(t, g)

GapScore(t, g) == 850 + If(BodyAtLeast(t[g - 1], 55), 100) + If(With(Bias, t[g - 1]), 50)

\* detect_fvg_retracement: the first candle that comes back or closes through decides; a
\* close through invalidates the gap.
Return(t, g) ==
  LET deciding == {i \in g + 1 .. Smaller(Len(t), g + RetracementWait) :
                     Cl(Bias, t[i]) < GapLo(t, g) \/ Lo(Bias, t[i]) <= GapHi(t, g)}
  IN  IF deciding = {} \/ Cl(Bias, t[Min(deciding)]) < GapLo(t, g) THEN {} ELSE {Min(deciding)}

Entry2(t, g, touch) ==
  IF 2 * Lo(Bias, t[touch]) <= GapLo(t, g) + GapHi(t, g) THEN GapLo(t, g) + GapHi(t, g) ELSE 2 * GapHi(t, g)

\* _find_reaction_candle: whatever the candles before it did to the gap
Reactions(t, touch) ==
  {i \in touch .. Smaller(Len(t), touch + ReactionWait) : With(Bias, t[i]) /\ ClosesAtLeast(Bias, t[i], 55)}

\* _risk, _recent_structure: behind the candles that made the gap
StopOf(t, g) == Min({Lo(Bias, t[i]) : i \in Larger(1, g - 6) .. g}) - (8 * RangeAt(t, g)) \div 100 - Spread

Targets(entry2) ==
  {x \in {PoolHi(Bias, Pools[p]) : p \in {q \in DOMAIN Pools : Pools[q].side = Bias}} : 2 * x > entry2}

\* score_fvg_continuation_setup; 800, 900 and 800 are the trend, the safety and the session
\* of a context that says nothing of them.  Without a reaction the entry costs points only.
Score(t, b, disp, g, touch, rr) ==
  (  12 * Smaller(1000, BiasScore + 100) + 10 * BreakScore(t, b) + 12 * Strength(t, disp) + 11 * GapScore(t, g)
   + 11 * (IF Reactions(t, touch) # {} THEN 850 ELSE 400) + 8 * 800 + 11 * Smaller(1000, (375 * rr) \div 100)
   + 9 * 900 + 6 * 800 ) \div 90

\* generate_fvg_continuation_signal: the plans of one break, one for each gap ...
PlansOf(t, b) ==
  {p \in [break : {b}, disp : Displacement(t, b), gap : Gaps(t), touch : DOMAIN t] :
     /\ Confirmed(t, p.disp) /\ Usable(t, b, p.disp, p.gap) /\ p.touch \in Return(t, p.gap)
     /\ LET entry2 == Entry2(t, p.gap, p.touch)
            risk == entry2 - 2 * StopOf(t, p.gap)
            reward == 2 * Min(Targets(entry2)) - entry2
        IN  /\ Targets(entry2) # {} /\ reward >= 2 * risk
            /\ Score(t, b, p.disp, p.gap, p.touch, (100 * reward) \div risk) >= MinScore}

\* ... and the one taken: the earliest break's, then the earliest gap's.  It is entered at the
\* reaction, or at the touch while there is none.
Signal(t) ==
  LET all == UNION {PlansOf(t, b) : b \in Breaks(t)}
      Before(p, q) == \/ p.break.at < q.break.at
                      \/ (p.break.at = q.break.at /\ p.break.swing < q.break.swing)
                      \/ (p.break = q.break /\ p.gap <= q.gap)
      PlanOf(p) ==
        LET entry2 == Entry2(t, p.gap, p.touch)
            reactions == Reactions(t, p.touch)
        IN  [plan |-> p, entry2 |-> entry2, stop |-> StopOf(t, p.gap), target |-> Min(Targets(entry2)),
             at |-> Min(IF reactions = {} THEN {p.touch} ELSE reactions), reacted |-> reactions # {}]
  IN  IF Len(t) < 5 THEN {} ELSE {PlanOf(p) : p \in {x \in all : \A y \in all : Before(x, y)}}

-------------------------------------------------------------------------------
\* The entry, stop and target planned for a gap stay where they are, whatever closes later.
PlanStays(t, later) ==
  \A s \in Signal(t), x \in Signal(later) :
    x.plan.gap = s.plan.gap => x.entry2 = s.entry2 /\ x.stop = s.stop /\ x.target = s.target
===============================================================================
