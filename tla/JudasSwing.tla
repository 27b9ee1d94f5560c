------------------------------- MODULE JudasSwing -------------------------------
(***************************************************************************)
(* src/strategy/ict_smc_strategies/judas_swing.py: the range of a finished *)
(* session, the first wick beyond it, the close back inside, a close       *)
(* beyond a swing made since, displacement, the gap it leaves and its      *)
(* first retest.                                                           *)
(*                                                                         *)
(* Default configuration (balanced entry), a context without restrictions, *)
(* manipulation windows or bias.  The tape starts with the session, and    *)
(* candle Session + 1 starts when it ends.  Prices of a definition with a  *)
(* direction d are on the axis of d; entry2 is twice the price of an entry *)
(* in the middle of a gap.  Scores are hundredths of the code's.           *)
(***************************************************************************)
EXTENDS Candles

CONSTANTS
  Session,          \* how many candles the session has
  Pools,            \* context["liquidity_pools"]: a sequence of unswept pools
  Named,            \* the price of context["target_liquidity"]: a set of one or none
  Swings,           \* context["swings"]: a set, empty if the tape's own are to be used
  ReclaimWait,      \* max_reclaim_wait_candles
  MssWait,          \* max_mss_wait_candles
  DisplacementWait, \* max_displacement_wait_candles
  RetestExpiry,     \* fvg_retest_expiry_candles
  Spread,           \* spread_status
  MinScore          \* minimum_setup_score, in hundredths

AtrPeriod == 14
MaxAfter == 2       \* max_fvg_after_displacement_candles
MinCandles == 6     \* min_candles_required

AtrOf(t) == Atr(t, AtrPeriod)

\* calculate_session_range, complete once a candle starts at the end of the session
Complete(t) == Len(t) > Session
RangeHi(t) == Max({t[i].h : i \in 1 .. Session})
RangeLo(t) == Min({t[i].l : i \in 1 .. Session})
Width(t) == RangeHi(t) - RangeLo(t)
Edge(d, t) == IF d = 1 THEN RangeLo(t) ELSE -RangeHi(t)
FarEdge(d, t) == -Edge(-d, t)

\* score_session_range_quality, with the ATR of the latest candles; ratios per mille
Ratios(t) ==
  LET Wicks(i) == (1000 * (Size(t[i]) - Body(t[i]))) \div Larger(1, Size(t[i]))
  IN  [wicks |-> MapThenSumSet(Wicks, 1 .. Session) \div Session,
       spike |-> (1000 * Max({Size(t[i]) : i \in 1 .. Session})) \div Larger(1, Width(t)),
       trend |-> (1000 * Abs(t[Session].c - t[1].c)) \div Larger(1, Width(t))]

RangeQuality(t) ==
  LET r == Ratios(t)
  IN  Clamp(1000 - Larger(0, r.wicks - 350) \div 2 - Larger(0, r.spike - 450) \div 2
                 - (3 * Larger(0, r.trend - 550)) \div 10, 0, 1000)

Clean(t) ==
  LET r == Ratios(t)
  IN  /\ Session >= MinCandles /\ 10 * Width(t) >= 6 * AtrOf(t) /\ Width(t) <= 4 * AtrOf(t)
      /\ r.wicks <= 720 /\ r.spike <= 750 /\ r.trend <= 850 /\ RangeQuality(t) >= 650

\* detect_judas_sweep: the first candle after the end of the session with a wick beyond the
\* range.  The candle that starts at the end is in neither.  A wick on both sides, or one of
\* more than three ATR, is no manipulation, and no later one is looked at.
Sweeping(t, i) == {d \in Directions : 50 * (Edge(d, t) - Lo(d, t[i])) > AtrOf(t)}
Depth(t, w) == Edge(w.dir, t) - Lo(w.dir, t[w.at])

Manipulation(t) ==
  {w \in [dir : Directions, at : Earliest({i \in Session + 2 .. Len(t) : Sweeping(t, i) # {}})] :
     Sweeping(t, w.at) = {w.dir} /\ Depth(t, w) <= 3 * AtrOf(t)}

SweepQuality(t, w) == Clamp(700 + (200 * Depth(t, w)) \div Larger(1, 3 * AtrOf(t)), 0, 1000)

\* detect_range_reclaim: the first close back inside, after the candle of the sweep
Reclaim(t, w) ==
  Earliest({i \in w.at + 1 .. Smaller(Len(t), w.at + ReclaimWait) : Cl(w.dir, t[i]) > Edge(w.dir, t)})

ReclaimStrength(t, d, i) ==
  700 + (IF 2 * Cl(d, t[i]) > Edge(d, t) + FarEdge(d, t) THEN 200 ELSE 50)
      + (100 * Body(t[i])) \div Larger(1, Size(t[i]))

\* detect_judas_mss: of the first swing since the reclaim that is broken in time, the first break
Breaking(t, d, reclaim, s) ==
  {i \in s.at + 1 .. Smaller(Len(t), reclaim + MssWait) : 100 * (Cl(d, t[i]) - s.price) > AtrOf(t)}

Shift(t, d, reclaim) ==
  LET broken == {s \in SwingLevels(Swings, d, t) :
                   s.at \in reclaim .. reclaim + MssWait /\ Breaking(t, d, reclaim, s) # {}}
  IN  {[at |-> Min(Breaking(t, d, reclaim, s)), level |-> s.price] :
         s \in {x \in broken : \A y \in broken : x.at <= y.at}}

ShiftQuality(t, d, m) ==
  Clamp(700 + (1500 * (Cl(d, t[m.at]) - m.level)) \div Larger(1, AtrOf(t)), 0, 1000)

\* _detect_displacement, from the shift on
Displacement(t, d, from) ==
  Earliest({i \in from .. Smaller(Len(t), from + DisplacementWait) :
              /\ With(d, t[i]) /\ BodyAtLeast(t[i], 55) /\ ClosesAtLeast(d, t[i], 70)
              /\ 10 * Size(t[i]) >= 9 * AtrOf(t)})

\* _detect_fvgs, _select_fvg_after_displacement: the first gap from the displacement on
GapLo(t, d, i) == Hi(d, t[i - 2])
GapHi(t, d, i) == Lo(d, t[i])
Gap(t, d, disp) ==
  Earliest({i \in Larger(3, disp) .. Smaller(Len(t), disp + MaxAfter) : GapLo(t, d, i) < GapHi(t, d, i)})

GapQuality(t, d, i) ==
  650 + Smaller(200, (250 * Body(t[i - 1])) \div Larger(1, Size(t[i - 1])))
      + 25 * Smaller(2, GapHi(t, d, i) - GapLo(t, d, i))

\* _detect_fvg_retest
Retest(t, d, gap) ==
  Earliest({i \in gap + 1 .. Smaller(Len(t), gap + RetestExpiry) :
           Lo(d, t[i]) <= GapHi(t, d, gap) /\ Hi(d, t[i]) >= GapLo(t, d, gap)})

\* _risk_plan, _select_external_target: the target the context names, wherever it is; else the
\* farthest pool ahead; else the far side of the range.
StopOf(t, w) == Lo(w.dir, t[w.at]) - AtrOf(t) \div 50 - Spread

Target(t, d, entry2) ==
  LET pools == {PoolHi(d, Pools[p]) : p \in {q \in DOMAIN Pools : Pools[q].side = d}}
      ahead == {x \in pools : 2 * x > entry2}
  IN  IF Named # {} THEN d * The(Named) ELSE IF ahead # {} THEN Max(ahead) ELSE FarEdge(d, t)

\* _rr, in hundredths; an entry at or beyond its stop counts as one without any risk.
Endless == 1000000
Rr(s) ==
  LET risk == s.entry2 - 2 * s.stop
      reward == 2 * s.target - s.entry2
  IN  IF risk > 0 THEN (100 * reward) \div risk ELSE IF reward > 0 THEN Endless ELSE -Endless

\* score_judas_swing_setup; the bias, the safety and the session of a plain context count 700,
\* 900 and 850.
Score(t, s) ==
  (  12 * RangeQuality(t) + 11 * SweepQuality(t, s.sweep) + 11 * ReclaimStrength(t, s.dir, s.reclaim)
   + 12 * ShiftQuality(t, s.dir, s.shift) + 11 * StrengthOf(s.dir, t[s.disp], AtrOf(t)) + 9 * GapQuality(t, s.dir, s.gap)
   + 7 * 700 + 13 * Smaller(1000, 4 * Rr(s)) + 8 * 900 + 6 * 850 ) \div 100

\* generate_judas_swing_signal: the empty set is "no trade".
Signal(t) ==
  LET sweep == The(Manipulation(t))
      d == sweep.dir
      reclaim == The(Reclaim(t, sweep))
      shift == The(Shift(t, d, reclaim))
      disp == The(Displacement(t, d, shift.at))
      gap == The(Gap(t, d, disp))
      entry2 == GapLo(t, d, gap) + GapHi(t, d, gap)
      plan == [dir |-> d, sweep |-> sweep, reclaim |-> reclaim, shift |-> shift, disp |-> disp, gap |-> gap,
               at |-> The(Retest(t, d, gap)), entry2 |-> entry2, stop |-> StopOf(t, sweep),
               target |-> Target(t, d, entry2)]
  IN  IF \/ Len(t) < 3 \/ ~Complete(t) \/ ~Clean(t) \/ Manipulation(t) = {} \/ Reclaim(t, sweep) = {}
         \/ Shift(t, d, reclaim) = {} \/ Displacement(t, d, shift.at) = {} \/ Gap(t, d, disp) = {}
         \/ Retest(t, d, gap) = {}
      THEN {}
      ELSE {s \in {plan} : Rr(s) >= 200 /\ Score(t, s) >= MinScore}

-------------------------------------------------------------------------------
\* One manipulation and one gap have one entry.
EntryStays(t, later) ==
  \A s \in Signal(t), x \in Signal(later) :
    (x.sweep = s.sweep /\ x.gap = s.gap) => x.at = s.at /\ x.entry2 = s.entry2
===============================================================================
