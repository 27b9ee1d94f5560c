---------------------------- MODULE PowerOfThreeAmd ----------------------------
(***************************************************************************)
(* src/strategy/ict_smc_strategies/power_of_three_amd.py: a quiet range    *)
(* (accumulation), a wick beyond it that closes back inside                *)
(* (manipulation), and a displacement candle that closes beyond all since  *)
(* (distribution), whose close is the entry.                               *)
(*                                                                         *)
(* Default configuration; a context without windows, restrictions or bias. *)
(* Prices of a definition with a direction d are on the axis of d.  Prices *)
(* are whole and the buffers below one, so they only make comparisons      *)
(* strict.  Scores are hundredths of the code's.                           *)
(***************************************************************************)
EXTENDS Candles

CONSTANTS
  Pools,            \* context["liquidity_pools"]: a sequence of unswept pools, each a price
  Quiet,            \* min_accumulation_candles: the range is made of the first ones
  MaxReclaim,       \* max_reclaim_candles
  ShiftWait,        \* max_distribution_wait_candles
  Spread,           \* spread_points * spread_point_value
  MinScore          \* minimum_setup_score, in hundredths

AtrPeriod == 14

\* detect_accumulation_range, score_accumulation_quality
RangeHi(t) == Max({t[i].h : i \in 1 .. Quiet})
RangeLo(t) == Min({t[i].l : i \in 1 .. Quiet})
RangeEdge(d, t) == IF d = 1 THEN RangeLo(t) ELSE -RangeHi(t)
RangeFar(d, t) == IF d = 1 THEN RangeHi(t) ELSE -RangeLo(t)

Touching(t) ==
  LET near == 18 * (RangeHi(t) - RangeLo(t))
  IN  {i \in 1 .. Quiet : 100 * (RangeHi(t) - t[i].h) <= near \/ 100 * (t[i].l - RangeLo(t)) <= near}

AccumulationQuality(t) ==
  LET size == RangeHi(t) - RangeLo(t)
      SizeAt(i) == Size(t[i])
      walked == MapThenSumSet(SizeAt, 1 .. Quiet)
      largest == (1000 * Max({Size(t[i]) : i \in 1 .. Quiet})) \div size
      moved == (1000 * Abs(t[Quiet].c - t[1].o)) \div Larger(1, walked)
  IN  [largest |-> largest, moved |-> moved,
       score |-> (900 + (1000 - largest) + Larger(0, 1000 - (18 * moved) \div 10)
                  + Smaller(1000, (1200 * Cardinality(Touching(t))) \div Quiet) + 750) \div 5]

Accumulated(t) ==
  LET atr == MeanRange(t, Quiet, AtrPeriod)
      size == RangeHi(t) - RangeLo(t)
      q == AccumulationQuality(t)
  IN  /\ size \in 1 .. 80 /\ 10 * size >= 6 * atr /\ size <= 8 * atr
      /\ q.largest <= 720 /\ q.moved <= 420 /\ Cardinality(Touching(t)) >= 2 /\ q.score >= 650

\* detect_manipulation_sweep
Sweeps(t) == {w \in [dir : Directions, at : Quiet + 1 .. Len(t)] : Lo(w.dir, t[w.at]) < RangeEdge(w.dir, t)}
Depth(t, w) == RangeEdge(w.dir, t) - Lo(w.dir, t[w.at])

\* _find_reclaim: the first close back inside the range, in time
Reclaims(t, w) == {i \in w.at .. Smaller(Len(t), w.at + MaxReclaim) : Cl(w.dir, t[i]) > RangeEdge(w.dir, t)}
Reclaim(t, w) == Min(Reclaims(t, w))

Trapping(t) ==
  {w \in Sweeps(t) : 2 * Depth(t, w) <= 7 * MeanRange(t, w.at, AtrPeriod) /\ Reclaims(t, w) # {}}

ManipulationQuality(t, w) ==
  LET atr == Larger(1, MeanRange(t, w.at, AtrPeriod))
      back == Cl(w.dir, t[Reclaim(t, w)]) - RangeEdge(w.dir, t)
  IN  Clamp(550 + Smaller(200, (200 * Depth(t, w)) \div atr) + Smaller(300, (200 * back) \div atr), 0, 1000)

\* The best of them, the earliest of equals; none when the first ones go both ways.
Manipulation(t) ==
  LET valid == Trapping(t)
      earliest == {w \in valid : \A x \in valid : w.at <= x.at}
      Q(w) == ManipulationQuality(t, w)
  IN  IF Cardinality(earliest) > 1 THEN {}
      ELSE {w \in valid : \A x \in valid \ {w} : \/ Q(w) > Q(x)
                                                 \/ Q(w) = Q(x) /\ w.at < x.at
                                                 \/ Q(w) = Q(x) /\ w.at = x.at /\ w.dir = 1}

\* detect_distribution_shift
Displaces(t, d, i) ==
  /\ With(d, t[i]) /\ BodyAtLeast(t[i], 55) /\ ClosesAtLeast(d, t[i], 62)
  /\ 100 * Size(t[i]) >= 65 * MeanRange(t, i, AtrPeriod)

Distribution(t, w) ==
  LET d == w.dir
      Level(i) == Max({Hi(d, t[j]) : j \in w.at .. i - 1})
      shifts == {i \in Reclaim(t, w) + 1 .. Smaller(Len(t), Reclaim(t, w) + 1 + ShiftWait) :
                   Cl(d, t[i]) > Level(i) /\ Displaces(t, d, i)}
  IN  {i \in shifts : \A j \in shifts : i <= j}

\* With no candle after the reclaim the loop has no turn, and its rejection_reason is read unbound.
Raises(t) ==
  /\ Len(t) >= 8 /\ Accumulated(t)
  /\ \E w \in Manipulation(t) : Reclaim(t, w) = Len(t)

LeavesGap(t, d, i) == i >= 3 /\ Hi(d, t[i - 2]) < Lo(d, t[i])

DistributionQuality(t, d, i) ==
  Clamp(650 + Smaller(200, (100 * Size(t[i])) \div Larger(1, MeanRange(t, i, AtrPeriod)))
            + If(LeavesGap(t, d, i), 70), 0, 1000)

\* _select_target: the farthest pool ahead, and the far side of the range only when there is none
Targets(t, d, entry) ==
  LET pools == {d * Pools[p].price : p \in {q \in DOMAIN Pools : Pools[q].side = d}}
      ahead == {x \in pools : x > entry}
  IN  IF ahead # {} THEN {Max(ahead)} ELSE {x \in {RangeFar(d, t)} : x > entry}

\* _risk: below the manipulation, with the noise of the latest candles
StopOf(t, w) == Lo(w.dir, t[w.at]) - (8 * MeanRange(t, Len(t), AtrPeriod)) \div 100 - Spread

\* score_amd_setup; a reclaim, a shift, the bias, the safety and the session of a plain context
\* count 850, 850, 850, 900 and 800.
Score(t, s) ==
  LET rr == Smaller(1000, (400 * (s.target - s.entry)) \div Abs(s.entry - s.stop))
  IN  (  11 * AccumulationQuality(t).score + 11 * ManipulationQuality(t, s.sweep) + 10 * 850 + 12 * 850
       + 11 * DistributionQuality(t, s.dir, s.at) + 8 * (780 + If(LeavesGap(t, s.dir, s.at), 50))
       + 7 * 850 + 10 * rr + 9 * 900 + 7 * 800 ) \div 96

\* generate_amd_signal: the empty set is "no trade".  Nothing makes a distribution too old.
Signal(t) ==
  LET sweep == The(Manipulation(t))
      d == sweep.dir
      at == The(Distribution(t, sweep))
      targets == Targets(t, d, Cl(d, t[at]))
      plan == [dir |-> d, sweep |-> sweep, at |-> at, entry |-> Cl(d, t[at]), stop |-> StopOf(t, sweep),
               target |-> The(targets)]
  IN  IF Len(t) < 8 \/ ~Accumulated(t) \/ Manipulation(t) = {} \/ Distribution(t, sweep) = {} \/ targets = {}
      THEN {}
      ELSE {s \in {plan} : /\ s.entry # s.stop /\ s.target - s.entry >= 2 * Abs(s.entry - s.stop)
                           /\ Score(t, s) >= MinScore}

-------------------------------------------------------------------------------
\* One manipulation has one distribution and one entry; and the exception costs the answer of one
\* candle: the next one with this manipulation has an answer.
EntryStays(t, later) ==
  /\ \A s \in Signal(t), x \in Signal(later) : x.sweep = s.sweep => x.at = s.at /\ x.entry = s.entry
  /\ Raises(t) /\ Manipulation(later) = Manipulation(t) => ~Raises(later)
===============================================================================
