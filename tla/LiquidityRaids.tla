----------------------------- MODULE LiquidityRaids -----------------------------
(***************************************************************************)
(* analytics/ict_smc/stop_hunt_reversal.py, silver_bullet.py and           *)
(* liquidity_sweep.py: a candle runs through a prior level or a pool,      *)
(* closes back, and the candles after it confirm the reversal.             *)
(*                                                                         *)
(* Default parameters, with the buffers of the caller.  Levels and pools   *)
(* come from other detectors and do not change.  A hunt is a record of the *)
(* level's place and of at; side is the side it ran (1 above, -1 below),   *)
(* the trade goes the other way and prices are on the trade's axis.  The   *)
(* time of day is the candle's place on the tape, ATR and mean range are   *)
(* whole units, scores and ratios hundredths.                              *)
(***************************************************************************)
EXTENDS Candles

CONSTANTS
  Levels,           \* prior_highs_lows: a sequence of records of side, lo, hi, at, quality
  Pools,            \* liquidity_pools: a sequence of records of side, lo, hi, priority, at, quality, all unswept
  Windows,          \* time_window: a sequence of sets of places
  SweepBuffer, CloseBuffer, BreakBuffer, StopBuffer,
  Bias,             \* htf_bias: a direction, or 0
  MssEvents,        \* mss_events, choch_events: records of dir and at
  ChochEvents

Period == 14

\* _fvg_from_triple, and the gap a stop hunt's _entry_zone looks for
LeavesGap(d, t, middle) == Hi(d, t[middle - 1]) < Lo(d, t[middle + 1])

\* reward over risk of a plan in doubled prices
RrOf(entry2, stop, target2) ==
  IF entry2 > 2 * stop /\ target2 > entry2 THEN (100 * (target2 - entry2)) \div (entry2 - 2 * stop) ELSE 0

-------------------------------------------------------------------------------
\* stop_hunt_reversal.py: _normalize_prior_levels with minimum_level_quality
Meaningful == {l \in DOMAIN Levels : Levels[l].quality >= 500}

\* What a candle does at an edge, from how far its high and its close are beyond it
RunKind(high, close, sweepBuffer, closeBuffer) ==
  CASE high <= sweepBuffer -> "none"
    [] high > sweepBuffer /\ close > closeBuffer -> "accepted"
    [] high > sweepBuffer /\ close < 0 -> "reversal"
    [] OTHER -> "unclear"

\* _classify_stop_hunt: what a candle that runs through a level does there
HuntKind(level, k) ==
  LET edge == PoolHi(level.side, level)
  IN  RunKind(Hi(level.side, k) - edge, Cl(level.side, k) - edge, SweepBuffer, CloseBuffer)

Hunts(t, kind) ==
  {h \in [level : Meaningful, at : DOMAIN t] :
     h.at > Levels[h.level].at /\ HuntKind(Levels[h.level], t[h.at]) = kind}

HuntDir(h) == -Levels[h.level].side

\* _confirm_mss: the first close beyond every candle since the sweep
HuntShift(t, h) ==
  LET d == HuntDir(h)
      HighOf(i) == Hi(d, t[i])
  IN  Earliest({j \in h.at + 2 .. Len(t) : \A i \in h.at + 1 .. j - 1 : Cl(d, t[j]) > HighOf(i) + BreakBuffer})

\* _confirm_displacement: the shift's own candle, against the mean range of the latest candles
HuntDisplaced(t, h) ==
  LET d == HuntDir(h)
  IN  \E j \in HuntShift(t, h) : /\ With(d, t[j]) /\ ClosesAtLeast(d, t[j], 65) /\ BodyAtLeast(t[j], 55)
                                 /\ Size(t[j]) >= MeanRange(t, Len(t), Period)

\* _order_block_zone: the last candle against the trade among five before the shift
HuntBlocks(t, h, shift) ==
  LET opposite == {j \in Larger(1, shift - 5) .. shift - 1 : Against(HuntDir(h), t[j])}
  IN  {j \in opposite : j = Max(opposite)}

\* _entry_zone
HuntZone(t, h) ==
  LET d == HuntDir(h)
  IN  UNION {IF LeavesGap(d, t, j - 1) THEN {[lo |-> Hi(d, t[j - 2]), hi |-> Lo(d, t[j])]}
             ELSE {[lo |-> Lo(d, t[b]), hi |-> Hi(d, t[b])] : b \in HuntBlocks(t, h, j)} : j \in HuntShift(t, h)}

\* _target_liquidity: the extreme of the candles before the sweep
HuntTarget(t, h) == {Hi(HuntDir(h), t[i]) : i \in 1 .. h.at - 1}

\* _risk_plan: from the middle of the zone
HuntRr(t, h) ==
  LET stop == Lo(HuntDir(h), t[h.at]) - StopBuffer
  IN  IF HuntZone(t, h) = {} \/ HuntTarget(t, h) = {} THEN 0
      ELSE RrOf(The(HuntZone(t, h)).lo + The(HuntZone(t, h)).hi, stop, 2 * Max(HuntTarget(t, h)))

\* _score_event
HuntScore(t, h) ==
  LET shifted == HuntShift(t, h) # {}
      sum == 200 + Levels[h.level].quality \div 5 + 130 + If(shifted, 160) + If(HuntDisplaced(t, h), 100)
             + If(HuntZone(t, h) # {}, 100) + If(HuntTarget(t, h) # {}, 80) + If(HuntRr(t, h) >= 150, 70)
  IN  Clamp(IF shifted THEN sum ELSE Smaller(sum, 500), 0, 1000)

\* detect_stop_hunt_reversal: an unclear sweep has no "sweep", which the sort of the events reads.
Raises(t) == Hunts(t, "unclear") # {}
HuntDetected(t) == ~Raises(t) /\ \E h \in Hunts(t, "reversal") : HuntShift(t, h) # {}

-------------------------------------------------------------------------------
\* silver_bullet.py, _window_context: the candles of the first window that has any
InWindow(t) ==
  LET begun == {w \in DOMAIN Windows : Windows[w] \cap DOMAIN t # {}}
  IN  IF begun = {} THEN {} ELSE Windows[Min(begun)] \cap DOMAIN t

\* _sweeps_from_candle
Sweeps(t) ==
  {s \in [pool : DOMAIN Pools, at : InWindow(t)] :
     LET p == Pools[s.pool]
     IN  Hi(p.side, t[s.at]) > PoolHi(p.side, p) + SweepBuffer /\ Cl(p.side, t[s.at]) < PoolHi(p.side, p)}

DirOf(s) == -Pools[s.pool].side
Strong(t, s) == LET p == Pools[s.pool] IN Cl(p.side, t[s.at]) < PoolLo(p.side, p)

\* _is_displacement, with the ATR of the latest candle
Displaces(t, d, k) ==
  /\ With(d, k) /\ BodyAtLeast(k, 55) /\ ClosesAtLeast(d, k, 70)
  /\ Size(k) >= Atr(t, Period)

\* _find_displacement_and_fvg: the latest candle never completes the gap.
Leg(t, s) ==
  Earliest({j \in s.at + 1 .. Smaller(Len(t) - 2, s.at + 8) :
              Displaces(t, DirOf(s), t[j]) /\ LeavesGap(DirOf(s), t, j)})

GapLo(t, s, leg) == Hi(DirOf(s), t[leg - 1])
GapHi(t, s, leg) == Lo(DirOf(s), t[leg + 1])

\* _find_retest: the first of twelve candles that touches the gap decides.
Touch(t, s, leg) ==
  LET d == DirOf(s)
  IN  Earliest({j \in leg + 2 .. Smaller(Len(t), leg + 13) :
                  Lo(d, t[j]) <= GapHi(t, s, leg) /\ Hi(d, t[j]) >= GapLo(t, s, leg)})

Middle2(t, s, leg) == GapLo(t, s, leg) + GapHi(t, s, leg)
Reacts(t, s, leg, j) == 2 * Cl(DirOf(s), t[j]) > Middle2(t, s, leg) /\ With(DirOf(s), t[j])

Entry2(t, s, leg, j) == IF Reacts(t, s, leg, j) THEN 2 * Cl(DirOf(s), t[j]) ELSE Middle2(t, s, leg)

\* _select_target: the pool of the highest priority beyond the entry, then the nearest
Targets(d, entry2) ==
  LET Mid2(p) == PoolLo(d, Pools[p]) + PoolHi(d, Pools[p])
      beyond == {p \in DOMAIN Pools : Pools[p].side = d /\ Mid2(p) > entry2}
      Before(p, q) == \/ Pools[p].priority > Pools[q].priority
                      \/ Pools[p].priority = Pools[q].priority /\ Mid2(p) < Mid2(q)
                      \/ Pools[p].priority = Pools[q].priority /\ Mid2(p) = Mid2(q) /\ p < q
  IN  {Mid2(p) : p \in {x \in beyond : \A y \in beyond \ {x} : Before(x, y)}}

\* _build_candidate_result: the plan of a sweep, at most one; _calculate_stop
Plan(t, s) ==
  LET d == DirOf(s)
      Of(leg, j) == {[leg |-> leg, entry2 |-> Entry2(t, s, leg, j), reacts |-> Reacts(t, s, leg, j), target2 |-> target2,
                      stop |-> Smaller(Lo(d, t[s.at]), GapLo(t, s, leg)) - SweepBuffer] :
                        target2 \in Targets(d, Entry2(t, s, leg, j))}
  IN  UNION {UNION {Of(leg, j) : j \in {x \in Touch(t, s, leg) : Cl(d, t[x]) >= GapLo(t, s, leg)}} : leg \in Leg(t, s)}

Rr(p) == RrOf(p.entry2, p.stop, p.target2)

\* _score_candidate of a sweep that has a plan; an ATR of nothing leaves no displacement.
Score(t, s, p) ==
  Clamp(150 + (IF Strong(t, s) THEN 220 ELSE 180)
        + Smaller(200, 80 + (55 * Size(t[p.leg])) \div Larger(1, Atr(t, Period))) + 140 + If(p.reacts, 120) + 100
        + If(Rr(p) >= 100, Smaller(80, Rr(p) \div 4))
        + (IF Bias = 0 THEN 0 ELSE IF Bias = DirOf(s) THEN 70 ELSE -120), 0, 1000)

Valid(t, s) == {p \in Plan(t, s) : Rr(p) >= 100 /\ Score(t, s, p) >= 700}

-------------------------------------------------------------------------------
\* liquidity_sweep.py, _evaluate_pool: the buffers are 2 and 5 per cent of the ATR of the candle,
\* here in hundredths.  A close between the edge and the second one is neither a sweep nor a breakout.
AtrAt(t, i) == AtrIn(100, UpTo(t, i), Period)

PoolKind(t, p, i) ==
  LET side == Pools[p].side
      edge == PoolHi(side, Pools[p])
      atr == AtrAt(t, i)
  IN  RunKind(10000 * (Hi(side, t[i]) - edge), 10000 * (Cl(side, t[i]) - edge), 2 * atr, 5 * atr)

\* _pool_is_eligible
Eligible(p, i) == Pools[p].quality >= 300 /\ Pools[p].at <= i

\* detect: the first candle that sweeps or breaks a pool consumes it.
Consumed(t, p) == Earliest({i \in DOMAIN t : Eligible(p, i) /\ PoolKind(t, p, i) \in {"accepted", "reversal"}})

PoolSweeps(t) ==
  UNION {{[pool |-> p, at |-> i] : i \in {j \in Consumed(t, p) : PoolKind(t, p, j) = "reversal"}} : p \in DOMAIN Pools}

\* _first_confirmation_event, of the ten candles after the sweep
Confirming(t, s, events) ==
  Earliest({e.at : e \in {x \in events : x.dir = DirOf(s) /\ x.at \in s.at + 1 .. Smaller(Len(t), s.at + 10)}})

\* _displacement_strength: the first candle with a body decides. 0.55 * 0.8 is just above 0.44.
Moved(t, s) ==
  LET d == DirOf(s)
      first == Earliest({j \in s.at + 1 .. Smaller(Len(t), s.at + 10) :
                           With(d, t[j]) /\ 100 * Body(t[j]) > 44 * Size(t[j])})
      Large(j) == BodyAtLeast(t[j], 55) /\ 10000 * Size(t[j]) >= 85 * AtrAt(t, s.at)
  IN  CASE first = {} -> "none" [] \E j \in first : Large(j) -> "strong" [] OTHER -> "moderate"

\* _fvg_after_sweep
GapAfter(t, s) == \E j \in s.at + 1 .. Smaller(Len(t) - 1, s.at + 3) : LeavesGap(DirOf(s), t, j)

\* _bullish_reclaim_type, _bearish_reclaim_type
ReclaimScore(t, s) ==
  LET p == Pools[s.pool]
  IN  IF Strong(t, s) THEN 200
      ELSE IF 2 * Cl(p.side, t[s.at]) < PoolLo(p.side, p) + PoolHi(p.side, p) THEN 150 ELSE 100

\* _rejection_quality, in the shares of _quality_score
WickScore(t, s) ==
  LET d == DirOf(s)
      k == t[s.at]
      wick == Smaller(Op(d, k), Cl(d, k)) - Lo(d, k)
  IN  If(wick > 0, 100) + Smaller(100, (250 * wick) \div Size(k))

\* _quality_score of a sweep
SweepScore(t, s) ==
  LET mss == Confirming(t, s, MssEvents) # {}
      choch == Confirming(t, s, ChochEvents) # {}
      sum == Smaller(200, Pools[s.pool].quality \div 5) + WickScore(t, s) + ReclaimScore(t, s) + If(mss, 150) + If(choch, 75)
             + (CASE Moved(t, s) = "strong" -> 100 [] Moved(t, s) = "moderate" -> 50 [] OTHER -> 0)
             + If(GapAfter(t, s), 50) - If(100 * Size(t[s.at]) > 3 * AtrAt(t, s.at), 100)
  IN  Clamp(IF mss \/ choch THEN sum ELSE Smaller(sum, 600), 0, 1000)

\* _setup_status
SweepStatus(t, s) ==
  CASE Confirming(t, s, MssEvents) # {} -> "confirmed_by_mss"
    [] Confirming(t, s, MssEvents) = {} /\ Confirming(t, s, ChochEvents) # {} -> "confirmed_by_choch"
    [] OTHER -> "unconfirmed_or_stale"

\* _entry_logic: entry_allowed_after_confirmation
SweepAllows(t, s) == SweepStatus(t, s) = "confirmed_by_mss" /\ Moved(t, s) # "none"

-------------------------------------------------------------------------------
\* A hunt that was confirmed stays, with its shift, its zone and its risk; later candles move its
\* score by no more than their view of its displacement.  A detector that raised once raises at every later candle.
HuntsStay(t, later) ==
  /\ \A h \in Hunts(t, "reversal") :
       /\ h \in Hunts(later, "reversal")
       /\ HuntShift(t, h) # {} => /\ HuntShift(later, h) = HuntShift(t, h)
                                  /\ HuntZone(later, h) = HuntZone(t, h) /\ HuntRr(later, h) = HuntRr(t, h)
                                  /\ Abs(HuntScore(later, h) - HuntScore(t, h)) <= 100
  /\ Raises(t) => Raises(later) /\ ~HuntDetected(later)

\* A Silver Bullet keeps its plan while its displacement stays the same candle; and a plan with a
\* reaction in the gap, a target and enough reward is never refused by its score.
BulletsFollowTheirLeg(t, later) ==
  \A s \in Sweeps(t) \cap Sweeps(later) : \A p \in Plan(t, s) :
    /\ Leg(later, s) = Leg(t, s) => Plan(later, s) = {p}
    /\ p.reacts /\ Rr(p) >= 100 => p \in Valid(t, s)

\* A pool is consumed once and for good; a sweep keeps its shift and the entry it allows, and
\* its score only rises.
PoolSweepsOnlyGrow(t, later) ==
  /\ \A p \in DOMAIN Pools : Consumed(t, p) # {} => Consumed(later, p) = Consumed(t, p)
  /\ \A s \in PoolSweeps(t) :
       /\ s \in PoolSweeps(later)
       /\ SweepScore(later, s) >= SweepScore(t, s)
       /\ SweepStatus(t, s) = "confirmed_by_mss" => Confirming(later, s, MssEvents) = Confirming(t, s, MssEvents)
       /\ SweepAllows(t, s) => SweepAllows(later, s)
===============================================================================
