------------------------------ MODULE SilverBullet ------------------------------
(***************************************************************************)
(* src/strategy/ict_smc_strategies/silver_bullet.py: within a time window, *)
(* the sweep of a pool, the displacement candle after it that leaves a     *)
(* gap, and the first retest of the gap.                                   *)
(*                                                                         *)
(* Default configuration (balanced entry); a context without restrictions  *)
(* or bias and 15 minute candles.  Pools have no quality or type of their  *)
(* own.  Prices of a definition with a direction d are on the axis of d;   *)
(* entry2 is twice the price of an entry in the middle of a gap.  Scores   *)
(* are hundredths of the code's.                                           *)
(***************************************************************************)
EXTENDS Candles

CONSTANTS
  Window,           \* the candles that start in the active window, on any of the days of the tape
  Edges,            \* those of them at its start or end
  Pools,            \* context["liquidity_pools"]: a sequence of unswept pools
  Named,            \* the price of context["target_liquidity"]: a set of one or none
  FvgWait,          \* max_fvg_wait_candles
  RetestExpiry,     \* fvg_retest_expiry_candles
  Spread,           \* spread_status
  MinScore          \* minimum_setup_score, in hundredths

AtrPeriod == 14
AtrOf(t) == Atr(t, AtrPeriod)

\* detect_window_liquidity: priority_score of a pool with the default quality of 500
PoolQuality == 500
Priority == (55 * PoolQuality) \div 100 + 100 + 75 + 100

\* detect_silver_bullet_sweep: of all sweeps in the window the best, the latest of equals
Sweeps(t) ==
  {e \in [dir : Directions, pool : DOMAIN Pools, at : Window \cap DOMAIN t] :
     LET edge == PoolLo(e.dir, Pools[e.pool])
     IN  /\ Pools[e.pool].side = -e.dir
         /\ 50 * (edge - Lo(e.dir, t[e.at])) > AtrOf(t)
         /\ Cl(e.dir, t[e.at]) > edge}

SweepQuality(t, e) ==
  Clamp(600 + Priority \div 4
            + (100 * (PoolLo(e.dir, Pools[e.pool]) - Lo(e.dir, t[e.at]))) \div Larger(1, AtrOf(t)), 0, 1000)

Sweep(t) ==
  LET Q(e) == SweepQuality(t, e)
  IN  {e \in Sweeps(t) : \A x \in Sweeps(t) \ {e} : \/ Q(e) > Q(x)
                                                    \/ Q(e) = Q(x) /\ e.at > x.at
                                                    \/ Q(e) = Q(x) /\ e.at = x.at /\ e.pool < x.pool}

\* _displacement_event, neither weak nor oversized
Displaces(t, d, i) ==
  /\ With(d, t[i]) /\ BodyAtLeast(t[i], 55) /\ ClosesAtLeast(d, t[i], 70)
  /\ Size(t[i]) >= AtrOf(t) /\ 10 * Size(t[i]) <= 35 * AtrOf(t)

\* _fvg_from_creation_candle, _fvg_event: the gap the displacement candle itself completes
GapLo(t, d, i) == Hi(d, t[i - 2])
GapHi(t, d, i) == Lo(d, t[i])
GapSize(t, d, i) == GapHi(t, d, i) - GapLo(t, d, i)
LeavesGap(t, d, i) == i > 2 /\ GapSize(t, d, i) > 0 /\ 10 * GapSize(t, d, i) <= 25 * AtrOf(t)

GapQuality(t, d, i) ==
  Clamp(600 + Smaller(200, (250 * Body(t[i - 1])) \div Larger(1, Size(t[i - 1])))
            + Smaller(150, (100 * GapSize(t, d, i)) \div Larger(1, AtrOf(t))), 0, 1000)

\* detect_silver_bullet_fvg
Gap(t, e) ==
  Earliest({i \in e.at + 1 .. Smaller(Len(t), e.at + FvgWait) : Displaces(t, e.dir, i) /\ LeavesGap(t, e.dir, i)})

\* _detect_fvg_retest
Retest(t, d, gap) ==
  Earliest({i \in gap + 1 .. Smaller(Len(t), gap + RetestExpiry) :
              Lo(d, t[i]) <= GapHi(t, d, gap) /\ Hi(d, t[i]) >= GapLo(t, d, gap)})

\* _risk_plan, _select_target: the target the context names, wherever it is; else the nearest
\* pool ahead that is worth the distance to the stop.
StopOf(t, e) == Lo(e.dir, t[e.at]) - AtrOf(t) \div 20 - Spread

Targets(d, entry2, stop) ==
  LET pools == {PoolHi(d, Pools[p]) : p \in {q \in DOMAIN Pools : Pools[q].side = d}}
      worth == {x \in pools : /\ 2 * x > entry2 /\ entry2 # 2 * stop
                              /\ 2 * x - entry2 >= 2 * Abs(entry2 - 2 * stop)}
  IN  IF Named # {} THEN {d * x : x \in Named} ELSE IF worth = {} THEN {} ELSE {Min(worth)}

\* The ratio of reward and risk, in hundredths; an entry beyond its stop counts as one without any risk.
Endless == 1000000
Rr(s) ==
  LET risk == s.entry2 - 2 * s.stop
      reward == 2 * s.target - s.entry2
  IN  IF risk > 0 THEN (100 * reward) \div risk ELSE IF reward > 0 THEN Endless ELSE -Endless

\* score_silver_bullet_setup; the retest, the bias, the safety and the session of a plain context
\* count 850, 700, 900 and 850.
Score(t, s) ==
  (  12 * (IF Len(t) \in Edges THEN 700 ELSE 950) + 10 * PoolQuality + 12 * SweepQuality(t, s.sweep)
   + 12 * StrengthOf(s.dir, t[s.gap], AtrOf(t)) + 10 * GapQuality(t, s.dir, s.gap) + 10 * 850 + 8 * 700
   + 10 * 900 + 12 * Smaller(1000, 4 * Rr(s)) + 4 * 850 ) \div 100

\* generate_silver_bullet_signal: the empty set is "no trade".
Signal(t) ==
  LET sweep == The(Sweep(t))
      d == sweep.dir
      gap == The(Gap(t, sweep))
      entry2 == GapLo(t, d, gap) + GapHi(t, d, gap)
      targets == Targets(d, entry2, StopOf(t, sweep))
      plan == [dir |-> d, sweep |-> sweep, gap |-> gap, at |-> The(Retest(t, d, gap)), entry2 |-> entry2,
               stop |-> StopOf(t, sweep), target |-> The(targets)]
  IN  IF \/ Len(t) < 3 \/ Len(t) \notin Window \/ Sweep(t) = {} \/ Gap(t, sweep) = {}
         \/ Retest(t, d, gap) = {} \/ targets = {}
      THEN {}
      ELSE {s \in {plan} : Rr(s) >= 200 /\ Score(t, s) >= MinScore}

-------------------------------------------------------------------------------
\* One sweep and one gap have one entry.
EntryStays(t, later) ==
  \A s \in Signal(t), x \in Signal(later) :
    (x.sweep = s.sweep /\ x.gap = s.gap) => x.at = s.at /\ x.entry2 = s.entry2
===============================================================================
