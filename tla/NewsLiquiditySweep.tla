--------------------------- MODULE NewsLiquiditySweep ---------------------------
(***************************************************************************)
(* src/strategy/ict_smc_strategies/news_liquidity_sweep.py: once the       *)
(* market is quiet again after a news event, a pool that was swept since,  *)
(* the close back inside, a close beyond the candles around it with        *)
(* displacement, and an entry in the middle of that candle's body.         *)
(*                                                                         *)
(* Default configuration; one event of high impact, a normal spread, no    *)
(* swings, zones or entry models of the context.  Prices of a definition   *)
(* with a direction d are on the axis of d.  Prices are whole and the      *)
(* buffers of a sweep and a break below one, so they only make comparisons *)
(* strict.  entry2 is twice the price of an entry.  Scores are hundredths  *)
(* of the code's.                                                          *)
(***************************************************************************)
EXTENDS Candles

CONSTANTS
  News,             \* the candle that starts when the event is scheduled, not the first
  Minutes,          \* of a candle
  Pools,            \* context["liquidity_pools"]: a sequence of unswept pools
  MssWait,          \* max_mss_wait_candles
  Noise,            \* twice the spread and the slippage
  MinScore          \* minimum_setup_score, in hundredths

AtrPeriod == 14
RestrictedBefore == 30      \* high_impact_restriction_minutes_before
Active == 1                 \* active_news_minutes
Stabilization == 15         \* post_news_stabilization_minutes
Relevant == RestrictedBefore + Stabilization + 120
MinCandles == 4             \* min_candles_after_news

SinceNews(t) == (Len(t) - News) * Minutes
AfterNews(t) == News .. Len(t)
AtrOf(t) == MeanRange(t, Len(t), AtrPeriod)

\* _select_relevant_news_event, is_news_restricted_time
Restricted(t) == -SinceNews(t) \in 1 .. RestrictedBefore \/ SinceNews(t) \in 0 .. Active

\* detect_news_spike: the widest of the first two candles, the first of equals
Spike(t) ==
  LET window == News .. Smaller(Len(t), News + 1)
  IN  Min({i \in window : \A j \in window : Size(t[j]) <= Size(t[i])})

\* _count_both_side_news_ranges
BothSided(t, i) == Size(t[i]) >= 2 * AtrOf(t) /\ 100 * Body(t[i]) < 35 * Size(t[i])

\* wait_for_post_news_stabilization: minutes, candles, a normal range of the last three, and
\* fewer than two wide candles without a body
Stabilized(t) ==
  LET last == {i \in AfterNews(t) : i > Len(t) - 3}
      SizeAt(i) == Size(t[i])
  IN  /\ Cardinality(AfterNews(t)) >= MinCandles /\ SinceNews(t) >= Stabilization
      /\ 10 * MapThenSumSet(SizeAt, last) <= 18 * AtrOf(t) * Cardinality(last)
      /\ Cardinality({i \in AfterNews(t) : BothSided(t, i)}) < 2

FirstStable == News + MinCandles - 1

\* detect_post_news_liquidity_sweep: a pool with a wick beyond it since the event, whenever,
\* and the first close inside of it once the market is stable, even if that comes before.
Wicks(t, d, pool) == {i \in AfterNews(t) : Lo(d, t[i]) < PoolLo(d, pool)}
Confirmation(t, d, pool) == Earliest({i \in FirstStable .. Len(t) : Cl(d, t[i]) > PoolLo(d, pool)})

Swept(t) ==
  {e \in [dir : Directions, pool : DOMAIN Pools] :
     LET pool == Pools[e.pool]
     IN  pool.side = -e.dir /\ Wicks(t, e.dir, pool) # {} /\ Confirmation(t, e.dir, pool) # {}}

ConfirmedAt(t, e) == The(Confirmation(t, e.dir, Pools[e.pool]))

\* The one confirmed last, the first of equals; none when both sides were swept
Sweep(t) ==
  IF \E e, x \in Swept(t) : e.dir # x.dir THEN {}
  ELSE {e \in Swept(t) : \A x \in Swept(t) \ {e} : \/ ConfirmedAt(t, e) > ConfirmedAt(t, x)
                                                   \/ ConfirmedAt(t, e) = ConfirmedAt(t, x) /\ e.pool < x.pool}

\* _mss_reference_level, detect_post_news_mss
Level(t, e) ==
  LET at == ConfirmedAt(t, e)
  IN  Max({Hi(e.dir, t[i]) : i \in Larger(1, at - 5) .. at})

Shift(t, e) ==
  LET from == ConfirmedAt(t, e)
  IN  Earliest({i \in from .. Smaller(Len(t), from + MssWait) : Cl(e.dir, t[i]) > Level(t, e)})

\* _post_news_displacement, of the candle that broke the level and of no other
Displaces(t, d, i) ==
  LET atr == MeanRange(t, i - 1, AtrPeriod)
  IN  /\ With(d, t[i]) /\ BodyAtLeast(t[i], 45) /\ i # Spike(t)
      /\ 100 * Size(t[i]) >= 65 * atr /\ 10 * Size(t[i]) <= 32 * atr

\* _entry_model: the middle of the body, called retested the moment the candle has closed
Entry2(t, i) == t[i].o + t[i].c

\* _risk_plan: beyond the extreme of all the wicks so far
StopOf(t, e) == Min({Lo(e.dir, t[i]) : i \in Wicks(t, e.dir, Pools[e.pool])}) - AtrOf(t) \div 4 - Noise

\* _select_target: the farthest pool of those at least one ahead
Targets(d, entry2) ==
  LET ahead == {x \in {PoolHi(d, Pools[p]) : p \in {q \in DOMAIN Pools : Pools[q].side = d}} : 2 * x - entry2 >= 2}
  IN  IF ahead = {} THEN {} ELSE {Max(ahead)}

\* score_news_sweep_setup; 100, 130, 114, 120, 110, 87 and 90 are the restriction, the
\* stabilization, a sweep and a target of pools without a quality, the shift, the entry and the
\* costs.
Score(t, s) ==
  LET reward == 2 * s.target - s.entry2
      risk == s.entry2 - 2 * s.stop
  IN  Smaller(1000, 100 + 130 + 114 + 120 + Smaller(110, (125 * Body(t[s.at])) \div Size(t[s.at])) + 110 + 87
                    + Smaller(110, (1000 * reward) \div (22 * risk)) + 90)

\* generate_news_sweep_signal: any reason rejects; the empty set is "no trade".
Signal(t) ==
  LET sweep == The(Sweep(t))
      d == sweep.dir
      at == The(Shift(t, sweep))
      entry2 == d * Entry2(t, at)
      targets == Targets(d, entry2)
      plan == [dir |-> d, sweep |-> sweep, confirmed |-> ConfirmedAt(t, sweep), at |-> at, entry2 |-> entry2,
               stop |-> StopOf(t, sweep), target |-> The(targets)]
  IN  IF \/ Len(t) < News \/ SinceNews(t) > Relevant \/ Restricted(t) \/ ~Stabilized(t) \/ Sweep(t) = {}
         \/ Shift(t, sweep) = {} \/ ~Displaces(t, d, at) \/ targets = {}
      THEN {}
      ELSE {s \in {plan} : LET risk == s.entry2 - 2 * s.stop
                           IN  risk > 0 /\ 2 * s.target - s.entry2 >= 2 * risk /\ Score(t, s) >= MinScore}

-------------------------------------------------------------------------------
\* The pool a signal stands on has one confirmation, one shift and one entry.
EntryStays(t, later) ==
  \A s \in Signal(t), x \in Signal(later) :
    x.sweep = s.sweep => x.confirmed = s.confirmed /\ x.at = s.at /\ x.entry2 = s.entry2
===============================================================================
