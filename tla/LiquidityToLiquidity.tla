-------------------------- MODULE LiquidityToLiquidity --------------------------
(***************************************************************************)
(* src/strategy/ict_smc_strategies/liquidity_to_liquidity.py: from a pool  *)
(* that has been taken to the best one on the other side, once a closed    *)
(* candle shows the way.                                                   *)
(*                                                                         *)
(* Default configuration; a context with an entry model (the live one has  *)
(* none, so live it is never more than context), and without pools or      *)
(* structure events of its own: the pools are the tape's swings and the    *)
(* equal pairs of them.  Prices of a definition with a direction d are on  *)
(* the axis of d; the price and the height of a pool are doubled, as the   *)
(* level of a pair lies between two candles.  Scores are hundredths.       *)
(***************************************************************************)
EXTENDS Candles

CONSTANTS
  Taken,            \* context["latest_sweep_event"]: the candle and the side of the swing it took
  EntryModel,       \* context["entry_model"], valid: a record entry, stop
  Bias,             \* context["htf_bias"]: a direction, or 0
  HtfPois,          \* context["htf_pois"] of enough quality: a set of dir, lo, hi
  EqualTolerance,   \* equal_level_tolerance
  Boundary,         \* external_boundary_buffer
  MinDistance,      \* minimum_target_distance
  MaxRange,         \* max_candle_range
  Spread, Slippage, \* spread_status, slippage_points
  MinScore          \* minimum_setup_score, in hundredths

MinCandles == 8     \* min_total_candles
AtrPeriod == 14

\* detect_liquidity_pools: the swings, in the order of their candles and a high before a low, and
\* the neighbours of that order that share a side and a level
SwingPools(t) ==
  UNION {{[side |-> d, at |-> i, price2 |-> 2 * d * Hi(d, t[i]), tall2 |-> 0, quality |-> 650, equal |-> FALSE] :
            i \in SwingsOf(d, t)} : d \in Directions}

EqualPools(t) ==
  LET swings == SwingPools(t)
      Place(p) == 4 * p.at - p.side
      Neighbours(p, q) == Place(p) < Place(q) /\ \A x \in swings : Place(x) <= Place(p) \/ Place(x) >= Place(q)
      level == {x \in swings \X swings :
                  /\ Neighbours(x[1], x[2]) /\ x[1].side = x[2].side
                  /\ Abs(x[1].price2 - x[2].price2) <= 2 * EqualTolerance}
  IN  {[side |-> x[1].side, at |-> x[2].at, price2 |-> (x[1].price2 + x[2].price2) \div 2,
        tall2 |-> 2 * EqualTolerance, quality |-> 750, equal |-> TRUE] : x \in level}

PoolsOf(t) == IF Len(t) < MinCandles THEN {} ELSE SwingPools(t) \cup EqualPools(t)

\* classify_internal_external_liquidity, in the range of all the pools
External(pools, p) ==
  LET prices == {x.price2 : x \in pools}
  IN  p.price2 <= Min(prices) + 2 * Boundary \/ p.price2 >= Max(prices) - 2 * Boundary

\* _select_start_liquidity: the pool the event names; no pool of the tape is ever marked as swept.
StartPool(pools) == {p \in pools : ~p.equal /\ p.at = Taken.at /\ p.side = Taken.side}

\* _empty_path: a path without pools or a start has None for its entry model, which the scoring
\* asks for a field.
Raises(t) == StartPool(PoolsOf(t)) = {}

\* _structure_shift: the last candle alone
Shifts(t, d) ==
  LET last == t[Len(t)]
  IN  With(d, last) /\ BodyAtLeast(last, 45) /\ 2 * Size(last) >= MeanRange(t, Len(t), AtrPeriod)

\* rank_liquidity_targets, _rr_to_target, _htf_blockers_between, from the entry of the model
Price2(d, p) == d * p.price2 + p.tall2
Distance2(d, p) == Price2(d, p) - 2 * d * EntryModel.entry

Rr(d, p) ==
  LET cost2 == 2 * (Spread + Slippage)
      risk2 == Larger(0, 2 * d * (EntryModel.entry - EntryModel.stop) + cost2)
  IN  IF risk2 = 0 THEN 0 ELSE (100 * Larger(0, Distance2(d, p) - cost2)) \div risk2

Blocked(d, p) ==
  \E poi \in HtfPois : /\ poi.dir = -d /\ 2 * PoolLo(d, poi) <= Price2(d, p)
                       /\ PoolHi(d, poi) >= d * EntryModel.entry

TargetValid(d, p) ==
  /\ Distance2(d, p) > 0 /\ Distance2(d, p) >= 2 * MinDistance /\ ~Blocked(d, p) /\ Rr(d, p) >= 200
  /\ 8 * Spread <= Distance2(d, p)

TargetScore(pools, d, p) ==
  Clamp((70 * p.quality) \div 100 + (IF External(pools, p) THEN 100 ELSE 25)
            + Clamp((100 * Distance2(d, p)) \div (2 * MinDistance), 0, 200), 0, 1000)

\* The best of the valid ones: by score, quality, distance, then the one listed first
Better(pools, d, p, q) ==
  LET Key(x) == <<TargetScore(pools, d, x), x.quality, Distance2(d, x), x.side - 4 * x.at>>
      a == Key(p)
      b == Key(q)
  IN  \E i \in DOMAIN a : a[i] > b[i] /\ \A j \in 1 .. i - 1 : a[j] = b[j]

BestTarget(pools, d) ==
  LET valid == {p \in pools : p.side = d /\ TargetValid(d, p)}
  IN  {p \in valid : \A q \in valid \ {p} : Better(pools, d, p, q)}

\* determine_draw_on_liquidity, score_liquidity_to_liquidity_setup of a path without a reason
\* against it; the entry model and the bias a plain context carries count 120 and 50.
Score(pools, s) ==
  Smaller(180, s.start.quality \div 5) + Smaller(150, (700 + If(Bias = s.dir, 100)) \div 6) + 150 + 120 + 50
    + Smaller(160, TargetScore(pools, s.dir, s.target) \div 6) + If(External(pools, s.target), 70)
    + Smaller(120, (2 * Rr(s.dir, s.target)) \div 5)

\* detect_liquidity_to_liquidity_path, generate_liquidity_to_liquidity_signal: any reason makes it
\* context only; the empty set is "no trade".
Signal(t) ==
  LET pools == PoolsOf(t)
  IN  {s \in {[dir |-> -start.side, start |-> start, target |-> target, final |-> External(pools, target)] :
                start \in StartPool(pools), target \in BestTarget(pools, -Taken.side)} :
         /\ Shifts(t, s.dir) /\ Bias # -s.dir /\ \A i \in DOMAIN t : Size(t[i]) <= MaxRange
         /\ Score(pools, s) >= MinScore}

-------------------------------------------------------------------------------
\* New pools only widen the range: one that lies inside of it, and so is only worth a part of
\* the position, never becomes the final target again, and no path starts from another pool.
\* Once there is a start, the strategy answers without an exception for good.
PartialForGood(t, later) ==
  /\ \A s \in Signal(t), x \in Signal(later) : /\ x.start = s.start
                                              /\ (x.target = s.target /\ ~s.final) => ~x.final
  /\ Raises(later) => Raises(t)
===============================================================================
