---------------------------- MODULE KillzoneScalping ----------------------------
(***************************************************************************)
(* src/strategy/ict_smc_strategies/killzone_scalping.py: inside a kill     *)
(* zone, a sweep made in it on any day of the tape, a close beyond the     *)
(* candles before the sweep, a gap or an order block next to it and its    *)
(* retest.                                                                 *)
(*                                                                         *)
(* Default configuration; a context without news, structure swings, trade  *)
(* counts or a higher confirmation, and not of one-minute candles (those   *)
(* are rejected without such a confirmation).  Prices of a definition with *)
(* a direction d are on the axis of d.  The buffers of a sweep and a break *)
(* are below one unit, so they only make comparisons strict.  mid2 is      *)
(* twice the price of an entry in the middle of a zone.  Scores are        *)
(* hundredths of the code's.                                               *)
(***************************************************************************)
EXTENDS Candles

CONSTANTS
  Killzones,        \* cfg["killzones"]: a sequence of records from, to, in minutes of the day
  Start, Step,      \* the minute of the day when the first candle starts, the minutes of one
  Pools,            \* context["liquidity_pools"]: a sequence of unswept pools
  MssWait,          \* max_mss_wait_candles
  EntryWait,        \* max_entry_wait_candles
  RetestWait,       \* max_retracement_wait_candles
  MaxPoiWidth,      \* max_poi_width
  MaxRange,         \* max_candle_range
  StopBuffer,       \* stop_buffer
  MinDistance,      \* minimum_target_distance
  Spread,           \* spread_status, within max_spread
  MinScore          \* minimum_setup_score, in hundredths

AtrPeriod == 14
MinCandles == 8     \* min_total_candles
Lookback == 5       \* structure_lookback

\* is_in_killzone, _window_bounds: both ends belong to a window, and one that ends after
\* midnight is over at midnight.
MinuteOf(i) == (Start + (i - 1) * Step) % 1440
Inside(z, minute) == z.from <= minute /\ (z.to < z.from \/ minute <= z.to)

\* The first kill zone the next candle starts in
Active(t) ==
  LET zones == {z \in DOMAIN Killzones : Inside(Killzones[z], MinuteOf(Len(t) + 1))}
  IN  {Killzones[z] : z \in Earliest(zones)}

\* detect_killzone_liquidity_sweep: of all sweeps made inside the zone the best, the latest of
\* equals
Sweeps(t) ==
  {e \in [dir : Directions, pool : DOMAIN Pools, at : DOMAIN t] :
     LET edge == PoolLo(e.dir, Pools[e.pool])
     IN  /\ Pools[e.pool].side = -e.dir /\ \A z \in Active(t) : Inside(z, MinuteOf(e.at))
         /\ Lo(e.dir, t[e.at]) < edge /\ Cl(e.dir, t[e.at]) > edge}

SweepQuality(t, e) ==
  LET depth == PoolLo(e.dir, Pools[e.pool]) - Lo(e.dir, t[e.at])
  IN  Clamp(550 + 175 + (100 * depth) \div Larger(1, MeanRange(t, Len(t), AtrPeriod)), 0, 1000)

Sweep(t) ==
  LET Q(e) == SweepQuality(t, e)
  IN  {e \in Sweeps(t) : \A x \in Sweeps(t) \ {e} : \/ Q(e) > Q(x)
                                                    \/ Q(e) = Q(x) /\ e.at > x.at
                                                    \/ Q(e) = Q(x) /\ e.at = x.at /\ e.pool < x.pool}

\* detect_killzone_mss, _displacement: a wide candle with a body that closes beyond the highest
\* of the candles before the sweep; its body may be against the direction.
Level(t, d, sweep) == Max({Hi(d, t[i]) : i \in Larger(1, sweep - Lookback) .. sweep - 1})

Shift(t, d, sweep) ==
  Earliest({i \in sweep + 1 .. Smaller(Len(t), sweep + MssWait) :
              /\ sweep > 1 /\ Cl(d, t[i]) > Level(t, d, sweep)
              /\ BodyAtLeast(t[i], 55) /\ 10 * Size(t[i]) >= 8 * MeanRange(t, sweep, AtrPeriod)})

\* detect_killzone_fvg_or_ob: the gaps, from one candle before the shift on; without any the last
\* candle against d
Gaps(t, d, shift) ==
  {z \in {[kind |-> "fvg", at |-> i, lo |-> Hi(d, t[i - 2]), hi |-> Lo(d, t[i])] :
            i \in Larger(3, shift - 1) .. Smaller(Len(t), shift + EntryWait)} :
     z.hi - z.lo \in 1 .. MaxPoiWidth}

Blocks(t, d, shift) ==
  LET against == {i \in Larger(1, shift - 4) .. shift : Against(d, t[i]) /\ Size(t[i]) <= MaxPoiWidth}
  IN  {[kind |-> "block", at |-> i, lo |-> Lo(d, t[i]), hi |-> Hi(d, t[i])] :
         i \in {j \in against : \A k \in against : k <= j}}

\* The narrowest gap, the first of equals
Zone(t, d, shift) ==
  LET gaps == Gaps(t, d, shift)
      Width(z) == z.hi - z.lo
  IN  IF gaps = {} THEN Blocks(t, d, shift)
      ELSE {z \in gaps : \A x \in gaps \ {z} : Width(z) < Width(x) \/ (Width(z) = Width(x) /\ z.at < x.at)}

\* _retest_status
Retest(t, d, z) ==
  Earliest({i \in z.at + 1 .. Smaller(Len(t), z.at + RetestWait) : Lo(d, t[i]) <= z.hi /\ Hi(d, t[i]) >= z.lo})

\* _select_scalp_target: the nearest pool the last candle has not reached, if far enough
Targets(t, d) ==
  LET last == t[Len(t)]
      prices == {PoolHi(d, Pools[p]) : p \in {q \in DOMAIN Pools : Pools[q].side = d}}
      ahead == {x \in prices : x > Hi(d, last)}
  IN  {x \in ahead : /\ x = Min(ahead) /\ x - Cl(d, last) >= MinDistance
                     /\ 4 * Spread <= x - Cl(d, last)}

\* _risk_plan: in hundredths, 0 with an entry at or beyond its stop
Rr(s) ==
  LET risk == s.mid2 - 2 * s.stop
  IN  IF risk <= 0 THEN 0 ELSE (100 * (2 * s.target - s.mid2)) \div risk

\* score_killzone_scalp_setup of a setup that lacks nothing
Score(t, s) ==
  100 + Smaller(160, SweepQuality(t, s.sweep) \div 6) + 200 + (IF s.zone.kind = "fvg" THEN 150 ELSE 110)
      + 100 + Smaller(120, Rr(s) \div 3)

\* generate_killzone_scalp_signal: any reason rejects; the empty set is "no trade".
Signal(t) ==
  LET sweep == The(Sweep(t))
      d == sweep.dir
      shift == The(Shift(t, d, sweep.at))
      zone == The(Zone(t, d, shift))
      plan == [dir |-> d, sweep |-> sweep, shift |-> shift, zone |-> zone, at |-> The(Retest(t, d, zone)),
               mid2 |-> zone.lo + zone.hi, stop |-> Lo(d, t[sweep.at]) - StopBuffer, target |-> The(Targets(t, d))]
  IN  IF \/ Len(t) < MinCandles \/ Active(t) = {} \/ \E i \in DOMAIN t : Size(t[i]) > MaxRange
         \/ Sweep(t) = {} \/ Shift(t, d, sweep.at) = {} \/ Zone(t, d, shift) = {}
         \/ Retest(t, d, zone) = {} \/ Targets(t, d) = {}
      THEN {}
      ELSE {s \in {plan} : Rr(s) >= 140 /\ Score(t, s) >= MinScore}

-------------------------------------------------------------------------------
\* One sweep has one shift and one stop, and the same zone the same entry.
PlanStays(t, later) ==
  \A s \in Signal(t), x \in Signal(later) :
    x.sweep = s.sweep =>
      /\ x.shift = s.shift /\ x.stop = s.stop
      /\ x.zone = s.zone => x.at = s.at /\ x.mid2 = s.mid2
===============================================================================
