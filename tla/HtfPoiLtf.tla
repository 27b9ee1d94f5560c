-------------------------------- MODULE HtfPoiLtf --------------------------------
(***************************************************************************)
(* src/strategy/ict_smc_strategies/htf_poi_ltf_confirmation.py: zones of   *)
(* a higher timeframe; in each of them a sweep, a close beyond a swing,    *)
(* displacement, a gap or an order block to enter from; and of what all    *)
(* the zones have come to the one with the best score.                     *)
(*                                                                         *)
(* Default configuration; a context without restrictions, structure events *)
(* or zones of its own.  Prices of a definition with a direction d are on  *)
(* the axis of d.  The buffers of a sweep and a break are below one unit,  *)
(* so they only make comparisons strict.  mid2 is twice the price of an    *)
(* entry in the middle of a zone.  Scores are hundredths of the code's.    *)
(***************************************************************************)
EXTENDS Candles

CONSTANTS
  Htf,              \* context["htf_candles"]: the tape of the higher timeframe
  Bias,             \* context["htf_bias"]: a direction, or 0
  Pools,            \* context["ltf_liquidity_pools"]: a sequence of unswept pools
  Targets,          \* context["htf_liquidity_targets"]: likewise
  Swings,           \* context["ltf_swings"]: a set, empty if the tape's own are to be used
  MaxPoiWidth,      \* max_htf_poi_width
  MaxEntryWidth,    \* max_ltf_entry_poi_width
  MssWait,          \* max_mss_wait_candles
  DisplacementWait, \* max_displacement_wait_candles
  EntryScan,        \* max_entry_scan_candles
  MinDistance,      \* minimum_target_distance
  Spread,           \* spread_status, times its multiplier
  MinScore          \* minimum_setup_score, in hundredths

AtrPeriod == 5
AtrOf(t) == MeanRange(t, Len(t), AtrPeriod)

Touches(d, k, zone) == Lo(d, k) <= zone.hi /\ Hi(d, k) >= zone.lo

\* _detect_fvgs, _detect_supply_demand: the zones of d of the higher timeframe.  base is the
\* quality they are made with, _htf_quality what a fresh one comes to.
HtfGaps(d) ==
  {[dir |-> d, kind |-> "fvg", at |-> i, lo |-> Hi(d, Htf[i - 2]), hi |-> Lo(d, Htf[i]), base |-> 740 + 50] :
     i \in {j \in 3 .. Len(Htf) : Hi(d, Htf[j - 2]) < Lo(d, Htf[j])}}

HtfDepartures(d) ==
  {[dir |-> d, kind |-> "zone", at |-> i, lo |-> Lo(d, Htf[i]), hi |-> Op(d, Htf[i]), base |-> 680] :
     i \in {j \in 1 .. Len(Htf) - 1 : /\ Against(d, Htf[j]) /\ With(d, Htf[j + 1])
                                      /\ 10 * Size(Htf[j + 1]) >= 14 * AtrOf(Htf)}}

TooWide(poi) == poi.hi - poi.lo > MaxPoiWidth
HtfQuality(poi) == poi.base + 60 - If(TooWide(poi), 120)

\* detect_htf_poi_zones, map_htf_poi_to_ltf: those the last higher close has not gone through
Pois ==
  {poi \in UNION {HtfGaps(d) \cup HtfDepartures(d) : d \in Directions} : Cl(poi.dir, Htf[Len(Htf)]) >= poi.lo}

\* detect_ltf_sweep_inside_htf_poi: of all sweeps by candles that touch the zone the best, the
\* latest of equals
Sweeps(t, poi) ==
  {e \in [pool : DOMAIN Pools, at : DOMAIN t] :
     LET edge == PoolLo(poi.dir, Pools[e.pool])
     IN  /\ Pools[e.pool].side = -poi.dir /\ Touches(poi.dir, t[e.at], poi)
         /\ Lo(poi.dir, t[e.at]) < edge /\ Cl(poi.dir, t[e.at]) > edge}

SweepQuality(t, d, e) ==
  LET depth == PoolLo(d, Pools[e.pool]) - Lo(d, t[e.at])
  IN  Clamp(680 + Smaller(200, (100 * depth) \div Larger(1, AtrOf(t)))
                + (100 * Body(t[e.at])) \div Larger(1, Size(t[e.at])), 0, 1000)

Sweep(t, poi) ==
  LET Q(e) == SweepQuality(t, poi.dir, e)
  IN  {e \in Sweeps(t, poi) :
         \A x \in Sweeps(t, poi) \ {e} : \/ Q(e) > Q(x)
                                         \/ Q(e) = Q(x) /\ e.at > x.at
                                         \/ Q(e) = Q(x) /\ e.at = x.at /\ e.pool < x.pool}

\* detect_ltf_mss_inside_htf_poi: of the first swing after the sweep that is broken in time the
\* first break, wherever it is
Breaking(t, d, sweep, s) == {i \in s.at + 1 .. Smaller(Len(t), sweep + MssWait) : Cl(d, t[i]) > s.price}

Shift(t, d, sweep) ==
  LET broken == {s \in SwingLevels(Swings, d, t) :
                   s.at \in sweep + 1 .. sweep + MssWait /\ Breaking(t, d, sweep, s) # {}}
  IN  {Min(Breaking(t, d, sweep, s)) : s \in {x \in broken : \A y \in broken : x.at <= y.at}}

ShiftQuality(t, i) == Clamp(700 + (180 * Body(t[i])) \div Larger(1, Size(t[i])), 0, 1000)

\* _displacement, from the shift on
Displacement(t, d, from) ==
  Earliest({i \in from .. Smaller(Len(t), from + DisplacementWait) :
              /\ With(d, t[i]) /\ BodyAtLeast(t[i], 45) /\ ClosesAtLeast(d, t[i], 60)
              /\ 100 * Size(t[i]) >= 65 * AtrOf(t)})

DisplacementStrength(t, i) ==
  LET unit == Larger(1, AtrOf(t))
  IN  Clamp(650 + (170 * Body(t[i])) \div Size(t[i]) + (70 * Smaller(3 * unit, Size(t[i]))) \div unit, 0, 1000)

\* _entry_fvgs, _entry_obs, _entry: the gaps from the displacement on, and the last candle
\* against d before it
EntryZones(t, d, disp) ==
  LET gaps == {i \in Larger(3, disp) .. Smaller(Len(t), disp + EntryScan) : Hi(d, t[i - 2]) < Lo(d, t[i])}
      block == {i \in 1 .. disp - 1 : Against(d, t[i]) /\ \A j \in i + 1 .. disp - 1 : ~Against(d, t[j])}
  IN  {z \in {[kind |-> "fvg", at |-> i, lo |-> Hi(d, t[i - 2]), hi |-> Lo(d, t[i])] : i \in gaps}
                \cup {[kind |-> "block", at |-> i, lo |-> Lo(d, t[i]), hi |-> Hi(d, t[i])] : i \in block} :
         z.hi - z.lo \in 1 .. MaxEntryWidth}

Retest(t, d, z) == Earliest({i \in z.at + 1 .. Len(t) : Touches(d, t[i], z)})
Reacts(t, d, z) == \E i \in Retest(t, d, z) : 2 * Cl(d, t[i]) > z.lo + z.hi

EntryQuality(t, poi, z) ==
  700 + If(z.lo <= poi.hi /\ z.hi >= poi.lo, 100) + If(Retest(t, poi.dir, z) # {}, 80)
      + If(Reacts(t, poi.dir, z), 70)

\* detect_ltf_fvg_or_ob_entry: the best of them, the first of equals, gaps before the block
Entry(t, poi, disp) ==
  LET zones == EntryZones(t, poi.dir, disp)
      Q(z) == EntryQuality(t, poi, z)
      Earlier(z, x) == z.kind = "fvg" /\ (x.kind = "block" \/ z.at < x.at)
  IN  {z \in zones : \A x \in zones \ {z} : Q(z) > Q(x) \/ (Q(z) = Q(x) /\ Earlier(z, x))}

\* _target: the nearest pool that is far enough ahead
Target(d, mid2) ==
  LET prices == {PoolHi(d, Targets[p]) : p \in {q \in DOMAIN Targets : Targets[q].side = d}}
      ahead == {x \in prices : 2 * x > mid2 + 2 * MinDistance}
  IN  IF ahead = {} THEN {} ELSE {Min(ahead)}

\* generate_htf_poi_ltf_confirmation_signal, one turn of its loop: what a zone has come to.
\* Each step is a set, empty from the first one that is missing.
Setup(t, poi) ==
  LET d == poi.dir
      sweep == Sweep(t, poi)
      shift == UNION {Shift(t, d, e.at) : e \in sweep}
      disp == UNION {Displacement(t, d, i) : i \in shift}
      entry == UNION {Entry(t, poi, i) : i \in disp}
      target == UNION {Target(d, z.lo + z.hi) : z \in entry}
  IN  [poi |-> poi, sweep |-> sweep, shift |-> shift, disp |-> disp, entry |-> entry, target |-> target,
       retest |-> UNION {Retest(t, d, z) : z \in entry}]

\* _risk: in hundredths, 0 without a target or with an entry beyond its stop
StopOf(t, s) == Lo(s.poi.dir, t[The(s.sweep).at]) - AtrOf(t) \div 20 - Spread
Mid2(s) == The(s.entry).lo + The(s.entry).hi

Rr(t, s) ==
  LET risk == Mid2(s) - 2 * StopOf(t, s)
  IN  IF s.target = {} \/ risk <= 0 THEN 0 ELSE (100 * (2 * The(s.target) - Mid2(s))) \div risk

\* score_htf_poi_ltf_setup; the price location, the safety and the nested zones of a plain
\* context count 650, 900 and 700.
Score(t, s) ==
  LET d == s.poi.dir
  IN  (  11 * HtfQuality(s.poi) + 9 * (650 + If(Bias = d, 180)) + 9 * 900 + 8 * 700
       + If(\E i \in DOMAIN t : Touches(d, t[i], s.poi), 9 * 850)
       + If(s.sweep # {}, 11 * SweepQuality(t, d, The(s.sweep)))
       + If(s.shift # {}, 11 * ShiftQuality(t, The(s.shift)))
       + If(s.disp # {}, 10 * DisplacementStrength(t, The(s.disp)))
       + If(s.entry # {}, 10 * EntryQuality(t, s.poi, The(s.entry)))
       + If(s.target # {}, 12 * Clamp(550 + Smaller(Rr(t, s), 500), 0, 1000)) ) \div 100

\* The hard filters: neither a retest of the entry nor its reaction is among them.
Tradeable(t, s) ==
  /\ s.target # {} /\ Rr(t, s) >= 200 /\ ~TooWide(s.poi) /\ Bias # -s.poi.dir
  /\ Score(t, s) >= MinScore

\* The one with the best score, tradeable or not; the empty set is "no trade".
Before(p, q) ==
  \/ HtfQuality(p) > HtfQuality(q)
  \/ /\ HtfQuality(p) = HtfQuality(q)
     /\ p.at < q.at \/ (p.at = q.at /\ p.dir = 1)

Signal(t) ==
  LET setups == {Setup(t, poi) : poi \in Pois}
      Beats(s, x) == \/ Score(t, s) > Score(t, x)
                     \/ Score(t, s) = Score(t, x) /\ Rr(t, s) > Rr(t, x)
                     \/ Score(t, s) = Score(t, x) /\ Rr(t, s) = Rr(t, x) /\ Before(s.poi, x.poi)
  IN  IF t = <<>> THEN {}
      ELSE {s \in setups : Tradeable(t, s) /\ \A x \in setups \ {s} : Beats(s, x)}

-------------------------------------------------------------------------------
\* Another zone to enter from replaces the one of a setup only if the later candles made it no
\* worse, and an entry keeps the candle that retested it.
EntryOnlyImproves(t, later) ==
  \A s \in Signal(t), x \in Signal(later) :
    (x.poi = s.poi /\ x.sweep = s.sweep /\ x.disp = s.disp) =>
      LET Q(u, y) == EntryQuality(u, y.poi, The(y.entry))
      IN  IF x.entry = s.entry THEN s.retest \subseteq x.retest /\ Q(later, x) >= Q(t, s)
          ELSE Q(later, x) >= Q(t, s)
===============================================================================
