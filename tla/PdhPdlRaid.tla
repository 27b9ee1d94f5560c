------------------------------- MODULE PdhPdlRaid -------------------------------
(***************************************************************************)
(* src/strategy/ict_smc_strategies/pdh_pdl_raid.py: a raid of the previous *)
(* day's low (direction 1) or high (-1), the close back inside, a close    *)
(* beyond everything since the raid with displacement, the zone it leaves  *)
(* and its first retest.                                                   *)
(*                                                                         *)
(* Default configuration; a context without restrictions or bias.  Prices  *)
(* of a definition with a direction d are on the axis of d.  Prices are    *)
(* whole and the buffers below one, so they only make comparisons strict.  *)
(* Scores are hundredths of the code's.                                    *)
(***************************************************************************)
EXTENDS Candles

CONSTANTS
  Pdh, Pdl,         \* previous_day_levels
  Pools,            \* context["liquidity_pools"]: a sequence of unswept pools, each a price
  MaxReclaim,       \* max_reclaim_candles
  MssWait,          \* max_mss_wait_candles
  EntryWait,        \* max_entry_wait_candles
  MaxWidth,         \* max_poi_width
  Spread,           \* spread_points * spread_point_value
  MinScore          \* minimum_setup_score, in hundredths

AtrPeriod == 14

\* The level a setup of d raids, and the one on the other side
Raided(d) == IF d = 1 THEN Pdl ELSE -Pdh
Opposite(d) == IF d = 1 THEN Pdh ELSE -Pdl

\* detect_pdh_pdl_raid: every wick beyond a level; with both levels raided there is no direction.
Raids(t) == {r \in [dir : Directions, at : DOMAIN t] : Lo(r.dir, t[r.at]) < Raided(r.dir)}
Depth(t, r) == Raided(r.dir) - Lo(r.dir, t[r.at])
Normal(t, r) == 2 * Depth(t, r) <= 7 * MeanRange(t, r.at, AtrPeriod)

Raid(t) ==
  LET normal == {r \in Raids(t) : Normal(t, r)}
  IN  IF \E r, x \in Raids(t) : r.dir # x.dir THEN {}
      ELSE {r \in normal : \A x \in normal : r.at <= x.at}

RaidQuality(t, r) ==
  Clamp(600 + Smaller(250, (200 * Depth(t, r)) \div Larger(1, MeanRange(t, r.at, AtrPeriod)))
            + If(~BodyAtLeast(t[r.at], 45), 60), 0, 1000)

\* detect_reclaim_or_rejection: the first close back inside, unless two closes beyond the level
\* come first and make the raid a breakout.
Reclaimed(t, r) ==
  LET waited == r.at .. Smaller(Len(t), r.at + MaxReclaim)
      back == {i \in waited : Cl(r.dir, t[i]) > Raided(r.dir)}
      accepted == {i \in waited : i < Len(t) /\ Cl(r.dir, t[i]) < Raided(r.dir) /\ Cl(r.dir, t[i + 1]) < Raided(r.dir)}
  IN  {i \in back : (\A j \in back : i <= j) /\ \A j \in accepted : i < j}

ReclaimQuality(t, d, i) ==
  Clamp(650 + (300 * (Cl(d, t[i]) - Lo(d, t[i]))) \div Larger(1, Size(t[i])), 0, 1000)

\* detect_post_raid_mss: a displacement candle that closes beyond all since the raid
Displaces(t, d, i) ==
  /\ With(d, t[i]) /\ BodyAtLeast(t[i], 55) /\ ClosesAtLeast(d, t[i], 62)
  /\ 100 * Size(t[i]) >= 65 * MeanRange(t, i, AtrPeriod)

Shift(t, r, reclaim) ==
  LET d == r.dir
      Level(i) == Max({Hi(d, t[j]) : j \in r.at .. i - 1})
      shifts == {i \in reclaim + 1 .. Smaller(Len(t), reclaim + 1 + MssWait) :
                   Cl(d, t[i]) > Level(i) /\ Displaces(t, d, i)}
  IN  {i \in shifts : \A j \in shifts : i <= j}

ShiftQuality(t, i) ==
  650 + Smaller(250, (100 * Size(t[i])) \div Larger(1, MeanRange(t, i, AtrPeriod)))

\* detect_post_raid_fvg_or_ob: the gap at the shift, or else the last candle against it
Zone(t, d, i) ==
  LET against == {j \in Larger(1, i - 6) .. i - 1 : Against(d, t[j])}
      block == Max(against)
      zone == IF i >= 3 /\ Hi(d, t[i - 2]) < Lo(d, t[i])
              THEN {[lo |-> Hi(d, t[i - 2]), hi |-> Lo(d, t[i]), quality |-> 850]}
              ELSE IF against = {} THEN {}
              ELSE {[lo |-> Lo(d, t[block]), hi |-> Hi(d, t[block]), quality |-> 780]}
  IN  {z \in zone : z.lo < z.hi /\ z.hi - z.lo <= MaxWidth}

\* _find_retest: the first candle to touch the zone; without a reaction it is no entry, and no
\* later one is looked at.
Retest(t, d, i, z) ==
  LET touches == {j \in i + 1 .. Smaller(Len(t), i + 1 + EntryWait) : Lo(d, t[j]) <= z.hi /\ Hi(d, t[j]) >= z.lo}
  IN  {j \in touches : (\A x \in touches : j <= x) /\ Cl(d, t[j]) > z.lo}

\* _select_target: the farthest pool ahead, and the other level only when there is none
Targets(d, entry) ==
  LET pools == {d * Pools[p].price : p \in {q \in DOMAIN Pools : Pools[q].side = d}}
      ahead == {x \in pools : x > entry}
  IN  IF ahead # {} THEN {Max(ahead)} ELSE {Opposite(d)} \cap {x \in {Opposite(d)} : x > entry}

\* _risk: below the raid, with the noise of the latest candles
StopOf(t, r) == Lo(r.dir, t[r.at]) - (8 * MeanRange(t, Len(t), AtrPeriod)) \div 100 - Spread

\* score_pdh_pdl_raid_setup; the level, the bias, the safety and the session of a plain context
\* count 850, 850, 900 and 800.
Score(t, s) ==
  LET rr == Smaller(1000, (400 * (s.target - s.entry)) \div Abs(s.entry - s.stop))
  IN  (  8 * 850 + 11 * RaidQuality(t, s.raid) + 10 * ReclaimQuality(t, s.dir, s.reclaim)
       + 23 * ShiftQuality(t, s.shift) + 9 * s.zone.quality + 7 * 850 + 10 * rr + 9 * 900 + 7 * 800 ) \div 94

\* generate_pdh_pdl_raid_signal: the empty set is "no trade".
Signal(t) ==
  LET raid == The(Raid(t))
      d == raid.dir
      reclaim == The(Reclaimed(t, raid))
      shift == The(Shift(t, raid, reclaim))
      zone == The(Zone(t, d, shift))
      at == The(Retest(t, d, shift, zone))
      targets == Targets(d, Cl(d, t[at]))
      plan == [dir |-> d, raid |-> raid, reclaim |-> reclaim, shift |-> shift, zone |-> zone, at |-> at,
               entry |-> Cl(d, t[at]), stop |-> StopOf(t, raid), target |-> The(targets)]
  IN  IF \/ Len(t) < 8 \/ Raid(t) = {} \/ Reclaimed(t, raid) = {} \/ Shift(t, raid, reclaim) = {}
         \/ Zone(t, d, shift) = {} \/ Retest(t, d, shift, zone) = {} \/ targets = {}
      THEN {}
      ELSE {s \in {plan} : /\ s.entry # s.stop /\ s.target - s.entry >= 2 * Abs(s.entry - s.stop)
                           /\ Score(t, s) >= MinScore}

-------------------------------------------------------------------------------
\* One raid has one entry: what closes later may end the signal, but moves neither its zone
\* nor its entry.
EntryStays(t, later) ==
  \A s \in Signal(t), x \in Signal(later) :
    x.raid = s.raid => x.at = s.at /\ x.entry = s.entry /\ x.zone = s.zone
===============================================================================
