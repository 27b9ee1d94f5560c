-------------------------------- MODULE PriceGaps --------------------------------
(***************************************************************************)
(* analytics/ict_smc/fair_value_gap.py and imbalance.py: the gaps between  *)
(* candles, the bodies and runs of candles that leave an imbalance, how    *)
(* far later candles fill them, and whether an entry on one is allowed.    *)
(*                                                                         *)
(* Default parameters.  Prices of a zone are on the axis of its direction. *)
(* The invalidation buffer (0.05) is below one unit, so it only makes a    *)
(* comparison strict.  Scores are hundredths.                              *)
(***************************************************************************)
EXTENDS Candles

CONSTANTS
  Structures,       \* structure_events: a set of dir, at
  Sweeps,           \* liquidity_sweeps, by the direction they are good for: a set of dir, at
  Zones,            \* order_blocks and poi_zones: a set of dir, lo, hi, on the axis of dir
  GapZones,         \* fvg_events of imbalance.py, likewise
  Location,         \* context["premium_discount_location"]: the direction it is good for, or 0
  Bias,             \* context["htf_bias"]: a direction, or 0 when there is none
  Stale             \* stale_after_bars

AtrPeriod == 14

\* _displacement_snapshot: what the two files ask of a candle, in per cent.  A "very strong" one
\* counts as a strong one.
OfGap == [body |-> 55, size |-> 100]
OfImbalance == [body |-> 60, size |-> 125]

AtrAt(t, i) == Atr(UpTo(t, i), AtrPeriod)

Strength(rule, t, d, i) ==
  LET k == t[i]
      Wide(pct) == 100 * Size(k) >= pct * AtrAt(t, i)
      full == With(d, k) /\ BodyAtLeast(k, rule.body) /\ ClosesAtLeast(d, k, 70)
  IN  CASE full /\ Wide((3 * rule.size) \div 2) -> "strong"
        [] full /\ Wide(rule.size) -> "moderate"
        [] With(d, k) /\ 400 * Body(k) >= 3 * rule.body * Size(k) -> "weak"
        [] OTHER -> "none"

\* detect_fvg: three candles, of which the first and the last do not meet; by is the candle
\* that made the zone.
Gaps(t) ==
  {z \in {[kind |-> "fvg", dir |-> d, at |-> i, by |-> i - 1, lo |-> Hi(d, t[i - 2]), hi |-> Lo(d, t[i])] :
            d \in Directions, i \in 3 .. Len(t)} : z.lo < z.hi}

\* _detect_displacement_zones: the body of a candle that is not in the middle of a gap
Bodies(t) ==
  {[kind |-> "body", dir |-> x[1], at |-> x[2], by |-> x[2], lo |-> Op(x[1], t[x[2]]), hi |-> Cl(x[1], t[x[2]])] :
     x \in {y \in Directions \X (2 .. Len(t)) :
              /\ Strength(OfImbalance, t, y[1], y[2]) \in {"strong", "moderate"}
              /\ \A z \in Gaps(t) : z.dir # y[1] \/ z.by # y[2]}}

\* _has_matching_structure, _has_matching_sweep: one of d, not after candle i
Matching(events, d, i) == \E e \in events : e.dir = d /\ e.at <= i

\* _has_zone_overlap
Overlaps(z, zones) == \E x \in zones : x.dir = z.dir /\ Larger(x.lo, z.lo) <= Smaller(x.hi, z.hi)

\* _detect_multi_candle_zones: two to five candles that run, but none of the last five starts one
Run(t, d, first, last) ==
  LET with == {i \in first .. last : With(d, t[i])}
      held == {i \in first + 1 .. last : Cl(d, t[i]) >= Cl(d, t[i - 1])}
  IN  /\ Cardinality(with) >= Larger(2, last - first) /\ Cardinality(held) >= last - first - 1
      /\ Cl(d, t[last]) > Cl(d, t[first])
      /\ 4 * Abs(t[last].c - t[first].o) >= 7 * AtrAt(t, last)

RunZone(t, d, first, last) ==
  [kind |-> "run", dir |-> d, at |-> last, by |-> last,
   lo |-> Min({Smaller(Op(d, t[i]), Cl(d, t[i])) : i \in first .. last}),
   hi |-> Max({Larger(Op(d, t[i]), Cl(d, t[i])) : i \in first .. last})]

Runs(t) ==
  {z \in {RunZone(t, x[1], x[2], x[2] + x[3]) :
            x \in {y \in Directions \X (1 .. Len(t) - 5) \X (1 .. 4) : Run(t, y[1], y[2], y[2] + y[3])}} :
     Matching(Structures, z.dir, z.at) \/ Matching(Sweeps, z.dir, z.at) \/ Overlaps(z, GapZones)}

\* detect_imbalances
Imbalances(t) == Gaps(t) \cup Bodies(t) \cup Runs(t)

\* _fill_status, _track_fill: the candles after the zone that reach it, the first close through
\* it, which ends the search, and the closes back with the direction
Through(t, z) == Earliest({i \in z.at + 1 .. Len(t) : Cl(z.dir, t[i]) < z.lo})
Touches(t, z) == {i \in z.at + 1 .. Len(t) : Lo(z.dir, t[i]) <= z.hi}
Deepest(t, z) == Min({Lo(z.dir, t[i]) : i \in Touches(t, z)})

\* A close back with the direction beyond the middle, or for an imbalance at it
Reactions(t, z, least) ==
  {i \in Touches(t, z) : With(z.dir, t[i]) /\ 2 * Cl(z.dir, t[i]) - z.lo - z.hi >= least}

FillOf(t, z) ==
  CASE Touches(t, z) # {} /\ Deepest(t, z) <= z.lo -> "full"
    [] Touches(t, z) # {} /\ Deepest(t, z) \in z.lo + 1 .. z.hi - 1 -> "part"
    [] OTHER -> IF Len(t) - z.at > Stale THEN "stale" ELSE "untouched"

\* A gap is respected while its last touch is, an imbalance once one touch was.
GapStatus(t, z) ==
  LET reactions == Reactions(t, z, 1)
  IN  IF Through(t, z) # {} THEN "invalidated"
      ELSE IF reactions # {} /\ Max(reactions) = Max(Touches(t, z)) THEN "respected" ELSE FillOf(t, z)

ImbalanceStatus(t, z) ==
  IF Through(t, z) # {} THEN "invalidated"
  ELSE IF Reactions(t, z, 0) # {} THEN "respected" ELSE FillOf(t, z)

\* _premium_discount_alignment, _htf_alignment, _target_reference (which
\* always finds one): what the context adds, the same in both files
FromContext(z, zones) ==
    If(Matching(Structures, z.dir, z.at), 150) + If(Matching(Sweeps, z.dir, z.at), 100)
  + If(Overlaps(z, zones), 75) + If(Location = z.dir, 75) + 75 * z.dir * Bias - If(Bias = -z.dir, 25) + 75

\* _quality_score of each file: the sum, and the lowest cap
GapScore(t, z) ==
  LET strength == Strength(OfGap, t, z.dir, z.by)
      size == z.hi - z.lo
      atr == AtrAt(t, z.by)
      status == GapStatus(t, z)
      sum == 200 + FromContext(z, Zones) + If(status = "respected", 100)
             + (CASE strength = "strong" -> 200 [] strength = "moderate" -> 125 [] strength = "weak" -> 50 [] OTHER -> 0)
             + (CASE 100 * size < 5 * atr -> -100 [] size > 2 * atr -> -50 [] OTHER -> 75)
  IN  Clamp(sum, 0, Min({1000} \cup {x \in {600} : strength = "none"} \cup {x \in {300} : status = "invalidated"}))

ImbalanceScore(t, z) ==
  LET strength == Strength(OfImbalance, t, z.dir, z.by)
      size == z.hi - z.lo
      atr == AtrAt(t, z.by)
      status == ImbalanceStatus(t, z)
      confluence == z.kind = "fvg" \/ Overlaps(z, GapZones)
      sum == (IF z.kind = "fvg" THEN 250 + 75 ELSE 150) + If(confluence, 50) + FromContext(z, Zones \cup GapZones)
             + (CASE strength = "strong" -> 200 [] strength = "moderate" -> 150 [] strength = "weak" -> 50 [] OTHER -> 0)
             + (CASE 100 * size < 5 * atr -> -100 [] 2 * size > 5 * atr -> -50 [] OTHER -> 75)
             + (CASE status = "respected" -> 100 [] status \in {"untouched", "stale"} -> 50 [] OTHER -> 0)
      caps == {x \in {550} : strength = "none"} \cup {x \in {600} : ~confluence \/ status = "full"}
              \cup {x \in {650} : ~Matching(Structures, z.dir, z.at)} \cup {x \in {300} : status = "invalidated"}
  IN  Clamp(sum, 0, Min({1000} \cup caps))

\* entry_allowed_after_reaction of each file
GapEntryAllowed(t, z) == Reactions(t, z, 1) # {} /\ Through(t, z) = {} /\ GapScore(t, z) >= 600
ImbalanceEntryAllowed(t, z) == ImbalanceStatus(t, z) = "respected" /\ ImbalanceScore(t, z) >= 700

-------------------------------------------------------------------------------
\* A gap, what its middle candle was and where it was closed through are settled when it is
\* made and when it happens; it stays filled as far as it was.
GapsStay(t, later) ==
  \A z \in Gaps(t) :
    /\ z \in Gaps(later) /\ Strength(OfGap, later, z.dir, z.by) = Strength(OfGap, t, z.dir, z.by)
    /\ Through(t, z) # {} => Through(later, z) = Through(t, z)
    /\ FillOf(t, z) = "full" => FillOf(later, z) = "full"

\* An imbalance that may be traded may be traded until a candle closes through it; no later
\* candle turns its body into the middle of a gap any more.
AllowedUntilThrough(t, later) ==
  \A z \in Imbalances(t) :
    ImbalanceEntryAllowed(t, z) =>
      z \in Imbalances(later) /\ (ImbalanceEntryAllowed(later, z) \/ Through(later, z) # {})
===============================================================================
