------------------------------- MODULE PriceBlocks -------------------------------
(***************************************************************************)
(* analytics/ict_smc/order_block.py, bullish_order_block.py and its mirror *)
(* bearish_order_block.py, breaker_block.py and mitigation_block.py: the   *)
(* last candle against a structure event, what becomes of its range        *)
(* afterwards, and the retests that allow an entry.                        *)
(*                                                                         *)
(* Default configuration; close-confirmed events, and no events of a lower *)
(* time frame.  Prices of a block are on the axis of its direction; a      *)
(* breaker works on the opposite one.  Scores are hundredths.              *)
(***************************************************************************)
EXTENDS Candles

CONSTANTS
  Events,           \* bos_events, mss_events: a set of dir, at, type, strength
  Sweeps,           \* liquidity_sweeps, by the direction they are good for: a set of dir, at
  Fvgs,             \* fvg_events of the mitigation blocks: a set of dir, at, lo, hi
  Zones,            \* order_blocks and poi_zones of theirs: a set of dir, lo, hi
  Equilibrium,      \* premium_discount_context["equilibrium"]
  Location,         \* context["premium_discount_location"]: the direction it is good for, or 0
  Bias,             \* the higher time frame's direction, or 0
  Buffer,           \* break_buffer and invalidation_buffer
  StopBuffer,       \* risk_settings["stop_buffer"]
  Narrow,           \* the height of an efficient breaker zone (5.0)
  Target            \* target_liquidity by direction, on its axis

AtrPeriod == 14
Lookback == 12      \* max_ob_lookback, max_lookback_bars

AtrAt(t, i) == Atr(UpTo(t, i), AtrPeriod)
Known(events, t) == {e \in events : e.at <= Len(t)}

\* _is_directional_displacement; _displacement_snapshot of a breaker is the same question
Displaces(t, d, i) ==
  LET k == t[i]
  IN  With(d, k) /\ BodyAtLeast(k, 55) /\ Size(k) >= AtrAt(t, i) /\ ClosesAtLeast(d, k, 70)

\* _find_displacement_start, _find_last_opposite_candle
Start(t, e) ==
  LET found == Earliest({i \in Larger(1, e.at - Lookback) .. e.at : Displaces(t, e.dir, i)})
  IN  IF found = {} THEN e.at ELSE The(found)

LastAgainst(t, d, i) == {j \in Larger(1, i - Lookback) .. i - 1 : Against(d, t[j])}

\* _build_order_block, with the zone of the whole candle; start is the displacement.
Block(t, e, at, start) ==
  [event |-> e, dir |-> e.dir, at |-> at, start |-> start, lo |-> Lo(e.dir, t[at]), hi |-> Hi(e.dir, t[at])]

OfEvents(t) ==
  {b \in {Block(t, e, Max(LastAgainst(t, e.dir, Start(t, e))), Start(t, e)) :
            e \in {x \in Known(Events, t) : LastAgainst(t, x.dir, Start(t, x)) # {}}} :
     b.event.at - b.at \in 1 .. 20}

\* _weak_candidates: only while no event has a block; the first turn without a displacement
Weak(t) ==
  LET turns == {i \in 2 .. Len(t) : \E d \in Directions :
                  Against(d, t[i - 1]) /\ With(d, t[i]) /\ ~Displaces(t, d, i)}
  IN  {Block(t, [dir |-> IF With(1, t[i]) THEN 1 ELSE -1, at |-> i, type |-> "none", strength |-> "none"], i - 1, i) :
         i \in Earliest(turns)}

\* _mitigation_and_failure: the first close through the block, the touches until then
Failure(t, b) == Earliest({i \in b.event.at + 1 .. Len(t) : Cl(b.dir, t[i]) < b.lo})

Taps(t, b) ==
  {i \in b.event.at + 1 .. Len(t) : /\ Lo(b.dir, t[i]) <= b.hi
                                    /\ \A f \in Failure(t, b) : i < f}

Freshness(t, b) ==
  LET taps == Taps(t, b)
      low == Lo(b.dir, t[Max(taps)])
  IN  CASE Failure(t, b) # {} -> "failed"
        [] Failure(t, b) = {} /\ taps = {} -> "fresh"
        [] Failure(t, b) = {} /\ Cardinality(taps) >= 3 -> "stale"
        [] OTHER -> IF low <= b.lo THEN "fully_mitigated_but_not_failed"
                    ELSE IF 2 * low <= b.lo + b.hi THEN "partially_mitigated" ELSE "touched"

\* _fvg_context, _liquidity_context, _premium_discount
LeavesGap(t, b) ==
  \E i \in Larger(3, b.at + 1) .. Smaller(Len(t), b.event.at + 2) : Hi(b.dir, t[i - 2]) < Lo(b.dir, t[i])

AfterSweep(t, b) ==
  b.event.type # "none" /\ \E s \in Known(Sweeps, t) : s.dir = b.dir /\ s.at \in b.at - 10 .. b.event.at

GoodFor(d, b) ==
  LET middle2 == b.dir * (b.lo + b.hi)
  IN  IF d = 1 THEN middle2 < 2 * Equilibrium ELSE middle2 >= 2 * Equilibrium

\* _quality_score
Quality(t, b) ==
  LET fresh == Freshness(t, b)
      present == Displaces(t, b.dir, b.start)
      atr == AtrAt(t, b.start)
      size == b.hi - b.lo
      strong == \/ b.event.strength = "strong"
                \/ b.event.strength \in {"unknown", "none"} /\ present /\ 2 * Size(t[b.start]) >= 3 * atr
      worth == [fresh |-> 100, touched |-> 50, partially_mitigated |-> 25,
                fully_mitigated_but_not_failed |-> -75, stale |-> -125, failed |-> -500]
      sum == 100 + If(b.event.type # "none", 200) + If(b.event.type = "MSS", 75) + If(present, 150)
             + If(strong, 75) + If(AfterSweep(t, b), 125)
             + If(LeavesGap(t, b), 100) + If(GoodFor(b.dir, b) /\ Bias # -b.dir, 75) + worth[fresh]
             + (IF 2 * size <= 5 * atr THEN 50 ELSE -100)
      caps == {x \in {290} : fresh = "failed"} \cup {x \in {400} : b.event.type = "none"}
              \cup {x \in {750} : b.event.type = "BOS" /\ ~AfterSweep(t, b)}
  IN  Clamp(sum, 0, Min({1000} \cup caps))

\* _dedupe_order_blocks: of the blocks of one candle and one kind of event the best, so that a
\* later event may bring back a block that had failed
OrderBlocks(t) ==
  LET all == IF OfEvents(t) = {} THEN Weak(t) ELSE OfEvents(t)
      Alike(b, x) == x.at = b.at /\ x.dir = b.dir /\ x.event.type = b.event.type
                     /\ (AfterSweep(t, x) <=> AfterSweep(t, b))
      Beats(x, b) == Quality(t, x) > Quality(t, b) \/ (Quality(t, x) = Quality(t, b) /\ x.event.at < b.event.at)
  IN  {b \in all : \A x \in all \ {b} : Alike(b, x) => ~Beats(x, b)}

\* detect_bullish_order_block, detect_bearish_order_block
ValidBlocks(t) == {b \in OrderBlocks(t) : b.event.type # "none" /\ Quality(t, b) > 400}

\* validate_bullish_ob_retest and its mirror: the first candle that closes through the block and
\* its stop buffer, or touches it; nothing after it counts.
Retest(t, b) ==
  Earliest({i \in b.event.at + 1 .. Len(t) :
              Cl(b.dir, t[i]) < b.lo - StopBuffer \/ Lo(b.dir, t[i]) <= b.hi})

Reacts(d, k, lo, hi) == With(d, k) /\ 2 * Cl(d, k) > lo + hi

\* The reward to risk, in hundredths, 0 when there is none
Rr(t, b, i) ==
  LET entry == Cl(b.dir, t[i])
      stop == b.lo - StopBuffer
  IN  IF entry <= stop THEN 0 ELSE (100 * (Target[b.dir] - entry)) \div (entry - stop)

BlockEntryAllowed(t, b) ==
  \E i \in Retest(t, b) : /\ Cl(b.dir, t[i]) >= b.lo - StopBuffer /\ Reacts(b.dir, t[i], b.lo, b.hi)
                          /\ Rr(t, b, i) >= 150

-------------------------------------------------------------------------------
\* breaker_block.py, _first_failure_or_wick_attempt: a close through the block, or while there is
\* none a wick
Broken(t, b) == Earliest({i \in b.event.at + 1 .. Len(t) : Cl(b.dir, t[i]) < b.lo - Buffer})

Attempt(t, b) ==
  IF Broken(t, b) # {} THEN {}
  ELSE Earliest({i \in b.event.at + 1 .. Len(t) : Lo(b.dir, t[i]) < b.lo - Buffer /\ Cl(b.dir, t[i]) >= b.lo})

\* _classify_retest, _breaker_reaction, on the axis of the breaker; a structure event of the new
\* direction counts however late it comes.
BreakerRetest(t, b) ==
  LET d == -b.dir
  IN  Earliest({i \in 1 .. Len(t) : /\ \E f \in Broken(t, b) : i > f
                                    /\ Cl(d, t[i]) < -b.hi - Buffer \/ Lo(d, t[i]) <= -b.lo})

FollowedBy(t, d, i) == \E e \in Known(Events, t) : e.dir = d /\ e.at >= i

BreakerStatus(t, b) ==
  LET d == -b.dir
      retest == BreakerRetest(t, b)
      i == The(retest)
  IN  CASE retest = {} -> "not_retested"
        [] retest # {} /\ Cl(d, t[i]) < -b.hi - Buffer -> "failed"
        [] OTHER -> IF FollowedBy(t, d, i) \/ Reacts(d, t[i], -b.hi, -b.lo) THEN "confirmed_reaction" ELSE "touched"

BreakerEntryAllowed(t, b) == Broken(t, b) # {} /\ BreakerStatus(t, b) = "confirmed_reaction"

\* _confidence_score, with the quality the block has by now
Confidence(t, b) ==
  LET d == -b.dir
      f == The(Broken(t, b))
      status == BreakerStatus(t, b)
      quality == Quality(t, b)
      ofBlock == IF quality >= 800 THEN 200 ELSE IF quality >= 500 THEN 100 ELSE 0
      shifted == FollowedBy(t, d, f)
      height2 == Abs(b.lo + b.hi)
      sum == ofBlock + 150
             + (IF Displaces(t, d, f) THEN 150 ELSE If(With(d, t[f]) /\ BodyAtLeast(t[f], 45), 75))
             + If(shifted, 150)
             + (CASE status = "confirmed_reaction" -> 150 [] status = "touched" -> 75 [] OTHER -> 0)
             + If(AfterSweep(t, b), 75) + If(LeavesGap(t, b), 75) + If(GoodFor(d, b), 75)
             + If(b.hi - b.lo <= Narrow \/ 200 * (b.hi - b.lo) <= height2, 50)
      caps == {x \in {500} : ~shifted} \cup {x \in {650} : status = "not_retested"} \cup {x \in {300} : status = "failed"}
  IN  IF Broken(t, b) = {} THEN Smaller(300, ofBlock + 50) ELSE Clamp(sum, 0, Min({1000} \cup caps))

\* detect_breaker_blocks, of the order blocks found
Breakers(t) == {b \in OrderBlocks(t) : Broken(t, b) # {} \/ Attempt(t, b) # {}}

-------------------------------------------------------------------------------
\* mitigation_block.py, detect_mitigation_blocks, _find_candidate_zone: the last narrow candle against
\* the event
Candidates(t) ==
  {b \in {Block(t, x[1], x[2], x[1].at) : x \in Known(Events, t) \X DOMAIN t} :
     /\ b.event.strength \notin {"none", "weak"}
     /\ b.at = Max({0} \cup {i \in LastAgainst(t, b.dir, b.event.at) : 2 * Size(t[i]) <= 5 * AtrAt(t, i)})}

\* _classify_retest, _reaction
MitigationRetest(t, b) ==
  Earliest({i \in b.event.at + 1 .. Len(t) : Cl(b.dir, t[i]) < b.lo - Buffer \/ Lo(b.dir, t[i]) <= b.hi})

MitigationStatus(t, b) ==
  LET retest == MitigationRetest(t, b)
      k == t[The(retest)]
  IN  CASE retest = {} -> "fresh"
        [] retest # {} /\ Cl(b.dir, k) < b.lo - Buffer -> "failed"
        [] OTHER -> IF Reacts(b.dir, k, b.lo, b.hi) \/ Cl(b.dir, k) > b.hi THEN "confirmed_reaction"
                    ELSE "retest_no_reaction"

\* _has_fvg_confluence: a gap after the event wherever it is, one before it where it overlaps
Overlap(b, z) == Larger(b.lo, z.lo) <= Smaller(b.hi, z.hi)

MitigationQuality(t, b) ==
  LET status == MitigationStatus(t, b)
      swept == \E s \in Known(Sweeps, t) : s.dir = b.dir /\ s.at <= b.event.at
      fvg == \E g \in Known(Fvgs, t) : g.dir = b.dir /\ (g.at >= b.event.at \/ Overlap(b, g))
      zone == \E z \in Zones : z.dir = b.dir /\ Overlap(b, z)
      sum == (IF b.event.type = "MSS" THEN 150 + If(swept, 50) ELSE 100)
             + (CASE b.event.strength = "strong" -> 150 [] b.event.strength = "moderate" -> 75 [] OTHER -> 0)
             + 100 + If(swept, 100) + If(fvg, 50) + If(zone, 50) + If(Location = b.dir, 100)
             + (CASE status = "confirmed_reaction" -> 150 [] status = "retest_no_reaction" -> 50 [] OTHER -> 0)
             + 75 + 75 * b.dir * Bias - If(Bias = -b.dir, 25) - If(b.hi - b.lo > 2 * AtrAt(t, b.at), 50)
      caps == {x \in {600} : b.event.strength \notin {"strong", "moderate"}} \cup {x \in {400} : ~swept}
              \cup {x \in {300} : status = "failed"} \cup {x \in {600} : status \in {"fresh", "retest_no_reaction"}}
  IN  Clamp(sum, 0, Min({1000} \cup caps))

MitigationEntryAllowed(t, b) == MitigationStatus(t, b) = "confirmed_reaction" /\ MitigationQuality(t, b) >= 500

-------------------------------------------------------------------------------
\* A breaker comes from a block that has failed, by the same candle or an earlier one, and a
\* retest that allows an entry from one that has not.
BreakersComeFromFailures(t) ==
  \A b \in OrderBlocks(t) :
    /\ \A i \in Broken(t, b) : \E f \in Failure(t, b) : f <= i
    /\ BlockEntryAllowed(t, b) => \A i \in Retest(t, b), f \in Failure(t, b) : i < f

\* The block of an event, its failure, and what an entry was allowed on, are never taken back.
BlocksStay(t, later) ==
  /\ OfEvents(t) \subseteq OfEvents(later) /\ Candidates(t) \subseteq Candidates(later)
  /\ \A b \in OfEvents(t) :
       /\ Failure(t, b) # {} => Failure(later, b) = Failure(t, b)
       /\ BlockEntryAllowed(t, b) => BlockEntryAllowed(later, b)
       /\ BreakerEntryAllowed(t, b) => BreakerEntryAllowed(later, b)
  /\ \A b \in Candidates(t) : MitigationEntryAllowed(t, b) => MitigationEntryAllowed(later, b)
===============================================================================
