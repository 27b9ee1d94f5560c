----------------------------- MODULE SessionRaids -----------------------------
(***************************************************************************)
(* analytics/ict_smc/london_open_raid.py and new_york_open_raid.py: inside *)
(* the session's window, candles that leave a range or a level and close   *)
(* back (a reversal) or stay out (a continuation), what confirms them, and *)
(* the trade planned on the best.                                          *)
(*                                                                         *)
(* The buffers are those a caller gives.  side is 1 for liquidity above    *)
(* and -1 below, dir the direction of the trade; prices of a definition    *)
(* with one of them are on its axis.  w is the tape inside the window.     *)
(* mid2 is twice the middle of a zone.  Scores and rewards are hundredths. *)
(***************************************************************************)
EXTENDS Candles

CONSTANTS
  Start, Step,      \* the minute the first candle starts, counted from a midnight, and the minutes of one
  London, NewYork,  \* the windows: records of from, to, buffer, in minutes of the day
  Asian,            \* the Asian range: a record of hi, lo, quality, end (a minute counted like Start)
  Levels,           \* session_levels of New York: a sequence of side, lo, hi, price, quality, priority
  Bias,             \* htf_bias: a direction, or 0
  LondonTrend,      \* session_levels["london_trend"]: a direction, or 0
  News,             \* news_status: "safe", "caution" or "blackout"
  SweepBuffer, CloseBuffer, BreakBuffer, StopBuffer,
  MinRr,            \* min_rr
  MinScore,         \* minimum_valid_score
  MinAsian          \* minimum_asian_quality

\* _time_inside_london_window, _time_inside_ny_window: both ends belong to the window; the
\* minutes after it count only for one that does not span midnight.
Inside(window, minute) ==
  IF window.from < window.to THEN window.from <= minute /\ minute <= window.to + window.buffer
  ELSE minute >= window.from \/ minute <= window.to

\* _filter_london_window, _filter_ny_window
Filtered(t, window, after) ==
  LET Kept(i) == LET minute == Start + (i - 1) * Step IN minute > after /\ Inside(window, minute % 1440)
      upTo[i \in 0 .. Len(t)] ==
        IF i = 0 THEN <<>> ELSE IF Kept(i) THEN Append(upTo[i - 1], t[i]) ELSE upTo[i - 1]
  IN  upTo[Len(t)]

InLondon(t) == Filtered(t, London, Asian.end)
InNewYork(t) == Filtered(t, NewYork, -1)

\* _classify_high_raid, _classify_low_raid, _classify_level_interaction: what a candle does at
\* the edge of the liquidity on a side
Kind(side, k, edge) ==
  CASE Hi(side, k) <= edge -> "none"
    [] Hi(side, k) > edge /\ Hi(side, k) <= edge + SweepBuffer -> "unclear"
    [] Hi(side, k) > edge + SweepBuffer /\ Cl(side, k) < edge -> "reversal"
    [] OTHER -> IF Cl(side, k) > edge + CloseBuffer THEN "continuation" ELSE "near"

DirOf(kind, side) == IF kind = "reversal" THEN -side ELSE side

-------------------------------------------------------------------------------
\* _confirm_after_sweep, _find_bullish_fvg: the first shift, displacement and gap within seven
\* candles; the size asked of a displacement is the mean of the last 14 candles of the tape.
Follow(w, i) == i + 1 .. Smaller(Len(w), i + 7)

Wide(t, k) ==
  LET sized == {i \in Larger(1, Len(t) - 13) .. Len(t) : Size(t[i]) > 0}
      SizeAt(i) == Size(t[i])
  IN  Cardinality(sized) * Size(k) >= MapThenSumSet(SizeAt, sized)

Shift(w, i, d) == Earliest({j \in Follow(w, i) : Cl(d, w[j]) > Hi(d, w[i]) + BreakBuffer})

Displaced(t, w, i, d) ==
  \E j \in Follow(w, i) :
    With(d, w[j]) /\ BodyAtLeast(w[j], 55) /\ Wide(t, w[j]) /\ ClosesAtLeast(d, w[j], 70)

Gap(w, i, d) == Earliest({j \in i + 2 .. Smaller(Len(w), i + 7) : Hi(d, w[j - 2]) < Lo(d, w[j])})

\* _entry_zone, _order_block_zone: the gap, or the last candle against the trade among five
Zone(w, i, d) ==
  LET against == {j \in i + 1 .. Smaller(Len(w), i + 5) : Against(d, w[j])}
  IN  {[fvg |-> TRUE, mid2 |-> Hi(d, w[j - 2]) + Lo(d, w[j])] : j \in Gap(w, i, d)}
      \cup {[fvg |-> FALSE, mid2 |-> Lo(d, w[j]) + Hi(d, w[j])] :
              j \in {x \in against : Gap(w, i, d) = {} /\ x = Max(against)}}

\* The stop lies beyond what the raiding candle reached outside: for a continuation that is the
\* end of the candle the trade runs to.
Stop(w, r) == (IF r.kind = "reversal" THEN Lo(r.dir, w[r.at]) ELSE Hi(r.dir, w[r.at])) - StopBuffer

\* _risk_reward, in hundredths; 0 stands for none
Rr(mid2, stop, target) ==
  IF mid2 <= 2 * stop \/ 2 * target <= mid2 THEN 0 ELSE (100 * (2 * target - mid2)) \div (mid2 - 2 * stop)

\* The first of candidates that are paired with what they are ranked by, in that order
First(ranked) ==
  LET Above(x, y) == \E n \in DOMAIN x : x[n] > y[n] /\ \A m \in 1 .. n - 1 : x[m] = y[m]
  IN  {p[1] : p \in {q \in ranked : \A o \in ranked \ {q} : Above(q[2], o[2])}}

-------------------------------------------------------------------------------
\* London: the two ends of the Asian range
AsianEdge(side) == IF side = 1 THEN Asian.hi ELSE -Asian.lo

LondonRaids(t) ==
  LET w == InLondon(t)
  IN  IF Asian.quality < MinAsian THEN {}
      ELSE {r \in {[side |-> x[1], at |-> x[2], kind |-> Kind(x[1], w[x[2]], AsianEdge(x[1])),
                    dir |-> DirOf(Kind(x[1], w[x[2]], AsianEdge(x[1])), x[1])] :
                     x \in Directions \X (DOMAIN w)} : r.kind # "none"}

Clear(r) == r.kind \in {"reversal", "continuation"}

\* _entry_zone: a shift and a displacement are asked of both kinds
LondonZone(t, r) ==
  LET w == InLondon(t)
  IN  IF Clear(r) /\ Shift(w, r.at, r.dir) # {} /\ Displaced(t, w, r.at, r.dir) THEN Zone(w, r.at, r.dir) ELSE {}

\* _trade_plan: the target is the end of the range in the direction of the trade
LondonRr(t, r, z) == Rr(z.mid2, Stop(InLondon(t), r), AsianEdge(r.dir))

\* _failed_requirements of _build_candidate
LondonStands(t, r) == \E z \in LondonZone(t, r) : LondonRr(t, r, z) >= MinRr

\* _quality_score, _downgrade_unconfirmed_reversal
LondonScore(t, r) ==
  LET w == InLondon(t)
      shifted == Shift(w, r.at, r.dir) # {}
      sum == Smaller(200, Asian.quality \div 5) + 150 + If(shifted, 150) + If(Displaced(t, w, r.at, r.dir), 150)
             + If(Gap(w, r.at, r.dir) # {}, 100)
             + If(Gap(w, r.at, r.dir) = {} /\ LondonZone(t, r) # {}, 50) + 80 + 70 * r.dir * Bias
      cap == IF LondonStands(t, r) THEN 1000 ELSE IF r.kind = "reversal" /\ ~shifted THEN 500 ELSE 550
  IN  IF Clear(r) THEN Clamp(sum, 0, cap) ELSE 250

\* detect_london_open_raid: the best by standing, score and shift, the earliest of equals, the
\* high before the low; it is valid with the score.
LondonBest(t) ==
  LET w == InLondon(t)
      ranked == {<<r, <<If(LondonStands(t, r), 1), LondonScore(t, r), If(Clear(r) /\ Shift(w, r.at, r.dir) # {}, 1),
                        -r.at, r.side>> >> : r \in LondonRaids(t)}
  IN  First(ranked)

LondonValid(t) == {r \in LondonBest(t) : LondonStands(t, r) /\ LondonScore(t, r) >= MinScore}

-------------------------------------------------------------------------------
\* New York: any number of levels.  A close beyond one is no continuation while the same candle
\* is rejected at a farther one (_blocked_by_external_rejection).
Edge(n) == IF Levels[n].side = 1 THEN Levels[n].hi ELSE -Levels[n].lo
PriceOf(n) == Levels[n].side * Levels[n].price

Blocked(k, n) ==
  \E m \in DOMAIN Levels : /\ Levels[m].side = Levels[n].side /\ PriceOf(m) > PriceOf(n)
                           /\ Kind(Levels[m].side, k, Edge(m)) = "reversal"

NewYorkRaids(t) ==
  LET w == InNewYork(t)
      KindOf(n, i) == Kind(Levels[n].side, w[i], Edge(n))
  IN  IF News = "blackout" THEN {}
      ELSE {r \in {[side |-> Levels[x[1]].side, level |-> x[1], at |-> x[2], kind |-> KindOf(x[1], x[2]),
                    dir |-> DirOf(KindOf(x[1], x[2]), Levels[x[1]].side)] : x \in (DOMAIN Levels) \X (DOMAIN w)} :
              /\ r.kind \notin {"none", "near"}
              /\ r.kind = "continuation" => ~Blocked(w[r.at], r.level)}

Shifted(t, r) == r.kind = "reversal" /\ Shift(InNewYork(t), r.at, r.dir) # {}

\* _continuation_context
Supported(r) == r.kind = "continuation" /\ LondonTrend = r.dir /\ Bias # -r.dir

\* _entry_zone: only a reversal asks for a shift
NewYorkZone(t, r) ==
  LET w == InNewYork(t)
  IN  IF /\ Clear(r) /\ Displaced(t, w, r.at, r.dir)
         /\ r.kind = "reversal" => Shifted(t, r)
      THEN Zone(w, r.at, r.dir) ELSE {}

\* _select_target_liquidity: beyond the entry, or the raided level while there is none, the most
\* worthy level, the nearest of equals
Targets(t, r) ==
  LET zone == NewYorkZone(t, r)
      from2 == IF zone = {} THEN 2 * r.dir * Levels[r.level].price ELSE The(zone).mid2
      beyond == {n \in DOMAIN Levels \ {r.level} : Levels[n].side = r.dir /\ 2 * PriceOf(n) > from2}
      Before(n, m) == \/ Levels[n].priority > Levels[m].priority
                      \/ Levels[n].priority = Levels[m].priority /\ PriceOf(n) < PriceOf(m)
                      \/ Levels[n].priority = Levels[m].priority /\ PriceOf(n) = PriceOf(m) /\ n < m
  IN  {n \in beyond : \A m \in beyond \ {n} : Before(n, m)}

NewYorkRr(t, r, z, n) == Rr(z.mid2, Stop(InNewYork(t), r), PriceOf(n))

\* _failed_requirements
NewYorkStands(t, r) ==
  /\ r.kind = "continuation" => Supported(r)
  /\ \E z \in NewYorkZone(t, r) : \E n \in Targets(t, r) : NewYorkRr(t, r, z, n) >= MinRr

\* _confidence_score
NewYorkScore(t, r) ==
  LET zone == NewYorkZone(t, r)
      w == InNewYork(t)
      gap == Gap(w, r.at, r.dir) # {}
      WorthOf(n) == Smaller(100, Levels[n].priority \div 10)
                    + (IF zone = {} THEN 0 ELSE Smaller(80, NewYorkRr(t, r, The(zone), n) \div 3))
      sum == Smaller(200, Levels[r.level].quality \div 5) + 150 + If(Shifted(t, r), 150) + If(Supported(r), 90)
             + If(Displaced(t, w, r.at, r.dir), 150) + If(gap, 100) + If(~gap /\ zone # {}, 50)
             + MapThenSumSet(WorthOf, Targets(t, r)) + 70 * r.dir * Bias - If(News = "caution", 150)
  IN  CASE r.kind = "unclear" -> 250
        [] r.kind = "reversal" /\ ~Shifted(t, r) -> 400
        [] OTHER -> Clamp(sum, 0, IF NewYorkStands(t, r) THEN 1000 ELSE 500)

\* _build_candidate, detect_new_york_open_raid: the best by validity, kind, score and level
NewYorkStanding(t, r) == NewYorkStands(t, r) /\ NewYorkScore(t, r) >= MinScore

NewYorkBest(t) ==
  LET Priority(r) == CASE r.kind = "reversal" -> IF Shifted(t, r) THEN 5 ELSE 4
                       [] r.kind = "continuation" -> 3 [] OTHER -> 1
      ranked == {<<r, <<If(NewYorkStanding(t, r), 1), Priority(r), NewYorkScore(t, r), Levels[r.level].priority,
                        -r.at, -r.level>> >> : r \in NewYorkRaids(t)}
  IN  First(ranked)

NewYorkValid(t) == {r \in NewYorkBest(t) : NewYorkStanding(t, r)}

-------------------------------------------------------------------------------
\* With buffers that do not move, a candle stays the raid it was, its shift and its gap stay where
\* they were found, and so does an entry in a gap; an entry at an order block need not.
Settled(w, later, d, i) ==
  /\ Shift(w, i, d) # {} => Shift(later, i, d) = Shift(w, i, d)
  /\ Gap(w, i, d) # {} => Zone(later, i, d) = Zone(w, i, d)

RaidsStay(t, later) ==
  /\ LondonRaids(t) \subseteq LondonRaids(later) /\ NewYorkRaids(t) \subseteq NewYorkRaids(later)
  /\ \A r \in LondonRaids(t) : Settled(InLondon(t), InLondon(later), r.dir, r.at)
  /\ \A r \in NewYorkRaids(t) : Settled(InNewYork(t), InNewYork(later), r.dir, r.at)

\* London's stop of a continuation lies at the far end of its candle and its target at the range
\* it left: no candle that left by more than the stop buffer is ever traded as one.
LondonFadesOnly(t) ==
  \A r \in LondonValid(t) :
    r.kind = "continuation" => Hi(r.side, InLondon(t)[r.at]) < AsianEdge(r.side) + StopBuffer
===============================================================================
