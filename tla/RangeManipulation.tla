--------------------------- MODULE RangeManipulation ---------------------------
(***************************************************************************)
(* analytics/ict_smc/judas_swing.py, amd_model.py and                      *)
(* asian_range_liquidity.py (detect_asian_range_sweep): candles after a    *)
(* range that leave it and close back, and what follows them.              *)
(*                                                                         *)
(* Default parameters, with the buffers of the caller and no events of     *)
(* other detectors.  A candidate is a record of side (1 for the upper end  *)
(* of the range, -1 for the lower), at, and kind; dir is the direction of  *)
(* its trade, and prices with one of them are on its axis.  The ATR is in  *)
(* whole units.  Scores are hundredths.                                    *)
(***************************************************************************)
EXTENDS Candles

CONSTANTS
  Session,          \* the session's range: a record of hi, lo, end (its last candle), quality
  SweepBuffer, CloseBuffer,
  Bias,             \* htf_bias: a direction, or 0
  Active            \* whether active_session, session_label is one of London or New York

AtrPeriod == 14

Edge(side) == IF side = 1 THEN Session.hi ELSE -Session.lo
Midpoint2(d) == d * (Session.hi + Session.lo)

\* _candidate_from_candle, _detect_sweep_events: a close back inside the range, or outside it by
\* a candle of that direction; the Asian range also asks it to close in its outer part.
Kind(side, k, pct) ==
  CASE Hi(side, k) <= Edge(side) + SweepBuffer -> "inside"
    [] Hi(side, k) > Edge(side) + SweepBuffer /\ Cl(side, k) < Edge(side) -> "reclaimed"
    [] OTHER -> IF Cl(side, k) > Edge(side) + CloseBuffer /\ With(side, k) /\ ClosesAtLeast(side, k, pct)
                THEN "accepted" ELSE "unclear"

\* _post_session_candles, _post_accumulation_candles
Candidates(t, pct) ==
  {c \in {[side |-> x[1], at |-> x[2], kind |-> Kind(x[1], t[x[2]], pct)] :
            x \in Directions \X (Session.end + 1 .. Len(t))} : c.kind # "inside"}

\* _expected_direction
Dir(c) == IF c.kind = "reclaimed" THEN -c.side ELSE c.side

-------------------------------------------------------------------------------
\* _find_mss_confirmation: a close beyond the first two candles after the sweep, however late
Shift(t, c) ==
  LET d == Dir(c)
      Level == Larger(Hi(d, t[c.at + 1]), Hi(d, t[c.at + 2]))
  IN  Earliest({j \in c.at + 3 .. Len(t) : Cl(d, t[j]) > Level})

\* _find_fvg, _find_fvg_confirmation: the first gap behind the sweep, however late
Gap(t, c) == LET d == Dir(c) IN Earliest({j \in c.at + 3 .. Len(t) : Hi(d, t[j - 2]) < Lo(d, t[j])})

\* _find_order_block of a Judas swing: the last candle against it among four
Against4(t, c) == {j \in c.at + 1 .. Smaller(Len(t), c.at + 4) : Against(Dir(c), t[j])}

\* _entry_zone
Zone(t, c) ==
  LET d == Dir(c)
  IN  {[fvg |-> TRUE, lo |-> Hi(d, t[j - 2]), hi |-> Lo(d, t[j])] : j \in Gap(t, c)}
      \cup {[fvg |-> FALSE, lo |-> Lo(d, t[j]), hi |-> Op(d, t[j])] :
              j \in {x \in Against4(t, c) : Gap(t, c) = {} /\ x = Max(Against4(t, c))}}

\* _displacement_context: the first of the widest full candles among the n after the sweep
Full(t, c, n) ==
  {j \in c.at + 1 .. Smaller(Len(t), c.at + n) :
     With(Dir(c), t[j]) /\ ClosesAtLeast(Dir(c), t[j], 65) /\ BodyAtLeast(t[j], 55)}

Widest(t, c, n) ==
  {j \in Full(t, c, n) : \A i \in Full(t, c, n) \ {j} : Size(t[i]) < Size(t[j]) \/ (Size(t[i]) = Size(t[j]) /\ j < i)}

\* _accumulation_context of both: most candles of the session lie in the range, and its size fits the
\* range of the latest candles.
Accumulated(t, quality) ==
  LET session == 1 .. Smaller(Len(t), Session.end)
      held == {i \in session : t[i].h <= Session.hi /\ t[i].l >= Session.lo}
      atr == Atr(t, AtrPeriod)
  IN  /\ 100 * Cardinality(held) >= 70 * Cardinality(session) /\ session # {}
      /\ atr > 0 => Session.hi - Session.lo \in atr .. 10 * atr
      /\ Session.quality >= quality

JudasAccumulated(t) == Accumulated(t, 400)
AmdAccumulated(t) == Accumulated(t, 500)

FromBias(d) == IF Bias = d THEN 75 ELSE IF Bias = -d THEN -100 ELSE 0

\* The earliest of the best, the low side of a candle before its high side
Best(scored) ==
  {p[1] : p \in {q \in scored : \A o \in scored \ {q} :
                   \/ q[2] > o[2]
                   \/ q[2] = o[2] /\ q[1].at < o[1].at
                   \/ q[2] = o[2] /\ q[1].at = o[1].at /\ q[1].side < o[1].side}}

-------------------------------------------------------------------------------
\* judas_swing.py, _displacement_context: a wide candle, or one not before the shift, is strong.
JudasStrong(t, c) ==
  \E j \in Widest(t, c, 6) : 10 * Size(t[j]) >= 12 * Atr(t, AtrPeriod) \/ \E s \in Shift(t, c) : j >= s

\* _quality_score of it
JudasScore(t, c) ==
  LET accumulated == JudasAccumulated(t)
      full == Full(t, c, 6) # {}
      shifted == Shift(t, c) # {}
      sum == 200 + If(accumulated, 150) + 150 + If(shifted, 200) + If(full, 50) + If(JudasStrong(t, c), 50)
             + If(Zone(t, c) # {}, 100) + 75 + FromBias(Dir(c)) + If(Active, 50)
      caps == {x \in {600} : ~accumulated \/ ~full \/ Zone(t, c) = {}} \cup {x \in {500} : ~shifted}
  IN  CASE c.kind = "accepted" -> 240
        [] c.kind = "unclear" -> 300
        [] OTHER -> Clamp(sum, 0, Min({1000} \cup caps))

\* _build_result, _final_judas_type: entry_allowed_after_fvg_or_ob_retest_reaction
JudasAllowed(t, c) ==
  /\ c.kind = "reclaimed" /\ Shift(t, c) # {} /\ Zone(t, c) # {} /\ Full(t, c, 6) # {}
  /\ JudasScore(t, c) >= 700

JudasBest(t) == Best({<<c, JudasScore(t, c)>> : c \in Candidates(t, 0)})

-------------------------------------------------------------------------------
\* amd_model.py, _distribution_context
Reached(t, c, price2) == \E j \in c.at + 1 .. Len(t) : 2 * Hi(Dir(c), t[j]) >= price2

\* _confidence_score; no order blocks are looked for, and a displacement is strong with a shift.
AmdScore(t, c) ==
  LET d == Dir(c)
      accumulated == AmdAccumulated(t)
      shifted == Shift(t, c) # {}
      full == Full(t, c, 8) # {}
      strong == full /\ (shifted \/ \E j \in Widest(t, c, 8) : 10 * Size(t[j]) >= 12 * Atr(t, AtrPeriod))
      sum == 100 + If(accumulated, 200) + 150 + If(shifted, 200) + If(full, 50) + If(strong, 50)
             + If(Gap(t, c) # {}, 100) + If(Reached(t, c, Midpoint2(d)), 50) + If(Reached(t, c, 2 * Edge(d)), 50)
             + 50 + FromBias(d) + If(Active, 50)
      caps == {x \in {600} : ~accumulated \/ ~full \/ Gap(t, c) = {}} \cup {x \in {500} : ~shifted}
  IN  CASE c.kind = "accepted" -> 260
        [] c.kind = "unclear" -> 300
        [] OTHER -> Clamp(sum, 0, Min({1000} \cup caps))

\* _final_amd_type: amd_detected
AmdDetected(t, c) ==
  /\ c.kind = "reclaimed" /\ AmdAccumulated(t) /\ Shift(t, c) # {} /\ Full(t, c, 8) # {} /\ Gap(t, c) # {}
  /\ AmdScore(t, c) >= 700

AmdBest(t) == Best({<<c, AmdScore(t, c)>> : c \in Candidates(t, 0)})

-------------------------------------------------------------------------------
\* asian_range_liquidity.py, detect_asian_range_sweep: the first event of all, the high side of
\* a candle before its low side; later ones never replace it.
AsianEvent(t) ==
  LET events == Candidates(t, 65)
  IN  {c \in events : \A x \in events \ {c} : c.at < x.at \/ (c.at = x.at /\ c.side > x.side)}

\* _displacement_strength: the largest body among five candles
AsianBody(t, c) == {Body(t[j]) : j \in {i \in c.at + 1 .. Smaller(Len(t), c.at + 5) : With(Dir(c), t[i])}}

\* _sweep_quality_score
AsianScore(t, c) ==
  LET atr == Atr(t, AtrPeriod)
      strong == atr > 0 /\ \E b \in AsianBody(t, c) : 10 * b >= 12 * atr
      clear == atr > 0 /\ \E b \in AsianBody(t, c) : 100 * b >= 65 * atr
      shifted == Shift(t, c) # {}
      gap == Gap(t, c) # {}
      sum == 200 + (IF c.kind = "reclaimed" THEN 150 ELSE 100) + 150 + If(shifted, 200) + If(clear, 50) + If(strong, 50)
             + If(gap, 100) + If(Active, 100)
      caps == {x \in {500} : ~shifted} \cup {x \in {600} : ~gap \/ ~clear} \cup {x \in {800} : c.kind = "accepted"}
  IN  IF c.kind = "unclear" THEN 300 ELSE Clamp(sum, 0, Min({1000} \cup caps))

\* risk_logic: entry_allowed_after_fvg_retest_reaction, whatever the score
AsianAllowed(t, c) == c.kind # "unclear" /\ Gap(t, c) # {} /\ Shift(t, c) # {}

-------------------------------------------------------------------------------
\* A Judas swing that may be traded, and an AMD model, are withdrawn only because the range no
\* longer fits the ATR of later candles, never by their score, and come back when it fits.
WithdrawnByAtrOnly(t, later) ==
  \A c \in Candidates(t, 0) :
    /\ c \in Candidates(later, 0)
    /\ JudasAllowed(t, c) => (JudasAllowed(later, c) <=> JudasAccumulated(later))
    /\ AmdDetected(t, c) => (AmdDetected(later, c) <=> AmdAccumulated(later))

\* The first candle that leaves the Asian range decides for good; its entry, once allowed, stays
\* allowed, and a gap is its zone.
FirstRaidDecides(t, later) ==
  \A c \in AsianEvent(t) :
    /\ AsianEvent(later) = {c}
    /\ AsianAllowed(t, c) => AsianAllowed(later, c) /\ Zone(later, c) = Zone(t, c)

\* A candidate that may be traded is never hidden behind a better scored one that may not.
TradeableIsAnswered(t) ==
  /\ (\E c \in Candidates(t, 0) : JudasAllowed(t, c)) <=> (\E c \in JudasBest(t) : JudasAllowed(t, c))
  /\ (\E c \in Candidates(t, 0) : AmdDetected(t, c)) <=> (\E c \in AmdBest(t) : AmdDetected(t, c))
===============================================================================
