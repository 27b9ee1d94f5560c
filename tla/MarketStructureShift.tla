-------------------------- MODULE MarketStructureShift --------------------------
(***************************************************************************)
(* analytics/ict_smc/market_structure_shift.py: a close beyond the latest  *)
(* confirmed swing against the movement before it, its liquidity context   *)
(* and confidence (hundredths), and whether it failed.                     *)
(*                                                                         *)
(* swings are records of kind, at, strength, known and price; sweeps are   *)
(* the caller's valid liquidity events, records of dir (the shift they     *)
(* support) and at.  close_required is on; candles carry no trend, HTF or  *)
(* location text (the defaults).                                           *)
(***************************************************************************)
EXTENDS Candles

CONSTANTS
  MinStrength,      \* minimum_swing_strength, in hundredths
  NormalStrength,   \* normal_mss_strength
  HighStrength,     \* high_quality_swing_strength
  MaxSweepBars,     \* max_sweep_to_mss_bars
  FailedLookahead   \* failed_mss_lookahead

\* _calculate_atr: one value for each candle, of the candles up to it
AtrAt(t, i) == Atr(UpTo(t, i), 14)

\* _latest_valid_swing
Candidates(swings, d, i, used) ==
  {s \in swings : /\ s.kind = d /\ s.known < i /\ s.at < i
                  /\ s.strength >= MinStrength /\ s \notin used}

LatestOf(candidates) ==
  CHOOSE s \in candidates :
    \A x \in candidates : x.known < s.known \/ (x.known = s.known /\ x.strength <= s.strength)

\* The last four swings known before candle i; a candle's high comes before its low.
LastFour(swings, i) ==
  LET known == {s \in swings : s.known < i}
      Later(x, s) == x.known > s.known \/ (x.known = s.known /\ x.kind < s.kind)
  IN  {s \in known : Cardinality({x \in known : Later(x, s)}) < 4}

\* _previous_movement: two lower highs and lower lows are bearish; else the
\* closes of the last five candles decide, the candle itself included.
Previous(t, swings, i) ==
  LET recent == LastFour(swings, i)
      Newest(d) == Max({s.known : s \in {x \in recent : x.kind = d}})
      Rising(d) ==
        \E a, b \in recent : /\ a.kind = d /\ b.kind = d
                             /\ b.known = Newest(d) /\ a.known < b.known
                             /\ a.price < b.price
      Falling(d) ==
        \E a, b \in recent : /\ a.kind = d /\ b.kind = d
                             /\ b.known = Newest(d) /\ a.known < b.known
                             /\ a.price > b.price
      first == Larger(1, i - 4)
  IN  IF Falling(1) /\ Falling(-1) THEN -1
      ELSE IF Rising(1) /\ Rising(-1) THEN 1
      ELSE IF i - first < 3 \/ t[i].c = t[first].c THEN 0
      ELSE IF t[i].c < t[first].c THEN -1 ELSE 1

\* _evaluate_shift
ShiftAt(t, d, i, s, previous) ==
  LET Beyond(price) == 10 * (price - d * s.price) > AtrAt(t, i)
      event == [at |-> i, dir |-> d, swing |-> s, previous |-> previous, closed |-> Beyond(Cl(d, t[i]))]
  IN  IF Beyond(Cl(d, t[i])) \/ Beyond(Hi(d, t[i])) THEN {event} ELSE {}

\* One candle of detect: against the previous movement, or when that is unclear
EventsAt(t, swings, before, i) ==
  LET used == {e.swing : e \in {x \in before : x.closed}}
      previous == Previous(t, swings, i)
      Of(d) == LET c == Candidates(swings, d, i, used)
               IN  IF c = {} \/ previous = d THEN {} ELSE ShiftAt(t, d, i, LatestOf(c), previous)
  IN  Of(1) \cup Of(-1)

\* detect, candle by candle
Events(t, swings) ==
  LET upTo[i \in 0 .. Len(t)] ==
        IF i = 0 THEN {} ELSE LET before == upTo[i - 1] IN before \cup EventsAt(t, swings, before, i)
  IN  upTo[Len(t)]

\* _apply_failure_status
Failed(t, e) ==
  /\ e.closed
  /\ \E j \in e.at + 1 .. Smaller(Len(t), e.at + FailedLookahead) :
       Cl(e.dir, t[j]) < e.dir * e.swing.price

\* Mutant: a sweep found after the shift supports it.
SweepsAround(sweeps, e) == {s \in sweeps : s.dir = e.dir /\ e.at - s.at <= MaxSweepBars}

\* _liquidity_context: the latest sweep that supports the shift and is not too old
SweepsBefore(sweeps, e) ==
  {s \in sweeps : s.dir = e.dir /\ s.at < e.at /\ e.at - s.at <= MaxSweepBars}

\* _displacement, _fvg_context
DisplacementScore(t, d, i) ==
  If(BodyAtLeast(t[i], 55), 50) + If(Size(t[i]) >= AtrAt(t, i), 50) + If(ClosesAtLeast(d, t[i], 70), 50)

GapMade(t, d, i) == i > 2 /\ Hi(d, t[i - 2]) < Lo(d, t[i])

\* _chop_penalty
ChopPenalty(t, i) ==
  LET window == Larger(2, i - 7) .. i
      overlaps == Cardinality({j \in window \ {i} : t[j + 1].h >= t[j].l /\ t[j + 1].l <= t[j].h})
      pairs == Cardinality(window) - 1
  IN  IF pairs < 3 THEN 0 ELSE IF 10 * overlaps >= 8 * pairs THEN 150 ELSE If(10 * overlaps >= 6 * pairs, 75)

SwingScore(strength) ==
  IF strength >= HighStrength THEN 200 ELSE IF strength >= NormalStrength THEN 150 ELSE If(strength >= MinStrength, 100)

\* _confidence_score, with the use as entry confirmation of _entry_use
Score(t, sweeps, e) ==
  LET before == SweepsBefore(sweeps, e)
      late == before # {} /\ 4 * (e.at - Max({s.at : s \in before})) > 3 * Larger(1, MaxSweepBars)
      gap == GapMade(t, e.dir, e.at)
      score == (IF e.previous = -e.dir THEN 150 ELSE If(e.previous = 0, 75))
               + SwingScore(e.swing.strength) + If(e.closed, 150)
               + If(before # {}, 150) - If(late, 50)
               + DisplacementScore(t, e.dir, e.at) + If(gap, 75)
               + If(gap \/ before # {}, 50) - ChopPenalty(t, e.at)
      unswept == IF before = {} THEN Smaller(score, 700) ELSE score
  IN  Clamp(IF e.closed THEN unswept ELSE Smaller(unswept, 200), 0, 1000)

\* _replace_status: a shift that failed is worth 5.0 at most
Confidence(t, sweeps, e) ==
  IF Failed(t, e) THEN Smaller(Score(t, sweeps, e), 500) ELSE Score(t, sweeps, e)

-------------------------------------------------------------------------------
\* docs/ict_smc_market_structure_shift.md:30-31: what was detected stays detected,
\* as seen from the same movement, whatever candles and swings come after.
Kept(t, swings, later, laterSwings) == Events(t, swings) \subseteq Events(later, laterSwings)

\* A confidence once given changes only for a shift that has failed, down to 5.0 at most, and
\* only while candles of its lookahead are missing: whatever sweeps are found later.
ConfidenceKept(t, swings, sweeps, later, laterSweeps) ==
  \A e \in Events(t, swings) :
    LET given == Confidence(t, sweeps, e)
        now == Confidence(later, laterSweeps, e)
    IN  /\ now = IF Failed(later, e) THEN Smaller(given, 500) ELSE given
        /\ Len(t) >= e.at + FailedLookahead => now = given
===============================================================================
