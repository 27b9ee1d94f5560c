---------------------------- MODULE BreakOfStructure ----------------------------
(***************************************************************************)
(* analytics/ict_smc/break_of_structure.py: a candle that closes beyond    *)
(* the latest confirmed swing, its quality, and whether it failed.         *)
(*                                                                         *)
(* swings is what the caller hands in: a set of records of kind, at,       *)
(* strength, known (confirmation_index) and price.  close_required is on,  *)
(* the trend is unknown, candles carry no HTF text (the defaults).         *)
(***************************************************************************)
EXTENDS Candles

CONSTANTS
  MinStrength,      \* minimum_swing_strength, in hundredths
  ExternalStrength, \* external_swing_strength
  FailedLookahead   \* failed_bos_lookahead

AtrAt(t, i) == Atr(UpTo(t, i), 14)

\* Mutant: a swing may be used before it is confirmed.
CandidatesEarly(swings, d, i, broken) ==
  {s \in swings : s.kind = d /\ s.at < i /\ s.strength >= MinStrength /\ s \notin broken}

\* _latest_valid_swing: confirmed before the candle, strong enough, not broken
Candidates(swings, d, i, broken) ==
  {s \in swings : /\ s.kind = d /\ s.known < i /\ s.at < i
                  /\ s.strength >= MinStrength /\ s \notin broken}

LatestOf(candidates) ==
  CHOOSE s \in candidates :
    \A x \in candidates : x.known < s.known \/ (x.known = s.known /\ x.strength <= s.strength)

\* _evaluate_break: beyond the swing and a tenth of the ATR, by close or by wick
BreakAt(t, d, i, s) ==
  LET Beyond(price) == 10 * (price - d * s.price) > AtrAt(t, i)
      event == [at |-> i, dir |-> d, swing |-> s, closed |-> Beyond(Cl(d, t[i]))]
  IN  IF Beyond(Cl(d, t[i])) \/ Beyond(Hi(d, t[i])) THEN {event} ELSE {}

\* One candle of detect: a close break uses its swing up, a wick does not
Broken(events) == {e.swing : e \in {x \in events : x.closed}}

EventsAt(t, swings, before, i) ==
  LET Of(d) == LET c == Candidates(swings, d, i, Broken(before))
               IN  IF c = {} THEN {} ELSE BreakAt(t, d, i, LatestOf(c))
  IN  Of(1) \cup Of(-1)

\* detect, candle by candle
Events(t, swings) ==
  LET upTo[i \in 0 .. Len(t)] ==
        IF i = 0 THEN {} ELSE LET before == upTo[i - 1] IN before \cup EventsAt(t, swings, before, i)
  IN  upTo[Len(t)]

\* Mutant: the newest close decides, not any within the lookahead.
FailedNow(t, e) == e.closed /\ e.at < Len(t) /\ Cl(e.dir, t[Len(t)]) < e.dir * e.swing.price

\* _apply_failed_bos_status: a close back inside within the lookahead
Failed(t, e) ==
  /\ e.closed
  /\ \E j \in e.at + 1 .. Smaller(Len(t), e.at + FailedLookahead) :
       Cl(e.dir, t[j]) < e.dir * e.swing.price

-------------------------------------------------------------------------------
\* _displacement, _fvg_context, _order_block_context, _has_prior_opposite_sweep
DisplacementScore(t, d, i) ==
  If(BodyAtLeast(t[i], 55), 50) + If(Size(t[i]) >= AtrAt(t, i), 50) + If(ClosesAtLeast(d, t[i], 70), 50)

GapMade(t, d, i) == i > 2 /\ Hi(d, t[i - 2]) < Lo(d, t[i])

SixBefore(i) == Larger(1, i - 6) .. i - 1

OrderBlockScore(t, d, i) ==
  IF \A j \in SixBefore(i) : ~Against(d, t[j]) THEN 0
  ELSE IF DisplacementScore(t, d, i) >= 100 THEN 100 ELSE 50

PriorSweep(t, d, i, price) ==
  \E j \in SixBefore(i) : Lo(d, t[j]) < price /\ Cl(d, t[j]) > price

\* _chop_penalty: overlapping neighbours among the last eight candles, the very
\* first candle of the list never counted
ChopPenalty(t, i) ==
  LET window == Larger(2, i - 7) .. i
      overlaps == Cardinality({j \in window \ {i} : t[j + 1].h >= t[j].l /\ t[j + 1].l <= t[j].h})
      pairs == Cardinality(window) - 1
  IN  IF pairs < 3 THEN 0 ELSE IF 10 * overlaps >= 8 * pairs THEN 150 ELSE If(10 * overlaps >= 6 * pairs, 75)

\* _quality_score
Quality(t, e) ==
  LET d == e.dir
      price == d * e.swing.price
      score == If(e.swing.strength >= MinStrength, 100) + If(e.swing.strength >= ExternalStrength, 100)
               + (IF e.closed THEN 200 ELSE 50) + 50
               + DisplacementScore(t, d, e.at) + If(GapMade(t, d, e.at), 100)
               + OrderBlockScore(t, d, e.at)
               + (IF PriorSweep(t, d, e.at, price) THEN 75 ELSE 50)
               - ChopPenalty(t, e.at)
  IN  Clamp(IF e.closed THEN score ELSE Smaller(score, 200), 0, 1000)

\* _replace_status: a failed break is capped
FinalQuality(t, e) == IF Failed(t, e) THEN Smaller(Quality(t, e), 500) ELSE Quality(t, e)

-------------------------------------------------------------------------------
\* docs/ict_smc_break_of_structure.md:16-17: what was detected stays detected,
\* with the same swing, whatever candles and swings come after.
Kept(t, swings, later, laterSwings) == Events(t, swings) \subseteq Events(later, laterSwings)

\* A swing is broken by one close at most.
BrokenOnce(t, swings) ==
  \A a, b \in Events(t, swings) : (a.closed /\ b.closed /\ a.swing = b.swing) => a = b

\* A failed break is never un-failed, and its quality never recovers.
FailureIsFinal(t, swings, later) ==
  \A e \in Events(t, swings) :
    Failed(t, e) => Failed(later, e) /\ FinalQuality(later, e) = FinalQuality(t, e)
===============================================================================
