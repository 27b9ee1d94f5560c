------------------------------ MODULE SweepMssFvg ------------------------------
(***************************************************************************)
(* src/strategy/ict_smc_strategies/sweep_mss_fvg_entry.py: sweep of a pool,*)
(* a close beyond a swing made after it, displacement, the fair value gap  *)
(* of the displacement and its first retest, the risk plan and the score.  *)
(*                                                                         *)
(* Default configuration (balanced entry), a context without restrictions, *)
(* session or higher-timeframe bias.  Prices of a definition with a        *)
(* direction d are on the axis of d.  Scores are hundredths of the code's. *)
(* A balanced entry is the middle of a gap: entry2 is twice its price.     *)
(***************************************************************************)
EXTENDS Candles

CONSTANTS
  Pools,            \* context["liquidity_pools"]: a sequence of unswept pools
  Named,            \* the price of context["target_liquidity"]: a set of one or none
  Swings,           \* context["swings"]: a set, empty if the tape's own are to be used
  MssWait,          \* max_mss_wait_candles
  DisplacementWait, \* max_displacement_wait_candles
  RetestExpiry,     \* fvg_retest_expiry_candles
  Spread,           \* spread_status
  MinScore          \* minimum_setup_score, in hundredths

AtrPeriod == 14
MaxAfter == 2       \* max_fvg_after_displacement_candles

\* detect_liquidity_sweep: a wick beyond the pool that closes back inside.
Sweeps(t) ==
  {e \in [dir : Directions, pool : DOMAIN Pools, at : DOMAIN t] :
     LET d == e.dir
         edge == PoolLo(d, Pools[e.pool])
     IN  /\ Pools[e.pool].side = -d
         /\ 50 * (edge - Lo(d, t[e.at])) > Atr(t, AtrPeriod)
         /\ Cl(d, t[e.at]) > edge}

SweepQuality(t, e) ==
  Clamp(725 + (100 * (PoolLo(e.dir, Pools[e.pool]) - Lo(e.dir, t[e.at]))) \div Larger(1, Atr(t, AtrPeriod)), 0, 1000)

\* The order the sweeps are tried in: the latest, and of one candle the best.
TriedBefore(t, a, b) ==
  \/ a.at > b.at
  \/ (a.at = b.at /\ SweepQuality(t, a) > SweepQuality(t, b))
  \/ (a.at = b.at /\ SweepQuality(t, a) = SweepQuality(t, b) /\ a.pool < b.pool)

\* detect_mss: of the first swing after the sweep that is broken in time, the first break.
Breaking(t, e, s) ==
  {i \in s.at + 1 .. Smaller(Len(t), e.at + MssWait) : 100 * (Cl(e.dir, t[i]) - s.price) > Atr(t, AtrPeriod)}

Shift(t, e) ==
  LET broken == {s \in SwingLevels(Swings, e.dir, t) :
                   e.at < s.at /\ s.at <= e.at + MssWait /\ Breaking(t, e, s) # {}}
      first == CHOOSE s \in broken : \A x \in broken : s.at <= x.at
  IN  IF broken = {} THEN {} ELSE {[at |-> Min(Breaking(t, e, first)), level |-> first.price]}

ShiftQuality(t, d, m) ==
  Clamp(700 + (1500 * (Cl(d, t[m.at]) - m.level)) \div Larger(1, Atr(t, AtrPeriod)), 0, 1000)

\* detect_displacement, from the shift on
Displacements(t, d, from) ==
  {i \in from .. Smaller(Len(t), from + DisplacementWait) :
     With(d, t[i]) /\ BodyAtLeast(t[i], 55) /\ Size(t[i]) >= Atr(t, AtrPeriod) /\ ClosesAtLeast(d, t[i], 70)}

\* detect_fvg: candles i - 2 and i leave a gap between them.
Gaps(t, d) == {i \in 3 .. Len(t) : Hi(d, t[i - 2]) < Lo(d, t[i])}
GapLo(t, d, i) == Hi(d, t[i - 2])
GapHi(t, d, i) == Lo(d, t[i])
GapQuality(t, i) == 675 + Smaller(200, (300 * Body(t[i - 1])) \div Larger(1, Size(t[i - 1])))

\* _select_fvg_after_mss: one made by the displacement if there is one, the nearest to its end;
\* no two are as near, and the quality of a gap never decides.
Selected(t, d, shift, disp) ==
  LET made == {i \in Gaps(t, d) : shift <= i /\ i <= disp + MaxAfter}
      preferred == IF \E i \in made : i <= disp THEN {i \in made : i <= disp} ELSE made
  IN  {i \in preferred : \A j \in preferred : Abs(i - disp) <= Abs(j - disp)}

Touches(t, d, gap) ==
  {i \in gap + 1 .. Smaller(Len(t), gap + RetestExpiry) :
     Lo(d, t[i]) <= GapHi(t, d, gap) /\ Hi(d, t[i]) >= GapLo(t, d, gap)}

\* Mutant: the latest touch is the entry.
RetestLast(t, d, gap) == IF Touches(t, d, gap) = {} THEN {} ELSE {Max(Touches(t, d, gap))}

\* detect_fvg_retest: the first candle to touch the gap, in time.
Retest(t, d, gap) == IF Touches(t, d, gap) = {} THEN {} ELSE {Min(Touches(t, d, gap))}

\* _risk_plan, _select_target: the stop is the sweep's alone, an ATR buffer and the spread
\* away; the entry may lie on either side of it.
StopOf(t, e) == Lo(e.dir, t[e.at]) - Atr(t, AtrPeriod) \div 20 - Spread

Worth(prices, entry2, stop) ==
  {x \in prices : 2 * x > entry2 /\ entry2 # 2 * stop /\ 2 * x - entry2 >= 2 * Abs(entry2 - 2 * stop)}

\* The target the context names, if it is worth the risk, else the nearest pool that is.
Targets(d, entry2, stop) ==
  LET named == Worth({d * x : x \in Named}, entry2, stop)
  IN  IF named # {} THEN named
      ELSE Worth({PoolHi(d, Pools[p]) : p \in {q \in DOMAIN Pools : Pools[q].side = d}}, entry2, stop)

\* score_sweep_mss_fvg_setup; 650, 900 and 700 are the session, the safety and the bias of
\* a context that says nothing of them.
Score(t, s) ==
  LET risk == s.entry2 - 2 * s.stop
      rr == IF risk <= 0 THEN 1000 ELSE Smaller(1000, (400 * (2 * s.target - s.entry2)) \div risk)
  IN  (  13 * SweepQuality(t, s.sweep) + 13 * ShiftQuality(t, s.dir, s.shift) + 13 * StrengthOf(s.dir, t[s.disp], Atr(t, AtrPeriod))
       + 10 * GapQuality(t, s.gap) + 10 * 850 + 8 * 650 + 10 * 900 + 15 * rr + 8 * 700 ) \div 100

\* generate_sweep_mss_fvg_signal: what becomes of one sweep
Rejected == [status |-> "rejected"]

Outcome(t, e) ==
  LET d == e.dir
      shift == CHOOSE m \in Shift(t, e) : TRUE
      disp == Min(Displacements(t, d, shift.at))
      gap == CHOOSE i \in Selected(t, d, shift.at, disp) : TRUE
      at == CHOOSE i \in Retest(t, d, gap) : TRUE
      entry2 == GapLo(t, d, gap) + GapHi(t, d, gap)
      stop == StopOf(t, e)
      plan == [status |-> "valid", dir |-> d, sweep |-> e, shift |-> shift, disp |-> disp, gap |-> gap, at |-> at,
               entry2 |-> entry2, stop |-> stop, target |-> Min(Targets(d, entry2, stop))]
  IN  IF \/ Shift(t, e) = {} \/ Displacements(t, d, shift.at) = {} \/ Selected(t, d, shift.at, disp) = {}
      THEN Rejected
      ELSE IF Retest(t, d, gap) = {} THEN [status |-> "waiting"]
      ELSE IF Targets(d, entry2, stop) = {} \/ Score(t, plan) < MinScore THEN Rejected
      ELSE plan

\* ... and of all of them: the first that is not rejected answers, and while it waits for its
\* retest the older ones are not looked at.  The empty set is "no trade".
Signal(t) ==
  LET answers == {e \in Sweeps(t) : Outcome(t, e).status # "rejected"}
      first == {e \in answers : \A x \in answers \ {e} : TriedBefore(t, e, x)}
  IN  IF Len(t) < 3 THEN {} ELSE {Outcome(t, e) : e \in first} \ {[status |-> "waiting"]}

-------------------------------------------------------------------------------
\* The entry taken on a gap stays where it is, whatever closes later.
EntryStays(t, later) ==
  \A s \in Signal(t), x \in Signal(later) : (x.dir = s.dir /\ x.gap = s.gap) => x.at = s.at /\ x.entry2 = s.entry2
===============================================================================
