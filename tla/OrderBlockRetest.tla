---------------------------- MODULE OrderBlockRetest ----------------------------
(***************************************************************************)
(* src/strategy/ict_smc_strategies/order_block_retest.py: sweep of a pool, *)
(* displacement through a swing, the last opposite candle as order block,  *)
(* its first retest, the reaction, the risk plan and the score.            *)
(*                                                                         *)
(* Default configuration (full-range zone, candle reaction, balanced       *)
(* entry).  All prices of a definition with a direction d are on the axis  *)
(* of d.  Scores are hundredths of the code's.                             *)
(***************************************************************************)
EXTENDS Candles

CONSTANTS
  Pools,            \* context["liquidity_pools"]: a sequence of unswept pools
  Swings,           \* context["swings"]: a set, empty if the tape's own are to be used
  BreakWait,        \* max_displacement_wait_candles
  RetestExpiry,     \* ob_retest_expiry_candles
  ReactionWait,     \* reaction_wait_candles
  Spread,           \* spread_status
  MinScore          \* minimum_setup_score, in hundredths

AtrPeriod == 14

\* detect_liquidity_sweep: a wick beyond the pool that closes back inside.
Sweeps(t, d) ==
  {e \in [dir : {d}, pool : DOMAIN Pools, at : DOMAIN t] :
     LET p == Pools[e.pool]
         k == t[e.at]
     IN  /\ p.side = -d
         /\ 50 * (PoolLo(d, p) - Lo(d, k)) > Atr(t, AtrPeriod)
         /\ Cl(d, k) > PoolLo(d, p)}

SweepQuality(t, e) ==
  LET d == e.dir
      p == Pools[e.pool]
      c == Cl(d, t[e.at])
      depth == PoolLo(d, p) - Lo(d, t[e.at])
  IN  Clamp(650 + If(2 * c > PoolLo(d, p) + PoolHi(d, p), 100) + If(c > PoolHi(d, p), 100)
              + Smaller(120, (100 * depth) \div Larger(1, Atr(t, AtrPeriod))), 0, 1000)

\* detect_displacement: the first strong candle, soon after the sweep, that
\* closes beyond the highest swing known by the end of the wait.
Breaks(t, e) ==
  LET d == e.dir
      levels == {s.price : s \in {x \in SwingLevels(Swings, d, t) : x.at <= e.at + BreakWait}}
      atr == Atr(t, AtrPeriod)
  IN  IF levels = {} THEN {}
      ELSE {i \in e.at + 1 .. Smaller(Len(t), e.at + BreakWait) :
              /\ 100 * (Cl(d, t[i]) - Max(levels)) > atr
              /\ With(d, t[i])
              /\ BodyAtLeast(t[i], 55)
              /\ 10 * Size(t[i]) >= 8 * atr
              /\ ClosesAtLeast(d, t[i], 65)}

BreakStrength(t, i) ==
  Clamp(650 + Smaller(160, (200 * Body(t[i])) \div Size(t[i]))
            + (7 * Smaller(200, (100 * Size(t[i])) \div Larger(1, Atr(t, AtrPeriod)))) \div 10, 0, 1000)

\* detect_order_block_after_sweep: candidates, of which the last one counts,
\* and the reasons that make it unusable (too wide, a news spike).
OrderBlocks(t, e, brk) == {i \in e.at .. brk - 1 : Against(e.dir, t[i])}

TooWide(t, ob) == 10 * Size(t[ob]) > 28 * Atr(UpTo(t, ob), AtrPeriod)

BlockQuality(t, e, brk, ob) ==
  650 + Smaller(SweepQuality(t, e), 1000) \div 10 + BreakStrength(t, brk) \div 10
      - Larger(0, (80 * (Size(t[ob]) - Atr(UpTo(t, ob), AtrPeriod)))
                    \div Larger(1, Atr(UpTo(t, ob), AtrPeriod)))

\* detect_ob_retest: the first candle after the break that decides.  An expired
\* zone is noticed only when a candle beyond the expiry exists.
Decides(t, d, ob, brk, i) ==
  \/ i > brk + RetestExpiry
  \/ Cl(d, t[i]) < Lo(d, t[ob])
  \/ Lo(d, t[i]) <= Hi(d, t[ob]) /\ Hi(d, t[i]) >= Lo(d, t[ob])

Retest(t, d, ob, brk) ==
  LET deciding == {i \in brk + 1 .. Len(t) : Decides(t, d, ob, brk, i)}
      i == Min(deciding)
  IN  IF deciding = {} THEN [status |-> "none", at |-> 0]
      ELSE IF i > brk + RetestExpiry THEN [status |-> "expired", at |-> i]
      ELSE IF Cl(d, t[i]) < Lo(d, t[ob]) THEN [status |-> "invalidated", at |-> i]
      ELSE [status |-> "detected", at |-> i]

RetestScore(t, d, ob, i) ==
  IF Lo(d, t[i]) <= Lo(d, t[ob]) THEN 750
  ELSE IF 2 * Lo(d, t[i]) <= Lo(d, t[ob]) + Hi(d, t[ob]) THEN 850
  ELSE 700

\* Mutant: the reaction is looked for before the block is found broken.
ReactionUnguarded(t, d, ob, retest) ==
  LET reacting == {i \in retest .. Smaller(Len(t), retest + ReactionWait) :
                     With(d, t[i]) /\ 2 * Cl(d, t[i]) > Lo(d, t[ob]) + Hi(d, t[ob])}
  IN  IF reacting = {} THEN 0 ELSE Min(reacting)

\* validate_ob_reaction: the first candle from the retest on that closes with d
\* beyond the middle of the block; a close through the block first ends it.
Reaction(t, d, ob, retest) ==
  LET deciding == {i \in retest .. Smaller(Len(t), retest + ReactionWait) :
                     \/ Cl(d, t[i]) < Lo(d, t[ob])
                     \/ With(d, t[i]) /\ 2 * Cl(d, t[i]) > Lo(d, t[ob]) + Hi(d, t[ob])}
  IN  IF deciding = {} \/ Cl(d, t[Min(deciding)]) < Lo(d, t[ob]) THEN 0 ELSE Min(deciding)

ReactionStrength(t, d, ob, i) ==
  Clamp(740 + If(Cl(d, t[i]) > Hi(d, t[ob]), 100) + (100 * Body(t[i])) \div Size(t[i]), 0, 1000)

\* _select_target: the nearest opposing pool beyond the entry.
Targets(d, entry) == {x \in {PoolHi(d, Pools[p]) : p \in {q \in DOMAIN Pools : Pools[q].side = d}} : x > entry}

\* _risk_plan: behind the block and the sweep, an ATR buffer and the spread.
StopOf(t, e, ob) ==
  Smaller(Lo(e.dir, t[ob]), Lo(e.dir, t[e.at])) - Atr(t, AtrPeriod) \div 50 - Spread

\* _risk_rejection_reasons
RiskAccepted(t, entry, stop, targets) ==
  /\ targets # {}
  /\ Min(targets) - entry >= 2 * (entry - stop)
  /\ 10 * Abs(entry - stop) <= 45 * Atr(t, AtrPeriod)

\* score_ob_retest_setup: the weighted mean of ten components.
Score(t, s) ==
  LET rr == (100 * (s.target - s.entry)) \div Larger(1, s.entry - s.stop)
  IN  (   11 * SweepQuality(t, s.sweep) +  8 * 800
        + 12 * BreakStrength(t, s.break) + 10 * 850
        + 12 * Clamp(BlockQuality(t, s.sweep, s.break, s.block), 0, 1000) + 6 * 850
        +  8 * RetestScore(t, s.dir, s.block, s.retest)
        + 11 * ReactionStrength(t, s.dir, s.block, s.at)
        + 10 * Clamp(700 + Smaller(rr - 200, 300), 0, 1000) + 7 * 900 ) \div 95

\* generate_ob_retest_signal: what becomes of one sweep.
PlanOf(t, e) ==
  LET d == e.dir
      brk == Min(Breaks(t, e))
      ob == Max(OrderBlocks(t, e, brk))
      rt == Retest(t, d, ob, brk)
      at == Reaction(t, d, ob, rt.at)
      entry == Cl(d, t[at])
      stop == StopOf(t, e, ob)
      plan == [dir |-> d, sweep |-> e, break |-> brk, block |-> ob, retest |-> rt.at, at |-> at,
               entry |-> entry, stop |-> stop, target |-> Min(Targets(d, entry))]
  IN  IF \/ Breaks(t, e) = {} \/ OrderBlocks(t, e, brk) = {}
         \/ rt.status # "detected" \/ at = 0
         \/ TooWide(t, ob) \/ ~RiskAccepted(t, entry, stop, Targets(d, entry))
         \/ Score(t, plan) < MinScore
      THEN {} ELSE {plan}

\* ... and of all of them: the first sweep, the best one of a candle, that
\* gets through.  The empty set is "no trade".
Signal(t) ==
  LET all == UNION {PlanOf(t, e) : e \in Sweeps(t, 1) \cup Sweeps(t, -1)}
      Earlier(a, b) ==
        \/ a.sweep.at < b.sweep.at
        \/ /\ a.sweep.at = b.sweep.at
           /\ SweepQuality(t, a.sweep) >= SweepQuality(t, b.sweep)
  IN  IF Len(t) < 3 \/ all = {} THEN {} ELSE {CHOOSE a \in all : \A b \in all : Earlier(a, b)}

-------------------------------------------------------------------------------
\* From the break to the entry no candle closed through the block.
BlockHeldUntilEntry(t) ==
  \A s \in Signal(t) : \A i \in s.break + 1 .. s.at : Cl(s.dir, t[i]) >= Lo(s.dir, t[s.block])
===============================================================================
