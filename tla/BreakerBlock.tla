----------------------------- MODULE BreakerBlock -----------------------------
(***************************************************************************)
(* src/strategy/ict_smc_strategies/breaker_block.py: an order block fails  *)
(* by a close through it, is accepted beyond, and is traded against its    *)
(* own direction when price comes back to it and reacts.                   *)
(*                                                                         *)
(* Default configuration (candle reaction), a context without blocks,      *)
(* events, restrictions or bias of its own.  Prices of a definition with a *)
(* direction d are on the axis of d, the direction of the trade: that of   *)
(* the original block is -d.  Scores are hundredths of the code's.         *)
(***************************************************************************)
EXTENDS Candles

CONSTANTS
  Pools,            \* context["liquidity_pools"]: a sequence of pools that are not swept
  Swings,           \* context["swings"]: a set, empty if the tape's own are to be used
  DisplacementWait, \* max_displacement_wait_candles
  AcceptanceWait,   \* acceptance_wait_candles
  RetestWait,       \* max_retest_wait_candles
  ReactionWait,     \* reaction_wait_candles
  StopBuffer,       \* stop_buffer
  Spread,           \* spread_status, in price
  MinScore          \* minimum_setup_score, in hundredths

\* _atr: the mean range of the candles up to i, 14 at most
RangeAt(t, i) ==
  LET last == Larger(1, i - 13) .. i
      SizeAt(j) == Size(t[j])
  IN  Larger(1, MapThenSumSet(SizeAt, last) \div Cardinality(last))

Strong(t, i) == BodyAtLeast(t[i], 55) /\ 100 * Size(t[i]) >= 55 * RangeAt(t, i)

\* detect_order_blocks: the first displacement soon after an opposite candle ...
Displacements(t, b, source) ==
  {i \in source + 1 .. Smaller(Len(t), source + DisplacementWait) :
     With(b, t[i]) /\ Strong(t, i) /\ ClosesAtLeast(b, t[i], 62)}

\* ... that, or a candle before it, closes beyond the last swing (_breaks_structure)
BreaksOf(t, b, source, disp) ==
  LET levels == {s \in SwingLevels(Swings, b, t) : s.at <= source}
      level == CHOOSE s \in levels : \A x \in levels : x.at <= s.at
  IN  IF levels = {} THEN {} ELSE {i \in source + 1 .. disp : Cl(b, t[i]) > level.price}

Blocks(t, b) ==
  {o \in [source : {i \in DOMAIN t : Against(b, t[i])}, disp : DOMAIN t, from : DOMAIN t] :
     LET disps == Displacements(t, b, o.source)
         breaks == BreaksOf(t, b, o.source, o.disp)
     IN  disps # {} /\ o.disp = Min(disps) /\ breaks # {} /\ o.from = Min(breaks)}

TooWide(t, source) == Size(t[source]) > 3 * RangeAt(t, source)

BlockScore(t, o) ==
  700 + Smaller(150, (100 * Size(t[o.disp])) \div RangeAt(t, o.disp)) + (100 * Body(t[o.source])) \div Size(t[o.source])

\* The zone of a block, and twice its mean threshold
ZoneLo(t, d, o) == Lo(d, t[o.source])
ZoneHi(t, d, o) == Hi(d, t[o.source])
Mean2(t, d, o) == ZoneLo(t, d, o) + ZoneHi(t, d, o)

\* detect_order_block_failure, by a close
Failures(t, d, o) == {i \in o.from + 1 .. Len(t) : Cl(d, t[i]) > ZoneHi(t, d, o)}

FailureScore(t, d, o, i) == 500 + Smaller(300, (200 * (Cl(d, t[i]) - ZoneHi(t, d, o))) \div RangeAt(t, i))

\* _acceptance: the last of the closes beyond the zone, from the failure on and in a row
Accepted(t, d, o, failed) ==
  Max({i \in failed .. Smaller(Len(t), failed + AcceptanceWait - 1) :
         \A j \in failed .. i : Cl(d, t[j]) > ZoneHi(t, d, o)})

AcceptanceScore(t, d, o, failed) ==
  550 + Smaller(200, 100 * (Accepted(t, d, o, failed) - failed + 1)) + If(Strong(t, failed), 150)

\* detect_breaker_retest: the first candle that touches the zone; a close through it decides too.
Retest(t, d, o, accepted) ==
  LET deciding == {i \in accepted + 1 .. Smaller(Len(t), accepted + 1 + RetestWait) :
                     \/ Cl(d, t[i]) < ZoneLo(t, d, o)
                     \/ Lo(d, t[i]) <= ZoneHi(t, d, o) /\ Hi(d, t[i]) >= ZoneLo(t, d, o)}
  IN  IF deciding = {} \/ Cl(d, t[Min(deciding)]) < ZoneLo(t, d, o) THEN {} ELSE {Min(deciding)}

\* validate_breaker_reaction: whatever closed between retest and reaction
Reactions(t, d, o, retest) ==
  {i \in retest .. Smaller(Len(t), retest + ReactionWait) : With(d, t[i]) /\ 2 * Cl(d, t[i]) > Mean2(t, d, o)}

ReactionScore(t, d, o, i) == 650 + Smaller(250, (100 * (2 * Cl(d, t[i]) - Mean2(t, d, o))) \div RangeAt(t, i))

\* _risk, with the ranges of the whole tape; _select_target
StopOf(t, d, o) == ZoneLo(t, d, o) - Larger(StopBuffer, RangeAt(t, Len(t)) \div 20) - Spread

Targets(d, entry) == {x \in {PoolHi(d, Pools[p]) : p \in {q \in DOMAIN Pools : Pools[q].side = d}} : x > entry}

\* score_breaker_setup; 850 twice are the structure shift and a bias nobody gave, 900 the safety
Score(t, s) ==
  LET d == s.dir
      o == s.block
      rr == (400 * (s.target - s.entry)) \div (s.entry - s.stop)
  IN  (  10 * BlockScore(t, o) + 11 * FailureScore(t, d, o, s.failed) + 12 * AcceptanceScore(t, d, o, s.failed)
       + 12 * 850 + 9 * 800 + 10 * (700 + If(2 * Lo(d, t[s.retest]) <= Mean2(t, d, o), 100))
       + 12 * ReactionScore(t, d, o, s.at) + 8 * 850 + 10 * Smaller(1000, rr) + 8 * 900 ) \div 102

\* generate_breaker_signal: what becomes of one block
PlanOf(t, d, o) ==
  LET failed == Min(Failures(t, d, o))
      rt == CHOOSE i \in Retest(t, d, o, Accepted(t, d, o, failed)) : TRUE
      at == Min(Reactions(t, d, o, rt))
      entry == Cl(d, t[at])
      plan == [dir |-> d, block |-> o, failed |-> failed, retest |-> rt, at |-> at, entry |-> entry,
               stop |-> StopOf(t, d, o), target |-> Min(Targets(d, entry))]
  IN  IF \/ Failures(t, d, o) = {} \/ Retest(t, d, o, Accepted(t, d, o, failed)) = {}
         \/ Reactions(t, d, o, rt) = {} \/ TooWide(t, o.source) \/ Targets(d, entry) = {}
         \/ plan.target - entry < 2 * (entry - plan.stop) \/ Score(t, plan) < MinScore
      THEN {} ELSE {plan}

\* ... and of all of them: the oldest that gets through.  The empty set is "no trade".
Signal(t) ==
  LET all == UNION {PlanOf(t, x[1], x[2]) : x \in UNION {{d} \X Blocks(t, -d) : d \in Directions}}
  IN  IF Len(t) < 6 THEN {} ELSE {a \in all : \A b \in all : a.block.source <= b.block.source}

-------------------------------------------------------------------------------
\* The entry taken on a block stays where it is, whatever closes later.
EntryStays(t, later) ==
  \A s \in Signal(t), x \in Signal(later) : x.block.source = s.block.source => x.at = s.at /\ x.entry = s.entry
===============================================================================
