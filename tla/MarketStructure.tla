----------------------------- MODULE MarketStructure -----------------------------
(***************************************************************************)
(* A timeframe as the analytics see it: closed candles arrive one by one   *)
(* and are never changed (MarketSetupOrchestrator.on_candle_evacuation     *)
(* appends them; every detector is called again with the whole list).      *)
(* Over it, the swings (module SwingPoints), the structure detectors that  *)
(* read them, and the order block strategy: what their answers to one list *)
(* promise of each other and of the answers to a longer one.               *)
(***************************************************************************)
EXTENDS SwingPoints

CONSTANTS
  Scripts,          \* what is tried: a sequence of scripts, each a sequence of sets of candles
  Bos, Mss, Choch,  \* BOSDetectionConfig, MSSDetectionConfig, ChoChDetectionConfig
  OrderBlock,       \* OrderBlockRetestConfig, with the context: pools and swings
  LiquidityEvents,  \* the valid liquidity events that are ever found: records dir, at
  GapContext,       \* what the zone and raid detectors are handed in besides the candles, their
  BlockContext,     \* parameters included: the constants of the modules PriceGaps, PriceBlocks,
  SessionContext,   \* SessionRaids,
  RangeContext,     \* RangeManipulation
  RaidContext,      \* and LiquidityRaids
  Plans,            \* the entry strategies' configurations and contexts: a record for each, with on, the
                    \* scripts on which it is asked
  SwingsOnly        \* the scripts on which only the structure detectors are asked

CandleType == [o : Int, h : Int, l : Int, c : Int]

\* SwingDetectionConfig.__post_init__, and what the constants are
ASSUME StructureAssumption ==
  /\ {LeftBars, RightBars} \subseteq Nat \ {0} /\ MinCandleGap \in Nat
  /\ Scripts \in Seq(Seq(SUBSET CandleType))
  /\ Bos \in [minimum : Int, external : Int, lookahead : Nat]
  /\ Mss \in [minimum : Int, normal : Int, high : Int, maxSweep : Nat, lookahead : Nat]
  /\ OrderBlock.pools \in Seq([side : Directions, lo : Int, hi : Int])
  /\ {OrderBlock.breakWait, OrderBlock.retestExpiry, OrderBlock.reactionWait} \subseteq Nat
  /\ \A s \in LiquidityEvents : s.at \in Nat

\* candle_builder.py: a candle's high and low are the highest and the lowest price of its ticks.
Formed(k) == k.l <= k.o /\ k.o <= k.h /\ k.l <= k.c /\ k.c <= k.h

ASSUME CandleAssumption ==
  \A s \in DOMAIN Scripts : \A i \in DOMAIN Scripts[s] : \A k \in Scripts[s][i] : Formed(k)

\* What the zone and raid detectors are handed in
ASSUME ContextAssumption ==
  /\ \A e \in BlockContext.events : e.at \in Nat \ {0} /\ e.dir \in Directions
  /\ \A g \in BlockContext.fvgs : g.at \in Nat
  /\ {BlockContext.buffer, BlockContext.stopBuffer} \subseteq Nat /\ BlockContext.bias \in Int
  /\ SessionContext.asian.hi \in Int /\ SessionContext.asian.lo \in Int
  /\ SessionContext.stopBuffer \in Nat /\ SessionContext.minRr \in Nat \ {0}
  /\ \A n \in DOMAIN SessionContext.levels : SessionContext.levels[n].side \in Directions
  /\ RangeContext.session.end \in Nat
  /\ RaidContext.levels \in Seq([side : Directions, lo : Int, hi : Int, at : Nat, quality : Int])
  /\ RaidContext.pools \in Seq([side : Directions, lo : Int, hi : Int, priority : Int, at : Nat, quality : Int])
  /\ {RaidContext.sweepBuffer, RaidContext.closeBuffer, RaidContext.breakBuffer, RaidContext.stopBuffer} \subseteq Nat

\* The strategies' waits are counts of candles; news is known at a candle, and acceptance asks for one.
ASSUME WaitsAssumption ==
  /\ {Plans.sweep.retestExpiry, Plans.window.retestExpiry, Plans.window.fvgWait} \subseteq Nat
  /\ {Plans.session.session, Plans.session.reclaimWait, Plans.session.mssWait} \subseteq Nat
  /\ {Plans.session.displacementWait, Plans.session.retestExpiry} \subseteq Nat
  /\ Plans.news.news \in Nat \ {0} /\ Plans.news.mssWait \in Nat
  /\ {Plans.killzone.mssWait, Plans.killzone.entryWait, Plans.killzone.retestWait} \subseteq Nat
  /\ Plans.continuation.retracementWait \in Nat
  /\ {Plans.previousDay.maxReclaim, Plans.previousDay.mssWait, Plans.previousDay.entryWait} \subseteq Nat
  /\ {Plans.accumulation.quiet, Plans.accumulation.maxReclaim, Plans.accumulation.shiftWait} \subseteq Nat
  /\ {Plans.breaker.displacementWait, Plans.breaker.retestWait, Plans.breaker.reactionWait} \subseteq Nat
  /\ Plans.breaker.acceptanceWait \in Nat \ {0}
  /\ {Plans.zone.mssWait, Plans.zone.displacementWait, Plans.zone.entryScan} \subseteq Nat

\* The pools a context brings are a list of prices, its swings one for each side and candle.
ASSUME PlansAssumption ==
  /\ Plans.zone.pools \in Seq([side : Directions, lo : Int, hi : Int])
  /\ \A x, y \in Plans.zone.swings : x.kind = y.kind /\ x.at = y.at => x.price = y.price
  /\ Plans.path.boundary \in Int

VARIABLES
  script,           \* the one being tried
  tape              \* _candles_by_timeframe["1m"], below its maxlen

tapeVars == <<script, tape>>

TapeInit == script \in DOMAIN Scripts /\ tape = <<>>

CandleCloses ==
  /\ Len(tape) < Len(Scripts[script])
  /\ \E k \in Scripts[script][Len(tape) + 1] : tape' = Append(tape, k)
  /\ UNCHANGED script

TapeNext == CandleCloses

TapeSpec == TapeInit /\ [][TapeNext]_tapeVars

-------------------------------------------------------------------------------
BOS == INSTANCE BreakOfStructure WITH
         MinStrength <- Bos.minimum, ExternalStrength <- Bos.external, FailedLookahead <- Bos.lookahead
MSS == INSTANCE MarketStructureShift WITH
         MinStrength <- Mss.minimum, NormalStrength <- Mss.normal, HighStrength <- Mss.high,
         MaxSweepBars <- Mss.maxSweep, FailedLookahead <- Mss.lookahead
CHC == INSTANCE ChangeOfCharacter WITH
         MinStrength <- Choch.minimum, UpgradeStrength <- Choch.upgrade, MaxSweepBars <- Choch.maxSweep,
         FailedLookahead <- Choch.lookahead
OBR == INSTANCE OrderBlockRetest WITH
         Pools <- OrderBlock.pools, Swings <- OrderBlock.swings, BreakWait <- OrderBlock.breakWait,
         RetestExpiry <- OrderBlock.retestExpiry, ReactionWait <- OrderBlock.reactionWait,
         Spread <- OrderBlock.spread, MinScore <- OrderBlock.minScore

GAP == INSTANCE PriceGaps WITH
         Structures <- GapContext.structures, Sweeps <- LiquidityEvents, Zones <- GapContext.zones,
         GapZones <- GapContext.gapZones, Location <- GapContext.location, Bias <- GapContext.bias,
         Stale <- GapContext.stale
BLK == INSTANCE PriceBlocks WITH
         Events <- BlockContext.events, Sweeps <- LiquidityEvents, Fvgs <- BlockContext.fvgs,
         Zones <- BlockContext.zones, Equilibrium <- BlockContext.equilibrium,
         Location <- BlockContext.location, Bias <- BlockContext.bias, Buffer <- BlockContext.buffer,
         StopBuffer <- BlockContext.stopBuffer, Narrow <- BlockContext.narrow, Target <- BlockContext.target
SR == INSTANCE SessionRaids WITH
        Start <- SessionContext.start, Step <- SessionContext.step, London <- SessionContext.london,
        NewYork <- SessionContext.newYork, Asian <- SessionContext.asian, Levels <- SessionContext.levels,
        Bias <- SessionContext.bias, LondonTrend <- SessionContext.londonTrend, News <- SessionContext.news,
        SweepBuffer <- SessionContext.sweepBuffer, CloseBuffer <- SessionContext.closeBuffer,
        BreakBuffer <- SessionContext.breakBuffer, StopBuffer <- SessionContext.stopBuffer,
        MinRr <- SessionContext.minRr, MinScore <- SessionContext.minScore, MinAsian <- SessionContext.minAsian
RNG == INSTANCE RangeManipulation WITH
         Session <- RangeContext.session, SweepBuffer <- RangeContext.sweepBuffer,
         CloseBuffer <- RangeContext.closeBuffer, Bias <- RangeContext.bias, Active <- RangeContext.active
RAID == INSTANCE LiquidityRaids WITH
          Levels <- RaidContext.levels, Pools <- RaidContext.pools, Windows <- RaidContext.windows,
          SweepBuffer <- RaidContext.sweepBuffer, CloseBuffer <- RaidContext.closeBuffer,
          BreakBuffer <- RaidContext.breakBuffer, StopBuffer <- RaidContext.stopBuffer,
          Bias <- RaidContext.bias, MssEvents <- RaidContext.mssEvents, ChochEvents <- RaidContext.chochEvents

SMF == INSTANCE SweepMssFvg WITH
         Pools <- Plans.sweep.pools, Named <- Plans.sweep.named, Swings <- Plans.sweep.swings,
         MssWait <- Plans.sweep.mssWait, DisplacementWait <- Plans.sweep.displacementWait,
         RetestExpiry <- Plans.sweep.retestExpiry, Spread <- Plans.sweep.spread,
         MinScore <- Plans.sweep.minScore
FVC == INSTANCE FvgContinuation WITH
         Bias <- Plans.continuation.bias, BiasScore <- Plans.continuation.biasScore,
         Pools <- Plans.continuation.pools, Swings <- Plans.continuation.swings,
         DisplacementWait <- Plans.continuation.displacementWait,
         RetracementWait <- Plans.continuation.retracementWait,
         ReactionWait <- Plans.continuation.reactionWait, Spread <- Plans.continuation.spread,
         MinScore <- Plans.continuation.minScore
BRK == INSTANCE BreakerBlock WITH
         Pools <- Plans.breaker.pools, Swings <- Plans.breaker.swings,
         DisplacementWait <- Plans.breaker.displacementWait, AcceptanceWait <- Plans.breaker.acceptanceWait,
         RetestWait <- Plans.breaker.retestWait, ReactionWait <- Plans.breaker.reactionWait,
         StopBuffer <- Plans.breaker.stopBuffer, Spread <- Plans.breaker.spread,
         MinScore <- Plans.breaker.minScore
PDR == INSTANCE PdhPdlRaid WITH
         Pdh <- Plans.previousDay.pdh, Pdl <- Plans.previousDay.pdl, Pools <- Plans.previousDay.pools,
         MaxReclaim <- Plans.previousDay.maxReclaim, MssWait <- Plans.previousDay.mssWait,
         EntryWait <- Plans.previousDay.entryWait, MaxWidth <- Plans.previousDay.maxWidth,
         Spread <- Plans.previousDay.spread, MinScore <- Plans.previousDay.minScore
AMD == INSTANCE PowerOfThreeAmd WITH
         Pools <- Plans.accumulation.pools, Quiet <- Plans.accumulation.quiet,
         MaxReclaim <- Plans.accumulation.maxReclaim, ShiftWait <- Plans.accumulation.shiftWait,
         Spread <- Plans.accumulation.spread, MinScore <- Plans.accumulation.minScore
JDS == INSTANCE JudasSwing WITH
         Session <- Plans.session.session, Pools <- Plans.session.pools, Named <- Plans.session.named,
         Swings <- Plans.session.swings, ReclaimWait <- Plans.session.reclaimWait,
         MssWait <- Plans.session.mssWait, DisplacementWait <- Plans.session.displacementWait,
         RetestExpiry <- Plans.session.retestExpiry, Spread <- Plans.session.spread,
         MinScore <- Plans.session.minScore
SVB == INSTANCE SilverBullet WITH
         Window <- Plans.window.window, Edges <- Plans.window.edges, Pools <- Plans.window.pools,
         Named <- Plans.window.named, FvgWait <- Plans.window.fvgWait,
         RetestExpiry <- Plans.window.retestExpiry, Spread <- Plans.window.spread,
         MinScore <- Plans.window.minScore
NLS == INSTANCE NewsLiquiditySweep WITH
         News <- Plans.news.news, Minutes <- Plans.news.minutes, Pools <- Plans.news.pools,
         MssWait <- Plans.news.mssWait, Noise <- Plans.news.noise, MinScore <- Plans.news.minScore
HPL == INSTANCE HtfPoiLtf WITH
         Htf <- Plans.zone.htf, Bias <- Plans.zone.bias, Pools <- Plans.zone.pools,
         Targets <- Plans.zone.targets, Swings <- Plans.zone.swings, MaxPoiWidth <- Plans.zone.maxPoiWidth,
         MaxEntryWidth <- Plans.zone.maxEntryWidth, MssWait <- Plans.zone.mssWait,
         DisplacementWait <- Plans.zone.displacementWait, EntryScan <- Plans.zone.entryScan,
         MinDistance <- Plans.zone.minDistance, Spread <- Plans.zone.spread, MinScore <- Plans.zone.minScore
KZS == INSTANCE KillzoneScalping WITH
         Killzones <- Plans.killzone.killzones, Start <- Plans.killzone.start, Step <- Plans.killzone.step,
         Pools <- Plans.killzone.pools, MssWait <- Plans.killzone.mssWait,
         EntryWait <- Plans.killzone.entryWait, RetestWait <- Plans.killzone.retestWait,
         MaxPoiWidth <- Plans.killzone.maxPoiWidth, MaxRange <- Plans.killzone.maxRange,
         StopBuffer <- Plans.killzone.stopBuffer, MinDistance <- Plans.killzone.minDistance,
         Spread <- Plans.killzone.spread, MinScore <- Plans.killzone.minScore
LTL == INSTANCE LiquidityToLiquidity WITH
         Taken <- Plans.path.taken, EntryModel <- Plans.path.entryModel, Bias <- Plans.path.bias,
         HtfPois <- Plans.path.htfPois, EqualTolerance <- Plans.path.equalTolerance,
         Boundary <- Plans.path.boundary, MinDistance <- Plans.path.minDistance,
         MaxRange <- Plans.path.maxRange, Spread <- Plans.path.spread, Slippage <- Plans.path.slippage,
         MinScore <- Plans.path.minScore

\* What the detectors read of a swing
Level(t, s) == [kind |-> s.kind, at |-> s.at, strength |-> s.strength,
                known |-> ConfirmedAt(s), price |-> PriceOf(t, s)]

\* The swings before the filter, which only grow, and the detector's answer.
Confirmed(t) == {Level(t, s) : s \in Raw(t)}
Accepted(t) == {Level(t, s) : s \in ToSet(Detected(t))}

\* The sweeps found by the last candle of a tape
SweepsSoFar(t) == {s \in LiquidityEvents : s.at <= Len(t)}

-------------------------------------------------------------------------------
\* swing_points.py: accepted swings keep min_candle_gap however they replace each other.
SwingsKeepTheirGap == GapKept(tape)

\* break_of_structure.py, change_of_character.py: a swing of the detector is broken by one
\* close, and warns once, by its wick or by its close.
SwingsAnswerOnce == BOS!BrokenOnce(tape, Accepted(tape)) /\ CHC!WarnedOnce(tape, Accepted(tape))

\* order_block_retest.py: no entry on a block that a candle closed through on the way.
BlocksHoldUntilEntry == OBR!BlockHeldUntilEntry(tape)

\* break_of_structure.py: failure is decided within the lookahead and stays.
FailedBreaksStayFailed == [][BOS!FailureIsFinal(tape, Confirmed(tape), tape')]_tape

\* market_structure_shift.py: the sweeps of later candles leave a confidence alone, and the
\* candles themselves touch it only while they can still fail the shift.
ShiftConfidenceKept ==
  [][MSS!ConfidenceKept(tape, Confirmed(tape), SweepsSoFar(tape), tape', SweepsSoFar(tape'))]_tape

\* Over swings and events that do not change, nothing that was given is taken back: a break or a
\* shift (break_of_structure.py, market_structure_shift.py); a gap, an entry on an imbalance before
\* a candle closes through it (fair_value_gap.py, imbalance.py); a block, its failure, an entry on
\* it or on the breaker or the mitigation block made of it (order_block.py, breaker_block.py,
\* mitigation_block.py); a raid in its session's window (london_open_raid.py, new_york_open_raid.py);
\* the first raid of a range and its entry (judas_swing.py, amd_model.py, asian_range_liquidity.py);
\* a confirmed stop hunt, a Silver Bullet's plan, the sweep of a pool (stop_hunt_reversal.py,
\* silver_bullet.py, liquidity_sweep.py).  now and next are the swings, worked out once.
NothingIsTakenBack ==
  /\ \E now \in {Confirmed(tape)}, next \in {Confirmed(tape')} :
       BOS!Kept(tape, now, tape', next) /\ MSS!Kept(tape, now, tape', next)
  /\ (script \notin SwingsOnly) =>
       /\ GAP!GapsStay(tape, tape') /\ GAP!AllowedUntilThrough(tape, tape')
       /\ BLK!BlocksStay(tape, tape') /\ BLK!BreakersComeFromFailures(tape)
       /\ SR!RaidsStay(tape, tape') /\ SR!LondonFadesOnly(tape)
       /\ RNG!WithdrawnByAtrOnly(tape, tape') /\ RNG!FirstRaidDecides(tape, tape')
       /\ RNG!TradeableIsAnswered(tape)
       /\ RAID!HuntsStay(tape, tape') /\ RAID!BulletsFollowTheirLeg(tape, tape')
       /\ RAID!PoolSweepsOnlyGrow(tape, tape')

StructureIsNotRepainted == [][NothingIsTakenBack]_tape

\* What a strategy gave on the tape before and gives on the tape after, for each of the strategies of
\* src/strategy/ict_smc_strategies, on the scripts on which it is asked.
EntriesAreKept ==
  /\ script \in Plans.sweep.on => SMF!EntryStays(tape, tape')
  /\ script \in Plans.continuation.on => FVC!PlanStays(tape, tape')
  /\ script \in Plans.breaker.on => BRK!EntryStays(tape, tape')
  /\ script \in Plans.previousDay.on => PDR!EntryStays(tape, tape')
  /\ script \in Plans.accumulation.on => AMD!EntryStays(tape, tape')
  /\ script \in Plans.session.on => JDS!EntryStays(tape, tape')
  /\ script \in Plans.window.on => SVB!EntryStays(tape, tape')
  /\ script \in Plans.news.on => NLS!EntryStays(tape, tape')
  /\ script \in Plans.zone.on => HPL!EntryOnlyImproves(tape, tape')
  /\ script \in Plans.killzone.on => KZS!PlanStays(tape, tape')
  /\ script \in Plans.path.on => LTL!PartialForGood(tape, tape')

\* The strategies are called again with every candle, and what they raise is the same setup: the entry
\* given for it stays where it is, whatever closes later.
EntriesStay == [][EntriesAreKept]_tape
===============================================================================
