# Formal models of apex_xauusd_engine

TLA+ modules, TLC configurations and TLAPS proofs for the engine: the live runner
that opens and protects one Gold position through MetaTrader 5, the detector that
finds candidates and the money gates they pass, the analytics and the twelve entry
strategies over closed candles, both backtests, the event-driven execution router
and the event bus. Paths below are relative to the repository root.

## 1. The system

Three programs share the domain types:

* **the live path** - `scripts/mt5_intelligent_demo_runner.py` is one asyncio
  process that calls detector, scoring, risk engine and `MT5BrokerGateway`
  directly; the only thing that outlives it is the protection record on disk;
* **the event-driven path** - `EventBus`, `HighSpeedExecutionOrchestrator`
  (the execution router), the state manager, the replay engine and the lifecycle
  manager, tasks of one event loop that talk through queues and streams;
* **the backtests** - `src/backtest/ict_smc_backtest.py` replays prepared signals,
  `scripts/run_ict_smc_backtest.py` replays candles through the live selector and
  shares the first one's fills and trade management.

Underneath all three lie the analytics (`src/analytics`) and the strategies
(`src/strategy/ict_smc_strategies`): functions without state, called again with the
whole list of closed candles each time one is added.

### Components, their state, operations and interactions

| component | state | operations | talks to | what makes it correct |
|---|---|---|---|---|
| live runner (`scripts/mt5_intelligent_demo_runner.py`) | plan, entry block, "submitted" flag, candle cursor; all lost with the process | start, reconcile, candle batch, candidate, order, plan creation, exits | gateway calls, the record | at most one position; the position it opened is protected; a restart never makes things worse |
| MT5 gateway (`src/infrastructure/broker/mt5_gateway.py`) | connection | position query, revalidated entry, stop update | the terminal, shared with people and other scripts | no entry while a position is open; one-way stops; approved money |
| protection record and reconciler (`src/execution/position_tracker.py`) | one JSON file | save, load, clear, reconcile | file system | the record never claims more than the broker holds; stale records go away |
| trailing policy (same file) | none | evaluate one candle | - | buffered, one-way, behind the close |
| setup detector (`src/strategy/setup_detector.py`) with the selector, the liquidity and the structure engine | setups, cooldowns, candidates, pools, levels | tick, candle close per timeframe, seed, drain, terminate | runner, analytics | cooldown respected, no stale setup, every sweep looked at |
| quote monitor, risk firewall, sizer, stop hardening, pre-submission guard (`src/execution/*`) | last quote change | observe, evaluate, size, approve | runner, gateway | an order loses no more than was approved, at whatever quote it is sent |
| structure and zone detectors (`src/analytics/ict_smc`) | none | detect over a candle list | strategies, detector, backtests | what was given is not taken back by later candles |
| entry strategies (`src/strategy/ict_smc_strategies`) | none | evaluate over a candle list | selector | an entry once given stays; its stop and target belong to it |
| backtest simulator (`src/backtest/ict_smc_backtest.py`) | pending, open, trades, skipped | one candle | - | every signal accounted for, no fill by a past candle, results within the plan |
| full-system replay (`scripts/run_ict_smc_backtest.py`) | the same, cooldowns, higher timeframes | one candle | selector, simulator's functions | no look-ahead, the place limit, entry gates |
| execution router (`src/execution/execution_router.py`) | idempotency registry, queue, ledger, halt flag, four tasks | submit, halt, terminate, worker, stream consumer, reconciliation | broker, state manager | one submission per key; the ledger follows the lifecycle table and the truth |
| lifecycle table (`src/execution/order_lifecycle.py`) | none | validate | router | terminal states are terminal |
| event bus (`src/core/events/event_bus.py`) | priority heap, sequence counter, drain task | publish, subscribe, start, stop | publishers, handlers | nothing lost or doubled; priority, then publication order |
| replay engine and scheduler (`src/backtest/replay_engine.py`, `src/backtesting/*`) | track cursors, pause flag | next event, pause, step | event bus | chronological order |
| state manager (`src/strategy/state_manager.py`) | active state, journal | commits under a lock, one commit outside it, rollback | everybody | sequence ids, journal equals history |
| feed, API, database models, telemetry, reports | - | I/O | - | - |

The full list with a status for each is in `PROJECT.json` under `components`;
what can go wrong in each of them, with its line, is under `hazards`.

### Where it is hard

* **Check-then-act on a shared terminal.** Every entry is guarded by a query
  and sent by another call; people and other scripts use the same account.
* **Answers that lie by omission.** `positions_get` and `order_send` may answer
  `None`; the code reads the first as "no position" and the second as "rejected".
* **Crashes.** Between a fill and the record, between a moved stop and the
  record, and inside the write of the record itself.
* **Stale reads.** A batch of candles is worked off against one query; a candidate is
  sized at one quote and sent at another; the guard is told the quote's age of the
  loop's head.
* **Repainting.** Detectors and strategies forget nothing because they remember
  nothing: with each candle everything is computed anew, and an answer that was
  acted upon may be gone. Swings are replaced, volatility is measured over the whole
  list, the best of several setups changes.
* **Two sources for one ledger.** A submission's answer and the broker's stream
  race, and an exception says nothing about what the broker did.
* **Suspension points.** `put()` on a full queue, `get()` on an empty one, and
  broker calls are the only places where the event-loop tasks interleave, and
  each is followed by code that trusts something read before it.
* **Replays.** Pending orders wait, expire, fill and are managed in one pass per
  candle; a limit is tested when an order is placed and used when it fills; higher
  timeframes must not show what has not happened.

## 2. Modules

| module | models | kind |
|---|---|---|
| `StopTrail` | `evaluate_candle_confirmed_trail` | pure operators |
| `TradeRunner` | runner, gateway and record, any number of runners on one terminal | state machine |
| `OrderLifecycle` | the lifecycle table: what a ledger promises | abstract specification |
| `ExecutionRouter` | the router's tasks with a broker | state machine, refines `OrderLifecycle` |
| `EventBus` | publishers, drain task, start and stop over an asyncio queue; its proofs | state machine |
| `LiquidityPools`, `StructureEngine` | `analytics/liquidity_engine.py`, `analytics/structure_engine.py` | state of the detector |
| `SetupDetector` | detector, selector, setup lifecycle, over the two engines | state machine, composition |
| `EntryRisk` | quote monitor, risk gate, sizing, stop hardening, cost gates, the gateway's revalidation and the guard; its proofs | state machine |
| `Candles` | a candle on the axis of a direction, and the arithmetic all detectors repeat | pure operators |
| `SwingPoints`, `BreakOfStructure`, `MarketStructureShift`, `ChangeOfCharacter` | the structure detectors | pure operators |
| `MarketStructure` | closed candles arriving one by one, under the structure, zone and raid detectors and the entry strategies, with what these promise | state machine over the pure operators |
| `PriceGaps`, `PriceBlocks`, `SessionRaids`, `RangeManipulation`, `LiquidityRaids` | the zone and raid detectors: gaps, blocks, session raids, manipulated ranges, stop hunts, pool sweeps and Silver Bullets (fifteen source files, named in each header) | pure operators |
| `SweepMssFvg`, `FvgContinuation`, `OrderBlockRetest`, `BreakerBlock`, `PdhPdlRaid`, `PowerOfThreeAmd`, `JudasSwing`, `SilverBullet`, `NewsLiquiditySweep`, `HtfPoiLtf`, `KillzoneScalping`, `LiquidityToLiquidity` | the twelve entry strategies | pure operators |
| `TradeManagement` | fills and the management of a position on one candle; lemmas about them and about folds | pure operators |
| `Backtest` | `run_backtest`; its proofs | state machine over `TradeManagement` |
| `StrategyReplay` | the full-system replay; its proofs | state machine over `TradeManagement` |
| `MC...` | values of constants for TLC | instances |
| `TradeRunner_proofs`, `ExecutionRouter_proofs`, `Detection_proofs` | theorems | proofs |

### StopTrail and TradeRunner

Prices are integers on the favourable axis: the entry is 0, one R is
`RiskUnits`, the initial stop is `-RiskUnits`, and BUY and SELL coincide (the code
multiplies by `direction_sign`). The buffers of 0.20 R and 0.15 R are
`ConfirmBuffer` and `TrailBuffer`; `\div` is `floor`. `StopFor(m)` is
`(max(0, m - 1) - 0.15) R`. Floating-point rounding (the code adds 1e-9 before
one floor and not before the other) is not modelled.

One step of a runner goes up to and including one terminal call or one file
operation. `pc` names where the process stands between two of them:

| pc | code |
|---|---|
| `off` -> `loaded` | `plan_store.load()`, `run_strategy` :249 (`Start`, `StartFails`) |
| `loaded` -> `loop` or `clear` or `off` | `synchronize_positions` and `reconcile` :293-299, exit code 2 :367-379 |
| `loop` -> `trail` or `clear` | `manage_protected_position` :158-163 |
| `trail` | one candle of the batch: `PassCandle`, or `ModifyStop` (`route_position_stop_update`) |
| `save` -> `saving` -> | `write_text`: the file is emptied, then written |
| `loop` -> `guard` | a candidate through every gate, `synchronize_positions` :625 |
| `guard` -> `send` | revalidation and `positions_get` of the gateway :203 |
| `send` -> `filled` or `off` | `order_send` :236 |
| `filled` -> `save` or `loop` or `off` | query and plan :727-743 |

Permissions are a set, `"execute"` for `--execute-one-demo` and `"manage"` for
`--manage-open-demo`; a run without either is shadow mode. A *frame* is the setup
from which entry, stop and target come; `reconcile`'s comparison of symbol,
direction, entry and take-profit is equality of frames, and a person who edits the
target, or opens a position, makes frame 0. The record on file is a plan, `NoPlan`
(no file) or `Torn` (emptied and not yet written, which `load` cannot parse).
Detection, scoring, risk, cost and pre-submission gates are, in this module, whether
a candidate gets through; `SetupDetector` and `EntryRisk` open them up. Unhandled
exceptions of the terminal end the process and are crashes of the model.

`ModifyStop` sends the snapshot's target with the new stop. The terminal answers `DONE`
(applied), `PLACED` (which `route_position_stop_update` counts as applied, :373-377, and the
runner then saves the milestone), nothing, or a refusal; an update answered `PLACED` or
nothing may still be under way (`updates`) and be applied later, or never. `deferred` is a
history field: the tickets that ever had such an update.

The world is external: `BrokerCloses` (stop, target or a person), `BrokerExecutes`
(an order answered `PLACED`, or unanswered, executes or dies later), `BrokerUpdates` (a
stop update likewise), `ManualOpen`, `ManualTarget`, `ManualStop`. Each fault
(`LateExecution`, `LateUpdates`, `QueryMayFail`, ...) has a constant that switches it on, so that
a property is stated with exactly the faults it tolerates.

### SetupDetector, LiquidityPools, StructureEngine

A tick sweeps pools, may evaluate the strategies (at once after a sweep, otherwise
when the interval is over), accepts the selector's best against cooldown and quality
floor, and drops setups that have expired - one action, as the handler never suspends
half way. Closes of 1m and of 1h candles, the seeding of history, the drain by the
runner and `terminate` are the others. What a strategy answers is any of `Signals` or
nothing: the strategies themselves are other modules. Where the code sorts and takes
the first of several equals, the model takes any of them; where it relies on the order
of a list, it is modelled by the smallest id. The confidence decay of tracked setups,
which nothing reads, is left out.

### EntryRisk

The runner's loop between two terminal calls: `Observe` (read a quote, the activity
monitor, skip what was processed), `Decide` (one candidate: score tier, risk gate, stop
hardening, volume, cost gates) and `Submit` (the gateway revalidates at the quote of that
moment, adapts the volume or forces the smallest lot, and asks the guard). `Market`
moves time and quote between any two of them. Money is counted in units in which one
step of volume held over one unit of price is one.

### Detectors and strategies

All of them are operators from a tape to an answer, on the axis of a direction: the
source writes every rule twice, the model once, with `d` = 1 or -1. Session, bias,
pools and other context are constants of the module. Scores are integers (hundredths
of the code's), kept where a decision hangs on them; a middle of a zone is kept doubled
so that it stays an integer; buffers smaller than one unit of price make comparisons
strict; an average range (ATR) is rounded down to a whole unit, so a comparison that the
code decides by a fraction of one may fall the other way in the model. What a definition stands for line by line is in the `map`. `MarketStructure` adds one
closed candle at a time and calls the detectors and the strategies with the tape before and
after: what may change and what may not is an action property. What a detector is handed in besides the candles (levels, events,
pools, windows, buffers, bias) is one record of constants for each module (`GapContext`,
`BlockContext`, `SessionContext`, `RangeContext`, `RaidContext`); `OrderBlock` and `Plans` hold
the configurations and contexts of the strategies, a record for each. The loops of the detectors
are recursive functions over the candles, so that they can be proved about. `SwingsOnly` names
the scripts on which TLC is spared the zones and raids, the `on` of each plan those on which its
strategy is asked; the theorems hold for every choice of both.

### TradeManagement, Backtest, StrategyReplay

A candle lasts two units of time and there may be a gap before the next. A step is one
candle of the loop: manage what is open, try the pending orders (a filled one is, in the
full replay, checked again and managed at once), admit signals. Positions close in
quarters; `realized` is quarters times price, so results stay integers. `StrategyReplay`
takes any of `Selections` for the selector's signal and aggregates higher timeframes
from the minute candles as `_aggregate_timeframe` does; the higher candles are a set, whose
order the code's list has from their start times, and `Shown` is the moving cursor
over them.

### ExecutionRouter

One step runs from one suspension to the next. The worker suspends in `get()` and
in the broker call and nowhere else (its symbol lock is only ever taken by itself,
so it never waits). `Proceed` is the head of the loop with the halt check; `Take`
is the return of `get()`, which no check follows. The spread gate looks at one
snapshot between suspensions, so a verdict holds for the whole rest of the queue
(`DropAll`) until the worker suspends again. `Recorded` is
`_update_local_ledger_state` together with the `except` branch of its caller.
`Consume` is the stream consumer with the state commit, `ReconQuery` and
`ReconCorrect` the two halves of a reconciliation cycle around its await.
`OrderLifecycle` is instantiated with the ledger as the status of each order, a
terminated router's ledger being "forgotten".

The broker answers a submission (`reply`), reports progress on an ordered stream
and may repeat itself. `DirectFill` is the MetaTrader gateway, which answers
`FILLED` or `REJECTED` at once and whose stream yields nothing.
`AckOnStream` puts the answer on the stream too; without it the stream can run
ahead of the answer. `TransportMayFail` lets the submission raise although the
order may have arrived. Two history fields say what happened: `waited`, whether the worker
was waiting in `get()` when the halt came, and `raised`, whether a submission raised.

### EventBus

`asyncio.PriorityQueue` is external and modelled by what matters of it: `put()`
takes a free place at once whoever else waits, `get()` wakes the oldest sleeper,
and a woken sleeper checks again when it is scheduled. The sequence number is
taken before any of that. Handlers run while the drain task waits for them; they may
raise (`failures`), and publish nothing, as no handler in the repository does. `by`
is a history field: the publisher of an event.

## 3. Runs

| run | configuration | checks |
|---|---|---|
| `runner_single` | one runner, all permission sets, 2 crashes, 3 tickets, batches of up to 2 candles; stop updates may be refused, lost or put off | `TypeOK`, `SinglePosition`, `PlanKeepsOwnFrame`, `OpenedIsManaged`, `MemoryMatchesRecord`, `StopNeverRetreats`, `StaleRecordIsCleared` |
| `runner_hostile` | the same with 2 tickets, 1 crash, manual trading, a stop raised by hand, failed queries and late executions | `RecordNeverAhead`, `OneEntryPerRun` |
| `torn_record` | one runner that crashes once | `RecordSurvivesRestart`: violated |
| `router` | three requests, two with one key, a queue of one, a broker that acknowledges and streams, submissions that may raise | `TypeOK`, `OncePerKey`, `OneAfterHalt`, `FilledIsTrue`, `ConsumerSurvives`, `LedgerFollowsLifecycle`, `FillReachesLedger` |
| `bus_publishers` | three publishers, queue of two, five events, one stop with restarts | `InOnePlace`, `FifoUnlessDelayed`, `FifoPerPublisher` |
| `setups` | two pools, three strategies, ticks up to time 7 against cooldown 3 and expiry 4, termination anywhere | `CooldownHolds`, `TrackedAreFresh`, `PoolsApart`, `LevelsBracketClose`, `SweepsAreEvaluated` |
| `risk` | four setups, six quotes on either side of stops and limits, three budgets, two volatilities, a market that moves between any two steps | `RiskWithinBudget` |
| `stale_quote` | the same | `FinalGateFailsClosed`: violated |
| `structure` | fourteen tapes with branches: one leading each strategy to its entry and past it, two for the swings | `SwingsKeepTheirGap`, `SwingsAnswerOnce`, `BlocksHoldUntilEntry`, `StructureIsNotRepainted`, `FailedBreaksStayFailed`, `ShiftConfidenceKept`, `EntriesStay` |
| `swings_repaint` | the two tapes for the swings | `SwingsAreNotRepainted`: violated |
| `replay` | every sequence of five chosen candles, one of which gaps over the first target, over market and limit signals, one of which becomes active within a candle | `NothingDisappears`, `FillsAreForward`, `ResultWithinPlan`, `MetricsAreExact` |
| `full_replay` | tapes of minute candles with a gap, four selections, hardening on or off, one place | `PlacesAreEnough`, `EntriesKeepThePlan`, `NoLookAhead` |

What they show, in words:

* **One runner is safe on a truthful terminal.** Stopped, crashed and restarted
  anywhere, with any permissions, it never holds two positions, always trails a
  position with that position's own frame, protects what it was told it opened,
  and agrees with its record whenever it is back at its loop.
* **Stops ratchet.** Refused and lost updates, further candles of the batch and a
  restart from an older record never move a stop back - as long as nobody else
  moves it up in between, and no update of the position was put off: one that arrives
  late brings its own, older stop.
* **The record is conservative, `PLACED` aside.** A milestone is written after the answer
  that its stop is applied, so no crash, late execution of an order or manual trade makes the
  record claim more than the broker holds (`RecordNeverAhead`, in the hostile run). The
  answer `PLACED` breaks this, and the property excepts the positions concerned (`deferred`);
  without the exception TLC finds the record ahead of the stop after one such answer.
* **Money is bounded at the quote of the order**, not only at that of the sizing:
  the adaptive volume and the guard together keep the loss at the stop within the
  budget of the score tier, or twice that when the smallest lot is forced. The quote-age
  limit of the guard, however, never refuses anything, which `stale_quote` shows.
* **The detector keeps its books**: cooldown and expiry hold over any order of ticks
  and candles, no two pools stand for one level, and a tick that takes a pool is always
  one at which the strategies are asked, even within the evaluation interval.
* **Given stable swings, the detectors do not repaint**, apart from the withdrawals the
  code intends; each conjunct of `StructureIsNotRepainted` names what stays and until when.
  **Entries stay**: the entry (where the code keeps them, stop and target) of a setup is the
  same on every later candle. Where volatility is measured over the whole list, stops
  follow later candles, and the property says so by leaving them out.
* **The replays are honest**: every signal ends in exactly one log, no order is
  filled by a candle that began before its signal was known or was over before the order became
  active (within the candle of its activation it may be, see below), a trade loses no more than planned, higher timeframes show nothing early,
  and an order that fills still has a stop on the right side and a final target that pays.
* **The router submits once per key**, lets at most one request slip through a
  halt (none if its worker was not waiting for one), and never claims a fill that did not
  happen; its ledger implements `OrderLifecycle`. With a broker that acknowledges before it
  fills, its consumer survives until a submission raises, and as long as it does every fill
  arrives.
* **The bus loses and doubles nothing** and keeps each publisher's order.

### Disagreements with the text

Three runs are expected to fail; each checks one sentence of the repository against its
code (`findings` in `PROJECT.json` quotes them).

| run | sentence | counterexample |
|---|---|---|
| `torn_record` | README: the record survives a restart | crash between truncation and write; every later `load()` raises |
| `swings_repaint` | `docs/ict_smc_swing_points.md`: confirmed swings do not repaint | a stronger swing within the gap replaces one already given |
| `stale_quote` | README: with no quote change for five seconds the final gate fails closed | time passes between the decision and the submission, no quote comes, and the order goes out: the gate is given the age of the loop's start, which is 0 (`AgeIsNeverRefused` says why) |

The models also reach these states, for which no run is kept (the constant or instance
that shows them is named):

* two entry scripts both query, both send (`TwoRunners`, or `ManualTrading`), although the
  README says the gateway refuses the second; `PLACED` counts as filled and the only query
  after it sees nothing, so the position is never protected (`LateExecution`); `PLACED` counts
  as applied for a stop update too (`mt5_gateway.py:373-377`), so the record claims a milestone
  whose stop has not moved and may never move (`LateUpdates`); a stop raised
  by hand after the query is overwritten by a lower one (`ManualStops`); a query that fails
  three times lets a single runner enter a second time (`QueryMayFail`); a fill hidden
  behind a manual position makes the plan adopt that position.
* the lifecycle table has no `PENDING_SUBMIT -> FILLED`, so a filled order of the MetaTrader
  gateway ends as `REJECTED` (`DirectFill`); a fill between query and use of a reconciliation
  is overwritten by zero; an order recorded `REJECTED` after a lost answer kills the stream
  consumer with its next report; one request is sent after the halt.
* a sleeper in `put()` is overtaken by a later event of its priority; `stop()` of the bus
  leaves events queued although its docstring says it drains.

Read in the code while modelling it, and kept by the definitions:

* `stop_hunt_reversal.py` sorts its events by `event["sweep"]["sweep_index"]`, which an
  unclear sweep does not have: with one in the list the detector raises (`Raises`; the
  property says it does so for good).
* `power_of_three_amd.py` raises `UnboundLocalError` at the candle that reclaims the range:
  `detect_distribution_shift` reads `rejection_reason` (line 503) after a loop without a turn,
  although `generate_amd_signal` promises "a complete AMD signal or a no-trade/context-only
  decision" (line 670). The selector catches it; `Raises` and `EntryStays` state that it
  costs the answer of that one candle.
* `liquidity_to_liquidity.py` raises `AttributeError` when the candles have no pool or no
  start: `_empty_path` gives `entry_model` as `None` (line 818), and the scoring calls
  `entry.get` (line 427). The selector catches this too (`Raises`, `PartialForGood`).
* A strategy may be tradeable without the reaction its document asks for:
  `fvg_continuation`, `htf_poi_ltf_confirmation` and the Silver Bullet detector accept a mere
  touch. `liquidity_to_liquidity` is never valid without an entry model, `pdh_pdl_raid`
  without previous-day levels, `news_liquidity_sweep` without a calendar; the live context
  has none of the three.
* The London raid's continuation is practically never valid (`LondonFadesOnly` states why);
  the AMD detector's score threshold never decides.
* `fair_value_gap` and `order_block` go back to an earlier status when a later candle says
  so; a failed order block can be revived by a later event; a retested breaker never fails.
* In the backtests an ambiguous fill candle of a limit order is never counted, a market fill
  gapped through its stop is never managed, time exits come before the stop, and orders
  pending at the end are in no log. `ict_smc_backtest.py:5-6` says that orders "cannot fill
  before they are active", `docs/ict_smc_backtesting.md:60-62` that a touch before the order was
  placed does not count. `simulate_order_fill` (:137-140) refuses only a candle that is over by
  `valid_from_time`: when that time lies within a candle, a limit order is filled by a touch
  earlier in that candle and a market order at its open. `Fill` and `MarketFill` do the same, the
  instance of `replay` has such signals, and `FillsAreForward` claims whole candles only. A market fill may gap over its first target; taking that "target" then books a loss
  and moves the stop to the entry all the same, which `ResultWithinPlan` leaves out. The full replay's `move_stop_to_be_after_target_1` with
  index 2 (`config/backtest_profiles.json`) never moves a stop, and the cooldown starts
  before the trap filter, so a rejected signal has used it.
* The drawdown halts of the risk firewall are inert in the live runner, which reports no
  outcome to it.

### Bounds, and why they are enough

* Runners: one, where the property is about one run and its successors (restart is
  the same process again).
* Tickets (3 in `runner_single`): a position, its successor, and one more for a second
  entry; with manual trading, in `runner_hostile`, 2: a position of the runner and another one,
  before, beside or after it. The theorems hold for any number. Crashes (2): one in each of two consecutive lives, enough for
  a crash during the recovery from a crash.
* `Closes` lie just below and on the first confirmation line and on the second;
  batches of 2 let a second candle build on the first. The target allows three
  milestones.
* Router: two requests with one key and one with another is what idempotency can
  confuse; with a queue of one, overflow is reached by the second submission, and a request
  can be queued behind the one being sent, which a halt must hold back (`waited`). Two
  unread reports let the stream repeat itself and go on before the answer is read. Longer
  queues, and a broker that does not acknowledge on its stream, are left to the theorems
  (`HaltLetsOneThrough`, `FillsAreTrue`, `LedgerImplementsLifecycle`).
* Bus: with a queue of two, five events and three publishers there can be two
  sleepers while a third takes the freed place. Publishers are interchangeable
  (symmetry; that run has no liveness property).
* Setups: seven units of time hold two cooldowns and an expiry; `MaxMade`, `MaxTouches`
  and `MaxQueued` (2 each) let two pools compete for a level and two candidates wait.
* Risk: quotes lie on both sides of every threshold (spread, stop, target, drift); time
  4 is beyond both age limits. What the bounds leave out, the theorem covers.
* Structure: candles are not enumerated but scripted, because a setup needs ten candles in
  proportion; each script branches at the candles where the setup is confirmed, delayed or
  broken, and goes on for several candles after the entry. All modules see all twelve
  strategy tapes; the swing modules alone see the leg tape with its many branches.
* Replays: five candles are a signal, a fill, a partial, a stop and an end; `Times` has a
  gap longer than the stale limit; one place with two possible orders is the race for it.
* `CHECK_DEADLOCK FALSE` appears where a behaviour really ends: bounded events of the bus,
  the last tick, the last candle of a tape, the end of a replay.

### Fairness

`StaleRecordIsCleared` assumes weak fairness of a runner's own steps: a started
process keeps executing, and its supervisor (`scripts/windows_vps_demo_loop.ps1`)
starts it again; crashes, the broker and people are never forced. `FillReachesLedger`
assumes that the event loop runs tasks that are ready (`Take`, `Return`, `Consume`)
and that the broker answers what it was sent; nothing forces submissions, halts,
terminations or reports.

### Mutants

Every property of a passing run has a mutant, defined beside the operator it
changes and marked as such (for instance `SeenOrNothing`: a failed query where
none was to fail; `ImprovesAlways`: no one-way test; `SubmitAgain`: no look at the
registry; `ApprovedBlindly`: the override approves any risk; `CooldownStarted`: the
cooldown ends when it begins; `CandidatesEarly`: a swing counts before it is confirmed;
`ShownAtStart`: a higher candle is shown when it starts).

## 4. Proofs

Checked by TLAPS for every value of the constants that the named assumptions
(`TrailAssumption`, `RunnerAssumption`, `RouterAssumption`, `BusAssumption`,
`PoolAssumption`, `ClockAssumption`, `RiskAssumption`, `MarketAssumption`,
`BacktestAssumption`, `ReplayAssumption`, `ReplayTypes`, `StructureAssumption`,
`CandleAssumption`, `ContextAssumption`, `WaitsAssumption`, `PlansAssumption`) allow. The named assumptions say what
the constants are; what a theorem needs besides stands in its ASSUME.

The runner and its record:

* **`StopBehindClose`** - any stop the policy proposes is strictly below the close
  that confirmed it. From the division bound and `confirmed >= 1`.
* **`TradeRunner_proofs!TypeCorrect`** - one step per action; the only arithmetic
  is that a decision's milestone is a natural number.
* **`AccountHoldsOnePosition`** - for one runner without manual trading, failed
  queries and late executions. `SinglePosition` is not inductive: it needs
  `FlatAhead`, that between a successful guard and the order the account is flat,
  which holds because only this runner opens positions. Closing positions keeps it.
* **`StopRatchets`, `RecordIsSecured`** - for one runner with every fault except
  a stop moved by hand, and for the positions that never had an update put off (`deferred`).
  `TrailInv` says: tickets known to memory or file are below
  the next ticket and not in flight (`TicketsOK`, `KnownSettled`), so that a late
  execution cannot bring one back with an initial stop, and an update still under way
  is of a ticket in `deferred`; the broker's stop is at
  least the snapshot's (`SnapCovers`: a lost update only raises it), while the
  runner works on a batch the snapshot is of its plan's position (`SnapIsPlan`),
  and the milestones of file, memory and batch are secured at the broker
  (`Secured`). A modification then moves the stop above the snapshot and, because
  `StopFor` is monotone, above every lost update before it.
* **`RunEntersOnce`** - an action property without hypotheses, for any number of runners:
  with `EntryInv`, a run that was told of a fill has `entry_submitted_this_run` up, and a
  run on its way to the broker has it down.
* **`MemoryIsRecord`, `PlanIsOwnFrame`, `FilledIsProtected`** - for one runner without manual
  trading, failed queries and late executions, and with no stop moved by hand beyond the target
  (with any of these `PROJECT.json` and section 3 show what breaks). The three hold together or not at
  all, hence one `RecordInv`: every position is in its own frame, with its stop short of its
  target, as an update under way will leave it, and the record is of the only one there is (`AccountInv`); memory equals file except
  inside a save or clear, and whatever the runner works from, plan or snapshot, is in its own
  frame (`PlanInv`); the position a run was told it opened is gone or its plan's (`FillInv`).
  A restart accepts a record because its frame is right, and the frame is right because only
  an accepted record or a fresh fill is ever written. `StopBeforeTarget` keeps a trailed stop
  short of the target, without which `reconcile` would refuse the position.

The router and its ledger:

* **`ExecutionRouter_proofs!TypeCorrect`** - including the queue bound.
* **`HaltLetsOneThrough`** - with `HaltInv`: after the halt the worker waits only if it did so when
  the halt came, and once a submission has begun it waits no more.
* **`KeysAreSentOnce`** - with `KeyInv`: keys of queued requests and of sent
  requests are registered (or the router is terminated), are distinct in the
  queue, and no queued request has the key of a sent one.
* **`LedgerImplementsLifecycle`** - the refinement of `OrderLifecycle`: initial states map to
  initial states, and every step of the router is a step of the table or a stutter. With
  `KeyInv` and `LedgerInv`: answers, stream, broker and ledger speak only of requests that
  were sent, and until termination the ledger holds exactly those. Worker and stream consumer
  both write the ledger through `Recorded`, and whichever comes second finds its transition
  allowed or leaves the entry alone.
* **`FillsAreTrue`** - without hypotheses; `FilledInv` extends `FilledIsTrue` to what is still
  under way, the answer of a submission and the reports on the stream.
* **`ConsumerLives`** - for a broker that acknowledges on its stream (`AckOnStream`) and does not
  answer with a fill (`DirectFill`), until a submission raises; section 3 says what
  happens then. Until then `StreamInv` orders every place that knows of a request on the lifecycle:
  its unread reports follow one another, or repeat, up to where the order stands
  (`StreamFits`), and so does the answer under way (`ReplyFits`); what the ledger says precedes
  every unread report of the order, and if it says `PENDING_SUBMIT` of an order that has
  arrived, the first answer to it is still to be read (`LedgerFits`).

The bus, the detector and the money gates:

* **`NothingIsLost`, `OnlyDelayedAreOvertaken`, `PublisherOrderIsKept`** (in `EventBus`) -
  `PlacesInv`: a publisher holds at most one event and it carries his name, so that the held
  events are distinct, and the sequence numbers of all places together are exactly those
  given out. `OrderInv`: what a publisher holds has waited and is later than all of his
  elsewhere, and nothing dispatched is later than something of its publisher and priority
  in the heap.
* **`PoolsAreApart`, `CloseIsBracketed`** - with `EnginesInv`: the ids of pools are distinct and already given,
  and bounds are integers; a new pool is made only where no pool matches, a match only raises
  a touch count, and a close that breaks a level removes it.
* **`CooldownIsKept`, `TrackedStayFresh`** - with `SetupsInv`: ids do not exceed the counter,
  no setup was made in the future, and the registry entry of a setup's key is at least its
  creation plus the cooldown (which termination may reset only because it forgets the setups
  with it).
* **`NoSweepIsMissed`** - an action property, from `PoolsHaveCandles`: while the detector runs,
  a pool implies that candles are held, whatever seeding and termination did.
* **`RiskStaysWithinBudget`** - with `PlanWithinBudget`: what was approved is the product of
  whole steps and the loss per step, and division never rounds it above the budget
  (`SizedWithinBudget`); the forced smallest lot is where the factor of two enters.
* **`AgeIsNeverRefused`** - with `AgeInv`: once the monitor has seen a change, what it saw
  last is what the loop processed last, so a quote that passes as unprocessed changed just
  now.

The backtests, whose candles are nested loops over growing lists:

* **Loops.** The models write them as folds of the community modules. `FoldExists` and
  `FoldWalks` (in `TradeManagement`) unfold a fold to the chain of its intermediate values, one
  item after the other, and the lemmas ending in `OneByOne` say so of each loop of the two
  replays; `TargetsKeep` does the same for the targets within one position.
  What every pass of a loop preserves then holds of its end by `CountingUp`, induction over a
  set of naturals, itself derived from the library's well-foundedness of `<`; the induction
  theorem with an operator parameter is not needed.
* **`NothingIsDropped`, `FillsComeLater`, `ResultsStayInPlan`** - for all sets of signals and
  candles. `BacktestInv` types the lists by what was known by the candle: pending orders are
  of admitted signals, positions entered after them, trades within the plan; and it contains
  `NothingDisappears`, which every pass preserves because it removes an item from the list it
  walks and adds one item of that name to some list (`LoopAdds`). `ResultWithinPlan` speaks
  of trades, and needs of a position still open (`InPlan`) that its stop is the first one or,
  once moved, at the entry, and that its booked part lost no more than its share of the risk.
  That candles do not overlap is in `MarketAssumption`.
* **`MetricsStayExact`** - for every list of integer results (`DrawdownIsExact`,
  `StreakIsExact`), hence for whatever `BacktestInv` allows as trades. After m results the
  drawdown loop knows the equity, its peak and the worst fall among the first m + 1 points of
  the curve (`FallsKnown`), the streak loop the length of the stretch that ends there, bounded
  by a result that does not continue it, and the longest so far (`RunsKnown`).
* **`PlacesSuffice`, `EntriesStayPlanned`** (in `StrategyReplay`) - with `ReplayInv`, the same
  for the lists of the full replay. `PlacesSuffice` needs no hypothesis. `EntriesStayPlanned`
  assumes `Gated`: a selection has its stop below its entry, as every strategy puts it behind
  the extreme that was raided or the zone that is retested, and the drift limit is a proper share of the
  risk, as in the script's default (0.35, `run_ict_smc_backtest.py:1523`) and the profiles
  (0.15, `config/backtest_profiles.json:160`). With a limit of 100% a fill could land on its
  own stop.
* **`ShownIsFinished`**, **`NothingIsAhead`** - candle by candle, and of all that the selector is
  shown. A higher candle ends by the close of a minute candle exactly when none of its rows is
  still to come, and then later rows are not in it (`FinishedIsKnown`); the minute candles
  advance in time, gaps included (`TimesGrow`), so that the rows of one bucket are those of its
  stretch of time (`RowsOfBucket`); and the cursor stands exactly behind the finished ones
  (`ShownStep`). Without hypotheses.

The structure detectors and the order block strategy (in `Detection_proofs`), over every
tape, without a bound on its length or its prices:

* **`SwingsStayApart`** - the filter runs candle by candle, and what every round keeps
  (`Filtered`) is that the accepted swings lie no later than the candle of the round and, side
  by side, apart (`DetectedAreFiltered`). A replacement puts a later swing where the last one
  stood (`ReplaceLast`), which only widens its distance to the one before.
* **`SwingsAnswerOnlyOnce`** - `detect` of each module is a recursive function over the candles.
  `BreaksOneByOne`, `WarningsOneByOne` and `ShiftsOneByOne` derive that the function exists and
  is the chain of its values, candle by candle; `CountingUp` carries along that no two events
  so far have one swing: an earlier one is no candidate any more, and one candle gives each
  direction one event of its own kind of swing.
* **`FailureIsForGood`, `ConfidenceIsForGood`** - `TapeInv` (candles are candles) and a lemma for
  each piece a break or a shift is made of: it reads no candle behind the event or, for
  failure, behind its lookahead; a failure found there is still there when the tape
  is longer (`ShiftFailureStays`), and none is found behind the lookahead. The sweeps found with
  a later candle lie after the shift, whose score looks back only (`ShiftScoreStays`), so that of
  its confidence just the cap of a failed shift can still change.
* **`BlocksHold`** - by cases on where a candle lies. Up to the retest, the search ends at the
  first candle that decides, so none before it closed through the block; the retest itself
  did not; and from the retest to the entry the reaction ends likewise. For every list of
  pools, every choice of swings, and all bounds of the three searches.
* **`StructureIsForGood`** - all of `StructureIsNotRepainted`, conjunct by conjunct, for swings
  of at least two right bars (the code's default is three). It assumes formed candles
  (`CandleAssumption`: the builder keeps the highest and the lowest price, `candle_builder.py:34`)
  and typed contexts with buffers that are not negative and a `min_rr` above 0 (the default is
  0.8, `london_open_raid.py:148`; `ContextAssumption`).
  * Breaks and shifts: whether a candle is a swing, and how strong, looks `RightBars` candles
    ahead and, in the penalty for chop, two, so a swing is confirmed alike on the longer tape
    (`RawStays`), and none is added that an earlier candle could use (`ConfirmedStays`). Then,
    candle by candle, the loop on the longer tape has the same candidates and gives the same
    answer (`BreaksAlike`, `ShiftsAlike`).
  * Zones and raids: what a definition reads up to a candle is the same one candle later
    (`GapLooksBack`, `BlockLooksBack`, `PoolLooksBack`), and a search for the first candle
    that decides, once it found one, finds the same (`FoundStays`). What is left are the scores:
    their summands are compared one by one, and a sum that is the same or has grown still passes
    the threshold (`BlocksGoOn`, `PoolSweepsGoOn`, `HuntsGoOn`).
  * Session windows: the candles of a window are built one by one, so that the window of a
    longer tape is the same or one candle longer (`WindowGrows`); the rest is as above with the
    window for the tape. `FadesOnly` is arithmetic: a reward above 0 asks for a target beyond
    the stop.
  * Ranges: the trade that may be taken has the score no rejected one reaches (`AllowedByFounding`),
    and the best of finitely many scores is found by counting through them (`BestIs`).
  * A plan of Silver Bullet is one target, entry and stop (`PlanIsOne`), from the first gap after
    its sweep.
* **`EntriesAreForGood`** - all of `EntriesStay`, one lemma for each of eleven strategies (the
  twelfth has `BlocksHold`); `EntriesGoOn` puts them together. It assumes that the strategies'
  waits are counts, that acceptance of a breaker waits for a candle at least (the default is
  three, `breaker_block.py:403`), and that the swings a context brings to the zone strategy are
  one for each side and candle (`WaitsAssumption`, `PlansAssumption`); nothing of scores,
  thresholds or spreads.
  * The setup named in the property fixes what the search starts from. Each of its steps is the
    first candle, or the only one, in a window that the next candle extends by itself at most
    (`FoundWindow`), so a step that was found is found again (`LeastStays`, `SameFirst`), and the
    next starts from the same candle. Where the code takes the extreme of a window
    that may still grow - the acceptance of a breaker - a later step already exists, and with
    it the window is over (`AcceptanceStays`).
  * The zone strategy takes the best of several sweeps and zones. That the best is one needs the
    order to be total on what is compared (`OneSweep`, `OneShift`, `OneDisplacement`); on a longer tape the
    old ones are still candidates with at least their old quality, so the new best is no worse.
  * The path between pools: pools are never taken away and their extremes only move outwards, so
    what lay inside of the range stays inside; the start is the taken pool and fixed.

Each strengthening was also checked by TLC on the instances above before it was
proved.

Every invariant and every action property that a run checks is proved. Model-checked only:
the three sentences that runs show violated, and the two liveness properties
(`StaleRecordIsCleared`, `FillReachesLedger`), because liveness under fairness and ENABLED are
outside the prover's reach. Out of reach as well are RECURSIVE operators, of which the modules proved about have
none, and the library's induction theorems with an operator parameter, in whose place stands
`CountingUp`.

## 5. Not modelled

* **Journal, rollback and the health commit of the state manager**: nothing outside the
  tests calls them, so there is no behaviour of the program to check.
* **Replay scheduler, controller and clock**: sequential code over sorted lists that no
  script drives. `fill_engine.py` and the simulator interface are unused likewise.
* **Scoring weights, confirmation, and the analytics under "Other ICT/SMC analytics" in
  `PROJECT.json`**: stateless functions from floats to floats; whether a candidate
  qualifies, and with which score, is a free choice of the models.
* **Candle builder and session engine**, connection handling and symbol resolution of the
  gateway, loading, profiles and deployment gates of the replay script.
* **Telemetry, API, database models, reports, feed, lifecycle manager**: output, tables,
  attributes nothing reads, a feed the live runner does not use, a cascade over no
  subsystem.
* In the models that exist: floating-point rounding, a stop of 0.0 for "none", a shadow run
  beside a managing one, handlers that publish, warnings and wording.

## 6. Plan

Built, in this order: runner and record, router and ledger, bus, detector with its
engines, money gates, structure detectors, strategies, zones and raids, both backtests.
What is left and worth doing:

1. Two runs sharing one record, if the code ever serialises them.
2. `StateManager`, once something calls its rollback or health commit.
3. An abstract "protected account" (flat, exposed, protected at milestone m) that
   `TradeRunner` with one runner implements.
4. The remaining analytics as pure modules under `MCStructure`, one property each.
