----------------------------- MODULE SetupDetector -----------------------------
(***************************************************************************)
(* strategy/setup_detector.py, MarketSetupOrchestrator, with the selector  *)
(* (ict_smc_strategy_selector.py) and the lifecycle of what it found, over *)
(* the liquidity and structure engines it owns.                            *)
(*                                                                         *)
(* Each strategy of the library is a record of what the selector's gates   *)
(* read; its answer to a context is any member of Signals, or none.  A     *)
(* handler never suspends half way (the state manager's commits do not     *)
(* wait), so each is one step.  A tick whose quote the state manager       *)
(* refuses changes nothing here.  The confidence decay of tracked setups,  *)
(* which nothing reads, is left out.                                       *)
(***************************************************************************)
EXTENDS LiquidityPools, StructureEngine

CONSTANTS
  Strategies,       \* records: key, priority, minCandles, killzones, needsSweep, needsBias, newsOnly
  Signals,          \* what a strategy may answer: records dir, score, rr
  DisabledKillzones,\* session_filters.disabled_killzones
  MinScore, MinRr,  \* minimum_score, minimum_rr of the selector profile
  QualityFloor,     \* 60: what _accept_ict_strategy_selection asks again
  Interval,         \* _selector_evaluation_interval
  Cooldown,         \* 15 minutes
  Expiry,           \* DEFAULT_SETUP_EXPIRATION_MINUTES
  MaxBars,          \* the maxlen of a timeframe's candles
  Prices, Killzones, MinuteCandles, HourCloses,    \* what arrives
  Steps,            \* how far a tick may move the clock
  MaxTime,          \* bound: the last tick
  MaxMade,          \* bound: pools ever made
  MaxTouches,       \* bound: how often a level is repeated
  MaxQueued         \* bound: candidates waiting

ASSUME ClockAssumption ==
  /\ {Interval, Cooldown} \subseteq Nat /\ {Expiry, MaxBars} \subseteq Nat \ {0} /\ Steps \subseteq Nat
  /\ \A x \in Signals : x.dir \in {"BUY", "SELL"}
  /\ Prices \subseteq Int /\ MinuteCandles \subseteq [high : Int, low : Int, close : Int]
  /\ \A k \in MinuteCandles : k.low <= k.close /\ k.close <= k.high

VARIABLES
  now,              \* the time of the last tick
  lastEvaluation,   \* _last_selector_evaluation_at: a set of one time or none
  minutes,          \* how many 1m candles are held
  hours,            \* the closes of the 1h candles held
  setups,           \* _discovered_setups
  cooldown,         \* _cooldown_registry: 0 for a key that is not in it
  candidates,       \* _qualified_candidates: the ids queued
  counter,          \* _setup_counter
  running           \* terminate() has not been called

detectorVars == <<now, lastEvaluation, minutes, hours, setups, cooldown, candidates, counter, running>>
vars == <<poolVars, structureVars, detectorVars>>

Sides == {"BUY", "SELL"}
Keys == {s.key : s \in Strategies}

Init ==
  /\ PoolsInit /\ StructureInit
  /\ now = 0 /\ lastEvaluation = {} /\ minutes = 0 /\ hours = <<>>
  /\ setups = {} /\ cooldown = [x \in Keys \X Sides |-> 0]
  /\ candidates = <<>> /\ counter = 0 /\ running = TRUE

-------------------------------------------------------------------------------
\* directional_bias_matrix and _bias_to_strategy_text: oldest against newest close.  Only the 1h
\* entry is ever used: "NEUTRAL" counts as an answer, so the 4h one never stands in.
Directional(closes) == Len(closes) >= 2 /\ closes[1] # closes[Len(closes)]

\* _session_filter_allows and _is_eligible.  The context's news flags are constants of the
\* detector, all false.
Eligible(s, killzone, swept) ==
  /\ killzone \notin DisabledKillzones
  /\ minutes >= s.minCandles
  /\ s.killzones = {} \/ killzone \in s.killzones
  /\ s.needsSweep => swept # {}
  /\ s.needsBias => Directional(hours)
  /\ ~s.newsOnly

\* _evaluate_one: an answer that may be traded
Tradeable(signal) == signal.score >= MinScore /\ signal.rr >= MinRr /\ signal.rr >= 15

\* evaluate: the best by score, then rr, then priority; of equals the one defined first, which is
\* any of them here
Better(a, b) ==
  \/ a.score > b.score
  \/ a.score = b.score /\ a.rr > b.rr
  \/ a.score = b.score /\ a.rr = b.rr /\ a.priority >= b.priority

Best(found) == {a \in found : \A b \in found : Better(a, b)}

\* The answers of some strategies, of which each gives one or none
Answers(eligible) ==
  {f \in SUBSET {[key |-> s.key, priority |-> s.priority, dir |-> x.dir, score |-> x.score, rr |-> x.rr] :
                   s \in eligible, x \in {y \in Signals : Tradeable(y)}} :
     \A a, b \in f : a.key = b.key => a = b}

\* Mutant: the cooldown is counted from its start.
CooldownStarted(t) == t

CooldownUntil(t) == t + Cooldown

\* Mutant: a setup is tracked one unit too long.
AliveLate(t) == {s \in setups : t <= s.expires}

\* evaluate_invalidation
Alive(t) == {s \in setups : t < s.expires}

\* _accept_ict_strategy_selection
Accept(best, t) ==
  IF t < cooldown[<<best.key, best.dir>>] \/ best.score < QualityFloor
  THEN setups' = Alive(t) /\ UNCHANGED <<cooldown, candidates, counter>>
  ELSE /\ counter' = counter + 1
       /\ setups' = Alive(t) \cup {[id |-> counter + 1, key |-> best.key, dir |-> best.dir,
                                    created |-> t, expires |-> t + Expiry]}
       /\ cooldown' = [cooldown EXCEPT ![<<best.key, best.dir>>] = CooldownUntil(t)]
       /\ candidates' = Append(candidates, counter + 1)

\* Mutant: the interval holds for a tick with a sweep, too.
DueByClock(swept, t) == \A last \in lastEvaluation : t - last >= Interval

Due(swept, t) == swept # {} \/ \A last \in lastEvaluation : t - last >= Interval

\* on_tick_received
Tick(price, t, killzone) ==
  LET swept == Swept(price)
  IN  /\ now' = t
      /\ pools' = pools \ swept
      /\ IF minutes > 0 /\ Due(swept, t)
         THEN /\ lastEvaluation' = {t}
              /\ \E found \in Answers({s \in Strategies : Eligible(s, killzone, swept)}) :
                   IF found = {} THEN setups' = Alive(t) /\ UNCHANGED <<cooldown, candidates, counter>>
                   ELSE \E best \in Best(found) : Accept(best, t)
         ELSE setups' = Alive(t) /\ UNCHANGED <<lastEvaluation, cooldown, candidates, counter>>
      /\ UNCHANGED <<made, structureVars, minutes, hours, running>>

\* The pivot, if any, that a 1m candle completes becomes a pool (or repeats one)
RegisterPivot(left, w) ==
  IF PivotHigh(w) THEN Register(left, TRUE, w[2].high)
  ELSE IF PivotLow(w) THEN Register(left, FALSE, w[2].low)
  ELSE pools' = left /\ made' = made

\* on_candle_evacuation, a 1m candle
MinuteCandle(k) ==
  /\ minutes' = IF minutes < MaxBars THEN minutes + 1 ELSE minutes
  /\ StructureIngest(k)
  /\ RegisterPivot(pools, Window(k))
  /\ UNCHANGED <<now, lastEvaluation, hours, setups, cooldown, candidates, counter, running>>

\* on_candle_evacuation, a 1h candle: only kept, for the bias
HourCandle(close) ==
  /\ hours' = IF Len(hours) < MaxBars THEN Append(hours, close) ELSE Append(Tail(hours), close)
  /\ UNCHANGED <<poolVars, structureVars, now, lastEvaluation, minutes, setups, cooldown, candidates,
                 counter, running>>

\* seed_closed_candle: its close first sweeps, silently
SeedMinute(k) ==
  /\ minutes' = IF minutes < MaxBars THEN minutes + 1 ELSE minutes
  /\ StructureIngest(k)
  /\ RegisterPivot(pools \ Swept(k.close), Window(k))
  /\ UNCHANGED <<now, lastEvaluation, hours, setups, cooldown, candidates, counter, running>>

\* drain_qualified_candidates
Drain ==
  /\ candidates' = <<>>
  /\ UNCHANGED <<poolVars, structureVars, now, lastEvaluation, minutes, hours, setups, cooldown,
                 counter, running>>

\* terminate: the engines keep their pools and levels, and the bus keeps delivering
Terminate ==
  /\ running' = FALSE
  /\ minutes' = 0 /\ hours' = <<>> /\ setups' = {} /\ candidates' = <<>>
  /\ cooldown' = [x \in Keys \X Sides |-> 0]
  /\ UNCHANGED <<poolVars, structureVars, now, lastEvaluation, counter>>

Bounded == made < MaxMade /\ \A p \in pools : p.touches < MaxTouches

Next ==
  \/ \E price \in Prices, step \in Steps, killzone \in Killzones :
       /\ now + step <= MaxTime /\ Len(candidates) < MaxQueued
       /\ Tick(price, now + step, killzone)
  \/ \E k \in MinuteCandles : running /\ Bounded /\ MinuteCandle(k)
  \/ \E k \in MinuteCandles : now = 0 /\ Bounded /\ SeedMinute(k)
  \/ \E close \in HourCloses : running /\ HourCandle(close)
  \/ Drain
  \/ Terminate

Spec == Init /\ [][Next]_vars

-------------------------------------------------------------------------------
\* One (strategy, direction) is not queued twice within the cooldown.
CooldownHolds ==
  \A a, b \in setups :
    (a.key = b.key /\ a.dir = b.dir /\ a.id < b.id) => b.created >= a.created + Cooldown

\* What is tracked after a tick has not expired by it.
TrackedAreFresh == \A s \in setups : now < s.expires

\* No sweep is lost: while the detector runs, the tick that takes a pool is always one at
\* which the strategies are asked (a pool implies candles, whatever came first).
SweepsAreEvaluated ==
  [][running /\ now' # now /\ pools' # pools => lastEvaluation' = {now'}]_vars
===============================================================================
