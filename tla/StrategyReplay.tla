----------------------------- MODULE StrategyReplay -----------------------------
(***************************************************************************)
(* scripts/run_ict_smc_backtest.py, FullSystemICTSMCBacktester.run: closed *)
(* minute candles are replayed through the live selector.  On each candle  *)
(* the loop shows the higher timeframes that have closed by then, manages  *)
(* what is open, tries the pending orders, and considers the one signal    *)
(* the selector gives, if any.  Which signal that is, is open here (module *)
(* SetupDetector has the selector).                                        *)
(***************************************************************************)
EXTENDS TradeManagement

CONSTANTS
  Tapes,            \* the 1m candles that may be replayed: sequences
  Selections,       \* what the selector may give: key, dir, type, entry, stop
  Distances,        \* the stop distances the hardening may require, 0 without hardening
  Width,            \* how long a higher timeframe's candle lasts
  Warmup,           \* warmup_bars
  MaxOpen,          \* max_concurrent_positions
  Cooldown,         \* strategy_cooldown_minutes
  Life,             \* DEFAULT_SETUP_EXPIRATION_MINUTES
  Milestones,       \* the target ladder: a sequence of records rr, part
  MinRr, MinRiskToCost,
  MaxDrift, MaxDriftPct,   \* max_entry_drift_price, and the fraction of the risk in per cent
  TrapFilter        \* early_trap_filter is enabled

ASSUME ReplayAssumption ==
  Warmup >= 1 /\ MaxOpen >= 1 /\ Cooldown >= 0 /\ MinRr > 0 /\ Width \in Nat \ {0}

\* What the constants are
ASSUME ReplayTypes ==
  /\ \A t \in Tapes : t \in Seq(Minutes) /\ Len(t) <= Len(Opens)
  /\ \A s \in Selections :
       s \in [key : {x.key : x \in Selections}, dir : Directions, type : {"limit", "market"}, entry : Int, stop : Int]
  /\ Distances \subseteq Int /\ Milestones \in Seq([rr : Int, part : Nat])
  /\ {Life, Cooldown, MaxOpen, MinRr, MinRiskToCost, MaxDrift, MaxDriftPct} \subseteq Int

VARIABLES
  primary,          \* the 1m candles of this replay
  done,             \* how many are processed
  higher,           \* candles_by_timeframe of a higher timeframe, which their times order
  pending, open,    \* pending_orders, open_positions
  trades,           \* trade_log
  skipped,          \* skipped_log: keys and reasons
  cooldown,         \* cooldown_registry: 0 for a key that is not in it
  placed            \* signal_log

vars == <<primary, done, higher, pending, open, trades, skipped, cooldown, placed>>

Cost == 2 * Spread2 + Slippage

-------------------------------------------------------------------------------
\* _aggregate_timeframe over minute candles: what started within one bucket
Bucket(n) == OpenTime(n) \div Width

Aggregate(rows, t) ==
  [at |-> OpenTime(Min(rows)), end |-> CloseTime(Max(rows)), o |-> t[Min(rows)].o,
   h |-> Max({t[n].h : n \in rows}), l |-> Min({t[n].l : n \in rows}), c |-> t[Max(rows)].c]

Rows(t, b) == {n \in DOMAIN t : Bucket(n) = b}

\* The list of them, in the order of their times
Aggregated(t) == {Aggregate(Rows(t, b), t) : b \in {Bucket(n) : n \in DOMAIN t}}

\* Mutant: a candle is shown when it starts.
ShownAtStart(i) ==
  LET waiting == Aggregated(primary) \ higher
  IN  higher \cup {a \in waiting : \A x \in waiting : x.at <= a.at => x.at <= CloseTime(i)}

\* _advance_higher_timeframes: what waits is shown in the order of its times, up to the
\* first candle that has not ended
Shown(i) ==
  LET waiting == Aggregated(primary) \ higher
  IN  higher \cup {a \in waiting : \A x \in waiting : x.at <= a.at => x.end <= CloseTime(i)}

-------------------------------------------------------------------------------
\* Mutant: a fill better than planned is never too far away.
DriftedAgainst(order, price) ==
  LET drift == price - order.entry
      risk == Abs(order.entry - order.stop)
  IN  drift > MaxDrift \/ (risk > 0 /\ MaxDriftPct > 0 /\ 100 * drift > MaxDriftPct * risk)

\* _entry_drift_rejection_reason, a price limit and a share of the planned risk
Drifted(order, price) ==
  LET drift == Abs(price - order.entry)
      risk == Abs(order.entry - order.stop)
  IN  drift > MaxDrift \/ (risk > 0 /\ MaxDriftPct > 0 /\ 100 * drift > MaxDriftPct * risk)

FinalTarget(order) == Last(order.targets).price

\* _post_cost_rr, at the price of the fill, against the selector's minimum
Pays(order, price) ==
  FinalTarget(order) - price - Cost >= MinRr * (Abs(price - order.stop) + Cost)

\* What a fill is rejected for, if anything
Rejected(order, price) ==
  IF Drifted(order, price) THEN "entry_drift_exceeded"
  ELSE IF Abs(price - order.stop) < MinRiskToCost * Cost THEN "risk_too_small_vs_cost"
  ELSE IF ~Pays(order, price) THEN "post_cost_rr_below_minimum"
  ELSE "none"

\* _target_ladder: shares of the position at multiples of the risk
Ladder(s) ==
  [n \in DOMAIN Milestones |-> [price |-> s.entry + Milestones[n].rr * (s.entry - s.stop), part |-> Milestones[n].part]]

\* harden_for_demo_execution, of which the replay keeps entry and stop
Hardened(s, distance) ==
  IF s.entry - s.stop >= distance THEN s ELSE [s EXCEPT !.stop = s.entry - distance]

\* _early_trap_filter_rejection: the last candle but one is the retest, the last confirms
Trapped(s, i) ==
  LET d == s.dir
      retest == primary[i - 1]
      confirmation == primary[i]
      adverse == 100 * (Lo(d, confirmation) - s.stop) <= 15 * (s.entry - s.stop)
      confirmed == \/ Cl(d, confirmation) > Hi(d, retest)
                   \/ 2 * Cl(d, confirmation) > Hi(d, retest) + Lo(d, retest) /\ With(d, confirmation)
  IN  TrapFilter /\ (i < 2 \/ adverse \/ Against(d, retest) \/ ~confirmed)

\* _setup_to_market_signal
Signal(s, i) ==
  [id |-> i, key |-> s.key, dir |-> s.dir, type |-> s.type, at |-> CloseTime(i), from |-> CloseTime(i),
   expiry |-> CloseTime(i) + Life, session |-> Session[i], entry |-> s.entry, stop |-> s.stop,
   targets |-> Ladder(s), moves |-> BreakevenAfter <= 1]

-------------------------------------------------------------------------------
Lists == [open |-> open, pending |-> pending, trades |-> trades, skipped |-> skipped,
          cooldown |-> cooldown, placed |-> placed]

\* A position after a candle: still open, or a trade
Managed(lists, pos, i) ==
  LET m == Manage(pos, primary[i], i)
  IN  IF m.trade = <<>> THEN [lists EXCEPT !.open = Append(@, m.pos)] ELSE [lists EXCEPT !.trades = @ \o m.trade]

Skip(lists, id, reason) == [lists EXCEPT !.skipped = Append(@, [id |-> id, reason |-> reason])]

AfterManagement(i) ==
  LET Step(lists, pos) == Managed(lists, pos, i)
  IN  FoldLeft(Step, [Lists EXCEPT !.open = <<>>], open)

\* The price and the time of a fill: a market order at the open, a limit order at its price
FillPrice(order, i) ==
  IF order.type = "market" THEN Op(order.dir, primary[i]) + Spread2 + Slippage ELSE order.entry + Spread2
FillTime(order, i) == IF order.type = "market" THEN OpenTime(i) ELSE CloseTime(i)

\* A filled order passes the entry gates again, and what was opened is managed at once,
\* on the candle of its fill.
Tried(lists, order, i) ==
  LET fill == IF order.type = "market" THEN MarketFill(order, i) ELSE Fill(order, primary[i], i)
      price == FillPrice(order, i)
      rejection == Rejected(order, price)
  IN  IF fill = "filled" /\ rejection # "none" THEN Skip(lists, order.id, rejection)
      ELSE IF fill = "filled" THEN Managed(lists, Position(order, price, FillTime(order, i)), i)
      ELSE IF fill = "order_expired" THEN Skip(lists, order.id, "pending_order_expired")
      ELSE [lists EXCEPT !.pending = Append(@, order)]

AfterFills(lists0, i) ==
  LET Step(lists, order) == Tried(lists, order, i)
  IN  FoldLeft(Step, [lists0 EXCEPT !.pending = <<>>], lists0.pending)

\* Mutant: only positions take a place.
TakenByPositions(lists) == Len(lists.open)

\* What max_concurrent_positions limits
Taken(lists) == Len(lists.open) + Len(lists.pending)

\* A selected signal: a free place, no cooldown, and the trap filter, in this order.  The
\* cooldown starts before the filter, and a signal the filter rejects has used it.
Considered(lists, s, i, distance) ==
  LET key == <<s.key, s.dir>>
      cooling == [lists EXCEPT !.cooldown[key] = CloseTime(i) + Cooldown]
      signal == Signal(Hardened(s, distance), i)
  IN  IF Taken(lists) >= MaxOpen THEN Skip(lists, i, "blocked_existing_position")
      ELSE IF CloseTime(i) < lists.cooldown[key] THEN Skip(lists, i, "strategy_cooldown_active")
      ELSE IF Trapped(signal, i) THEN Skip(cooling, i, "early_trap_filter")
      ELSE [cooling EXCEPT !.pending = Append(@, signal), !.placed = Append(@, signal)]

\* One candle, with the signals the selector gives on it: none or one
Candle1m(i, chosen) ==
  LET filled == AfterFills(AfterManagement(i), i)
  IN  \E distance \in Distances :
        LET lists == IF chosen = <<>> THEN filled ELSE Considered(filled, chosen[1], i, distance)
        IN  /\ open' = lists.open /\ pending' = lists.pending /\ trades' = lists.trades
            /\ skipped' = lists.skipped /\ cooldown' = lists.cooldown /\ placed' = lists.placed
            /\ done' = i /\ higher' = Shown(i)
            /\ UNCHANGED primary

Quiet == done < Len(primary) /\ Candle1m(done + 1, <<>>)

Selected ==
  /\ done < Len(primary) /\ done + 1 >= Warmup
  /\ \E s \in Selections : Candle1m(done + 1, <<s>>)

\* close_open_positions_at_end; pending orders are only counted
EndOfTest ==
  /\ done = Len(primary) /\ open # <<>>
  /\ LET End(pos) == Closed(pos, "end_of_test", pos.realized + pos.left * Gain(pos, Cl(pos.signal.dir, Last(primary))))
     IN  trades' = trades \o [n \in DOMAIN open |-> End(open[n])]
  /\ open' = <<>>
  /\ UNCHANGED <<primary, done, higher, pending, skipped, cooldown, placed>>

Init ==
  /\ primary \in Tapes
  /\ done = 0 /\ higher = {}
  /\ pending = <<>> /\ open = <<>> /\ trades = <<>> /\ skipped = <<>> /\ placed = <<>>
  /\ cooldown = [key \in {<<s.key, s.dir>> : s \in Selections} |-> 0]

Next == Quiet \/ Selected \/ EndOfTest

Spec == Init /\ [][Next]_vars

-------------------------------------------------------------------------------
\* Never more positions and orders together than allowed: an order placed when there was
\* room still finds it when it fills, candles later.
PlacesAreEnough == Len(open) + Len(pending) <= MaxOpen

\* What the entry gates promise of a position or a trade
KeepsPlan(p) ==
  /\ p.entry > p.signal.stop
  /\ FinalTarget(p.signal) - p.entry - Cost >= MinRr * (p.entry - p.signal.stop + Cost)
  /\ Abs(p.entry - p.signal.entry) <= MaxDrift
  /\ p.at >= p.signal.at

\* Every entry of the record, wherever the market was when it filled, had its stop below
\* it, its final target paid the minimum for the risk after costs, and its price was near
\* the one that was scored.
EntriesKeepThePlan == \A p \in ToSet(open) \cup ToSet(trades) : KeepsPlan(p)

\* The higher timeframes show nothing of a minute candle that is still to come: each of
\* their candles is what the processed ones make of it, and none waits that is complete.
NoLookAhead ==
  LET known == Aggregated(SubSeq(primary, 1, done))
      unfinished == {Bucket(n) : n \in done + 1 .. Len(primary)}
  IN  higher = {a \in known : a.at \div Width \notin unfinished}
-------------------------------------------------------------------------------
(* The loops over the open positions and over the pending orders *)

\* The loop over the open positions, one after the other
LEMMA ManagedOneByOne ==
  ASSUME NEW A, NEW i, NEW n \in Nat, DOMAIN open = 1 .. n,
         [Lists EXCEPT !.open = <<>>] \in A,
         \A l \in A, m \in 1 .. n : Managed(l, open[m], i) \in A
  PROVE  \E c : /\ c[0] = [Lists EXCEPT !.open = <<>>]
                /\ AfterManagement(i) = c[n]
                /\ \A m \in 0 .. n : c[m] \in A
                /\ \A m \in 1 .. n : c[m] = Managed(c[m - 1], open[m], i)
<1> DEFINE base == [Lists EXCEPT !.open = <<>>]
           Step(l, m) == Managed(l, open[m], i)
           F == [x \in (1 .. n) \X A |-> Step(x[2], x[1])]
           Folds(g) == g = [s \in SUBSET (1 .. n) |->
                              IF s = {} THEN base ELSE Step(g[s \ {Max(s)}], Max(s))]
           iter == CHOOSE g : Folds(g)
<1>1. AfterManagement(i) = iter[1 .. n]
  BY DEF AfterManagement, FoldLeft, MapThenFoldSet
<1>2. \A l \in A, m \in 1 .. n : Step(l, m) \in A
  OBVIOUS
<1>a. base \in A
  OBVIOUS
<1> HIDE DEF base, Step
<1>3. F \in [(1 .. n) \X A -> A]
  BY <1>2
<1>4. \A s \in SUBSET (1 .. n) : s # {} => Max(s) \in 1 .. n /\ s \ {Max(s)} \in SUBSET (1 .. n)
  BY LargestIsIn
<1>5. Folds(iter)
  <2>1. PICK g \in [SUBSET (1 .. n) -> A] : FoldsTo(g, n, base, F)
    <3> HIDE DEF F
    <3> QED
      BY <1>3, <1>a, FoldExists
  <2>2. \A s \in SUBSET (1 .. n) :
          g[s] = IF s = {} THEN base ELSE Step(g[s \ {Max(s)}], Max(s))
    BY <1>4, <2>1 DEF FoldsTo
  <2>3. Folds(g)
    BY <2>1, <2>2
  <2> HIDE DEF Folds
  <2> QED
    BY <2>3
<1>6. iter[{}] = base
  BY <1>5
<1>7. ASSUME NEW s \in SUBSET (1 .. n), s # {}, iter[s \ {Max(s)}] \in A
      PROVE  iter[s] = F[<<Max(s), iter[s \ {Max(s)}]>>]
  <2> HIDE DEF iter
  <2>1. iter[s] = Step(iter[s \ {Max(s)}], Max(s))
    BY <1>5, <1>7
  <2> QED
    BY <1>4, <1>7, <2>1
<1> HIDE DEF iter, F
<1>8. Walks(iter, n, A, F)
  BY <1>7 DEF Walks
<1>9. PICK c : c[n] = iter[1 .. n] /\ WalkFrom(base, n, A, F, c)
  <2>1. WalksTo(iter[1 .. n], base, n, A, F)
    BY <1>3, <1>6, <1>8, <1>a, FoldWalks
  <2> QED
    BY <2>1 DEF WalksTo
<1>10. ASSUME NEW m \in 1 .. n PROVE c[m] = Step(c[m - 1], m)
  <2>1. c[m - 1] \in A /\ <<m, c[m - 1]>> \in (1 .. n) \X A
    BY <1>9 DEF WalkFrom
  <2> QED
    BY <1>9, <2>1 DEF WalkFrom, F
<1> QED
  BY <1>1, <1>9, <1>10 DEF base, Step, WalkFrom

\* The loop over the pending orders, one after the other
LEMMA TriedOneByOne ==
  ASSUME NEW A, NEW i, NEW lists0, NEW n \in Nat, DOMAIN lists0.pending = 1 .. n,
         [lists0 EXCEPT !.pending = <<>>] \in A,
         \A l \in A, m \in 1 .. n : Tried(l, lists0.pending[m], i) \in A
  PROVE  \E c : /\ c[0] = [lists0 EXCEPT !.pending = <<>>]
                /\ AfterFills(lists0, i) = c[n]
                /\ \A m \in 0 .. n : c[m] \in A
                /\ \A m \in 1 .. n : c[m] = Tried(c[m - 1], lists0.pending[m], i)
<1> DEFINE base == [lists0 EXCEPT !.pending = <<>>]
           Step(l, m) == Tried(l, lists0.pending[m], i)
           F == [x \in (1 .. n) \X A |-> Step(x[2], x[1])]
           Folds(g) == g = [s \in SUBSET (1 .. n) |->
                              IF s = {} THEN base ELSE Step(g[s \ {Max(s)}], Max(s))]
           iter == CHOOSE g : Folds(g)
<1>1. AfterFills(lists0, i) = iter[1 .. n]
  BY DEF AfterFills, FoldLeft, MapThenFoldSet
<1>2. \A l \in A, m \in 1 .. n : Step(l, m) \in A
  OBVIOUS
<1>a. base \in A
  OBVIOUS
<1> HIDE DEF base, Step
<1>3. F \in [(1 .. n) \X A -> A]
  BY <1>2
<1>4. \A s \in SUBSET (1 .. n) : s # {} => Max(s) \in 1 .. n /\ s \ {Max(s)} \in SUBSET (1 .. n)
  BY LargestIsIn
<1>5. Folds(iter)
  <2>1. PICK g \in [SUBSET (1 .. n) -> A] : FoldsTo(g, n, base, F)
    <3> HIDE DEF F
    <3> QED
      BY <1>3, <1>a, FoldExists
  <2>2. \A s \in SUBSET (1 .. n) :
          g[s] = IF s = {} THEN base ELSE Step(g[s \ {Max(s)}], Max(s))
    BY <1>4, <2>1 DEF FoldsTo
  <2>3. Folds(g)
    BY <2>1, <2>2
  <2> HIDE DEF Folds
  <2> QED
    BY <2>3
<1>6. iter[{}] = base
  BY <1>5
<1>7. ASSUME NEW s \in SUBSET (1 .. n), s # {}, iter[s \ {Max(s)}] \in A
      PROVE  iter[s] = F[<<Max(s), iter[s \ {Max(s)}]>>]
  <2> HIDE DEF iter
  <2>1. iter[s] = Step(iter[s \ {Max(s)}], Max(s))
    BY <1>5, <1>7
  <2> QED
    BY <1>4, <1>7, <2>1
<1> HIDE DEF iter, F
<1>8. Walks(iter, n, A, F)
  BY <1>7 DEF Walks
<1>9. PICK c : c[n] = iter[1 .. n] /\ WalkFrom(base, n, A, F, c)
  <2>1. WalksTo(iter[1 .. n], base, n, A, F)
    BY <1>3, <1>6, <1>8, <1>a, FoldWalks
  <2> QED
    BY <2>1 DEF WalksTo
<1>10. ASSUME NEW m \in 1 .. n PROVE c[m] = Step(c[m - 1], m)
  <2>1. c[m - 1] \in A /\ <<m, c[m - 1]>> \in (1 .. n) \X A
    BY <1>9 DEF WalkFrom
  <2> QED
    BY <1>9, <2>1 DEF WalkFrom, F
<1> QED
  BY <1>1, <1>9, <1>10 DEF base, Step, WalkFrom
-------------------------------------------------------------------------------
(* What the lists hold, from candle to candle *)

SkipReasons ==
  {"entry_drift_exceeded", "risk_too_small_vs_cost", "post_cost_rr_below_minimum", "pending_order_expired",
   "blocked_existing_position", "strategy_cooldown_active", "early_trap_filter"}

\* The orders that candles 1 to i can have placed
Orders ==
  [id : Nat, key : {s.key : s \in Selections}, dir : Directions, type : {"limit", "market"},
   at : Int, from : Int, expiry : Int, session : {Session[n] : n \in 1 .. Len(Opens)},
   entry : Int, stop : Int, targets : Seq(LadderSteps), moves : BOOLEAN]

\* What the entry gates rest on: a fill may drift by less than the whole risk, and what the
\* selector gives has its stop below its entry.
Gated ==
  /\ 0 < MaxDriftPct /\ MaxDriftPct < 100
  /\ \A s \in Selections : s.stop < s.entry

OrdersBy(i) ==
  {o \in Orders : o.id \in 1 .. i /\ o.at = CloseTime(o.id) /\ o.from = o.at /\ (Gated => o.stop < o.entry)}

GoodPositions(i) == {p \in PositionsOf(OrdersBy(i)) : Gated => KeepsPlan(p)}
GoodTrades(i) == {t \in TradesOf(OrdersBy(i)) : Gated => KeepsPlan(t)}

Skips == [id : Nat, reason : SkipReasons]
Cooldowns == [{<<s.key, s.dir>> : s \in Selections} -> Int]

ListsBy(i) ==
  [open : Seq(GoodPositions(i)), pending : Seq(OrdersBy(i)), trades : Seq(GoodTrades(i)),
   skipped : Seq(Skips), cooldown : Cooldowns, placed : Seq(OrdersBy(i))]

ReplayInv ==
  /\ primary \in Tapes /\ done \in 0 .. Len(primary)
  /\ Lists \in ListsBy(done)
  /\ PlacesAreEnough

LEMMA OrdersArePlanned ==
  ASSUME NEW i
  PROVE  Planned(OrdersBy(i))
BY DEF Planned, OrdersBy, Orders

\* What earlier candles can have placed, later ones can.
LEMMA ListsGrow ==
  ASSUME NEW i \in Nat
  PROVE  ListsBy(i) \subseteq ListsBy(i + 1) /\ OrdersBy(i) \subseteq OrdersBy(i + 1)
<1>1. OrdersBy(i) \subseteq OrdersBy(i + 1)
  <2>1. 1 .. i \subseteq 1 .. i + 1
    OBVIOUS
  <2> QED
    BY <2>1 DEF OrdersBy
<1>2. GoodPositions(i) \subseteq GoodPositions(i + 1)
  BY <1>1 DEF GoodPositions, PositionsOf
<1>3. GoodTrades(i) \subseteq GoodTrades(i + 1)
  BY <1>1 DEF GoodTrades, TradesOf
<1>4. \A S, T : S \subseteq T => Seq(S) \subseteq Seq(T)
  OBVIOUS
<1>5. /\ Seq(OrdersBy(i)) \subseteq Seq(OrdersBy(i + 1))
      /\ Seq(GoodPositions(i)) \subseteq Seq(GoodPositions(i + 1))
      /\ Seq(GoodTrades(i)) \subseteq Seq(GoodTrades(i + 1))
  BY <1>1, <1>2, <1>3, <1>4
<1> QED
  BY <1>1, <1>5 DEF ListsBy

WithCooldown(l, x) == [l EXCEPT !.cooldown = x]
WithPlaced(l, x) == [l EXCEPT !.placed = x]

SamePlaces(l, m) == m.open = l.open /\ m.pending = l.pending

\* Replacing one list leaves the others.
LEMMA ReplaceKeeps ==
  ASSUME NEW i, NEW l \in ListsBy(i)
  PROVE  /\ l.open \in Seq(GoodPositions(i)) /\ l.pending \in Seq(OrdersBy(i))
         /\ l.trades \in Seq(GoodTrades(i)) /\ l.skipped \in Seq(Skips)
         /\ l.cooldown \in Cooldowns /\ l.placed \in Seq(OrdersBy(i))
         /\ \A x \in Seq(GoodPositions(i)) :
              /\ WithOpen(l, x) \in ListsBy(i) /\ WithOpen(l, x).open = x
              /\ WithOpen(l, x).pending = l.pending
         /\ \A x \in Seq(OrdersBy(i)) :
              /\ WithPending(l, x) \in ListsBy(i) /\ WithPending(l, x).pending = x
              /\ WithPending(l, x).open = l.open
         /\ \A x \in Seq(OrdersBy(i)) : WithPlaced(l, x) \in ListsBy(i) /\ SamePlaces(l, WithPlaced(l, x))
         /\ \A x \in Seq(GoodTrades(i)) : WithTrades(l, x) \in ListsBy(i) /\ SamePlaces(l, WithTrades(l, x))
         /\ \A x \in Seq(Skips) : WithSkipped(l, x) \in ListsBy(i) /\ SamePlaces(l, WithSkipped(l, x))
         /\ \A x \in Cooldowns : WithCooldown(l, x) \in ListsBy(i) /\ SamePlaces(l, WithCooldown(l, x))
<1> DEFINE P == Seq(GoodPositions(i))
           O == Seq(OrdersBy(i))
           T == Seq(GoodTrades(i))
           S == Seq(Skips)
<1>1. ListsBy(i) = [open : P, pending : O, trades : T, skipped : S, cooldown : Cooldowns, placed : O]
  BY DEF ListsBy
<1> HIDE DEF P, O, T, S
<1>2. /\ l.open \in P /\ l.pending \in O /\ l.trades \in T /\ l.skipped \in S
      /\ l.cooldown \in Cooldowns /\ l.placed \in O
  BY <1>1
<1>3. ASSUME NEW x \in P
      PROVE  /\ WithOpen(l, x) \in ListsBy(i) /\ WithOpen(l, x).open = x
             /\ WithOpen(l, x).pending = l.pending
  BY <1>1 DEF WithOpen
<1>4. ASSUME NEW x \in O
      PROVE  /\ WithPending(l, x) \in ListsBy(i) /\ WithPending(l, x).pending = x
             /\ WithPending(l, x).open = l.open
  BY <1>1 DEF WithPending
<1>5. ASSUME NEW x \in O PROVE WithPlaced(l, x) \in ListsBy(i) /\ SamePlaces(l, WithPlaced(l, x))
  BY <1>1 DEF WithPlaced, SamePlaces
<1>6. ASSUME NEW x \in T PROVE WithTrades(l, x) \in ListsBy(i) /\ SamePlaces(l, WithTrades(l, x))
  BY <1>1 DEF WithTrades, SamePlaces
<1>7. ASSUME NEW x \in S PROVE WithSkipped(l, x) \in ListsBy(i) /\ SamePlaces(l, WithSkipped(l, x))
  BY <1>1 DEF WithSkipped, SamePlaces
<1>8. ASSUME NEW x \in Cooldowns
      PROVE  WithCooldown(l, x) \in ListsBy(i) /\ SamePlaces(l, WithCooldown(l, x))
  BY <1>1 DEF WithCooldown, SamePlaces
<1> QED
  BY <1>2, <1>3, <1>4, <1>5, <1>6, <1>7, <1>8 DEF P, O, T, S

\* Managing a position that keeps the plan leaves one that does, or makes a trade that
\* does, and takes no place more.
LEMMA ManagedKeeps ==
  ASSUME NEW i, NEW l \in ListsBy(i), NEW pos \in GoodPositions(i), NEW n \in Nat,
         primary[n] \in Minutes
  PROVE  /\ Managed(l, pos, n) \in ListsBy(i)
         /\ Managed(l, pos, n).pending = l.pending
         /\ Len(Managed(l, pos, n).open) <= Len(l.open) + 1
<1> DEFINE m == Manage(pos, primary[n], n)
<1>1. pos \in PositionsOf(OrdersBy(i)) /\ (Gated => KeepsPlan(pos)) /\ Planned(OrdersBy(i))
  BY OrdersArePlanned DEF GoodPositions
<1>2. /\ m.pos \in SameEntry(OrdersBy(i), pos)
      /\ \/ m.trade = <<>>
         \/ \E t \in TradesOf(OrdersBy(i)) :
              m.trade = <<t>> /\ t.signal = pos.signal /\ t.entry = pos.entry /\ t.at = pos.at
  BY <1>1, ManageKeepsEntry
<1>6. l.open \in Seq(GoodPositions(i)) /\ l.trades \in Seq(GoodTrades(i))
  BY ReplaceKeeps
<1> HIDE DEF m
<1>3. m.pos \in GoodPositions(i)
  BY <1>1, <1>2 DEF SameEntry, GoodPositions, KeepsPlan
<1>4. CASE m.trade = <<>>
  <2> DEFINE x == Append(l.open, m.pos)
  <2>1. Managed(l, pos, n) = WithOpen(l, x)
    BY <1>4 DEF Managed, m, WithOpen
  <2>2. x \in Seq(GoodPositions(i)) /\ Len(x) = Len(l.open) + 1 /\ Len(l.open) \in Nat
    BY <1>3, <1>6, OneMore
  <2> HIDE DEF x
  <2>3. /\ WithOpen(l, x) \in ListsBy(i) /\ WithOpen(l, x).open = x
        /\ WithOpen(l, x).pending = l.pending
    BY <2>2, ReplaceKeeps
  <2> QED
    BY <2>1, <2>2, <2>3
<1>5. CASE m.trade # <<>>
  <2> DEFINE x == l.trades \o m.trade
  <2>1. Managed(l, pos, n) = WithTrades(l, x)
    BY <1>5 DEF Managed, m, WithTrades
  <2>2. PICK t \in TradesOf(OrdersBy(i)) :
          m.trade = <<t>> /\ t.signal = pos.signal /\ t.entry = pos.entry /\ t.at = pos.at
    BY <1>2, <1>5
  <2>3. t \in GoodTrades(i)
    BY <1>1, <2>2 DEF GoodTrades, KeepsPlan
  <2>4. x \in Seq(GoodTrades(i))
    <3>1. l.trades \o <<t>> \in Seq(GoodTrades(i))
      BY <1>6, <2>3, OneMore
    <3> QED
      BY <2>2, <3>1
  <2> HIDE DEF x
  <2>5. WithTrades(l, x) \in ListsBy(i) /\ SamePlaces(l, WithTrades(l, x))
    BY <2>4, ReplaceKeeps
  <2>6. Len(l.open) \in Nat
    BY <1>6
  <2> QED
    BY <2>1, <2>5, <2>6 DEF SamePlaces
<1> QED
  BY <1>4, <1>5

\* A price within less than the whole risk of an entry is above its stop.
LEMMA LessThanTheRisk ==
  ASSUME NEW d \in Int, NEW r \in Int, NEW p \in Int, r > 0, p < 100, 100 * d <= p * r
  PROVE  d < r
<1>1. p * r <= 99 * r
  <2>1. p <= 99
    OBVIOUS
  <2>2. \A x, y, z \in Int : x <= y /\ z > 0 => x * z <= y * z
    OBVIOUS
  <2> QED
    BY <2>1, <2>2
<1>2. p * r \in Int
  OBVIOUS
<1> QED
  BY <1>1, <1>2

\* A fill that no gate rejects, not before its order was placed, opens a position that
\* keeps the plan.
LEMMA FillKeepsPlan ==
  ASSUME NEW i, NEW order \in OrdersBy(i), NEW price \in Int, NEW at \in Int, at >= order.at,
         Rejected(order, price) = "none"
  PROVE  Position(order, price, at) \in GoodPositions(i)
<1> DEFINE p == Position(order, price, at)
<1>1. /\ order.entry \in Int /\ order.stop \in Int /\ (Gated => order.stop < order.entry)
      /\ MaxDrift \in Int /\ MaxDriftPct \in Int
  BY ReplayTypes DEF OrdersBy, Orders
<1>2. ~Drifted(order, price) /\ Pays(order, price)
  BY DEF Rejected
<1>3. p \in PositionsOf(OrdersBy(i))
  BY <1>1 DEF Position, PositionsOf, Whole
<1>4. p.signal = order /\ p.entry = price /\ p.at = at
  BY DEF Position
<1>5. ASSUME Gated PROVE KeepsPlan(p)
  <2>0. order.stop < order.entry /\ 0 < MaxDriftPct /\ MaxDriftPct < 100
    BY <1>1, <1>5 DEF Gated
  <2>1. Abs(order.entry - order.stop) = order.entry - order.stop /\ order.entry - order.stop > 0
    BY <1>1, <2>0 DEF Abs
  <2>2. Abs(price - order.entry) \in Int /\ MaxDriftPct * (order.entry - order.stop) \in Int
    BY <1>1 DEF Abs
  <2>3. /\ Abs(price - order.entry) <= MaxDrift
        /\ 100 * Abs(price - order.entry) <= MaxDriftPct * (order.entry - order.stop)
    BY <1>1, <1>2, <2>0, <2>1, <2>2 DEF Drifted
  <2>4. Abs(price - order.entry) < order.entry - order.stop
    <3>1. order.entry - order.stop \in Int
      BY <1>1
    <3> QED
      BY <1>1, <2>0, <2>1, <2>2, <2>3, <3>1, LessThanTheRisk
  <2>5. price > order.stop /\ Abs(price - order.stop) = price - order.stop
    BY <1>1, <2>4 DEF Abs
  <2> QED
    BY <1>2, <1>4, <2>3, <2>5 DEF KeepsPlan, Pays
<1> HIDE DEF p
<1>6. p \in GoodPositions(i)
  BY <1>3, <1>5 DEF GoodPositions
<1> QED
  BY <1>6 DEF p

\* What a list of places takes, as a number
LEMMA TakenIs ==
  ASSUME NEW l, NEW o \in Nat, NEW p \in Nat, Len(l.open) = o, Len(l.pending) = p
  PROVE  Taken(l) = o + p
BY Zenon DEF Taken

\* Trying an order fills it, keeps it or skips it, and takes no place more than it held.
LEMMA TriedKeeps ==
  ASSUME NEW i \in 1 .. Len(Opens), primary[i] \in Minutes,
         NEW l \in ListsBy(i - 1), NEW order \in OrdersBy(i - 1)
  PROVE  Tried(l, order, i) \in ListsBy(i - 1) /\ Taken(Tried(l, order, i)) <= Taken(l) + 1
<1> DEFINE price == FillPrice(order, i)
           fill == IF order.type = "market" THEN MarketFill(order, i) ELSE Fill(order, primary[i], i)
<1>1. /\ order.dir \in Directions /\ order.entry \in Int /\ order.id \in 1 .. i - 1
      /\ order.at = CloseTime(order.id)
  BY DEF OrdersBy, Orders
<1>2. Len(Opens) \in Nat /\ i \in Nat /\ Opens[i] \in Int /\ Opens[order.id] \in Int
  <2>1. Len(Opens) \in Nat /\ \A m \in 1 .. Len(Opens) : Opens[m] \in Int
    BY OpensAreTimes
  <2> QED
    BY <1>1, <2>1
<1>3. price \in Int
  <2>1. Spread2 \in Int /\ Slippage \in Int
    BY MarketAssumption
  <2>2. primary[i].o \in Int
    BY DEF Minutes
  <2>3. order.dir * primary[i].o \in Int
    BY <1>1, <2>2 DEF Directions
  <2> QED
    BY <1>1, <2>1, <2>3 DEF FillPrice, Op
<1>4. FillTime(order, i) \in Int /\ FillTime(order, i) >= order.at
  <2>1. OpenTime(i) >= CloseTime(order.id)
    BY <1>1, LaterOpens
  <2> QED
    BY <1>1, <1>2, <2>1 DEF FillTime, OpenTime, CloseTime
<1>5. /\ l.open \in Seq(GoodPositions(i - 1)) /\ l.pending \in Seq(OrdersBy(i - 1))
      /\ l.skipped \in Seq(Skips)
  BY ReplaceKeeps
<1>6. Len(l.open) \in Nat /\ Len(l.pending) \in Nat
  BY <1>5
<1>12. Taken(l) = Len(l.open) + Len(l.pending)
  BY Zenon DEF Taken
<1>13. PICK o \in Nat, p \in Nat : Len(l.open) = o /\ Len(l.pending) = p /\ Taken(l) = o + p
  BY <1>6, <1>12
<1> HIDE DEF price, fill
<1>7. ASSUME NEW reason \in SkipReasons, Tried(l, order, i) = Skip(l, order.id, reason)
      PROVE  Tried(l, order, i) \in ListsBy(i - 1) /\ Taken(Tried(l, order, i)) <= Taken(l) + 1
  <2> DEFINE x == Append(l.skipped, [id |-> order.id, reason |-> reason])
  <2>1. Skip(l, order.id, reason) = WithSkipped(l, x)
    BY DEF Skip, WithSkipped
  <2>2. x \in Seq(Skips)
    <3>1. [id |-> order.id, reason |-> reason] \in Skips
      BY <1>1 DEF Skips
    <3> QED
      BY <1>5, <3>1, OneMore
  <2> HIDE DEF x
  <2>3. WithSkipped(l, x) \in ListsBy(i - 1) /\ SamePlaces(l, WithSkipped(l, x))
    BY <2>2, ReplaceKeeps
  <2>4. Taken(WithSkipped(l, x)) = Taken(l)
    BY <2>3 DEF SamePlaces, Taken
  <2> QED
    BY <1>7, <1>13, <2>1, <2>3, <2>4
<1>8. CASE fill = "filled" /\ Rejected(order, price) # "none"
  <2>1. Tried(l, order, i) = Skip(l, order.id, Rejected(order, price))
    BY <1>8 DEF Tried, fill, price
  <2>2. Rejected(order, price) \in SkipReasons
    BY <1>8 DEF Rejected, SkipReasons
  <2> QED
    BY <1>7, <2>1, <2>2
<1>9. CASE fill = "filled" /\ Rejected(order, price) = "none"
  <2> DEFINE pos == Position(order, price, FillTime(order, i))
  <2>1. Tried(l, order, i) = Managed(l, pos, i)
    BY <1>9 DEF Tried, fill, price
  <2>2. pos \in GoodPositions(i - 1)
    BY <1>3, <1>4, <1>9, FillKeepsPlan
  <2> HIDE DEF pos
  <2>3. /\ Managed(l, pos, i) \in ListsBy(i - 1)
        /\ Managed(l, pos, i).pending = l.pending
        /\ Len(Managed(l, pos, i).open) <= Len(l.open) + 1
    BY <1>2, <2>2, ManagedKeeps
  <2>4. Len(Managed(l, pos, i).open) \in Nat
    <3>1. Managed(l, pos, i).open \in Seq(GoodPositions(i - 1))
      BY <2>3, ReplaceKeeps
    <3> QED
      BY <3>1
  <2>5. Taken(Managed(l, pos, i)) <= Taken(l) + 1
    <3>1. PICK n \in Nat : Len(Managed(l, pos, i).open) = n
      BY <2>4
    <3>2. Len(Managed(l, pos, i).pending) = p
      BY <1>13, <2>3
    <3>3. Taken(Managed(l, pos, i)) = n + p
      BY <3>1, <3>2, TakenIs
    <3>4. n <= o + 1
      BY <1>13, <2>3, <3>1
    <3> QED
      BY <1>13, <3>3, <3>4
  <2> QED
    BY <2>1, <2>3, <2>5
<1>10. CASE fill = "order_expired"
  <2>1. Tried(l, order, i) = Skip(l, order.id, "pending_order_expired")
    BY <1>10 DEF Tried, fill, price
  <2> QED
    BY <1>7, <2>1 DEF SkipReasons
<1>11. CASE fill # "filled" /\ fill # "order_expired"
  <2> DEFINE x == Append(l.pending, order)
  <2>1. Tried(l, order, i) = WithPending(l, x)
    BY <1>11 DEF Tried, fill, price, WithPending
  <2>2. x \in Seq(OrdersBy(i - 1)) /\ Len(x) = Len(l.pending) + 1
    BY <1>5, OneMore
  <2> HIDE DEF x
  <2>3. /\ WithPending(l, x) \in ListsBy(i - 1) /\ WithPending(l, x).pending = x
        /\ WithPending(l, x).open = l.open
    BY <2>2, ReplaceKeeps
  <2>4. Len(WithPending(l, x).open) = o /\ Len(WithPending(l, x).pending) = p + 1
    BY <1>13, <2>2, <2>3
  <2>5. Taken(WithPending(l, x)) = o + (p + 1)
    <3>1. p + 1 \in Nat
      OBVIOUS
    <3> QED
      BY <2>4, <3>1, TakenIs
  <2>6. Taken(WithPending(l, x)) <= Taken(l) + 1
    BY <1>13, <2>5
  <2> QED
    BY <2>1, <2>3, <2>6
<1> QED
  BY <1>8, <1>9, <1>10, <1>11

\* Managing all open positions keeps or closes each of them.
LEMMA ManagementKeeps ==
  ASSUME NEW i \in Nat, NEW k \in Nat, Lists \in ListsBy(i), primary[k] \in Minutes
  PROVE  /\ AfterManagement(k) \in ListsBy(i)
         /\ Taken(AfterManagement(k)) <= Taken(Lists)
<1> DEFINE A == {x \in ListsBy(i) : x.pending = pending}
           base == WithOpen(Lists, <<>>)
<1>1. Lists.open = open /\ Lists.pending = pending
  BY DEF Lists
<1>2. open \in Seq(GoodPositions(i)) /\ pending \in Seq(OrdersBy(i))
  BY <1>1, ReplaceKeeps
<1>3. PICK n \in Nat, p \in Nat : Len(open) = n /\ DOMAIN open = 1 .. n /\ Len(pending) = p
  BY <1>2
<1>4. base \in ListsBy(i) /\ base.open = <<>> /\ base.pending = pending
  <2> DEFINE none == <<>>
  <2>1. none \in Seq(GoodPositions(i))
    OBVIOUS
  <2>2. base = WithOpen(Lists, none)
    OBVIOUS
  <2> HIDE DEF none, base
  <2>3. base \in ListsBy(i) /\ base.open = none /\ base.pending = Lists.pending
    BY <2>1, <2>2, ReplaceKeeps
  <2> QED
    BY <1>1, <2>3 DEF none
<1>5. ASSUME NEW l \in A, NEW m \in 1 .. n
      PROVE  /\ Managed(l, open[m], k) \in A
             /\ Len(Managed(l, open[m], k).open) <= Len(l.open) + 1
  <2>1. open[m] \in GoodPositions(i)
    BY <1>2, <1>3
  <2> QED
    BY <2>1, ManagedKeeps
<1>6. [Lists EXCEPT !.open = <<>>] = base
  BY DEF WithOpen
<1> HIDE DEF base
<1>7. base \in A
  BY <1>4
<1>8. PICK c : /\ c[0] = base
               /\ AfterManagement(k) = c[n]
               /\ \A m \in 0 .. n : c[m] \in A
               /\ \A m \in 1 .. n : c[m] = Managed(c[m - 1], open[m], k)
  <2> HIDE DEF A
  <2>1. [Lists EXCEPT !.open = <<>>] \in A
    BY <1>6, <1>7
  <2>2. \A l \in A, m \in 1 .. n : Managed(l, open[m], k) \in A
    BY <1>5
  <2> QED
    BY <1>3, <1>6, <2>1, <2>2, ManagedOneByOne
<1>9. \A m \in 0 .. n : Len(c[m].open) \in Nat
  <2> SUFFICES ASSUME NEW m \in 0 .. n PROVE Len(c[m].open) \in Nat
    OBVIOUS
  <2>1. c[m].open \in Seq(GoodPositions(i))
    BY <1>8, ReplaceKeeps
  <2> QED
    BY <2>1
<1> DEFINE T == {m \in 0 .. n : Len(c[m].open) <= m}
<1>10. 0 \in T
  BY <1>3, <1>4, <1>8
<1>11. ASSUME NEW m \in 0 .. n - 1, m \in T PROVE m + 1 \in T
  <2>1. m + 1 \in 1 .. n /\ (m + 1) - 1 = m /\ m \in 0 .. n /\ m + 1 \in 0 .. n
    BY <1>3
  <2>2. c[m + 1] = Managed(c[m], open[m + 1], k)
    BY <1>8, <2>1
  <2>3. Len(c[m + 1].open) <= Len(c[m].open) + 1
    BY <1>5, <1>8, <2>1, <2>2
  <2>4. Len(c[m].open) \in Nat /\ Len(c[m + 1].open) \in Nat
    BY <1>9, <2>1
  <2> QED
    BY <1>11, <2>1, <2>3, <2>4
<1>12. n \in T
  <2> HIDE DEF T
  <2>1. \A m \in 0 .. n : m \in T
    BY <1>10, <1>11, CountingUp
  <2> QED
    BY <1>3, <2>1
<1>13. Len(c[n].open) <= n /\ Len(c[n].open) \in Nat /\ c[n] \in ListsBy(i) /\ c[n].pending = pending
  <2>1. n \in 0 .. n
    BY <1>3
  <2> QED
    BY <1>8, <1>9, <1>12, <2>1
<1>14. PICK o \in Nat : Len(c[n].open) = o /\ o <= n
  BY <1>13
<1>15. Taken(c[n]) = o + p /\ Taken(Lists) = n + p
  BY <1>1, <1>3, <1>13, <1>14, TakenIs
<1> QED
  BY <1>8, <1>13, <1>14, <1>15

\* Trying all pending orders takes no place more than they held.
LEMMA FillsKeep ==
  ASSUME NEW i \in 1 .. Len(Opens), primary[i] \in Minutes, NEW lists0 \in ListsBy(i - 1)
  PROVE  /\ AfterFills(lists0, i) \in ListsBy(i - 1)
         /\ Taken(AfterFills(lists0, i)) <= Taken(lists0)
<1> DEFINE A == ListsBy(i - 1)
           base == WithPending(lists0, <<>>)
<1>1. lists0.open \in Seq(GoodPositions(i - 1)) /\ lists0.pending \in Seq(OrdersBy(i - 1))
  BY ReplaceKeeps
<1>2. PICK n \in Nat, o \in Nat :
        Len(lists0.pending) = n /\ DOMAIN lists0.pending = 1 .. n /\ Len(lists0.open) = o
  BY <1>1
<1>3. base \in A /\ base.open = lists0.open /\ base.pending = <<>>
  <2> DEFINE none == <<>>
  <2>1. none \in Seq(OrdersBy(i - 1))
    OBVIOUS
  <2>2. base = WithPending(lists0, none)
    OBVIOUS
  <2> HIDE DEF none, base
  <2>3. base \in A /\ base.pending = none /\ base.open = lists0.open
    BY <2>1, <2>2, ReplaceKeeps
  <2> QED
    BY <2>3 DEF none
<1>4. ASSUME NEW l \in A, NEW m \in 1 .. n
      PROVE  /\ Tried(l, lists0.pending[m], i) \in A
             /\ Taken(Tried(l, lists0.pending[m], i)) <= Taken(l) + 1
  <2>1. lists0.pending[m] \in OrdersBy(i - 1)
    BY <1>1, <1>2
  <2> QED
    BY <2>1, TriedKeeps
<1>5. [lists0 EXCEPT !.pending = <<>>] = base
  BY DEF WithPending
<1> HIDE DEF base
<1>6. PICK c : /\ c[0] = base
               /\ AfterFills(lists0, i) = c[n]
               /\ \A m \in 0 .. n : c[m] \in A
               /\ \A m \in 1 .. n : c[m] = Tried(c[m - 1], lists0.pending[m], i)
  <2> HIDE DEF A
  <2>1. [lists0 EXCEPT !.pending = <<>>] \in A
    BY <1>3, <1>5
  <2>2. \A l \in A, m \in 1 .. n : Tried(l, lists0.pending[m], i) \in A
    BY <1>4
  <2> QED
    BY <1>2, <1>5, <2>1, <2>2, TriedOneByOne
<1>7. \A l \in A : Taken(l) \in Nat
  <2> SUFFICES ASSUME NEW l \in A PROVE Taken(l) \in Nat
    OBVIOUS
  <2>1. l.open \in Seq(GoodPositions(i - 1)) /\ l.pending \in Seq(OrdersBy(i - 1))
    BY ReplaceKeeps
  <2>2. PICK a \in Nat, b \in Nat : Len(l.open) = a /\ Len(l.pending) = b
    BY <2>1
  <2> QED
    BY <2>2, TakenIs
<1>8. Taken(base) = o /\ Taken(lists0) = o + n
  <2>1. Len(base.open) = o /\ Len(base.pending) = 0
    BY <1>2, <1>3
  <2>2. Taken(base) = o + 0
    <3>1. 0 \in Nat
      OBVIOUS
    <3> QED
      BY <2>1, <3>1, TakenIs
  <2>3. Taken(lists0) = o + n
    BY <1>2, TakenIs
  <2> QED
    BY <2>2, <2>3
<1> HIDE DEF A
<1> DEFINE T == {m \in 0 .. n : Taken(c[m]) <= o + m}
<1>9. 0 \in T
  BY <1>2, <1>6, <1>8
<1>10. ASSUME NEW m \in 0 .. n - 1, m \in T PROVE m + 1 \in T
  <2>1. m + 1 \in 1 .. n /\ (m + 1) - 1 = m /\ m \in 0 .. n /\ m + 1 \in 0 .. n
    BY <1>2
  <2>2. c[m + 1] = Tried(c[m], lists0.pending[m + 1], i)
    BY <1>6, <2>1
  <2>3. Taken(c[m + 1]) <= Taken(c[m]) + 1
    BY <1>4, <1>6, <2>1, <2>2
  <2>4. Taken(c[m]) \in Nat /\ Taken(c[m + 1]) \in Nat
    BY <1>6, <1>7, <2>1
  <2> QED
    BY <1>10, <2>1, <2>3, <2>4
<1>11. n \in T
  <2> HIDE DEF T
  <2>1. \A m \in 0 .. n : m \in T
    BY <1>9, <1>10, CountingUp
  <2> QED
    BY <1>2, <2>1
<1>12. n \in 0 .. n
  BY <1>2
<1> QED
  BY <1>6, <1>8, <1>11, <1>12 DEF A

\* An order made of what the selector gave, hardened or not, has its stop below its entry.
LEMMA SignalIsOrder ==
  ASSUME NEW i \in 1 .. Len(Opens), NEW s \in Selections, NEW distance \in Distances
  PROVE  Signal(Hardened(s, distance), i) \in OrdersBy(i) /\ <<s.key, s.dir>> \in {<<x.key, x.dir>> : x \in Selections}
<1> DEFINE h == Hardened(s, distance)
           q == Signal(h, i)
           Keys == {x.key : x \in Selections}
<1>1. /\ s \in [key : Keys, dir : Directions, type : {"limit", "market"}, entry : Int, stop : Int]
      /\ (Gated => s.stop < s.entry)
  BY ReplayTypes DEF Gated
<1>2. distance \in Int /\ Life \in Int /\ Milestones \in Seq([rr : Int, part : Nat])
  BY ReplayTypes
<1>3. i \in Nat /\ Opens[i] \in Int /\ i \in 1 .. i
  BY OpensAreTimes
<1> HIDE DEF Keys
<1>4. /\ h \in [key : Keys, dir : Directions, type : {"limit", "market"}, entry : Int, stop : Int]
      /\ (Gated => h.stop < h.entry)
  <2>1. CASE s.entry - s.stop >= distance
    BY <1>1, <2>1 DEF Hardened
  <2>2. CASE ~(s.entry - s.stop >= distance)
    <3>1. h = [s EXCEPT !.stop = s.entry - distance]
      BY <2>2 DEF Hardened
    <3>2. h.stop = s.entry - distance /\ h.entry = s.entry
      BY <1>1, <3>1
    <3>3. s.entry \in Int /\ s.stop \in Int
      BY <1>1
    <3>4. Gated => s.entry - distance < s.entry
      BY <1>1, <1>2, <2>2, <3>3
    <3>5. h \in [key : Keys, dir : Directions, type : {"limit", "market"}, entry : Int, stop : Int]
      <4> DEFINE x == s.entry - distance
      <4>1. x \in Int
        BY <1>2, <3>3
      <4>2. h = [s EXCEPT !.stop = x]
        BY <3>1
      <4> HIDE DEF x, h
      <4> QED
        BY <1>1, <4>1, <4>2
    <3> QED
      BY <3>2, <3>4, <3>5
  <2> QED
    BY <2>1, <2>2
<1> HIDE DEF h
<1>5. Ladder(h) \in Seq(LadderSteps)
  <2>1. \A n \in DOMAIN Milestones : Milestones[n].rr \in Int /\ Milestones[n].part \in Nat
    <3>1. \A n \in DOMAIN Milestones : Milestones[n] \in [rr : Int, part : Nat]
      BY <1>2, ItemsOf
    <3> QED
      BY <3>1
  <2>2. h.entry \in Int /\ h.stop \in Int
    BY <1>4
  <2>3. \A x, y, z \in Int : x + y * (x - z) \in Int
    OBVIOUS
  <2>4. \A n \in DOMAIN Milestones :
          [price |-> h.entry + Milestones[n].rr * (h.entry - h.stop), part |-> Milestones[n].part] \in LadderSteps
    BY <2>1, <2>2, <2>3 DEF LadderSteps
  <2>5. DOMAIN Milestones = 1 .. Len(Milestones) /\ Len(Milestones) \in Nat
    BY <1>2
  <2> QED
    BY <2>4, <2>5 DEF Ladder
<1>6. Session[i] \in {Session[n] : n \in 1 .. Len(Opens)}
  OBVIOUS
<1>7. CloseTime(i) \in Int /\ CloseTime(i) + Life \in Int
  BY <1>2, <1>3 DEF CloseTime
<1>8. q \in Orders
  BY <1>3, <1>4, <1>5, <1>6, <1>7 DEF Signal, Orders, Keys
<1>9. q.id = i /\ q.at = CloseTime(i) /\ q.from = CloseTime(i) /\ q.stop = h.stop /\ q.entry = h.entry
  BY DEF Signal
<1> HIDE DEF q
<1>10. q \in OrdersBy(i)
  BY <1>3, <1>4, <1>8, <1>9 DEF OrdersBy
<1> QED
  BY <1>10 DEF q, h

\* A signal is skipped, or takes a place where one is free.
LEMMA ConsideredKeeps ==
  ASSUME NEW i \in 1 .. Len(Opens), NEW l \in ListsBy(i), NEW s \in Selections,
         NEW distance \in Distances, Taken(l) <= MaxOpen
  PROVE  Considered(l, s, i, distance) \in ListsBy(i) /\ Taken(Considered(l, s, i, distance)) <= MaxOpen
<1> DEFINE key == <<s.key, s.dir>>
           until == CloseTime(i) + Cooldown
           later == [l.cooldown EXCEPT ![key] = until]
           cooling == WithCooldown(l, later)
           signal == Signal(Hardened(s, distance), i)
           out == Considered(l, s, i, distance)
<1>1. signal \in OrdersBy(i) /\ key \in {<<x.key, x.dir>> : x \in Selections}
  BY SignalIsOrder
<1>2. i \in Nat /\ until \in Int /\ MaxOpen \in Int
  <2>1. Cooldown \in Int /\ MaxOpen \in Int
    BY ReplayTypes
  <2> QED
    BY <2>1, OpensAreTimes DEF CloseTime
<1> HIDE DEF until, signal, key
<1>3. /\ l.cooldown \in Cooldowns /\ l.skipped \in Seq(Skips) /\ l.open \in Seq(GoodPositions(i))
      /\ l.pending \in Seq(OrdersBy(i)) /\ l.placed \in Seq(OrdersBy(i))
  BY ReplaceKeeps
<1>4. later \in Cooldowns
  BY <1>1, <1>2, <1>3 DEF Cooldowns
<1> HIDE DEF later
<1>5. cooling \in ListsBy(i) /\ SamePlaces(l, cooling)
  BY <1>4, ReplaceKeeps
<1>6. [l EXCEPT !.cooldown[key] = until] = cooling
  BY <1>3 DEF WithCooldown, later, ListsBy
<1> HIDE DEF cooling
<1>7. Taken(cooling) = Taken(l)
  BY <1>5 DEF SamePlaces, Taken
<1>8. ASSUME NEW b \in ListsBy(i), Taken(b) = Taken(l), NEW reason \in SkipReasons
      PROVE  Skip(b, i, reason) \in ListsBy(i) /\ Taken(Skip(b, i, reason)) <= MaxOpen
  <2> DEFINE x == Append(b.skipped, [id |-> i, reason |-> reason])
  <2>1. Skip(b, i, reason) = WithSkipped(b, x)
    BY DEF Skip, WithSkipped
  <2>2. x \in Seq(Skips)
    <3>1. [id |-> i, reason |-> reason] \in Skips
      BY <1>2 DEF Skips
    <3>2. b.skipped \in Seq(Skips)
      BY ReplaceKeeps
    <3> QED
      BY <3>1, <3>2, OneMore
  <2> HIDE DEF x
  <2>3. WithSkipped(b, x) \in ListsBy(i) /\ SamePlaces(b, WithSkipped(b, x))
    BY <2>2, ReplaceKeeps
  <2>4. Taken(WithSkipped(b, x)) = Taken(b)
    BY <2>3 DEF SamePlaces, Taken
  <2> QED
    BY <1>8, <2>1, <2>3, <2>4
<1>9. CASE Taken(l) >= MaxOpen
  <2>1. out = Skip(l, i, "blocked_existing_position")
    BY <1>9 DEF Considered
  <2> QED
    BY <1>8, <2>1 DEF SkipReasons
<1>10. CASE ~(Taken(l) >= MaxOpen) /\ CloseTime(i) < l.cooldown[key]
  <2>1. out = Skip(l, i, "strategy_cooldown_active")
    BY <1>10 DEF Considered, key
  <2> QED
    BY <1>8, <2>1 DEF SkipReasons
<1>11. CASE ~(Taken(l) >= MaxOpen) /\ ~(CloseTime(i) < l.cooldown[key]) /\ Trapped(signal, i)
  <2>1. out = Skip(cooling, i, "early_trap_filter")
    BY <1>6, <1>11 DEF Considered, key, signal, until
  <2> QED
    BY <1>5, <1>7, <1>8, <2>1 DEF SkipReasons
<1>12. CASE ~(Taken(l) >= MaxOpen) /\ ~(CloseTime(i) < l.cooldown[key]) /\ ~Trapped(signal, i)
  <2> DEFINE x == Append(cooling.pending, signal)
             more == WithPending(cooling, x)
             y == Append(more.placed, signal)
  <2>1. out = WithPlaced(more, y)
    <3>1. out = [cooling EXCEPT !.pending = Append(@, signal), !.placed = Append(@, signal)]
      BY <1>6, <1>12 DEF Considered, key, signal, until
    <3> QED
      BY <1>5, <3>1 DEF WithPlaced, WithPending, ListsBy
  <2>2. cooling.pending \in Seq(OrdersBy(i)) /\ cooling.open \in Seq(GoodPositions(i))
    BY <1>5, ReplaceKeeps
  <2>3. PICK o \in Nat, p \in Nat : Len(cooling.open) = o /\ Len(cooling.pending) = p
    BY <2>2
  <2>4. x \in Seq(OrdersBy(i)) /\ Len(x) = p + 1
    BY <1>1, <2>2, <2>3, OneMore
  <2> HIDE DEF x
  <2>5. more \in ListsBy(i) /\ more.pending = x /\ more.open = cooling.open
    BY <1>5, <2>4, ReplaceKeeps
  <2> HIDE DEF more
  <2>6. y \in Seq(OrdersBy(i))
    <3>1. more.placed \in Seq(OrdersBy(i))
      BY <2>5, ReplaceKeeps
    <3> QED
      BY <1>1, <3>1, OneMore
  <2> HIDE DEF y
  <2>7. WithPlaced(more, y) \in ListsBy(i) /\ SamePlaces(more, WithPlaced(more, y))
    BY <2>5, <2>6, ReplaceKeeps
  <2>8. Len(WithPlaced(more, y).open) = o /\ Len(WithPlaced(more, y).pending) = p + 1
    BY <2>3, <2>4, <2>5, <2>7 DEF SamePlaces
  <2>9. Taken(WithPlaced(more, y)) = o + (p + 1)
    <3>1. p + 1 \in Nat
      OBVIOUS
    <3> QED
      BY <2>8, <3>1, TakenIs
  <2>10. Taken(cooling) = o + p
    BY <2>3, TakenIs
  <2>11. o + (p + 1) <= MaxOpen
    BY <1>2, <1>7, <1>12, <2>10
  <2> QED
    BY <2>1, <2>7, <2>9, <2>11
<1> QED
  BY <1>9, <1>10, <1>11, <1>12

\* One candle, with or without a signal
LEMMA CandleKeeps ==
  ASSUME ReplayInv, done < Len(primary), NEW chosen,
         chosen = <<>> \/ \E s \in Selections : chosen = <<s>>,
         Candle1m(done + 1, chosen)
  PROVE  ReplayInv'
<1> DEFINE i == done + 1
<1>1. primary \in Tapes /\ primary \in Seq(Minutes) /\ Len(primary) <= Len(Opens)
  BY ReplayTypes DEF ReplayInv
<1>2. /\ done \in Nat /\ i \in Nat /\ i \in 1 .. Len(primary) /\ i \in 1 .. Len(Opens) /\ i - 1 = done
      /\ i \in 0 .. Len(primary)
  <2>1. done \in 0 .. Len(primary) /\ Len(primary) \in Nat /\ Len(Opens) \in Nat
    BY <1>1, OpensAreTimes DEF ReplayInv
  <2> QED
    BY <1>1, <2>1
<1>3. primary[i] \in Minutes
  BY <1>1, <1>2
<1>4. Lists \in ListsBy(done) /\ Taken(Lists) <= MaxOpen /\ Taken(Lists) \in Int /\ MaxOpen \in Int
  <2>1. Lists \in ListsBy(done) /\ Len(open) + Len(pending) <= MaxOpen
    BY DEF ReplayInv, PlacesAreEnough
  <2>2. Lists.open = open /\ Lists.pending = pending
    BY DEF Lists
  <2>3. open \in Seq(GoodPositions(done)) /\ pending \in Seq(OrdersBy(done))
    BY <2>1, <2>2, ReplaceKeeps
  <2>4. PICK o \in Nat, p \in Nat : Len(open) = o /\ Len(pending) = p
    BY <2>3
  <2>5. Taken(Lists) = o + p
    BY <2>2, <2>4, TakenIs
  <2>6. MaxOpen \in Int
    BY ReplayTypes
  <2> QED
    BY <2>1, <2>4, <2>5, <2>6
<1>5. PICK distance \in Distances :
        LET filled == AfterFills(AfterManagement(i), i)
            lists == IF chosen = <<>> THEN filled ELSE Considered(filled, chosen[1], i, distance)
        IN  /\ open' = lists.open /\ pending' = lists.pending /\ trades' = lists.trades
            /\ skipped' = lists.skipped /\ cooldown' = lists.cooldown /\ placed' = lists.placed
            /\ done' = i /\ primary' = primary
  BY DEF Candle1m
<1> DEFINE managed == AfterManagement(i)
           filled == AfterFills(managed, i)
           lists == IF chosen = <<>> THEN filled ELSE Considered(filled, chosen[1], i, distance)
<1> HIDE DEF i
<1>6. managed \in ListsBy(done) /\ Taken(managed) <= Taken(Lists)
  BY <1>2, <1>3, <1>4, ManagementKeeps
<1>7. filled \in ListsBy(done) /\ Taken(filled) <= Taken(managed)
  <2> HIDE DEF managed
  <2>1. managed \in ListsBy(i - 1)
    BY <1>2, <1>6
  <2> QED
    BY <1>2, <1>3, <2>1, FillsKeep
<1>8. \A l \in ListsBy(done) : Taken(l) \in Nat
  <2> SUFFICES ASSUME NEW l \in ListsBy(done) PROVE Taken(l) \in Nat
    OBVIOUS
  <2>1. l.open \in Seq(GoodPositions(done)) /\ l.pending \in Seq(OrdersBy(done))
    BY ReplaceKeeps
  <2>2. PICK a \in Nat, b \in Nat : Len(l.open) = a /\ Len(l.pending) = b
    BY <2>1
  <2> QED
    BY <2>2, TakenIs
<1> HIDE DEF managed, filled
<1>9. filled \in ListsBy(i) /\ Taken(filled) <= MaxOpen
  <2>1. filled \in ListsBy(i)
    BY <1>2, <1>7, ListsGrow DEF i
  <2>2. Taken(filled) \in Nat /\ Taken(managed) \in Nat
    BY <1>6, <1>7, <1>8
  <2> QED
    BY <1>4, <1>6, <1>7, <2>1, <2>2
<1>10. lists \in ListsBy(i) /\ Taken(lists) <= MaxOpen
  <2>1. CASE chosen = <<>>
    BY <1>9, <2>1
  <2>2. ASSUME NEW s \in Selections, chosen = <<s>> PROVE lists \in ListsBy(i) /\ Taken(lists) <= MaxOpen
    <3>1. chosen # <<>> /\ chosen[1] = s
      BY <2>2
    <3>2. lists = Considered(filled, s, i, distance)
      BY <3>1
    <3> QED
      BY <1>2, <1>9, <3>2, ConsideredKeeps
  <2> QED
    BY <2>1, <2>2
<1>11. /\ open' = lists.open /\ pending' = lists.pending /\ trades' = lists.trades
       /\ skipped' = lists.skipped /\ cooldown' = lists.cooldown /\ placed' = lists.placed
       /\ done' = i /\ primary' = primary
  BY <1>5 DEF filled, managed
<1> HIDE DEF lists
<1>12. Lists' = lists
  BY <1>10, <1>11 DEF Lists, ListsBy
<1>13. PlacesAreEnough'
  <2>1. open' \in Seq(GoodPositions(i)) /\ pending' \in Seq(OrdersBy(i))
    BY <1>10, <1>11, ReplaceKeeps
  <2>2. PICK o \in Nat, p \in Nat : Len(open') = o /\ Len(pending') = p
    BY <2>1
  <2>3. Taken(lists) = o + p
    BY <1>11, <2>2, TakenIs
  <2> QED
    BY <1>10, <2>2, <2>3 DEF PlacesAreEnough
<1> QED
  BY <1>1, <1>2, <1>10, <1>11, <1>12, <1>13 DEF ReplayInv

\* Closing what is open at the end keeps every entry.
LEMMA EndKeeps ==
  ASSUME ReplayInv, EndOfTest
  PROVE  ReplayInv'
<1> DEFINE End(pos) ==
             Closed(pos, "end_of_test", pos.realized + pos.left * Gain(pos, Cl(pos.signal.dir, Last(primary))))
           ends == [n \in DOMAIN open |-> End(open[n])]
<1>1. /\ primary' = primary /\ done' = done /\ open' = <<>> /\ pending' = pending /\ skipped' = skipped
      /\ cooldown' = cooldown /\ placed' = placed /\ trades' = trades \o ends /\ done = Len(primary)
      /\ open # <<>>
  BY DEF EndOfTest
<1>2. Lists \in ListsBy(done) /\ Lists.open = open /\ Lists.trades = trades /\ Lists.pending = pending
  BY DEF ReplayInv, Lists
<1>3. open \in Seq(GoodPositions(done)) /\ trades \in Seq(GoodTrades(done)) /\ pending \in Seq(OrdersBy(done))
  BY <1>2, ReplaceKeeps
<1>4. ASSUME NEW pos \in GoodPositions(done) PROVE End(pos) \in GoodTrades(done)
  <2>1. pos \in PositionsOf(OrdersBy(done)) /\ (Gated => KeepsPlan(pos))
    BY DEF GoodPositions
  <2>2. /\ pos.signal \in OrdersBy(done) /\ pos.entry \in Int /\ pos.at \in Int /\ pos.left \in Int
        /\ pos.realized \in Int /\ pos.filled \in SUBSET Nat
    BY <2>1 DEF PositionsOf
  <2>3. pos.signal.dir \in Directions /\ pos.signal.stop \in Int /\ pos.signal.id \in 1 .. done
    BY <2>2 DEF OrdersBy, Orders
  <2>4. Last(primary) \in Minutes
    <3>1. primary \in Seq(Minutes) /\ done = Len(primary)
      BY <1>1, ReplayTypes DEF ReplayInv
    <3>2. Len(primary) \in Nat /\ Len(primary) >= 1
      BY <2>3, <3>1
    <3> QED
      BY <3>1, <3>2 DEF Last
  <2> DEFINE close == Cl(pos.signal.dir, Last(primary))
             gain == Gain(pos, close)
             sum == pos.realized + pos.left * gain
  <2>5. close \in Int
    <3>1. Last(primary).c \in Int
      BY <2>4 DEF Minutes
    <3> QED
      BY <2>3, <3>1 DEF Cl, Directions
  <2> HIDE DEF close
  <2>6. gain \in Int
    BY <2>2, <2>5 DEF Gain
  <2> HIDE DEF gain
  <2>7. sum \in Int
    BY <2>2, <2>6
  <2> HIDE DEF sum
  <2>8. Risk(pos) \in Int
    BY <2>2, <2>3 DEF Risk
  <2>9. End(pos) = Closed(pos, "end_of_test", sum)
    BY DEF sum, gain, close
  <2>10. /\ End(pos) \in TradesOf(OrdersBy(done))
         /\ End(pos).signal = pos.signal /\ End(pos).entry = pos.entry /\ End(pos).at = pos.at
    BY <2>2, <2>7, <2>8, <2>9 DEF Closed, TradesOf, Reasons
  <2> QED
    BY <2>1, <2>10 DEF GoodTrades, KeepsPlan
<1> HIDE DEF End
<1>5. ends \in Seq(GoodTrades(done))
  <2>1. \A n \in DOMAIN open : open[n] \in GoodPositions(done)
    BY <1>3, ItemsOf
  <2>2. DOMAIN open = 1 .. Len(open) /\ Len(open) \in Nat
    BY <1>3
  <2> QED
    BY <1>4, <2>1, <2>2
<1>6. trades \o ends \in Seq(GoodTrades(done))
  <2> HIDE DEF ends
  <2> QED
    BY <1>3, <1>5
<1>7. Lists' \in ListsBy(done)
  <2>1. open' \in Seq(GoodPositions(done))
    BY <1>1
  <2> QED
    BY <1>1, <1>2, <1>6, <2>1 DEF Lists, ListsBy
<1>8. PlacesAreEnough'
  <2>1. Len(open') = 0 /\ Len(open) \in Nat /\ Len(pending) \in Nat
    BY <1>1, <1>3
  <2>2. MaxOpen \in Int
    BY ReplayTypes
  <2> QED
    BY <1>1, <2>1, <2>2 DEF ReplayInv, PlacesAreEnough
<1> QED
  BY <1>1, <1>7, <1>8 DEF ReplayInv

LEMMA StepKeeps == ReplayInv /\ [Next]_vars => ReplayInv'
<1> SUFFICES ASSUME ReplayInv, [Next]_vars PROVE ReplayInv'
  OBVIOUS
<1>1. CASE Quiet
  BY <1>1, CandleKeeps DEF Quiet
<1>2. CASE Selected
  BY <1>2, CandleKeeps DEF Selected
<1>3. CASE EndOfTest
  BY <1>3, EndKeeps
<1>4. CASE UNCHANGED vars
  <2>1. Lists' = Lists
    BY <1>4 DEF vars, Lists
  <2> QED
    BY <1>4, <2>1 DEF vars, ReplayInv, PlacesAreEnough
<1> QED
  BY <1>1, <1>2, <1>3, <1>4 DEF Next

LEMMA ReplayHolds == Spec => []ReplayInv
<1>1. Init => ReplayInv
  <2> SUFFICES ASSUME Init PROVE ReplayInv
    OBVIOUS
  <2>1. cooldown \in Cooldowns
    BY DEF Init, Cooldowns
  <2>2. Lists \in ListsBy(0)
    BY <2>1 DEF Init, Lists, ListsBy
  <2>3. Len(open) = 0 /\ Len(pending) = 0 /\ MaxOpen \in Int /\ MaxOpen >= 1
    BY ReplayTypes, ReplayAssumption DEF Init
  <2>4. 0 \in 0 .. Len(primary)
    BY ReplayTypes DEF Init
  <2> QED
    BY <2>2, <2>3, <2>4 DEF Init, ReplayInv, PlacesAreEnough
<1> QED
  BY <1>1, StepKeeps, PTL DEF Spec

\* However many orders fill on one candle, and however long an order waited, there is a
\* place for every one of them (the loop of run over pending_orders, and the limit it puts
\* on new signals only).
THEOREM PlacesSuffice == Spec => []PlacesAreEnough
<1>1. ReplayInv => PlacesAreEnough
  BY DEF ReplayInv
<1> QED
  BY <1>1, ReplayHolds, PTL

\* Where the drift limit is a proper share of the risk and the selector puts stops below
\* entries, every position and every trade, filled on whatever candle, hardened or not, had its
\* stop below its entry, paid the minimum after costs and was not filled before its signal
\* (the gates of run on a filled order).
THEOREM EntriesStayPlanned ==
  ASSUME Gated
  PROVE  Spec => []EntriesKeepThePlan
<1>1. ReplayInv => EntriesKeepThePlan
  <2> SUFFICES ASSUME ReplayInv, NEW p \in ToSet(open) \cup ToSet(trades) PROVE KeepsPlan(p)
    BY DEF EntriesKeepThePlan
  <2>1. Lists \in ListsBy(done) /\ Lists.open = open /\ Lists.trades = trades
    BY DEF ReplayInv, Lists
  <2>2. open \in Seq(GoodPositions(done)) /\ trades \in Seq(GoodTrades(done))
    BY <2>1, ReplaceKeeps
  <2>3. (\A n \in DOMAIN open : open[n] \in GoodPositions(done)) /\ (\A n \in DOMAIN trades : trades[n] \in GoodTrades(done))
    BY <2>2, ItemsOf
  <2>4. p \in GoodPositions(done) \/ p \in GoodTrades(done)
    BY <2>3 DEF ToSet
  <2> QED
    BY <2>4 DEF GoodPositions, GoodTrades
<1> QED
  BY <1>1, ReplayHolds, PTL

-------------------------------------------------------------------------------
(* The candles of the higher timeframes *)

\* The times of the candles grow, and with them their buckets.
LEMMA TimesGrow ==
  ASSUME NEW n \in 1 .. Len(Opens), NEW m \in 1 .. Len(Opens)
  PROVE  /\ OpenTime(m) \in Int /\ CloseTime(m) \in Int /\ Bucket(m) \in Int
         /\ m <= n <=> OpenTime(m) <= OpenTime(n)
         /\ m <= n <=> CloseTime(m) <= CloseTime(n)
         /\ m <= n => Bucket(m) <= Bucket(n)
<1>1. n \in Nat /\ m \in Nat /\ OpenTime(m) \in Int /\ OpenTime(n) \in Int
  BY OpensAreTimes DEF OpenTime
<1>2. CloseTime(m) = OpenTime(m) + 2 /\ CloseTime(n) = OpenTime(n) + 2
  BY DEF OpenTime, CloseTime
<1>3. m <= n - 1 => OpenTime(n) >= CloseTime(m)
  BY <1>1, LaterOpens
<1>4. n <= m - 1 => OpenTime(m) >= CloseTime(n)
  BY <1>1, LaterOpens
<1>5. m <= n <=> OpenTime(m) <= OpenTime(n)
  BY <1>1, <1>2, <1>3, <1>4
<1>6. Width \in Nat \ {0}
  BY ReplayAssumption
<1>7. Bucket(m) \in Int /\ (OpenTime(m) <= OpenTime(n) => Bucket(m) <= Bucket(n))
  BY <1>1, <1>6 DEF Bucket
<1> QED
  BY <1>1, <1>2, <1>5, <1>7

Buckets(t) == {Bucket(n) : n \in 1 .. Len(t)}

\* A higher candle starts with the first row of its bucket and ends with the last one.
LEMMA RowsOfBucket ==
  ASSUME NEW t, Len(t) \in Nat, DOMAIN t = 1 .. Len(t), NEW b \in Buckets(t)
  PROVE  /\ Rows(t, b) \in SUBSET (1 .. Len(t))
         /\ Min(Rows(t, b)) \in Rows(t, b) /\ Max(Rows(t, b)) \in Rows(t, b)
         /\ \A n \in Rows(t, b) : n >= Min(Rows(t, b)) /\ n <= Max(Rows(t, b))
         /\ Aggregate(Rows(t, b), t).at = OpenTime(Min(Rows(t, b)))
         /\ Aggregate(Rows(t, b), t).at \div Width = b
         /\ Aggregate(Rows(t, b), t).end = CloseTime(Max(Rows(t, b)))
<1> DEFINE rows == Rows(t, b)
<1>1. rows \in SUBSET (1 .. Len(t)) /\ rows # {}
  BY DEF Rows, Buckets
<1>2. rows \in SUBSET Nat
  BY <1>1
<1>3. \A n \in rows : Bucket(n) = b
  BY DEF Rows
<1> HIDE DEF rows
<1>4. Max(rows) \in rows /\ \A n \in rows : Max(rows) >= n
  BY <1>1, LargestBounds
<1>5. Min(rows) \in rows /\ \A n \in rows : Min(rows) <= n
  BY <1>1, <1>2, SmallestIsIn
<1>6. Aggregate(rows, t).at = OpenTime(Min(rows)) /\ Aggregate(rows, t).end = CloseTime(Max(rows))
  BY DEF Aggregate
<1>7. \A n \in rows : n >= Min(rows) /\ n <= Max(rows)
  BY <1>2, <1>4, <1>5
<1>8. Aggregate(rows, t).at \div Width = b
  BY <1>3, <1>5, <1>6 DEF Bucket
<1> QED
  BY <1>1, <1>4, <1>5, <1>6, <1>7, <1>8 DEF rows

\* A higher candle that ends by the close of a minute candle is finished by it, and is what
\* the minute candles up to that one make of it, whatever comes later, with or without gaps;
\* and one that is finished ends by then (_aggregate_timeframe gives a candle the end of its
\* last row, which is what _advance_higher_timeframes compares).
THEOREM ShownIsFinished ==
  ASSUME NEW t \in Tapes, NEW i \in 1 .. Len(t), NEW b \in {Bucket(n) : n \in 1 .. Len(t)}
  PROVE  LET known == SubSeq(t, 1, i)
             candle == Aggregate(Rows(t, b), t)
         IN  /\ candle.end <= CloseTime(i) <=> Rows(t, b) \subseteq 1 .. i
             /\ candle.end <= CloseTime(i) => candle = Aggregate(Rows(known, b), known)
<1> DEFINE known == SubSeq(t, 1, i)
           rows == Rows(t, b)
           last == Max(rows)
<1>1. t \in Seq(Minutes) /\ Len(t) \in Nat /\ Len(t) <= Len(Opens) /\ Len(Opens) \in Nat /\ i \in Nat
  BY ReplayTypes, OpensAreTimes
<1>2. DOMAIN t = 1 .. Len(t) /\ DOMAIN known = 1 .. i /\ \A n \in 1 .. i : known[n] = t[n]
  BY <1>1
<1>3. rows \in SUBSET (1 .. Len(t)) /\ rows # {}
  BY <1>2 DEF Rows
<1>4. last \in rows /\ last \in 1 .. Len(t)
  BY <1>1, <1>3, LargestIsIn
<1>5. \A n \in rows : n <= last
  <2>1. \A y \in rows : last >= y
    BY <1>1, <1>3, LargestBounds
  <2> QED
    BY <1>1, <1>3, <1>4, <2>1
<1> HIDE DEF rows, last, known
<1>6. ASSUME NEW n \in 1 .. Len(t), NEW m \in 1 .. n
      PROVE  CloseTime(m) <= CloseTime(n) /\ (CloseTime(n) <= CloseTime(m) => n = m)
  <2>1. n \in 1 .. Len(Opens) /\ m \in 1 .. Len(Opens) /\ Opens[n] \in Int /\ Opens[m] \in Int
    BY <1>1, OpensAreTimes
  <2>2. CASE n = m
    BY <2>1, <2>2 DEF CloseTime
  <2>3. CASE n # m
    <3>1. m \in 1 .. n - 1
      BY <1>1, <2>3
    <3>2. OpenTime(n) >= CloseTime(m)
      BY <2>1, <3>1, LaterOpens
    <3> QED
      BY <2>1, <3>2 DEF OpenTime, CloseTime
  <2> QED
    BY <2>2, <2>3
<1>7. CloseTime(last) <= CloseTime(i) <=> last <= i
  <2>1. CASE last <= i
    BY <1>1, <1>4, <1>6, <2>1
  <2>2. CASE last > i
    <3>1. i \in 1 .. last /\ last # i
      BY <1>1, <1>4, <2>2
    <3> QED
      BY <1>4, <1>6, <2>2, <3>1
  <2> QED
    BY <1>1, <1>4, <2>1, <2>2
<1>8. last <= i <=> rows \subseteq 1 .. i
  BY <1>1, <1>3, <1>4, <1>5
<1>9. rows \subseteq 1 .. i => Rows(known, b) = rows
  BY <1>2 DEF Rows, rows
<1>10. ASSUME rows \subseteq 1 .. i PROVE Aggregate(rows, t) = Aggregate(rows, known)
  <2>1. \A n \in rows : known[n] = t[n]
    BY <1>2, <1>10
  <2>2. Min(rows) \in rows
    <3>1. rows \in SUBSET Nat
      BY <1>1, <1>3
    <3> QED
      BY <1>3, <3>1, SmallestIsIn
  <2>3. {t[n].h : n \in rows} = {known[n].h : n \in rows} /\ {t[n].l : n \in rows} = {known[n].l : n \in rows}
    BY <2>1
  <2> QED
    BY <1>4, <2>1, <2>2, <2>3 DEF Aggregate, last
<1>11. Aggregate(rows, t).end = CloseTime(last)
  BY DEF Aggregate, last
<1> QED
  BY <1>7, <1>8, <1>9, <1>10, <1>11 DEF rows, known

\* The candles of the buckets that have all their rows among the first i
Finished(t, i) == {Aggregate(Rows(t, b), t) : b \in {x \in Buckets(t) : Rows(t, x) \subseteq 1 .. i}}

\* They are what NoLookAhead asks for: what the first i candles make of the buckets that no
\* later candle belongs to.
LEMMA FinishedIsKnown ==
  ASSUME NEW t \in Tapes, NEW i \in 0 .. Len(t)
  PROVE  Finished(t, i) = {a \in Aggregated(SubSeq(t, 1, i)) :
                             a.at \div Width \notin {Bucket(n) : n \in i + 1 .. Len(t)}}
<1> DEFINE known == SubSeq(t, 1, i)
           later == {Bucket(n) : n \in i + 1 .. Len(t)}
           Of(b) == Aggregate(Rows(known, b), known)
<1>1. t \in Seq(Minutes) /\ Len(t) \in Nat /\ i \in Nat /\ DOMAIN t = 1 .. Len(t)
  BY ReplayTypes
<1>2. Len(known) = i /\ DOMAIN known = 1 .. i
  BY <1>1
<1>3. Aggregated(known) = {Of(b) : b \in Buckets(known)}
  BY <1>2 DEF Aggregated, Buckets
<1>4. \A b \in Buckets(known) : Of(b).at \div Width = b
  <2> SUFFICES ASSUME NEW b \in Buckets(known) PROVE Of(b).at \div Width = b
    OBVIOUS
  <2>1. Len(known) \in Nat /\ DOMAIN known = 1 .. Len(known)
    BY <1>1, <1>2
  <2> HIDE DEF known
  <2> QED
    BY <2>1, RowsOfBucket
<1>5. \A b \in Buckets(t) : Rows(t, b) \subseteq 1 .. i <=> b \in Buckets(known) /\ b \notin later
  <2> SUFFICES ASSUME NEW b \in Buckets(t)
               PROVE  Rows(t, b) \subseteq 1 .. i <=> b \in Buckets(known) /\ b \notin later
    OBVIOUS
  <2>1. Rows(t, b) = {n \in 1 .. Len(t) : Bucket(n) = b}
    BY <1>1 DEF Rows
  <2>2. PICK m \in 1 .. Len(t) : Bucket(m) = b
    BY DEF Buckets
  <2>3. Buckets(known) = {Bucket(n) : n \in 1 .. i}
    BY <1>2 DEF Buckets
  <2> HIDE DEF known
  <2> QED
    BY <1>1, <2>1, <2>2, <2>3
<1>6. Buckets(known) \subseteq Buckets(t)
  <2>1. Buckets(known) = {Bucket(n) : n \in 1 .. i}
    BY <1>2 DEF Buckets
  <2> HIDE DEF known
  <2> QED
    BY <1>1, <2>1 DEF Buckets
<1>7. \A b \in Buckets(t) : Rows(t, b) \subseteq 1 .. i => Aggregate(Rows(t, b), t) = Of(b)
  <2> SUFFICES ASSUME NEW b \in Buckets(t), Rows(t, b) \subseteq 1 .. i PROVE Aggregate(Rows(t, b), t) = Of(b)
    OBVIOUS
  <2>1. b \in Buckets(known)
    BY <1>5
  <2>2. i \in 1 .. Len(t)
    BY <1>1, <1>2, <2>1 DEF Buckets
  <2>3. b \in {Bucket(n) : n \in 1 .. Len(t)}
    BY DEF Buckets
  <2>4. Aggregate(Rows(t, b), t).end <= CloseTime(i)
    BY <2>2, <2>3, ShownIsFinished
  <2> QED
    BY <2>2, <2>3, <2>4, ShownIsFinished
<1> HIDE DEF known, later, Of
<1>8. {a \in Aggregated(known) : a.at \div Width \notin later} = {Of(b) : b \in {x \in Buckets(known) : x \notin later}}
  BY <1>3, <1>4
<1>9. {x \in Buckets(known) : x \notin later} = {x \in Buckets(t) : Rows(t, x) \subseteq 1 .. i}
  BY <1>5, <1>6
<1>10. Finished(t, i) = {Of(b) : b \in {x \in Buckets(t) : Rows(t, x) \subseteq 1 .. i}}
  BY <1>7 DEF Finished
<1> QED
  BY <1>8, <1>9, <1>10 DEF known, later

\* One candle more: what waits and has ended is what this candle finished, and nothing that
\* waits is in front of it.
LEMMA ShownStep ==
  ASSUME primary \in Tapes, NEW i \in 1 .. Len(primary), higher = Finished(primary, i - 1)
  PROVE  Shown(i) = Finished(primary, i)
<1> DEFINE t == primary
           Of(b) == Aggregate(Rows(t, b), t)
           waiting == Aggregated(t) \ higher
<1>1. /\ t \in Seq(Minutes) /\ Len(t) \in Nat /\ i \in Nat /\ DOMAIN t = 1 .. Len(t)
      /\ Len(t) <= Len(Opens) /\ Len(Opens) \in Nat /\ \A n \in 1 .. Len(t) : n \in 1 .. Len(Opens)
  BY ReplayTypes, OpensAreTimes
<1> HIDE DEF t
<1>2. Aggregated(t) = {Of(b) : b \in Buckets(t)}
  BY <1>1 DEF Aggregated, Buckets
<1>3. \A b \in Buckets(t) : Of(b).end <= CloseTime(i) <=> Rows(t, b) \subseteq 1 .. i
  <2> SUFFICES ASSUME NEW b \in Buckets(t) PROVE Of(b).end <= CloseTime(i) <=> Rows(t, b) \subseteq 1 .. i
    OBVIOUS
  <2>1. b \in {Bucket(n) : n \in 1 .. Len(t)}
    BY DEF Buckets
  <2>2. t \in Tapes /\ i \in 1 .. Len(t)
    BY DEF t
  <2> QED
    BY <2>1, <2>2, ShownIsFinished
<1>4. \A b, c \in Buckets(t) : Of(c).at <= Of(b).at => Of(c).end <= Of(b).end
  <2> SUFFICES ASSUME NEW b \in Buckets(t), NEW c \in Buckets(t), Of(c).at <= Of(b).at
               PROVE  Of(c).end <= Of(b).end
    OBVIOUS
  <2>1. /\ Rows(t, b) \in SUBSET (1 .. Len(t)) /\ Min(Rows(t, b)) \in Rows(t, b) /\ Max(Rows(t, b)) \in Rows(t, b)
        /\ Of(b).at = OpenTime(Min(Rows(t, b))) /\ Of(b).end = CloseTime(Max(Rows(t, b)))
        /\ \A n \in Rows(t, b) : n >= Min(Rows(t, b)) /\ n <= Max(Rows(t, b))
    BY <1>1, RowsOfBucket
  <2>2. /\ Rows(t, c) \in SUBSET (1 .. Len(t)) /\ Min(Rows(t, c)) \in Rows(t, c) /\ Max(Rows(t, c)) \in Rows(t, c)
        /\ Of(c).at = OpenTime(Min(Rows(t, c))) /\ Of(c).end = CloseTime(Max(Rows(t, c)))
        /\ \A n \in Rows(t, c) : n >= Min(Rows(t, c)) /\ n <= Max(Rows(t, c))
    BY <1>1, RowsOfBucket
  <2> DEFINE fb == Min(Rows(t, b))
             lb == Max(Rows(t, b))
             fc == Min(Rows(t, c))
             lc == Max(Rows(t, c))
  <2>3. fb \in 1 .. Len(Opens) /\ lb \in 1 .. Len(Opens) /\ fc \in 1 .. Len(Opens) /\ lc \in 1 .. Len(Opens)
    BY <1>1, <2>1, <2>2
  <2>4. Bucket(fb) = b /\ Bucket(lb) = b /\ Bucket(fc) = c /\ Bucket(lc) = c
    BY <2>1, <2>2 DEF Rows
  <2> HIDE DEF fb, lb, fc, lc
  <2>5. fc <= fb
    BY <2>1, <2>2, <2>3, TimesGrow DEF fb, fc
  <2>6. c <= b /\ b \in Int /\ c \in Int
    BY <2>3, <2>4, <2>5, TimesGrow
  <2>7. lc <= lb
    <3>1. CASE b = c
      <4>1. lc = lb
        BY <3>1 DEF lb, lc
      <4> QED
        BY <1>1, <2>3, <4>1
    <3>2. CASE b # c
      <4>1. lb <= lc => b <= c
        BY <2>3, <2>4, TimesGrow
      <4> QED
        BY <2>3, <2>6, <3>2, <4>1
    <3> QED
      BY <3>1, <3>2
  <2> QED
    BY <2>1, <2>2, <2>3, <2>7, TimesGrow DEF lb, lc
<1>5. \A b \in Buckets(t) : Of(b).end \in Int
  <2> SUFFICES ASSUME NEW b \in Buckets(t) PROVE Of(b).end \in Int
    OBVIOUS
  <2>1. Of(b).end = CloseTime(Max(Rows(t, b))) /\ Max(Rows(t, b)) \in 1 .. Len(t)
    BY <1>1, RowsOfBucket
  <2> QED
    BY <1>1, <2>1, TimesGrow
<1>6. \A b \in Buckets(t) : Of(b).at \in Int
  <2> SUFFICES ASSUME NEW b \in Buckets(t) PROVE Of(b).at \in Int
    OBVIOUS
  <2>1. Of(b).at = OpenTime(Min(Rows(t, b))) /\ Min(Rows(t, b)) \in 1 .. Len(t)
    BY <1>1, RowsOfBucket
  <2> QED
    BY <1>1, <2>1, TimesGrow
<1>7. CloseTime(i) \in Int
  <2>1. i \in 1 .. Len(Opens)
    BY <1>1 DEF t
  <2> QED
    BY <2>1, TimesGrow
<1>8. higher = {Of(b) : b \in {x \in Buckets(t) : Rows(t, x) \subseteq 1 .. i - 1}}
  BY DEF Finished, t
<1>9. Shown(i) = higher \cup {a \in waiting : \A x \in waiting : x.at <= a.at => x.end <= CloseTime(i)}
  BY DEF Shown, t
<1>10. Finished(t, i) = {Of(b) : b \in {x \in Buckets(t) : Rows(t, x) \subseteq 1 .. i}}
  BY DEF Finished
<1> HIDE DEF Of
<1>11. higher \subseteq Finished(t, i)
  <2>1. 1 .. i - 1 \subseteq 1 .. i
    BY <1>1
  <2>2. \A x \in Buckets(t) : Rows(t, x) \subseteq 1 .. i - 1 => Rows(t, x) \subseteq 1 .. i
    BY <2>1
  <2> QED
    BY <1>8, <1>10, <2>2
<1>12. ASSUME NEW a \in waiting, \A x \in waiting : x.at <= a.at => x.end <= CloseTime(i)
       PROVE  a \in Finished(t, i)
  <2>1. PICK b \in Buckets(t) : a = Of(b)
    BY <1>2
  <2>2. a.end <= CloseTime(i)
    BY <1>6, <1>12, <2>1
  <2> QED
    BY <1>3, <1>10, <2>1, <2>2
<1>13. ASSUME NEW a \in Finished(t, i), a \notin higher
       PROVE  a \in waiting /\ \A x \in waiting : x.at <= a.at => x.end <= CloseTime(i)
  <2>1. PICK b \in Buckets(t) : a = Of(b) /\ Rows(t, b) \subseteq 1 .. i
    BY <1>10
  <2>2. a \in waiting
    BY <1>2, <1>13, <2>1
  <2>3. ASSUME NEW x \in waiting, x.at <= a.at PROVE x.end <= CloseTime(i)
    <3>1. PICK c \in Buckets(t) : x = Of(c)
      BY <1>2
    <3>2. x.end <= a.end /\ a.end <= CloseTime(i)
      BY <1>3, <1>4, <2>1, <2>3, <3>1
    <3> QED
      BY <1>5, <1>7, <2>1, <3>1, <3>2
  <2> QED
    BY <2>2, <2>3
<1> HIDE DEF waiting
<1>14. Shown(i) = Finished(t, i)
  BY <1>9, <1>11, <1>12, <1>13
<1> QED
  BY <1>14 DEF t

\* No replay ever shows a higher candle that has a row still to come, and none that is finished
\* is held back: the cursor of _advance_higher_timeframes never meets an unfinished candle in
\* front of a finished one.
THEOREM NothingIsAhead == Spec => []NoLookAhead
<1> DEFINE Ahead == higher = Finished(primary, done)
<1>1. Init => Ahead
  <2> SUFFICES ASSUME Init PROVE Ahead
    OBVIOUS
  <2>1. primary \in Tapes /\ higher = {} /\ done = 0
    BY DEF Init
  <2>2. Len(primary) \in Nat /\ DOMAIN primary = 1 .. Len(primary)
    BY <2>1, ReplayTypes
  <2>3. \A b \in Buckets(primary) : ~(Rows(primary, b) \subseteq 1 .. 0)
    <3> SUFFICES ASSUME NEW b \in Buckets(primary) PROVE ~(Rows(primary, b) \subseteq 1 .. 0)
      OBVIOUS
    <3>1. Min(Rows(primary, b)) \in Rows(primary, b)
      BY <2>2, RowsOfBucket
    <3> QED
      BY <3>1
  <2> QED
    BY <2>1, <2>3 DEF Finished
<1>2. ReplayInv /\ Ahead /\ [Next]_vars => Ahead'
  <2> SUFFICES ASSUME ReplayInv, Ahead, [Next]_vars PROVE Ahead'
    OBVIOUS
  <2>1. ASSUME done < Len(primary), NEW chosen, Candle1m(done + 1, chosen) PROVE Ahead'
    <3>1. primary \in Tapes /\ done \in 0 .. Len(primary) /\ Len(primary) \in Nat
      BY ReplayTypes DEF ReplayInv
    <3>2. done + 1 \in 1 .. Len(primary) /\ (done + 1) - 1 = done
      BY <2>1, <3>1
    <3>3. Shown(done + 1) = Finished(primary, done + 1)
      BY <3>1, <3>2, ShownStep
    <3>4. higher' = Shown(done + 1) /\ done' = done + 1 /\ primary' = primary
      BY <2>1 DEF Candle1m
    <3> QED
      BY <3>3, <3>4
  <2>2. CASE Quiet
    BY <2>1, <2>2 DEF Quiet
  <2>3. CASE Selected
    BY <2>1, <2>3 DEF Selected
  <2>4. CASE EndOfTest
    BY <2>4 DEF EndOfTest
  <2>5. CASE UNCHANGED vars
    BY <2>5 DEF vars
  <2> QED
    BY <2>2, <2>3, <2>4, <2>5 DEF Next
<1>3. ReplayInv /\ Ahead => NoLookAhead
  <2> SUFFICES ASSUME ReplayInv, Ahead PROVE NoLookAhead
    OBVIOUS
  <2>1. primary \in Tapes /\ done \in 0 .. Len(primary)
    BY DEF ReplayInv
  <2> QED
    BY <2>1, FinishedIsKnown DEF NoLookAhead
<1> QED
  BY <1>1, <1>2, <1>3, ReplayHolds, PTL DEF Spec
===============================================================================
