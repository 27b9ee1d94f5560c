-------------------------------- MODULE Backtest --------------------------------
(***************************************************************************)
(* backtest/ict_smc_backtest.py: run_backtest replays closed candles over  *)
(* prepared signals.  At the close of each candle it manages what is open, *)
(* then tries the pending orders, then admits the signals known by then.   *)
(***************************************************************************)
EXTENDS TradeManagement

CONSTANTS
  Signals,          \* what is tried: a set of sequences, sorted by time, of signals
  CandleChoices,    \* the candles that may come
  MaxCandles        \* bound: how many

\* What is tried, at any time
Prepared == UNION {ToSet(plan) : plan \in Signals}

ASSUME BacktestAssumption ==
  /\ \A plan \in Signals : plan \in Seq(Prepared)
  /\ \A s \in Prepared :
       /\ s.dir \in Directions /\ s.type \in {"limit", "market"} /\ s.targets \in Seq(LadderSteps)
       /\ {s.at, s.from, s.expiry, s.entry, s.stop} \subseteq Int
  /\ CandleChoices \subseteq Minutes
  /\ MaxCandles \in 1 .. Len(Opens)

VARIABLES
  signals,          \* the signals of this replay
  tape,             \* the candles processed
  candle,           \* a sequence of the one to be processed, empty at the end
  admitted,         \* signal_index
  pending,          \* pending_orders
  open,             \* open_positions
  trades,           \* trade_log
  skipped           \* skipped_setup_log: signals and reasons

vars == <<signals, tape, candle, admitted, pending, open, trades, skipped>>

-------------------------------------------------------------------------------
Lists == [open |-> open, pending |-> pending, trades |-> trades, skipped |-> skipped]

Skip(lists, s, reason) == [lists EXCEPT !.skipped = Append(@, [signal |-> s, reason |-> reason])]

\* A position after a candle: still open, or a trade
Managed(lists, pos, k, i) ==
  LET m == Manage(pos, k, i)
  IN  IF m.trade = <<>> THEN [lists EXCEPT !.open = Append(@, m.pos)] ELSE [lists EXCEPT !.trades = @ \o m.trade]

\* Mutant: what expires is forgotten.
ExpiredForgotten(lists, order) == lists

Expired(lists, order) == Skip(lists, order, "pending_order_expired")

\* A pending order on a candle
Tried(lists, order, k, i) ==
  LET fill == Fill(order, k, i)
  IN  IF fill = "filled"
      THEN [lists EXCEPT !.open = Append(@, Position(order, order.entry + Spread2, CloseTime(i)))]
      ELSE IF fill = "order_expired" THEN Expired(lists, order)
      ELSE [lists EXCEPT !.pending = Append(@, order)]

\* A signal known by now: next is the candle to come, if any
Admitted(lists, s, i, next) ==
  IF ~s.allowed THEN Skip(lists, s, "trade_not_allowed")
  ELSE IF s.news THEN Skip(lists, s, "news_restricted")
  ELSE IF s.type = "limit" THEN [lists EXCEPT !.pending = Append(@, s)]
  ELSE IF next = <<>> THEN Skip(lists, s, "no_next_candle_for_market_fill")
  ELSE IF MarketFill(s, i + 1) # "filled" THEN Skip(lists, s, MarketFill(s, i + 1))
  ELSE [lists EXCEPT !.open =
          Append(@, Position(s, Op(s.dir, next[1]) + Spread2 + Slippage, OpenTime(i + 1)))]

\* The three loops of one candle
AfterManagement(k, i) ==
  LET Step(lists, pos) == Managed(lists, pos, k, i)
  IN  FoldLeft(Step, [Lists EXCEPT !.open = <<>>], open)

AfterFills(lists0, k, i) ==
  LET Step(lists, order) == Tried(lists, order, k, i)
  IN  FoldLeft(Step, [lists0 EXCEPT !.pending = <<>>], lists0.pending)

\* How far the loop over the signals gets: to the first that is still to come
Reached(i) ==
  LET later == {n \in admitted + 1 .. Len(signals) : signals[n].at > CloseTime(i)}
  IN  IF later = {} THEN Len(signals) ELSE Min(later) - 1

AfterSignals(lists0, i, next) ==
  LET Step(lists, s) == Admitted(lists, s, i, next)
  IN  FoldLeft(Step, lists0, SubSeq(signals, admitted + 1, Reached(i)))

\* The loop's body, when the candle after it is `next'
Replay(next) ==
  LET k == candle[1]
      i == Len(tape) + 1
      lists == AfterSignals(AfterFills(AfterManagement(k, i), k, i), i, next)
  IN  /\ tape' = Append(tape, k)
      /\ candle' = next
      /\ admitted' = Reached(i)
      /\ open' = lists.open /\ pending' = lists.pending
      /\ trades' = lists.trades /\ skipped' = lists.skipped
      /\ UNCHANGED signals

\* close_open_positions_at_end; pending orders stay where they are
EndOfTest ==
  /\ candle = <<>> /\ open # <<>>
  /\ LET close(pos) == Cl(pos.signal.dir, Last(tape))
         End(pos) == Closed(pos, "end_of_test", pos.realized + pos.left * Gain(pos, close(pos)))
     IN  trades' = trades \o [n \in DOMAIN open |-> End(open[n])]
  /\ open' = <<>>
  /\ UNCHANGED <<signals, tape, candle, admitted, pending, skipped>>

Init ==
  /\ signals \in Signals
  /\ \E k \in CandleChoices : candle = <<k>>
  /\ tape = <<>> /\ admitted = 0
  /\ pending = <<>> /\ open = <<>> /\ trades = <<>> /\ skipped = <<>>

Next ==
  \/ candle # <<>> /\ Len(tape) + 1 < MaxCandles /\ \E k \in CandleChoices : Replay(<<k>>)
  \/ candle # <<>> /\ Len(tape) + 1 = MaxCandles /\ Replay(<<>>)
  \/ EndOfTest

Spec == Init /\ [][Next]_vars

-------------------------------------------------------------------------------
\* Mutant: the fall below the start.
DrawdownBelowStart(values) ==
  LET Step(at, value) == [equity |-> at.equity + value, worst |-> Larger(at.worst, -(at.equity + value))]
  IN  FoldLeft(Step, [equity |-> 0, worst |-> 0], values).worst

\* calculate_performance_metrics over R values: the drawdown below the running peak ...
MaxDrawdown(values) ==
  LET Step(at, value) ==
        LET equity == at.equity + value
            peak == Larger(at.peak, equity)
        IN  [equity |-> equity, peak |-> peak, worst |-> Larger(at.worst, peak - equity)]
  IN  FoldLeft(Step, [equity |-> 0, peak |-> 0, worst |-> 0], values).worst

\* ... and the longest run of wins or losses
MaxStreak(values, sign) ==
  LET Step(at, value) ==
        LET current == IF sign * value > 0 THEN at.current + 1 ELSE 0
        IN  [current |-> current, best |-> Larger(at.best, current)]
  IN  FoldLeft(Step, [current |-> 0, best |-> 0], values).best

Results == [n \in DOMAIN trades |-> trades[n].realized]

-------------------------------------------------------------------------------
\* Every signal admitted is in one list, once: nothing drops out of the audit trail.
Total(lists) == Len(lists.open) + Len(lists.pending) + Len(lists.trades) + Len(lists.skipped)

Names(lists) ==
  {o.id : o \in ToSet(lists.pending)}
    \cup {p.signal.id : p \in ToSet(lists.open) \cup ToSet(lists.trades) \cup ToSet(lists.skipped)}

NothingDisappears ==
  /\ Total(Lists) = admitted
  /\ Names(Lists) = {signals[n].id : n \in 1 .. admitted}

\* When the candle began that filled an order: a limit order is stamped with its close, a market
\* order with its open.
Began(p) == IF p.signal.type = "limit" THEN p.at - 2 ELSE p.at

\* The candle that fills an order began when the signal was known already, and was not over when
\* the order became active.  This says nothing of an order that becomes active within a candle:
\* simulate_order_fill looks at all of that candle, so that what its price did before counts too.
Forward(p) == Began(p) >= p.signal.at /\ Began(p) + 2 > p.signal.from

FillsAreForward == \A p \in ToSet(open) \cup ToSet(trades) : Forward(p)

\* A trade that ended at its stop or its last target lost no more than its first risk, and
\* nothing once a target had moved the stop, unless its market fill had gapped over that target.
ResultWithinPlan == \A t \in ToSet(trades) : WithinPlan(t)

\* The running drawdown is the worst fall between any two points of the equity curve, and
\* the streaks are the longest stretches of wins and of losses.
Equity(values) == FoldLeft(+, 0, values)
Stretches(n) == {x \in (0 .. n) \X (0 .. n) : x[1] <= x[2]}
Falls(values) ==
  {Equity(SubSeq(values, 1, x[1])) - Equity(SubSeq(values, 1, x[2])) : x \in Stretches(Len(values))}

Won(values, sign, x) == 1 <= x[1] /\ \A n \in x[1] .. x[2] : sign * values[n] > 0
Streaks(values, sign) ==
  {x[2] - x[1] + 1 : x \in {y \in Stretches(Len(values)) : Won(values, sign, y)}}

MetricsAreExact ==
  /\ MaxDrawdown(Results) = Max(Falls(Results))
  /\ \A sign \in {1, -1} : MaxStreak(Results, sign) = Max({0} \cup Streaks(Results, sign))
-------------------------------------------------------------------------------
(* The three loops of one candle, one item after the other *)

\* The loop over the open positions
ManagedInOrder(A, k, i, n) ==
  \E c : /\ c[0] = WithOpen(Lists, <<>>) /\ AfterManagement(k, i) = c[n]
         /\ \A m \in 0 .. n : c[m] \in A
         /\ \A m \in 1 .. n : c[m] = Managed(c[m - 1], open[m], k, i)

LEMMA ManagedOneByOne ==
  ASSUME NEW A, NEW k, NEW i, NEW n \in Nat, DOMAIN open = 1 .. n,
         WithOpen(Lists, <<>>) \in A,
         \A l \in A, m \in 1 .. n : Managed(l, open[m], k, i) \in A
  PROVE  ManagedInOrder(A, k, i, n)
<1> DEFINE base == [Lists EXCEPT !.open = <<>>]
           Step(l, m) == Managed(l, open[m], k, i)
           F == [x \in (1 .. n) \X A |-> Step(x[2], x[1])]
           Folds(g) == g = [s \in SUBSET (1 .. n) |->
                              IF s = {} THEN base ELSE Step(g[s \ {Max(s)}], Max(s))]
           iter == CHOOSE g : Folds(g)
<1>1. AfterManagement(k, i) = iter[1 .. n]
  BY DEF AfterManagement, FoldLeft, MapThenFoldSet
<1>2. \A l \in A, m \in 1 .. n : Step(l, m) \in A
  OBVIOUS
<1>b. base = WithOpen(Lists, <<>>)
  BY DEF WithOpen
<1>a. base \in A
  BY <1>b
<1> HIDE DEF base, Step
<1>3. F \in [(1 .. n) \X A -> A]
  BY <1>2
<1>4. \A s \in SUBSET (1 .. n) : s # {} => Max(s) \in 1 .. n /\ s \ {Max(s)} \in SUBSET (1 .. n)
  BY LargestIsIn
<1>5. Folds(iter)
  <2>1. PICK g \in [SUBSET (1 .. n) -> A] : FoldsTo(g, n, base, F)
    <3> HIDE DEF F
    <3> QED
      BY <1>3, <1>a, FoldExists
  <2>2. \A s \in SUBSET (1 .. n) :
          g[s] = IF s = {} THEN base ELSE Step(g[s \ {Max(s)}], Max(s))
    BY <1>4, <2>1 DEF FoldsTo
  <2>3. Folds(g)
    BY <2>1, <2>2
  <2> HIDE DEF Folds
  <2> QED
    BY <2>3
<1>6. iter[{}] = base
  BY <1>5
<1>7. ASSUME NEW s \in SUBSET (1 .. n), s # {}, iter[s \ {Max(s)}] \in A
      PROVE  iter[s] = F[<<Max(s), iter[s \ {Max(s)}]>>]
  <2> HIDE DEF iter
  <2>1. iter[s] = Step(iter[s \ {Max(s)}], Max(s))
    BY <1>5, <1>7
  <2> QED
    BY <1>4, <1>7, <2>1
<1> HIDE DEF iter, F
<1>8. Walks(iter, n, A, F)
  BY <1>7 DEF Walks
<1>9. PICK c : c[n] = iter[1 .. n] /\ WalkFrom(base, n, A, F, c)
  <2>1. WalksTo(iter[1 .. n], base, n, A, F)
    BY <1>3, <1>6, <1>8, <1>a, FoldWalks
  <2> QED
    BY <2>1 DEF WalksTo
<1>10. ASSUME NEW m \in 1 .. n PROVE c[m] = Step(c[m - 1], m)
  <2>1. c[m - 1] \in A /\ <<m, c[m - 1]>> \in (1 .. n) \X A
    BY <1>9 DEF WalkFrom
  <2> QED
    BY <1>9, <2>1 DEF WalkFrom, F
<1> QED
  BY <1>1, <1>9, <1>10, <1>b DEF Step, WalkFrom, ManagedInOrder

\* The loop over the pending orders
TriedInOrder(A, k, i, lists0, n) ==
  \E c : /\ c[0] = WithPending(lists0, <<>>) /\ AfterFills(lists0, k, i) = c[n]
         /\ \A m \in 0 .. n : c[m] \in A
         /\ \A m \in 1 .. n : c[m] = Tried(c[m - 1], lists0.pending[m], k, i)

LEMMA TriedOneByOne ==
  ASSUME NEW A, NEW k, NEW i, NEW lists0, NEW n \in Nat, DOMAIN lists0.pending = 1 .. n,
         WithPending(lists0, <<>>) \in A,
         \A l \in A, m \in 1 .. n : Tried(l, lists0.pending[m], k, i) \in A
  PROVE  TriedInOrder(A, k, i, lists0, n)
<1> DEFINE base == [lists0 EXCEPT !.pending = <<>>]
           Step(l, m) == Tried(l, lists0.pending[m], k, i)
           F == [x \in (1 .. n) \X A |-> Step(x[2], x[1])]
           Folds(g) == g = [s \in SUBSET (1 .. n) |->
                              IF s = {} THEN base ELSE Step(g[s \ {Max(s)}], Max(s))]
           iter == CHOOSE g : Folds(g)
<1>1. AfterFills(lists0, k, i) = iter[1 .. n]
  BY DEF AfterFills, FoldLeft, MapThenFoldSet
<1>2. \A l \in A, m \in 1 .. n : Step(l, m) \in A
  OBVIOUS
<1>b. base = WithPending(lists0, <<>>)
  BY DEF WithPending
<1>a. base \in A
  BY <1>b
<1> HIDE DEF base, Step
<1>3. F \in [(1 .. n) \X A -> A]
  BY <1>2
<1>4. \A s \in SUBSET (1 .. n) : s # {} => Max(s) \in 1 .. n /\ s \ {Max(s)} \in SUBSET (1 .. n)
  BY LargestIsIn
<1>5. Folds(iter)
  <2>1. PICK g \in [SUBSET (1 .. n) -> A] : FoldsTo(g, n, base, F)
    <3> HIDE DEF F
    <3> QED
      BY <1>3, <1>a, FoldExists
  <2>2. \A s \in SUBSET (1 .. n) :
          g[s] = IF s = {} THEN base ELSE Step(g[s \ {Max(s)}], Max(s))
    BY <1>4, <2>1 DEF FoldsTo
  <2>3. Folds(g)
    BY <2>1, <2>2
  <2> HIDE DEF Folds
  <2> QED
    BY <2>3
<1>6. iter[{}] = base
  BY <1>5
<1>7. ASSUME NEW s \in SUBSET (1 .. n), s # {}, iter[s \ {Max(s)}] \in A
      PROVE  iter[s] = F[<<Max(s), iter[s \ {Max(s)}]>>]
  <2> HIDE DEF iter
  <2>1. iter[s] = Step(iter[s \ {Max(s)}], Max(s))
    BY <1>5, <1>7
  <2> QED
    BY <1>4, <1>7, <2>1
<1> HIDE DEF iter, F
<1>8. Walks(iter, n, A, F)
  BY <1>7 DEF Walks
<1>9. PICK c : c[n] = iter[1 .. n] /\ WalkFrom(base, n, A, F, c)
  <2>1. WalksTo(iter[1 .. n], base, n, A, F)
    BY <1>3, <1>6, <1>8, <1>a, FoldWalks
  <2> QED
    BY <2>1 DEF WalksTo
<1>10. ASSUME NEW m \in 1 .. n PROVE c[m] = Step(c[m - 1], m)
  <2>1. c[m - 1] \in A /\ <<m, c[m - 1]>> \in (1 .. n) \X A
    BY <1>9 DEF WalkFrom
  <2> QED
    BY <1>9, <2>1 DEF WalkFrom, F
<1> QED
  BY <1>1, <1>9, <1>10, <1>b DEF Step, WalkFrom, TriedInOrder

\* The loop over the signals
AdmittedInOrder(A, i, next, lists0, known, n) ==
  \E c : /\ c[0] = lists0 /\ AfterSignals(lists0, i, next) = c[n]
         /\ \A m \in 0 .. n : c[m] \in A
         /\ \A m \in 1 .. n : c[m] = Admitted(c[m - 1], known[m], i, next)

LEMMA AdmittedOneByOne ==
  ASSUME NEW A, NEW i, NEW next, NEW lists0, NEW known, known = SubSeq(signals, admitted + 1, Reached(i)),
         NEW n \in Nat, DOMAIN known = 1 .. n,
         lists0 \in A,
         \A l \in A, m \in 1 .. n : Admitted(l, known[m], i, next) \in A
  PROVE  AdmittedInOrder(A, i, next, lists0, known, n)
<1> DEFINE base == lists0
           Step(l, m) == Admitted(l, known[m], i, next)
           F == [x \in (1 .. n) \X A |-> Step(x[2], x[1])]
           Folds(g) == g = [s \in SUBSET (1 .. n) |->
                              IF s = {} THEN base ELSE Step(g[s \ {Max(s)}], Max(s))]
           iter == CHOOSE g : Folds(g)
<1>1. AfterSignals(lists0, i, next) = iter[1 .. n]
  BY DEF AfterSignals, FoldLeft, MapThenFoldSet
<1>2. \A l \in A, m \in 1 .. n : Step(l, m) \in A
  OBVIOUS
<1>a. base \in A
  OBVIOUS
<1> HIDE DEF base, Step
<1>3. F \in [(1 .. n) \X A -> A]
  BY <1>2
<1>4. \A s \in SUBSET (1 .. n) : s # {} => Max(s) \in 1 .. n /\ s \ {Max(s)} \in SUBSET (1 .. n)
  BY LargestIsIn
<1>5. Folds(iter)
  <2>1. PICK g \in [SUBSET (1 .. n) -> A] : FoldsTo(g, n, base, F)
    <3> HIDE DEF F
    <3> QED
      BY <1>3, <1>a, FoldExists
  <2>2. \A s \in SUBSET (1 .. n) :
          g[s] = IF s = {} THEN base ELSE Step(g[s \ {Max(s)}], Max(s))
    BY <1>4, <2>1 DEF FoldsTo
  <2>3. Folds(g)
    BY <2>1, <2>2
  <2> HIDE DEF Folds
  <2> QED
    BY <2>3
<1>6. iter[{}] = base
  BY <1>5
<1>7. ASSUME NEW s \in SUBSET (1 .. n), s # {}, iter[s \ {Max(s)}] \in A
      PROVE  iter[s] = F[<<Max(s), iter[s \ {Max(s)}]>>]
  <2> HIDE DEF iter
  <2>1. iter[s] = Step(iter[s \ {Max(s)}], Max(s))
    BY <1>5, <1>7
  <2> QED
    BY <1>4, <1>7, <2>1
<1> HIDE DEF iter, F
<1>8. Walks(iter, n, A, F)
  BY <1>7 DEF Walks
<1>9. PICK c : c[n] = iter[1 .. n] /\ WalkFrom(base, n, A, F, c)
  <2>1. WalksTo(iter[1 .. n], base, n, A, F)
    BY <1>3, <1>6, <1>8, <1>a, FoldWalks
  <2> QED
    BY <2>1 DEF WalksTo
<1>10. ASSUME NEW m \in 1 .. n PROVE c[m] = Step(c[m - 1], m)
  <2>1. c[m - 1] \in A /\ <<m, c[m - 1]>> \in (1 .. n) \X A
    BY <1>9 DEF WalkFrom
  <2> QED
    BY <1>9, <2>1 DEF WalkFrom, F
<1> QED
  BY <1>1, <1>9, <1>10 DEF base, Step, WalkFrom, AdmittedInOrder

-------------------------------------------------------------------------------
(* What the lists hold, from candle to candle *)

SkipReasons ==
  {"trade_not_allowed", "news_restricted", "no_next_candle_for_market_fill", "pending_order_expired",
   "order_expired", "no_retroactive_fill"}

\* The signals that were known by the close of candle i, and what is made of them
OrdersBy(i) == {s \in Prepared : \E n \in 1 .. i : s.at <= CloseTime(n)}
Waiting(i) == {s \in OrdersBy(i) : s.type = "limit"}
GoodPositions(i) == {p \in PositionsOf(OrdersBy(i)) : Forward(p) /\ InPlan(p)}
GoodTrades(i) == {t \in TradesOf(OrdersBy(i)) : Forward(t) /\ WithinPlan(t)}
Skips(i) == [signal : OrdersBy(i), reason : SkipReasons]

ListsBy(i) ==
  [open : Seq(GoodPositions(i)), pending : Seq(Waiting(i)), trades : Seq(GoodTrades(i)), skipped : Seq(Skips(i))]

BacktestInv ==
  /\ signals \in Signals /\ tape \in Seq(Minutes) /\ candle \in {<<>>} \cup {<<k>> : k \in CandleChoices}
  /\ Len(tape) <= MaxCandles /\ (candle # <<>> => Len(tape) < MaxCandles)
  /\ admitted \in 0 .. Len(signals)
  /\ Lists \in ListsBy(Len(tape))
  /\ NothingDisappears

\* One list more has one item more, of a given name.
Adds(l, m, name) == Total(m) = Total(l) + 1 /\ Names(m) = Names(l) \cup {name}

LEMMA OrdersArePlanned ==
  ASSUME NEW i
  PROVE  Planned(OrdersBy(i))
BY BacktestAssumption DEF Planned, OrdersBy

LEMMA ListsGrow ==
  ASSUME NEW i \in Nat
  PROVE  ListsBy(i) \subseteq ListsBy(i + 1) /\ OrdersBy(i) \subseteq OrdersBy(i + 1)
<1>1. OrdersBy(i) \subseteq OrdersBy(i + 1)
  <2>1. 1 .. i \subseteq 1 .. i + 1
    OBVIOUS
  <2> QED
    BY <2>1 DEF OrdersBy
<1>2. Waiting(i) \subseteq Waiting(i + 1)
  BY <1>1 DEF Waiting
<1>3. GoodPositions(i) \subseteq GoodPositions(i + 1)
  BY <1>1 DEF GoodPositions, PositionsOf
<1>4. GoodTrades(i) \subseteq GoodTrades(i + 1)
  BY <1>1 DEF GoodTrades, TradesOf
<1>5. Skips(i) \subseteq Skips(i + 1)
  BY <1>1 DEF Skips
<1>6. \A S, T : S \subseteq T => Seq(S) \subseteq Seq(T)
  OBVIOUS
<1>7. /\ Seq(Waiting(i)) \subseteq Seq(Waiting(i + 1))
      /\ Seq(GoodPositions(i)) \subseteq Seq(GoodPositions(i + 1))
      /\ Seq(GoodTrades(i)) \subseteq Seq(GoodTrades(i + 1))
      /\ Seq(Skips(i)) \subseteq Seq(Skips(i + 1))
  BY <1>2, <1>3, <1>4, <1>5, <1>6
<1> QED
  BY <1>1, <1>7 DEF ListsBy

\* Replacing one list leaves the others.
LEMMA ReplaceKeeps ==
  ASSUME NEW i, NEW l \in ListsBy(i)
  PROVE  /\ l.open \in Seq(GoodPositions(i)) /\ l.pending \in Seq(Waiting(i))
         /\ l.trades \in Seq(GoodTrades(i)) /\ l.skipped \in Seq(Skips(i))
         /\ \A x \in Seq(GoodPositions(i)) :
              /\ WithOpen(l, x) \in ListsBy(i) /\ WithOpen(l, x).open = x
              /\ WithOpen(l, x).pending = l.pending /\ WithOpen(l, x).trades = l.trades
              /\ WithOpen(l, x).skipped = l.skipped
         /\ \A x \in Seq(Waiting(i)) :
              /\ WithPending(l, x) \in ListsBy(i) /\ WithPending(l, x).pending = x
              /\ WithPending(l, x).open = l.open /\ WithPending(l, x).trades = l.trades
              /\ WithPending(l, x).skipped = l.skipped
         /\ \A x \in Seq(GoodTrades(i)) :
              /\ WithTrades(l, x) \in ListsBy(i) /\ WithTrades(l, x).trades = x
              /\ WithTrades(l, x).open = l.open /\ WithTrades(l, x).pending = l.pending
              /\ WithTrades(l, x).skipped = l.skipped
         /\ \A x \in Seq(Skips(i)) :
              /\ WithSkipped(l, x) \in ListsBy(i) /\ WithSkipped(l, x).skipped = x
              /\ WithSkipped(l, x).open = l.open /\ WithSkipped(l, x).pending = l.pending
              /\ WithSkipped(l, x).trades = l.trades
<1> DEFINE P == Seq(GoodPositions(i))
           O == Seq(Waiting(i))
           T == Seq(GoodTrades(i))
           S == Seq(Skips(i))
<1>1. ListsBy(i) = [open : P, pending : O, trades : T, skipped : S]
  BY DEF ListsBy
<1> HIDE DEF P, O, T, S
<1>2. l.open \in P /\ l.pending \in O /\ l.trades \in T /\ l.skipped \in S
  BY <1>1
<1>3. ASSUME NEW x \in P
      PROVE  /\ WithOpen(l, x) \in ListsBy(i) /\ WithOpen(l, x).open = x
             /\ WithOpen(l, x).pending = l.pending /\ WithOpen(l, x).trades = l.trades
             /\ WithOpen(l, x).skipped = l.skipped
  BY <1>1 DEF WithOpen
<1>4. ASSUME NEW x \in O
      PROVE  /\ WithPending(l, x) \in ListsBy(i) /\ WithPending(l, x).pending = x
             /\ WithPending(l, x).open = l.open /\ WithPending(l, x).trades = l.trades
             /\ WithPending(l, x).skipped = l.skipped
  BY <1>1 DEF WithPending
<1>5. ASSUME NEW x \in T
      PROVE  /\ WithTrades(l, x) \in ListsBy(i) /\ WithTrades(l, x).trades = x
             /\ WithTrades(l, x).open = l.open /\ WithTrades(l, x).pending = l.pending
             /\ WithTrades(l, x).skipped = l.skipped
  BY <1>1 DEF WithTrades
<1>6. ASSUME NEW x \in S
      PROVE  /\ WithSkipped(l, x) \in ListsBy(i) /\ WithSkipped(l, x).skipped = x
             /\ WithSkipped(l, x).open = l.open /\ WithSkipped(l, x).pending = l.pending
             /\ WithSkipped(l, x).trades = l.trades
  BY <1>1 DEF WithSkipped
<1> QED
  BY <1>2, <1>3, <1>4, <1>5, <1>6 DEF P, O, T, S

\* The lists have lengths, as numbers.
LEMMA TotalIs ==
  ASSUME NEW l, NEW a \in Nat, NEW b \in Nat, NEW c \in Nat, NEW d \in Nat,
         Len(l.open) = a, Len(l.pending) = b, Len(l.trades) = c, Len(l.skipped) = d
  PROVE  Total(l) = a + b + c + d
BY Zenon DEF Total

LEMMA ListsHaveLengths ==
  ASSUME NEW i, NEW l \in ListsBy(i)
  PROVE  \E a, b, c, d \in Nat : Len(l.open) = a /\ Len(l.pending) = b /\ Len(l.trades) = c /\ Len(l.skipped) = d
<1>1. /\ l.open \in Seq(GoodPositions(i)) /\ l.pending \in Seq(Waiting(i))
      /\ l.trades \in Seq(GoodTrades(i)) /\ l.skipped \in Seq(Skips(i))
  BY ReplaceKeeps
<1>2. Len(l.open) \in Nat /\ Len(l.pending) \in Nat /\ Len(l.trades) \in Nat /\ Len(l.skipped) \in Nat
  BY <1>1
<1> QED
  BY <1>2

LEMMA TotalIsNat ==
  ASSUME NEW i, NEW l \in ListsBy(i)
  PROVE  Total(l) \in Nat
<1>1. PICK a, b, c, d \in Nat :
        Len(l.open) = a /\ Len(l.pending) = b /\ Len(l.trades) = c /\ Len(l.skipped) = d
  BY ListsHaveLengths
<1>2. Total(l) = a + b + c + d
  BY <1>1, TotalIs
<1> QED
  BY <1>2

LEMMA WhatAppendHolds ==
  ASSUME NEW S, NEW q \in Seq(S), NEW x
  PROVE  ToSet(Append(q, x)) = ToSet(q) \cup {x} /\ ToSet(q \o <<x>>) = ToSet(q) \cup {x}
<1>1. Len(q) \in Nat /\ DOMAIN q = 1 .. Len(q)
  OBVIOUS
<1> DEFINE n == Len(q)
<1> HIDE DEF n
<1>2. ASSUME NEW r, DOMAIN r = 1 .. n + 1, \A m \in 1 .. n : r[m] = q[m], r[n + 1] = x
      PROVE  ToSet(r) = ToSet(q) \cup {x}
  <2>1. ASSUME NEW y PROVE y \in ToSet(r) <=> y \in ToSet(q) \cup {x}
    <3>1. y \in ToSet(r) <=> \E m \in 1 .. n + 1 : y = r[m]
      BY <1>2 DEF ToSet
    <3>2. y \in ToSet(q) <=> \E m \in 1 .. n : y = q[m]
      BY <1>1 DEF ToSet, n
    <3>3. \A m \in 1 .. n + 1 : m \in 1 .. n \/ m = n + 1
      BY <1>1 DEF n
    <3>4. 1 .. n \subseteq 1 .. n + 1 /\ n + 1 \in 1 .. n + 1
      BY <1>1 DEF n
    <3> QED
      BY <1>2, <3>1, <3>2, <3>3, <3>4
  <2> QED
    BY <2>1
<1>3. LET r == Append(q, x) IN DOMAIN r = 1 .. n + 1 /\ (\A m \in 1 .. n : r[m] = q[m]) /\ r[n + 1] = x
  BY DEF n
<1>4. LET r == q \o <<x>> IN DOMAIN r = 1 .. n + 1 /\ (\A m \in 1 .. n : r[m] = q[m]) /\ r[n + 1] = x
  BY DEF n
<1> QED
  BY <1>2, <1>3, <1>4

\* One item more in one list
LEMMA MoreOpen ==
  ASSUME NEW i, NEW l \in ListsBy(i), NEW p \in GoodPositions(i)
  PROVE  /\ WithOpen(l, Append(l.open, p)) \in ListsBy(i)
         /\ Adds(l, WithOpen(l, Append(l.open, p)), p.signal.id)
<1> DEFINE x == Append(l.open, p)
           m == WithOpen(l, x)
<1>1. /\ l.open \in Seq(GoodPositions(i)) /\ x \in Seq(GoodPositions(i)) /\ Len(x) = Len(l.open) + 1
      /\ ToSet(x) = ToSet(l.open) \cup {p}
  <2>1. l.open \in Seq(GoodPositions(i))
    BY ReplaceKeeps
  <2> QED
    BY <2>1, OneMore, WhatAppendHolds
<1> HIDE DEF x
<1>2. /\ m \in ListsBy(i) /\ m.open = x /\ m.pending = l.pending /\ m.trades = l.trades
      /\ m.skipped = l.skipped
  BY <1>1, ReplaceKeeps
<1> HIDE DEF m
<1>3. Total(m) = Total(l) + 1
  <2>1. PICK a, b, c, d \in Nat :
          Len(l.open) = a /\ Len(l.pending) = b /\ Len(l.trades) = c /\ Len(l.skipped) = d
    BY ListsHaveLengths
  <2>2. Total(l) = a + b + c + d
    BY <2>1, TotalIs
  <2>3. PICK e \in Nat : e = a + 1 /\ Len(m.open) = e
    BY <1>1, <1>2, <2>1
  <2>4. Total(m) = e + b + c + d
    <3>1. Len(m.open) = e /\ Len(m.pending) = b /\ Len(m.trades) = c /\ Len(m.skipped) = d
      BY <1>2, <2>1, <2>3
    <3> QED
      BY <3>1, TotalIs
  <2> QED
    BY <2>2, <2>3, <2>4
<1>4. Names(m) = Names(l) \cup {p.signal.id}
  <2>1. ToSet(m.open) = ToSet(l.open) \cup {p}
    BY <1>1, <1>2
  <2> QED
    BY <1>2, <2>1 DEF Names
<1> QED
  BY <1>2, <1>3, <1>4 DEF Adds, m, x

LEMMA MorePending ==
  ASSUME NEW i, NEW l \in ListsBy(i), NEW o \in Waiting(i)
  PROVE  /\ WithPending(l, Append(l.pending, o)) \in ListsBy(i)
         /\ Adds(l, WithPending(l, Append(l.pending, o)), o.id)
<1> DEFINE x == Append(l.pending, o)
           m == WithPending(l, x)
<1>1. /\ l.pending \in Seq(Waiting(i)) /\ x \in Seq(Waiting(i)) /\ Len(x) = Len(l.pending) + 1
      /\ ToSet(x) = ToSet(l.pending) \cup {o}
  <2>1. l.pending \in Seq(Waiting(i))
    BY ReplaceKeeps
  <2> QED
    BY <2>1, OneMore, WhatAppendHolds
<1> HIDE DEF x
<1>2. /\ m \in ListsBy(i) /\ m.pending = x /\ m.open = l.open /\ m.trades = l.trades
      /\ m.skipped = l.skipped
  BY <1>1, ReplaceKeeps
<1> HIDE DEF m
<1>3. Total(m) = Total(l) + 1
  <2>1. PICK a, b, c, d \in Nat :
          Len(l.open) = a /\ Len(l.pending) = b /\ Len(l.trades) = c /\ Len(l.skipped) = d
    BY ListsHaveLengths
  <2>2. Total(l) = a + b + c + d
    BY <2>1, TotalIs
  <2>3. PICK e \in Nat : e = b + 1 /\ Len(m.pending) = e
    BY <1>1, <1>2, <2>1
  <2>4. Total(m) = a + e + c + d
    <3>1. Len(m.open) = a /\ Len(m.pending) = e /\ Len(m.trades) = c /\ Len(m.skipped) = d
      BY <1>2, <2>1, <2>3
    <3> QED
      BY <3>1, TotalIs
  <2> QED
    BY <2>2, <2>3, <2>4
<1>4. Names(m) = Names(l) \cup {o.id}
  <2>1. ToSet(m.pending) = ToSet(l.pending) \cup {o}
    BY <1>1, <1>2
  <2> QED
    BY <1>2, <2>1 DEF Names
<1> QED
  BY <1>2, <1>3, <1>4 DEF Adds, m, x

LEMMA MoreTrades ==
  ASSUME NEW i, NEW l \in ListsBy(i), NEW t \in GoodTrades(i)
  PROVE  /\ WithTrades(l, l.trades \o <<t>>) \in ListsBy(i)
         /\ Adds(l, WithTrades(l, l.trades \o <<t>>), t.signal.id)
<1> DEFINE x == l.trades \o <<t>>
           m == WithTrades(l, x)
<1>1. l.trades \in Seq(GoodTrades(i))
  BY ReplaceKeeps
<1>2. x \in Seq(GoodTrades(i)) /\ ToSet(x) = ToSet(l.trades) \cup {t}
  BY <1>1, OneMore, WhatAppendHolds
<1>3. Len(x) = Len(l.trades) + 1
  BY <1>1
<1> HIDE DEF x
<1>4. /\ m \in ListsBy(i) /\ m.trades = x /\ m.open = l.open /\ m.pending = l.pending
      /\ m.skipped = l.skipped
  BY <1>2, ReplaceKeeps
<1> HIDE DEF m
<1>5. Total(m) = Total(l) + 1
  <2>1. PICK a, b, c, d \in Nat :
          Len(l.open) = a /\ Len(l.pending) = b /\ Len(l.trades) = c /\ Len(l.skipped) = d
    BY ListsHaveLengths
  <2>2. Total(l) = a + b + c + d
    BY <2>1, TotalIs
  <2>3. PICK e \in Nat : e = c + 1 /\ Len(m.trades) = e
    BY <1>3, <1>4, <2>1
  <2>4. Total(m) = a + b + e + d
    <3>1. Len(m.open) = a /\ Len(m.pending) = b /\ Len(m.trades) = e /\ Len(m.skipped) = d
      BY <1>4, <2>1, <2>3
    <3> QED
      BY <3>1, TotalIs
  <2> QED
    BY <2>2, <2>3, <2>4
<1>6. Names(m) = Names(l) \cup {t.signal.id}
  <2>1. ToSet(m.trades) = ToSet(l.trades) \cup {t}
    BY <1>2, <1>4
  <2> QED
    BY <1>4, <2>1 DEF Names
<1> QED
  BY <1>4, <1>5, <1>6 DEF Adds, m, x

LEMMA MoreSkipped ==
  ASSUME NEW i, NEW l \in ListsBy(i), NEW s \in OrdersBy(i), NEW reason \in SkipReasons
  PROVE  Skip(l, s, reason) \in ListsBy(i) /\ Adds(l, Skip(l, s, reason), s.id)
<1> DEFINE r == [signal |-> s, reason |-> reason]
           x == Append(l.skipped, r)
           m == WithSkipped(l, x)
<1>1. r \in Skips(i) /\ r.signal = s
  BY DEF Skips
<1> HIDE DEF r
<1>2. /\ l.skipped \in Seq(Skips(i)) /\ x \in Seq(Skips(i)) /\ Len(x) = Len(l.skipped) + 1
      /\ ToSet(x) = ToSet(l.skipped) \cup {r}
  <2>1. l.skipped \in Seq(Skips(i))
    BY ReplaceKeeps
  <2> QED
    BY <1>1, <2>1, OneMore, WhatAppendHolds
<1>3. Skip(l, s, reason) = m
  BY DEF Skip, WithSkipped, r
<1> HIDE DEF x
<1>4. /\ m \in ListsBy(i) /\ m.skipped = x /\ m.open = l.open /\ m.pending = l.pending
      /\ m.trades = l.trades
  BY <1>2, ReplaceKeeps
<1> HIDE DEF m
<1>5. Total(m) = Total(l) + 1
  <2>1. PICK a, b, c, d \in Nat :
          Len(l.open) = a /\ Len(l.pending) = b /\ Len(l.trades) = c /\ Len(l.skipped) = d
    BY ListsHaveLengths
  <2>2. Total(l) = a + b + c + d
    BY <2>1, TotalIs
  <2>3. PICK e \in Nat : e = d + 1 /\ Len(m.skipped) = e
    BY <1>2, <1>4, <2>1
  <2>4. Total(m) = a + b + c + e
    <3>1. Len(m.open) = a /\ Len(m.pending) = b /\ Len(m.trades) = c /\ Len(m.skipped) = e
      BY <1>4, <2>1, <2>3
    <3> QED
      BY <3>1, TotalIs
  <2> QED
    BY <2>2, <2>3, <2>4
<1>6. Names(m) = Names(l) \cup {s.id}
  <2>1. ToSet(m.skipped) = ToSet(l.skipped) \cup {r}
    BY <1>2, <1>4
  <2> QED
    BY <1>1, <1>4, <2>1 DEF Names
<1> QED
  BY <1>3, <1>4, <1>5, <1>6 DEF Adds

\* What becomes of one item
LEMMA OpenedIsGood ==
  ASSUME NEW i, NEW order \in OrdersBy(i), NEW price \in Int, NEW at \in Int,
         NEW began, began = IF order.type = "limit" THEN at - 2 ELSE at,
         began >= order.at, began + 2 > order.from
  PROVE  Position(order, price, at) \in GoodPositions(i) /\ Position(order, price, at).signal = order
<1> DEFINE p == Position(order, price, at)
<1>1. order \in Prepared /\ order.stop \in Int
  BY BacktestAssumption DEF OrdersBy
<1>2. /\ p.signal = order /\ p.entry = price /\ p.at = at /\ p.stop = order.stop /\ p.left = 4
      /\ p.realized = 0 /\ p.filled = {} /\ p \in PositionsOf(OrdersBy(i))
  <2>1. {} \in SUBSET Nat /\ 4 \in Int /\ 0 \in Int
    OBVIOUS
  <2> QED
    BY <1>1, <2>1 DEF Position, PositionsOf, Whole
<1> HIDE DEF p
<1>3. Risk(p) \in Int
  BY <1>1, <1>2 DEF Risk
<1>4. InPlan(p)
  <2>1. -(4 - 4) * Risk(p) = 0
    BY <1>3
  <2> QED
    BY <1>2, <2>1 DEF InPlan, StopWasMoved, Whole
<1>5. Forward(p)
  BY <1>2 DEF Forward, Began
<1> QED
  BY <1>2, <1>4, <1>5 DEF GoodPositions, p

LEMMA KnownBefore ==
  ASSUME NEW j \in 1 .. Len(Opens), NEW s \in OrdersBy(j - 1)
  PROVE  OpenTime(j) >= s.at /\ CloseTime(j) >= s.at /\ OpenTime(j) \in Int /\ CloseTime(j) \in Int /\ s.at \in Int
<1>1. PICK n \in 1 .. j - 1 : s.at <= CloseTime(n)
  BY DEF OrdersBy
<1>2. OpenTime(j) >= CloseTime(n)
  BY LaterOpens
<1>3. s.at \in Int
  BY BacktestAssumption DEF OrdersBy
<1>4. Opens[j] \in Int /\ Opens[n] \in Int
  <2>1. Len(Opens) \in Nat /\ n \in 1 .. Len(Opens)
    BY OpensAreTimes
  <2> QED
    BY <2>1, OpensAreTimes
<1> QED
  BY <1>1, <1>2, <1>3, <1>4 DEF OpenTime, CloseTime

LEMMA ManagedAdds ==
  ASSUME NEW i, NEW l \in ListsBy(i), NEW pos \in GoodPositions(i), NEW k \in Minutes, NEW n
  PROVE  Managed(l, pos, k, n) \in ListsBy(i) /\ Adds(l, Managed(l, pos, k, n), pos.signal.id)
<1> DEFINE m == Manage(pos, k, n)
<1>1. pos \in PositionsOf(OrdersBy(i)) /\ Forward(pos) /\ InPlan(pos)
  BY DEF GoodPositions
<1>2. /\ m.pos \in SameEntry(OrdersBy(i), pos) /\ InPlan(m.pos)
      /\ \/ m.trade = <<>>
         \/ \E t \in TradesOf(OrdersBy(i)) :
              /\ m.trade = <<t>> /\ WithinPlan(t)
              /\ t.signal = pos.signal /\ t.entry = pos.entry /\ t.at = pos.at
  BY <1>1, OrdersArePlanned, ManageStaysInPlan
<1>3. m.pos \in GoodPositions(i) /\ m.pos.signal = pos.signal
  BY <1>1, <1>2 DEF SameEntry, GoodPositions, Forward, Began
<1>4. Managed(l, pos, k, n) = IF m.trade = <<>> THEN WithOpen(l, Append(l.open, m.pos))
                              ELSE WithTrades(l, l.trades \o m.trade)
  BY DEF Managed, WithOpen, WithTrades
<1> HIDE DEF m
<1>5. CASE m.trade = <<>>
  BY <1>3, <1>4, <1>5, MoreOpen
<1>6. ASSUME NEW t \in TradesOf(OrdersBy(i)), m.trade = <<t>>, WithinPlan(t),
             t.signal = pos.signal, t.at = pos.at
      PROVE  Managed(l, pos, k, n) \in ListsBy(i) /\ Adds(l, Managed(l, pos, k, n), pos.signal.id)
  <2>1. t \in GoodTrades(i)
    BY <1>1, <1>6 DEF GoodTrades, Forward, Began
  <2>2. m.trade # <<>>
    BY <1>6
  <2>3. Managed(l, pos, k, n) = WithTrades(l, l.trades \o <<t>>)
    BY <1>4, <1>6, <2>2
  <2> QED
    BY <1>6, <2>1, <2>3, MoreTrades
<1> QED
  BY <1>2, <1>5, <1>6

LEMMA TriedAdds ==
  ASSUME NEW i \in 1 .. Len(Opens), NEW l \in ListsBy(i - 1), NEW order \in Waiting(i - 1), NEW k
  PROVE  Tried(l, order, k, i) \in ListsBy(i - 1) /\ Adds(l, Tried(l, order, k, i), order.id)
<1> DEFINE price == order.entry + Spread2
           p == Position(order, price, CloseTime(i))
<1>1. /\ order \in OrdersBy(i - 1) /\ order \in Prepared /\ order.entry \in Int /\ order.from \in Int
  BY BacktestAssumption DEF OrdersBy, Waiting
<1>2. /\ OpenTime(i) >= order.at /\ OpenTime(i) \in Int /\ CloseTime(i) \in Int
      /\ OpenTime(i) = CloseTime(i) - 2 /\ order.type = "limit"
  <2>1. OpenTime(i) >= order.at /\ OpenTime(i) \in Int /\ CloseTime(i) \in Int
    BY <1>1, KnownBefore
  <2> QED
    BY <2>1 DEF OpenTime, CloseTime, Waiting
<1>3. price \in Int
  BY <1>1, MarketAssumption
<1>4. CASE Fill(order, k, i) = "filled"
  <2>1. OpenTime(i) + 2 > order.from
    BY <1>1, <1>2, <1>4 DEF Fill, TooEarly
  <2> HIDE DEF price
  <2>2. p \in GoodPositions(i - 1) /\ p.signal = order
    BY <1>1, <1>2, <1>3, <2>1, OpenedIsGood
  <2>3. Tried(l, order, k, i) = WithOpen(l, Append(l.open, p))
    BY <1>4 DEF Tried, WithOpen, price
  <2> HIDE DEF p
  <2> QED
    BY <2>2, <2>3, MoreOpen
<1>5. CASE Fill(order, k, i) = "order_expired"
  <2>1. Tried(l, order, k, i) = Skip(l, order, "pending_order_expired")
    BY <1>5 DEF Tried, Expired
  <2>2. "pending_order_expired" \in SkipReasons
    BY DEF SkipReasons
  <2> QED
    BY <1>1, <2>1, <2>2, MoreSkipped
<1>6. CASE Fill(order, k, i) # "filled" /\ Fill(order, k, i) # "order_expired"
  <2>1. Tried(l, order, k, i) = WithPending(l, Append(l.pending, order))
    BY <1>6 DEF Tried, WithPending
  <2> QED
    BY <2>1, MorePending
<1> QED
  BY <1>4, <1>5, <1>6

LEMMA AdmittedAdds ==
  ASSUME NEW i \in 1 .. Len(Opens), NEW l \in ListsBy(i), NEW s \in OrdersBy(i), NEW next,
         next = <<>> \/ (i + 1 \in 1 .. Len(Opens) /\ next[1] \in Minutes)
  PROVE  Admitted(l, s, i, next) \in ListsBy(i) /\ Adds(l, Admitted(l, s, i, next), s.id)
<1> DEFINE out == Admitted(l, s, i, next)
           how == MarketFill(s, i + 1)
           price == Op(s.dir, next[1]) + Spread2 + Slippage
           p == Position(s, price, OpenTime(i + 1))
<1>1. /\ s \in Prepared /\ s.dir \in Directions /\ s.type \in {"limit", "market"} /\ s.at \in Int
      /\ s.from \in Int
  BY BacktestAssumption DEF OrdersBy
<1>2. ASSUME NEW reason \in SkipReasons, out = Skip(l, s, reason)
      PROVE  out \in ListsBy(i) /\ Adds(l, out, s.id)
  BY <1>2, MoreSkipped
<1>3. CASE ~s.allowed
  <2>1. out = Skip(l, s, "trade_not_allowed")
    BY <1>3 DEF Admitted
  <2> QED
    BY <1>2, <2>1 DEF SkipReasons
<1>4. CASE s.allowed /\ s.news
  <2>1. out = Skip(l, s, "news_restricted")
    BY <1>4 DEF Admitted
  <2> QED
    BY <1>2, <2>1 DEF SkipReasons
<1>5. CASE s.allowed /\ ~s.news /\ s.type = "limit"
  <2>1. out = WithPending(l, Append(l.pending, s))
    BY <1>5 DEF Admitted, WithPending
  <2>2. s \in Waiting(i)
    BY <1>5 DEF Waiting
  <2> QED
    BY <2>1, <2>2, MorePending
<1>6. CASE s.allowed /\ ~s.news /\ s.type # "limit" /\ next = <<>>
  <2>1. out = Skip(l, s, "no_next_candle_for_market_fill")
    BY <1>6 DEF Admitted
  <2> QED
    BY <1>2, <2>1 DEF SkipReasons
<1>7. CASE s.allowed /\ ~s.news /\ s.type # "limit" /\ next # <<>> /\ how # "filled"
  <2>1. out = Skip(l, s, how)
    BY <1>7 DEF Admitted
  <2>2. how \in SkipReasons
    BY <1>7 DEF MarketFill, SkipReasons
  <2> HIDE DEF how
  <2> QED
    BY <1>2, <2>1, <2>2
<1>8. CASE s.allowed /\ ~s.news /\ s.type # "limit" /\ next # <<>> /\ how = "filled"
  <2>1. i + 1 \in 1 .. Len(Opens) /\ next[1] \in Minutes /\ (i + 1) - 1 = i
    BY <1>8
  <2>2. OpenTime(i + 1) >= s.at /\ OpenTime(i + 1) \in Int
    BY <2>1, KnownBefore
  <2>6. OpenTime(i + 1) + 2 > s.from
    <3>1. CloseTime(i + 1) = OpenTime(i + 1) + 2
      BY DEF OpenTime, CloseTime
    <3>2. ~(CloseTime(i + 1) <= s.from)
      BY <1>8 DEF MarketFill
    <3> HIDE DEF how
    <3> QED
      BY <1>1, <2>2, <3>1, <3>2
  <2>3. price \in Int
    <3>1. next[1].o \in Int
      BY <2>1 DEF Minutes
    <3>2. Op(s.dir, next[1]) \in Int
      BY <1>1, <3>1 DEF Op, Directions
    <3> QED
      BY <3>2, MarketAssumption
  <2> HIDE DEF price
  <2>4. p \in GoodPositions(i) /\ p.signal = s
    BY <1>1, <1>8, <2>2, <2>3, <2>6, OpenedIsGood
  <2>5. out = WithOpen(l, Append(l.open, p))
    BY <1>8 DEF Admitted, WithOpen, price
  <2> HIDE DEF p
  <2> QED
    BY <2>4, <2>5, MoreOpen
<1> QED
  BY <1>3, <1>4, <1>5, <1>6, <1>7, <1>8

\* A loop that adds its items one by one has added all of them.
Named(name, n) == {name[m] : m \in 1 .. n}

AddsEach(A, c, n, name) ==
  /\ \A l \in A : Total(l) \in Nat
  /\ \A m \in 0 .. n : c[m] \in A
  /\ \A m \in 1 .. n : Adds(c[m - 1], c[m], name[m])

LEMMA LoopAdds ==
  ASSUME NEW A, NEW n \in Nat, NEW c, NEW name, AddsEach(A, c, n, name)
  PROVE  Total(c[n]) = Total(c[0]) + n /\ Names(c[n]) = Names(c[0]) \cup Named(name, n)
<1> DEFINE Added(m) == {name[x] : x \in 1 .. m}
           T == {m \in 0 .. n : Total(c[m]) = Total(c[0]) + m /\ Names(c[m]) = Names(c[0]) \cup Added(m)}
<1>0. (\A m \in 0 .. n : Total(c[m]) \in Nat) /\ (\A m \in 1 .. n : Adds(c[m - 1], c[m], name[m]))
  BY DEF AddsEach
<1>1. 0 \in T
  <2>1. Added(0) = {}
    OBVIOUS
  <2>2. Total(c[0]) \in Nat
    BY <1>0, 0 \in 0 .. n
  <2> QED
    BY <2>1, <2>2
<1>2. ASSUME NEW m \in 0 .. n - 1, m \in T PROVE m + 1 \in T
  <2>1. m + 1 \in 1 .. n /\ m + 1 \in 0 .. n /\ (m + 1) - 1 = m /\ m \in 0 .. n /\ m \in Nat /\ 0 \in 0 .. n
    OBVIOUS
  <2>2. Adds(c[m], c[m + 1], name[m + 1])
    BY <1>0, <2>1
  <2>3. Total(c[m]) \in Nat /\ Total(c[0]) \in Nat /\ Total(c[m + 1]) \in Nat
    BY <1>0, <2>1
  <2>4. Total(c[m + 1]) = Total(c[0]) + (m + 1)
    BY <1>2, <2>1, <2>2, <2>3 DEF Adds
  <2>5. Added(m + 1) = Added(m) \cup {name[m + 1]}
    <3>1. \A x : x \in 1 .. m + 1 <=> x \in 1 .. m \/ x = m + 1
      BY <2>1
    <3> QED
      BY <3>1
  <2> HIDE DEF Added
  <2>6. Names(c[m + 1]) = Names(c[0]) \cup Added(m + 1)
    BY <1>2, <2>2, <2>5 DEF Adds
  <2> QED
    BY <2>1, <2>4, <2>6
<1>3. n \in T
  <2> HIDE DEF T
  <2>1. \A m \in 0 .. n : m \in T
    BY <1>1, <1>2, CountingUp
  <2> QED
    BY <2>1
<1> QED
  BY <1>3 DEF Named

\* One list emptied
LEMMA WhatNoneHolds ==
  ToSet(<<>>) = {}
BY DEF ToSet

LEMMA ItemsHeld ==
  ASSUME NEW S, NEW q \in Seq(S)
  PROVE  \E n \in Nat : /\ Len(q) = n /\ DOMAIN q = 1 .. n /\ \A m \in 1 .. n : q[m] \in S
                        /\ ToSet(q) = {q[m] : m \in 1 .. n}
<1>1. Len(q) \in Nat /\ DOMAIN q = 1 .. Len(q) /\ \A m \in 1 .. Len(q) : q[m] \in S
  OBVIOUS
<1> QED
  BY <1>1 DEF ToSet

IdsOf(q, n) == {q[m].signal.id : m \in 1 .. n}
OrderIds(q, n) == {q[m].id : m \in 1 .. n}

LEMMA OpenEmptied ==
  ASSUME NEW i, NEW l \in ListsBy(i)
  PROVE  /\ WithOpen(l, <<>>) \in ListsBy(i)
         /\ \E n \in Nat :
              /\ DOMAIN l.open = 1 .. n /\ \A m \in 1 .. n : l.open[m] \in GoodPositions(i)
              /\ Total(l) = Total(WithOpen(l, <<>>)) + n
              /\ Names(l) = Names(WithOpen(l, <<>>)) \cup IdsOf(l.open, n)
<1> DEFINE none == <<>>
           b == WithOpen(l, none)
<1>0. none \in Seq(GoodPositions(i))
  OBVIOUS
<1>1. Len(none) = 0 /\ ToSet(none) = {}
  BY WhatNoneHolds
<1> HIDE DEF none
<1>2. /\ b \in ListsBy(i) /\ b.open = none /\ b.pending = l.pending /\ b.trades = l.trades
      /\ b.skipped = l.skipped /\ l.open \in Seq(GoodPositions(i))
  <2>1. l.open \in Seq(GoodPositions(i))
    BY ReplaceKeeps
  <2>2. /\ b \in ListsBy(i) /\ b.open = none /\ b.pending = l.pending /\ b.trades = l.trades
        /\ b.skipped = l.skipped
    BY <1>0, ReplaceKeeps
  <2> QED
    BY <2>1, <2>2
<1>3. PICK n \in Nat : /\ Len(l.open) = n /\ DOMAIN l.open = 1 .. n
                       /\ \A m \in 1 .. n : l.open[m] \in GoodPositions(i)
                       /\ ToSet(l.open) = {l.open[m] : m \in 1 .. n}
  BY <1>2, ItemsHeld
<1> HIDE DEF b
<1>4. Total(l) = Total(b) + n
  <2>1. PICK x, y, z, w \in Nat :
          Len(l.open) = x /\ Len(l.pending) = y /\ Len(l.trades) = z /\ Len(l.skipped) = w
    BY ListsHaveLengths
  <2>2. Total(l) = x + y + z + w
    BY <2>1, TotalIs
  <2>3. PICK e \in Nat : e = 0 /\ Len(b.open) = e
    BY <1>1, <1>2
  <2>4. Total(b) = e + y + z + w
    <3>1. Len(b.open) = e /\ Len(b.pending) = y /\ Len(b.trades) = z /\ Len(b.skipped) = w
      BY <1>2, <2>1, <2>3
    <3> QED
      BY <3>1, TotalIs
  <2> QED
    BY <1>3, <2>1, <2>2, <2>3, <2>4
<1>5. Names(l) = Names(b) \cup IdsOf(l.open, n)
  <2>1. ToSet(b.open) = {}
    BY <1>1, <1>2
  <2>2. {p.signal.id : p \in ToSet(l.open)} = IdsOf(l.open, n)
    BY <1>3 DEF IdsOf
  <2>3. Names(l) = Names(b) \cup {p.signal.id : p \in ToSet(l.open)}
    BY <1>2, <2>1 DEF Names
  <2> QED
    BY <2>2, <2>3
<1> QED
  BY <1>2, <1>3, <1>4, <1>5 DEF b, none

LEMMA PendingEmptied ==
  ASSUME NEW i, NEW l \in ListsBy(i)
  PROVE  /\ WithPending(l, <<>>) \in ListsBy(i)
         /\ \E n \in Nat :
              /\ DOMAIN l.pending = 1 .. n /\ \A m \in 1 .. n : l.pending[m] \in Waiting(i)
              /\ Total(l) = Total(WithPending(l, <<>>)) + n
              /\ Names(l) = Names(WithPending(l, <<>>)) \cup OrderIds(l.pending, n)
<1> DEFINE none == <<>>
           b == WithPending(l, none)
<1>0. none \in Seq(Waiting(i))
  OBVIOUS
<1>1. Len(none) = 0 /\ ToSet(none) = {}
  BY WhatNoneHolds
<1> HIDE DEF none
<1>2. /\ b \in ListsBy(i) /\ b.pending = none /\ b.open = l.open /\ b.trades = l.trades
      /\ b.skipped = l.skipped /\ l.pending \in Seq(Waiting(i))
  <2>1. l.pending \in Seq(Waiting(i))
    BY ReplaceKeeps
  <2>2. /\ b \in ListsBy(i) /\ b.pending = none /\ b.open = l.open /\ b.trades = l.trades
        /\ b.skipped = l.skipped
    BY <1>0, ReplaceKeeps
  <2> QED
    BY <2>1, <2>2
<1>3. PICK n \in Nat : /\ Len(l.pending) = n /\ DOMAIN l.pending = 1 .. n
                       /\ \A m \in 1 .. n : l.pending[m] \in Waiting(i)
                       /\ ToSet(l.pending) = {l.pending[m] : m \in 1 .. n}
  BY <1>2, ItemsHeld
<1> HIDE DEF b
<1>4. Total(l) = Total(b) + n
  <2>1. PICK x, y, z, w \in Nat :
          Len(l.open) = x /\ Len(l.pending) = y /\ Len(l.trades) = z /\ Len(l.skipped) = w
    BY ListsHaveLengths
  <2>2. Total(l) = x + y + z + w
    BY <2>1, TotalIs
  <2>3. PICK e \in Nat : e = 0 /\ Len(b.pending) = e
    BY <1>1, <1>2
  <2>4. Total(b) = x + e + z + w
    <3>1. Len(b.open) = x /\ Len(b.pending) = e /\ Len(b.trades) = z /\ Len(b.skipped) = w
      BY <1>2, <2>1, <2>3
    <3> QED
      BY <3>1, TotalIs
  <2> QED
    BY <1>3, <2>1, <2>2, <2>3, <2>4
<1>5. Names(l) = Names(b) \cup OrderIds(l.pending, n)
  <2>1. ToSet(b.pending) = {}
    BY <1>1, <1>2
  <2>2. {o.id : o \in ToSet(l.pending)} = OrderIds(l.pending, n)
    BY <1>3 DEF OrderIds
  <2>3. Names(l) = Names(b) \cup {o.id : o \in ToSet(l.pending)}
    BY <1>2, <2>1 DEF Names
  <2> QED
    BY <2>2, <2>3
<1> QED
  BY <1>2, <1>3, <1>4, <1>5 DEF b, none

-------------------------------------------------------------------------------
(* One candle *)

\* Managing the open positions moves each of them to the list it belongs in.
LEMMA ManagementKeeps ==
  ASSUME NEW i, Lists \in ListsBy(i), NEW k \in Minutes, NEW j
  PROVE  /\ AfterManagement(k, j) \in ListsBy(i)
         /\ Total(AfterManagement(k, j)) = Total(Lists) /\ Names(AfterManagement(k, j)) = Names(Lists)
<1> DEFINE A == ListsBy(i)
           base == WithOpen(Lists, <<>>)
<1>1. Lists.open = open
  BY DEF Lists
<1>2. base \in A
  BY OpenEmptied
<1>3. PICK n \in Nat :
        /\ DOMAIN open = 1 .. n /\ \A m \in 1 .. n : open[m] \in GoodPositions(i)
        /\ Total(Lists) = Total(base) + n
        /\ Names(Lists) = Names(base) \cup IdsOf(open, n)
  BY <1>1, OpenEmptied
<1>5. ASSUME NEW l \in A, NEW m \in 1 .. n
      PROVE  /\ Managed(l, open[m], k, j) \in A
             /\ Adds(l, Managed(l, open[m], k, j), open[m].signal.id)
  BY <1>3, ManagedAdds
<1>6. \A l \in A : Total(l) \in Nat
  BY TotalIsNat
<1> HIDE DEF A, base
<1>7. PICK c : /\ c[0] = base /\ AfterManagement(k, j) = c[n] /\ \A m \in 0 .. n : c[m] \in A
               /\ \A m \in 1 .. n : c[m] = Managed(c[m - 1], open[m], k, j)
  <2>1. \A l \in A, m \in 1 .. n : Managed(l, open[m], k, j) \in A
    BY <1>5
  <2>2. DOMAIN open = 1 .. n
    BY <1>3
  <2>3. ManagedInOrder(A, k, j, n)
    BY <1>2, <2>1, <2>2, ManagedOneByOne DEF base
  <2> QED
    BY <2>3 DEF ManagedInOrder, base
<1> DEFINE name == [m \in 1 .. n |-> open[m].signal.id]
<1>8. ASSUME NEW m \in 1 .. n PROVE Adds(c[m - 1], c[m], name[m])
  <2>1. m - 1 \in 0 .. n
    OBVIOUS
  <2>2. c[m - 1] \in A /\ c[m] = Managed(c[m - 1], open[m], k, j)
    BY <1>7, <2>1
  <2> QED
    BY <1>5, <2>2
<1>9. Named(name, n) = IdsOf(open, n)
  BY DEF Named, IdsOf
<1> HIDE DEF name
<1>10. Total(c[n]) = Total(c[0]) + n /\ Names(c[n]) = Names(c[0]) \cup Named(name, n)
  <2>1. AddsEach(A, c, n, name)
    BY <1>6, <1>7, <1>8 DEF AddsEach
  <2> QED
    BY <2>1, LoopAdds
<1>11. n \in 0 .. n
  OBVIOUS
<1> QED
  BY <1>3, <1>7, <1>9, <1>10, <1>11 DEF A

\* So does trying the pending orders.
LEMMA FillsKeep ==
  ASSUME NEW i \in 1 .. Len(Opens), NEW lists0 \in ListsBy(i - 1), NEW k
  PROVE  /\ AfterFills(lists0, k, i) \in ListsBy(i - 1)
         /\ Total(AfterFills(lists0, k, i)) = Total(lists0) /\ Names(AfterFills(lists0, k, i)) = Names(lists0)
<1> DEFINE A == ListsBy(i - 1)
           base == WithPending(lists0, <<>>)
           pend == lists0.pending
<1>2. base \in A
  BY PendingEmptied
<1>3. PICK n \in Nat :
        /\ DOMAIN pend = 1 .. n /\ \A m \in 1 .. n : pend[m] \in Waiting(i - 1)
        /\ Total(lists0) = Total(base) + n
        /\ Names(lists0) = Names(base) \cup OrderIds(pend, n)
  BY PendingEmptied
<1>5. ASSUME NEW l \in A, NEW m \in 1 .. n
      PROVE  Tried(l, pend[m], k, i) \in A /\ Adds(l, Tried(l, pend[m], k, i), pend[m].id)
  BY <1>3, TriedAdds
<1>6. \A l \in A : Total(l) \in Nat
  BY TotalIsNat
<1> HIDE DEF A, base
<1>7. PICK c : /\ c[0] = base /\ AfterFills(lists0, k, i) = c[n] /\ \A m \in 0 .. n : c[m] \in A
               /\ \A m \in 1 .. n : c[m] = Tried(c[m - 1], pend[m], k, i)
  <2>1. \A l \in A, m \in 1 .. n : Tried(l, pend[m], k, i) \in A
    BY <1>5
  <2>2. DOMAIN pend = 1 .. n
    BY <1>3
  <2> QED
    BY <1>2, <2>1, <2>2, TriedOneByOne DEF base, TriedInOrder
<1> HIDE DEF pend
<1> DEFINE name == [m \in 1 .. n |-> pend[m].id]
<1>8. ASSUME NEW m \in 1 .. n PROVE Adds(c[m - 1], c[m], name[m])
  <2>1. m - 1 \in 0 .. n
    OBVIOUS
  <2>2. c[m - 1] \in A /\ c[m] = Tried(c[m - 1], pend[m], k, i)
    BY <1>7, <2>1
  <2> QED
    BY <1>5, <2>2
<1>9. Named(name, n) = OrderIds(pend, n)
  BY DEF Named, OrderIds
<1> HIDE DEF name
<1>10. Total(c[n]) = Total(c[0]) + n /\ Names(c[n]) = Names(c[0]) \cup Named(name, n)
  <2>1. AddsEach(A, c, n, name)
    BY <1>6, <1>7, <1>8 DEF AddsEach
  <2> QED
    BY <2>1, LoopAdds
<1>11. n \in 0 .. n
  OBVIOUS
<1> QED
  BY <1>3, <1>7, <1>9, <1>10, <1>11 DEF A

\* The loop over the signals gets to those that are known, and to no other.
LEMMA WhatIsReached ==
  ASSUME NEW i \in 1 .. Len(Opens), signals \in Seq(Prepared), admitted \in 0 .. Len(signals)
  PROVE  /\ Reached(i) \in admitted .. Len(signals)
         /\ \A n \in admitted + 1 .. Reached(i) : signals[n] \in OrdersBy(i)
<1> DEFINE later == {n \in admitted + 1 .. Len(signals) : signals[n].at > CloseTime(i)}
<1>1. Len(signals) \in Nat /\ \A n \in 1 .. Len(signals) : signals[n] \in Prepared /\ signals[n].at \in Int
  <2>1. Len(signals) \in Nat /\ \A n \in 1 .. Len(signals) : signals[n] \in Prepared
    OBVIOUS
  <2> QED
    BY <2>1, BacktestAssumption
<1>2. CloseTime(i) \in Int /\ i \in 1 .. i
  BY OpensAreTimes DEF CloseTime
<1>3. ASSUME NEW r \in admitted .. Len(signals), \A n \in admitted + 1 .. r : n \notin later
      PROVE  \A n \in admitted + 1 .. r : signals[n] \in OrdersBy(i)
  <2> SUFFICES ASSUME NEW n \in admitted + 1 .. r PROVE signals[n] \in OrdersBy(i)
    OBVIOUS
  <2>1. n \in 1 .. Len(signals) /\ n \in admitted + 1 .. Len(signals)
    BY <1>1
  <2>2. ~(signals[n].at > CloseTime(i))
    BY <1>3, <2>1
  <2> QED
    BY <1>1, <1>2, <2>1, <2>2 DEF OrdersBy
<1>4. CASE later = {}
  <2>1. Reached(i) = Len(signals)
    BY <1>4 DEF Reached
  <2>2. Len(signals) \in admitted .. Len(signals)
    BY <1>1
  <2> QED
    BY <1>3, <1>4, <2>1, <2>2
<1>5. CASE later # {}
  <2>1. later \in SUBSET Nat
    BY <1>1
  <2>2. Min(later) \in later /\ \A y \in later : Min(later) <= y
    <3> HIDE DEF later
    <3> QED
      BY <1>5, <2>1, SmallestIsIn
  <2>3. PICK x \in later : x = Min(later) /\ \A y \in later : x <= y
    <3> HIDE DEF later
    <3> QED
      BY <2>2
  <2>4. Reached(i) = x - 1
    BY <1>5, <2>3 DEF Reached
  <2>5. x \in admitted + 1 .. Len(signals)
    OBVIOUS
  <2> HIDE DEF later
  <2>6. x - 1 \in admitted .. Len(signals)
    BY <1>1, <2>5
  <2>7. ASSUME NEW n \in admitted + 1 .. x - 1 PROVE n \notin later
    <3>1. ~(x <= n)
      BY <1>1, <2>5
    <3> QED
      BY <2>3, <3>1
  <2> QED
    BY <1>3, <2>4, <2>6, <2>7
<1> QED
  BY <1>4, <1>5

LEMMA SignalsAdmitted ==
  ASSUME NEW i \in 1 .. Len(Opens), NEW lists0 \in ListsBy(i), NEW next,
         next = <<>> \/ (i + 1 \in 1 .. Len(Opens) /\ next[1] \in Minutes),
         signals \in Seq(Prepared), admitted \in 0 .. Len(signals),
         Total(lists0) = admitted, Names(lists0) = {signals[n].id : n \in 1 .. admitted}
  PROVE  /\ AfterSignals(lists0, i, next) \in ListsBy(i)
         /\ Total(AfterSignals(lists0, i, next)) = Reached(i)
         /\ Names(AfterSignals(lists0, i, next)) = {signals[n].id : n \in 1 .. Reached(i)}
<1> DEFINE A == ListsBy(i)
           known == SubSeq(signals, admitted + 1, Reached(i))
<1>1. PICK r \in admitted .. Len(signals) :
        r = Reached(i) /\ \A n \in admitted + 1 .. r : signals[n] \in OrdersBy(i)
  BY WhatIsReached
<1>2. Len(signals) \in Nat /\ admitted \in Nat /\ r \in Nat
  <2>1. Len(signals) \in Nat
    OBVIOUS
  <2> QED
    BY <1>1, <2>1
<1>3. PICK n \in Nat : n = r - admitted
  BY <1>1, <1>2
<1>4. DOMAIN known = 1 .. n /\ \A m \in 1 .. n : known[m] = signals[admitted + m]
  <2>1. known = SubSeq(signals, admitted + 1, r)
    BY <1>1
  <2>2. r - (admitted + 1) + 1 = n /\ \A m \in 1 .. n : (admitted + 1) + m - 1 = admitted + m
    BY <1>2, <1>3
  <2>3. /\ DOMAIN SubSeq(signals, admitted + 1, r) = 1 .. r - (admitted + 1) + 1
        /\ \A m \in 1 .. r - (admitted + 1) + 1 :
             SubSeq(signals, admitted + 1, r)[m] = signals[(admitted + 1) + m - 1]
    BY <1>1, <1>2
  <2> QED
    BY <2>1, <2>2, <2>3
<1> HIDE DEF known
<1>5. \A m \in 1 .. n : known[m] \in OrdersBy(i)
  <2> SUFFICES ASSUME NEW m \in 1 .. n PROVE known[m] \in OrdersBy(i)
    OBVIOUS
  <2>1. admitted + m \in admitted + 1 .. r
    BY <1>2, <1>3
  <2> QED
    BY <1>1, <1>4, <2>1
<1>6. ASSUME NEW l \in A, NEW m \in 1 .. n
      PROVE  Admitted(l, known[m], i, next) \in A /\ Adds(l, Admitted(l, known[m], i, next), known[m].id)
  BY <1>5, AdmittedAdds
<1>7. \A l \in A : Total(l) \in Nat
  BY TotalIsNat
<1> HIDE DEF A
<1>8. PICK c : /\ c[0] = lists0 /\ AfterSignals(lists0, i, next) = c[n] /\ \A m \in 0 .. n : c[m] \in A
               /\ \A m \in 1 .. n : c[m] = Admitted(c[m - 1], known[m], i, next)
  <2>1. \A l \in A, m \in 1 .. n : Admitted(l, known[m], i, next) \in A
    BY <1>6
  <2>2. lists0 \in A
    BY DEF A
  <2>3. AdmittedInOrder(A, i, next, lists0, known, n)
    <3>1. known = SubSeq(signals, admitted + 1, Reached(i))
      BY DEF known
    <3>2. DOMAIN known = 1 .. n
      BY <1>4
    <3> QED
      BY <2>1, <2>2, <3>1, <3>2, AdmittedOneByOne
  <2> QED
    BY <2>3 DEF AdmittedInOrder
<1> DEFINE name == [m \in 1 .. n |-> known[m].id]
<1>9. ASSUME NEW m \in 1 .. n PROVE Adds(c[m - 1], c[m], name[m])
  <2>1. m - 1 \in 0 .. n
    OBVIOUS
  <2>2. c[m - 1] \in A /\ c[m] = Admitted(c[m - 1], known[m], i, next)
    BY <1>8, <2>1
  <2> QED
    BY <1>6, <2>2
<1>10. {signals[x].id : x \in 1 .. r} = {signals[x].id : x \in 1 .. admitted} \cup Named(name, n)
  <2>1. \A x : x \in 1 .. r <=> x \in 1 .. admitted \/ \E m \in 1 .. n : x = admitted + m
    <3> SUFFICES ASSUME NEW x PROVE x \in 1 .. r <=> x \in 1 .. admitted \/ \E m \in 1 .. n : x = admitted + m
      OBVIOUS
    <3>1. ASSUME x \in 1 .. r, x \notin 1 .. admitted PROVE x - admitted \in 1 .. n /\ x = admitted + (x - admitted)
      BY <1>2, <1>3, <3>1
    <3>2. ASSUME NEW m \in 1 .. n PROVE admitted + m \in 1 .. r
      BY <1>2, <1>3
    <3>3. x \in 1 .. admitted => x \in 1 .. r
      BY <1>1, <1>2
    <3> QED
      BY <3>1, <3>2, <3>3
  <2>2. \A m \in 1 .. n : name[m] = signals[admitted + m].id
    BY <1>4
  <2> HIDE DEF name
  <2>3. ASSUME NEW x \in 1 .. r
        PROVE  signals[x].id \in {signals[y].id : y \in 1 .. admitted} \cup {name[m] : m \in 1 .. n}
    <3>1. CASE x \in 1 .. admitted
      BY <3>1
    <3>2. CASE \E m \in 1 .. n : x = admitted + m
      BY <2>2, <3>2
    <3> QED
      BY <2>1, <3>1, <3>2
  <2>4. \A x \in 1 .. admitted : x \in 1 .. r
    BY <2>1
  <2>5. ASSUME NEW m \in 1 .. n PROVE name[m] \in {signals[x].id : x \in 1 .. r}
    BY <2>1, <2>2
  <2> QED
    BY <2>3, <2>4, <2>5 DEF Named
<1> HIDE DEF name
<1>11. Total(c[n]) = Total(c[0]) + n /\ Names(c[n]) = Names(c[0]) \cup Named(name, n)
  <2>1. AddsEach(A, c, n, name)
    BY <1>7, <1>8, <1>9 DEF AddsEach
  <2> QED
    BY <2>1, LoopAdds
<1>12. n \in 0 .. n
  OBVIOUS
<1>13. c[n] \in ListsBy(i)
  BY <1>8, <1>12 DEF A
<1>14. Total(c[n]) = r
  BY <1>2, <1>3, <1>8, <1>11
<1>15. Names(c[n]) = {signals[x].id : x \in 1 .. r}
  BY <1>8, <1>10, <1>11
<1> QED
  BY <1>1, <1>8, <1>13, <1>14, <1>15

\* One pass of the loop over the candles
LEMMA CandleKeeps ==
  ASSUME BacktestInv, candle # <<>>, NEW next,
         next = <<>> \/ (Len(tape) + 1 < MaxCandles /\ \E k \in CandleChoices : next = <<k>>),
         Replay(next)
  PROVE  BacktestInv'
<1> DEFINE k == candle[1]
           i == Len(tape) + 1
           managed == AfterManagement(k, i)
           filled == AfterFills(managed, k, i)
           lists == AfterSignals(filled, i, next)
<1>1. k \in Minutes /\ candle = <<k>>
  <2>1. PICK x \in CandleChoices : candle = <<x>>
    BY DEF BacktestInv
  <2> QED
    BY <2>1, BacktestAssumption
<1>2. /\ Len(tape) \in Nat /\ i \in Nat /\ i - 1 = Len(tape) /\ i <= MaxCandles /\ i \in 1 .. Len(Opens)
      /\ MaxCandles \in Nat /\ MaxCandles <= Len(Opens) /\ Len(Opens) \in Nat
  <2>1. Len(tape) \in Nat /\ Len(tape) < MaxCandles
    BY DEF BacktestInv
  <2> QED
    BY <2>1, BacktestAssumption, OpensAreTimes
<1>3. signals \in Seq(Prepared) /\ admitted \in 0 .. Len(signals) /\ tape \in Seq(Minutes)
  BY BacktestAssumption DEF BacktestInv
<1>4. /\ tape' = Append(tape, k) /\ candle' = next /\ admitted' = Reached(i) /\ open' = lists.open
      /\ pending' = lists.pending /\ trades' = lists.trades /\ skipped' = lists.skipped /\ signals' = signals
  BY DEF Replay
<1>5. Lists \in ListsBy(i - 1) /\ Total(Lists) = admitted /\ Names(Lists) = {signals[n].id : n \in 1 .. admitted}
  BY <1>2 DEF BacktestInv, NothingDisappears
<1> HIDE DEF i, k
<1>6. managed \in ListsBy(i - 1) /\ Total(managed) = Total(Lists) /\ Names(managed) = Names(Lists)
  BY <1>1, <1>5, ManagementKeeps
<1> HIDE DEF managed
<1>7. filled \in ListsBy(i - 1) /\ Total(filled) = Total(managed) /\ Names(filled) = Names(managed)
  BY <1>2, <1>6, FillsKeep
<1> HIDE DEF filled
<1>8. filled \in ListsBy(i)
  <2>1. i - 1 \in Nat /\ (i - 1) + 1 = i
    BY <1>2
  <2> QED
    BY <1>7, <2>1, ListsGrow
<1>9. next = <<>> \/ (i + 1 \in 1 .. Len(Opens) /\ next[1] \in Minutes)
  BY <1>2, BacktestAssumption DEF i
<1>10. /\ lists \in ListsBy(i) /\ Total(lists) = Reached(i)
       /\ Names(lists) = {signals[n].id : n \in 1 .. Reached(i)}
  BY <1>2, <1>3, <1>5, <1>6, <1>7, <1>8, <1>9, SignalsAdmitted
<1>11. Reached(i) \in 0 .. Len(signals)
  <2>1. Reached(i) \in admitted .. Len(signals)
    BY <1>2, <1>3, WhatIsReached
  <2> QED
    BY <1>3, <2>1
<1> HIDE DEF lists
<1>12. Lists' = lists
  BY <1>4, <1>10 DEF Lists, ListsBy
<1>13. tape' \in Seq(Minutes) /\ Len(tape') = i
  BY <1>1, <1>3, <1>4, OneMore DEF i
<1>14. /\ candle' \in {<<>>} \cup {<<x>> : x \in CandleChoices} /\ Len(tape') <= MaxCandles
       /\ (candle' # <<>> => Len(tape') < MaxCandles)
  BY <1>2, <1>4, <1>13 DEF i
<1>15. NothingDisappears'
  BY <1>4, <1>10, <1>12 DEF NothingDisappears
<1>16. signals' \in Signals /\ admitted' \in 0 .. Len(signals')
  BY <1>4, <1>11 DEF BacktestInv
<1>17. Lists' \in ListsBy(Len(tape'))
  BY <1>10, <1>12, <1>13
<1> QED
  BY <1>13, <1>14, <1>15, <1>16, <1>17 DEF BacktestInv

\* Two lists, one after the other
LEMMA WhatBothHold ==
  ASSUME NEW S, NEW p \in Seq(S), NEW q \in Seq(S)
  PROVE  /\ p \o q \in Seq(S) /\ Len(p \o q) = Len(p) + Len(q)
         /\ ToSet(p \o q) = ToSet(p) \cup ToSet(q)
<1>1. /\ Len(p) \in Nat /\ Len(q) \in Nat /\ DOMAIN p = 1 .. Len(p) /\ DOMAIN q = 1 .. Len(q)
      /\ DOMAIN (p \o q) = 1 .. Len(p) + Len(q)
      /\ p \o q \in Seq(S) /\ Len(p \o q) = Len(p) + Len(q)
  OBVIOUS
<1>2. \A n \in 1 .. Len(p) : (p \o q)[n] = p[n] /\ n \in 1 .. Len(p) + Len(q)
  BY <1>1
<1>3. \A n \in 1 .. Len(q) : (p \o q)[Len(p) + n] = q[n] /\ Len(p) + n \in 1 .. Len(p) + Len(q)
  BY <1>1
<1>4. ASSUME NEW n \in 1 .. Len(p) + Len(q)
      PROVE  (p \o q)[n] \in ToSet(p) \cup ToSet(q)
  <2>1. CASE n \in 1 .. Len(p)
    BY <1>1, <1>2, <2>1 DEF ToSet
  <2>2. CASE n \notin 1 .. Len(p)
    <3>1. n - Len(p) \in 1 .. Len(q) /\ Len(p) + (n - Len(p)) = n
      BY <1>1, <2>2
    <3>2. (p \o q)[n] = q[n - Len(p)]
      BY <1>3, <3>1
    <3> QED
      BY <1>1, <3>1, <3>2 DEF ToSet
  <2> QED
    BY <2>1, <2>2
<1>5. ToSet(p \o q) \subseteq ToSet(p) \cup ToSet(q)
  BY <1>1, <1>4 DEF ToSet
<1>6. ToSet(p) \subseteq ToSet(p \o q)
  BY <1>1, <1>2 DEF ToSet
<1>7. ToSet(q) \subseteq ToSet(p \o q)
  BY <1>1, <1>3 DEF ToSet
<1> QED
  BY <1>1, <1>5, <1>6, <1>7

\* What is open at the end becomes trades.
LEMMA EndKeeps ==
  ASSUME BacktestInv, EndOfTest
  PROVE  BacktestInv'
<1> DEFINE i == Len(tape)
           End(pos) ==
             Closed(pos, "end_of_test", pos.realized + pos.left * Gain(pos, Cl(pos.signal.dir, Last(tape))))
           ends == [n \in DOMAIN open |-> End(open[n])]
<1>1. /\ trades' = trades \o ends /\ open' = <<>> /\ candle = <<>>
      /\ signals' = signals /\ tape' = tape /\ candle' = candle /\ admitted' = admitted
      /\ pending' = pending /\ skipped' = skipped
  BY DEF EndOfTest
<1>2. Lists \in ListsBy(i) /\ tape \in Seq(Minutes) /\ Len(tape) \in Nat
  BY DEF BacktestInv
<1>3. /\ Lists.open = open /\ Lists.trades = trades /\ Lists.pending = pending /\ Lists.skipped = skipped
      /\ Lists'.open = open' /\ Lists'.trades = trades' /\ Lists'.pending = pending' /\ Lists'.skipped = skipped'
  BY DEF Lists
<1> HIDE DEF i
<1>4. open \in Seq(GoodPositions(i)) /\ trades \in Seq(GoodTrades(i)) /\ pending \in Seq(Waiting(i)) /\ skipped \in Seq(Skips(i))
  BY <1>2, <1>3, ReplaceKeeps
<1>5. ASSUME NEW pos \in GoodPositions(i) PROVE End(pos) \in GoodTrades(i) /\ End(pos).signal = pos.signal
  <2>1. pos \in PositionsOf(OrdersBy(i)) /\ Forward(pos)
    BY DEF GoodPositions
  <2>2. /\ pos.signal \in OrdersBy(i) /\ pos.entry \in Int /\ pos.at \in Int /\ pos.left \in Int
        /\ pos.realized \in Int /\ pos.filled \in SUBSET Nat
    BY <2>1 DEF PositionsOf
  <2>3. pos.signal.dir \in Directions /\ pos.signal.stop \in Int
    BY <2>2, BacktestAssumption DEF OrdersBy
  <2>4. Last(tape) \in Minutes
    <3>1. Len(tape) >= 1
      BY <1>2, <2>2 DEF OrdersBy, i
    <3> QED
      BY <1>2, <3>1 DEF Last
  <2> DEFINE close == Cl(pos.signal.dir, Last(tape))
             gain == Gain(pos, close)
             sum == pos.realized + pos.left * gain
  <2>5. close \in Int
    <3>1. Last(tape).c \in Int
      BY <2>4 DEF Minutes
    <3> QED
      BY <2>3, <3>1 DEF Cl, Directions
  <2> HIDE DEF close
  <2>6. gain \in Int
    BY <2>2, <2>5 DEF Gain
  <2> HIDE DEF gain
  <2>7. sum \in Int
    BY <2>2, <2>6
  <2> HIDE DEF sum
  <2>8. Risk(pos) \in Int
    BY <2>2, <2>3 DEF Risk
  <2>9. End(pos) = Closed(pos, "end_of_test", sum)
    BY DEF sum, gain, close
  <2>10. /\ End(pos) \in TradesOf(OrdersBy(i)) /\ End(pos).reason = "end_of_test"
         /\ End(pos).signal = pos.signal /\ End(pos).entry = pos.entry /\ End(pos).at = pos.at
    BY <2>2, <2>7, <2>8, <2>9 DEF Closed, TradesOf, Reasons
  <2>11. WithinPlan(End(pos))
    BY <2>10 DEF WithinPlan, StopReasons
  <2> QED
    BY <2>1, <2>10, <2>11 DEF GoodTrades, Forward, Began
<1> HIDE DEF End
<1>6. PICK n \in Nat : /\ Len(open) = n /\ DOMAIN open = 1 .. n
                       /\ \A m \in 1 .. n : open[m] \in GoodPositions(i)
                       /\ ToSet(open) = {open[m] : m \in 1 .. n}
  BY <1>4, ItemsHeld
<1>7. ends \in Seq(GoodTrades(i)) /\ Len(ends) = n /\ ToSet(ends) = {End(open[m]) : m \in 1 .. n}
  <2>1. ends = [m \in 1 .. n |-> End(open[m])]
    BY <1>6
  <2>2. \A m \in 1 .. n : End(open[m]) \in GoodTrades(i)
    BY <1>5, <1>6
  <2> QED
    BY <2>1, <2>2 DEF ToSet
<1> HIDE DEF ends
<1>8. trades' \in Seq(GoodTrades(i)) /\ Len(trades') = Len(trades) + n /\ ToSet(trades') = ToSet(trades) \cup ToSet(ends)
  <2>1. trades \in Seq(GoodTrades(i)) /\ ends \in Seq(GoodTrades(i)) /\ trades' = trades \o ends /\ Len(ends) = n
    BY <1>1, <1>4, <1>7
  <2>2. /\ trades \o ends \in Seq(GoodTrades(i)) /\ Len(trades \o ends) = Len(trades) + Len(ends)
        /\ ToSet(trades \o ends) = ToSet(trades) \cup ToSet(ends)
    BY <2>1, WhatBothHold
  <2> QED
    BY <2>1, <2>2
<1>9. open' \in Seq(GoodPositions(i)) /\ Len(open') = 0 /\ ToSet(open') = {}
  <2>1. <<>> \in Seq(GoodPositions(i)) /\ Len(<<>>) = 0
    OBVIOUS
  <2> QED
    BY <1>1, <2>1, WhatNoneHolds
<1>10. Lists' \in ListsBy(i)
  <2>1. pending' \in Seq(Waiting(i)) /\ skipped' \in Seq(Skips(i))
    BY <1>1, <1>4
  <2> QED
    BY <1>8, <1>9, <2>1 DEF Lists, ListsBy
<1>11. Total(Lists') = Total(Lists)
  <2>1. PICK x, y, z, w \in Nat :
          Len(Lists.open) = x /\ Len(Lists.pending) = y /\ Len(Lists.trades) = z /\ Len(Lists.skipped) = w
    BY <1>2, ListsHaveLengths
  <2>2. Total(Lists) = x + y + z + w
    BY <2>1, TotalIs
  <2>3. PICK e \in Nat, f \in Nat : e = 0 /\ f = z + n
    OBVIOUS
  <2>4. Len(Lists'.open) = e /\ Len(Lists'.pending) = y /\ Len(Lists'.trades) = f /\ Len(Lists'.skipped) = w
    BY <1>1, <1>3, <1>8, <1>9, <2>1, <2>3
  <2>5. Total(Lists') = e + y + f + w
    BY <2>4, TotalIs
  <2>6. x = n
    BY <1>3, <1>6, <2>1
  <2> QED
    BY <2>2, <2>3, <2>5, <2>6
<1>12. Names(Lists') = Names(Lists)
  <2>1. {t.signal.id : t \in ToSet(ends)} = {p.signal.id : p \in ToSet(open)}
    <3>1. \A m \in 1 .. n : End(open[m]).signal = open[m].signal
      BY <1>5, <1>6
    <3> QED
      BY <1>6, <1>7, <3>1
  <2>2. /\ ToSet(Lists'.open) = {} /\ ToSet(Lists'.pending) = ToSet(Lists.pending)
        /\ ToSet(Lists'.trades) = ToSet(Lists.trades) \cup ToSet(ends)
        /\ ToSet(Lists'.skipped) = ToSet(Lists.skipped) /\ Lists.open = open
    BY <1>1, <1>3, <1>8, <1>9
  <2>3. Names(Lists') = {o.id : o \in ToSet(Lists.pending)}
                          \cup {p.signal.id : p \in ToSet(Lists.trades) \cup ToSet(Lists.skipped)}
                          \cup {t.signal.id : t \in ToSet(ends)}
    BY <2>2 DEF Names
  <2>4. Names(Lists) = {o.id : o \in ToSet(Lists.pending)}
                         \cup {p.signal.id : p \in ToSet(Lists.trades) \cup ToSet(Lists.skipped)}
                         \cup {p.signal.id : p \in ToSet(open)}
    BY <2>2 DEF Names
  <2> QED
    BY <2>1, <2>3, <2>4
<1>13. NothingDisappears'
  BY <1>1, <1>11, <1>12 DEF BacktestInv, NothingDisappears
<1>14. Lists' \in ListsBy(Len(tape'))
  BY <1>1, <1>10 DEF i
<1> QED
  BY <1>1, <1>13, <1>14 DEF BacktestInv

LEMMA StepKeeps == BacktestInv /\ [Next]_vars => BacktestInv'
<1> SUFFICES ASSUME BacktestInv, [Next]_vars PROVE BacktestInv'
  OBVIOUS
<1>1. ASSUME candle # <<>>, Len(tape) + 1 < MaxCandles, NEW k \in CandleChoices, Replay(<<k>>)
      PROVE  BacktestInv'
  BY <1>1, CandleKeeps
<1>2. ASSUME candle # <<>>, Replay(<<>>)
      PROVE  BacktestInv'
  <2> DEFINE none == <<>>
  <2>1. Replay(none) /\ none = <<>>
    BY <1>2
  <2> HIDE DEF none
  <2> QED
    BY <1>2, <2>1, CandleKeeps
<1>3. CASE EndOfTest
  BY <1>3, EndKeeps
<1>4. CASE UNCHANGED vars
  <2>1. Lists' = Lists
    BY <1>4 DEF vars, Lists
  <2> QED
    BY <1>4, <2>1 DEF vars, BacktestInv, NothingDisappears
<1> QED
  BY <1>1, <1>2, <1>3, <1>4 DEF Next

LEMMA BacktestHolds == Spec => []BacktestInv
<1>1. Init => BacktestInv
  <2> SUFFICES ASSUME Init PROVE BacktestInv
    OBVIOUS
  <2>1. /\ Lists.open = <<>> /\ Lists.pending = <<>> /\ Lists.trades = <<>> /\ Lists.skipped = <<>>
        /\ tape = <<>> /\ admitted = 0
    BY DEF Init, Lists
  <2>2. Len(tape) = 0 /\ tape \in Seq(Minutes)
    BY <2>1
  <2>3. Lists \in ListsBy(0)
    BY DEF Init, Lists, ListsBy
  <2>4. Total(Lists) = 0
    <3>1. PICK e \in Nat : e = 0 /\ Len(<<>>) = e
      OBVIOUS
    <3>2. Total(Lists) = e + e + e + e
      <4>1. Len(Lists.open) = e /\ Len(Lists.pending) = e /\ Len(Lists.trades) = e /\ Len(Lists.skipped) = e
        BY <2>1, <3>1
      <4> QED
        BY <4>1, TotalIs
    <3> QED
      BY <3>1, <3>2
  <2>5. Names(Lists) = {}
    BY <2>1, WhatNoneHolds DEF Names
  <2>6. NothingDisappears
    <3>1. {signals[n].id : n \in 1 .. 0} = {}
      OBVIOUS
    <3> QED
      BY <2>1, <2>4, <2>5, <3>1 DEF NothingDisappears
  <2>7. candle \in {<<>>} \cup {<<k>> : k \in CandleChoices} /\ (CandleChoices # {})
    BY DEF Init
  <2>8. 0 <= MaxCandles /\ (candle # <<>> => 0 < MaxCandles) /\ admitted \in 0 .. Len(signals) /\ signals \in Signals
    <3>1. signals \in Seq(Prepared) /\ signals \in Signals
      BY BacktestAssumption DEF Init
    <3>2. Len(signals) \in Nat
      BY <3>1
    <3> QED
      BY <2>1, <3>1, <3>2, BacktestAssumption DEF Init
  <2> QED
    BY <2>2, <2>3, <2>6, <2>7, <2>8 DEF BacktestInv
<1> QED
  BY <1>1, StepKeeps, PTL DEF Spec

\* What was admitted is open, pending, traded or skipped, once, whatever the candles and the
\* signals are: no loop of run_backtest drops or doubles a signal.
THEOREM NothingIsDropped == Spec => []NothingDisappears
<1>1. BacktestInv => NothingDisappears
  BY DEF BacktestInv
<1> QED
  BY <1>1, BacktestHolds, PTL

LEMMA WhatIsHeld ==
  ASSUME BacktestInv
  PROVE  /\ \A p \in ToSet(open) : p \in GoodPositions(Len(tape))
         /\ \A t \in ToSet(trades) : t \in GoodTrades(Len(tape))
<1>1. Lists \in ListsBy(Len(tape)) /\ Lists.open = open /\ Lists.trades = trades
  BY DEF BacktestInv, Lists
<1>2. open \in Seq(GoodPositions(Len(tape))) /\ trades \in Seq(GoodTrades(Len(tape)))
  BY <1>1, ReplaceKeeps
<1>3. /\ \A n \in DOMAIN open : open[n] \in GoodPositions(Len(tape))
      /\ \A n \in DOMAIN trades : trades[n] \in GoodTrades(Len(tape))
  BY <1>2, ItemsOf
<1> QED
  BY <1>3 DEF ToSet

\* No fill goes back in time, by whole candles: the loop over the candles tries an order on
\* candles that began after the signal was known only, and simulate_order_fill on those that
\* close after the order is active only.  Within the candle in which it becomes active nothing
\* is claimed.
THEOREM FillsComeLater == Spec => []FillsAreForward
<1>1. BacktestInv => FillsAreForward
  <2> SUFFICES ASSUME BacktestInv, NEW p \in ToSet(open) \cup ToSet(trades) PROVE Forward(p)
    BY DEF FillsAreForward
  <2>1. p \in GoodPositions(Len(tape)) \/ p \in GoodTrades(Len(tape))
    BY WhatIsHeld
  <2> QED
    BY <2>1 DEF GoodPositions, GoodTrades
<1> QED
  BY <1>1, BacktestHolds, PTL

\* However many targets one candle takes, and whatever gaps it opens with, a trade that ended
\* at its stop or its last target kept to its plan (simulate_trade_management).
THEOREM ResultsStayInPlan == Spec => []ResultWithinPlan
<1>1. BacktestInv => ResultWithinPlan
  <2> SUFFICES ASSUME BacktestInv, NEW t \in ToSet(trades) PROVE WithinPlan(t)
    BY DEF ResultWithinPlan
  <2>1. t \in GoodTrades(Len(tape))
    BY WhatIsHeld
  <2> QED
    BY <2>1 DEF GoodTrades
<1> QED
  BY <1>1, BacktestHolds, PTL

-------------------------------------------------------------------------------
(***************************************************************************)
(* The metrics.  Each is a loop that remembers two or three numbers; what  *)
(* it remembers after m results is tied to all stretches of them           *)
(* (FallsKnown, RunsKnown).                                                *)
(***************************************************************************)
\* The equity after n results is a sum, added up one after the other.
SumOf(values, n, c) ==
  c[0] = 0 /\ (\A m \in 0 .. n : c[m] \in Int) /\ \A m \in 1 .. n : c[m] = c[m - 1] + values[m]

LEMMA EquityOneByOne ==
  ASSUME NEW values \in Seq(Int), NEW n \in Nat, n = Len(values)
  PROVE  \E c : SumOf(values, n, c) /\ Equity(values) = c[n]
<1> DEFINE A == Int
<1> DEFINE base == 0
           Step(at, m) == at + values[m]
           F == [x \in (1 .. n) \X A |-> Step(x[2], x[1])]
           Folds(g) == g = [s \in SUBSET (1 .. n) |->
                              IF s = {} THEN base ELSE Step(g[s \ {Max(s)}], Max(s))]
           iter == CHOOSE g : Folds(g)
<1>0. DOMAIN values = 1 .. n /\ \A m \in 1 .. n : values[m] \in Int
  OBVIOUS
<1>1. Equity(values) = iter[1 .. n]
  BY <1>0 DEF Equity, FoldLeft, MapThenFoldSet
<1>2. base \in A /\ \A at \in A, m \in 1 .. n : Step(at, m) \in A
  BY <1>0
<1> HIDE DEF base, Step
<1>3. F \in [(1 .. n) \X A -> A]
  BY <1>2
<1>4. \A s \in SUBSET (1 .. n) : s # {} => Max(s) \in 1 .. n /\ s \ {Max(s)} \in SUBSET (1 .. n)
  BY LargestIsIn
<1>5. Folds(iter)
  <2>1. PICK g \in [SUBSET (1 .. n) -> A] : FoldsTo(g, n, base, F)
    <3> HIDE DEF F
    <3> QED
      BY <1>2, <1>3, FoldExists
  <2>2. \A s \in SUBSET (1 .. n) :
          g[s] = IF s = {} THEN base ELSE Step(g[s \ {Max(s)}], Max(s))
    BY <1>4, <2>1 DEF FoldsTo
  <2>3. Folds(g)
    BY <2>1, <2>2
  <2> HIDE DEF Folds
  <2> QED
    BY <2>3
<1>6. iter[{}] = base
  BY <1>5
<1>7. ASSUME NEW s \in SUBSET (1 .. n), s # {}, iter[s \ {Max(s)}] \in A
      PROVE  iter[s] = F[<<Max(s), iter[s \ {Max(s)}]>>]
  <2> HIDE DEF iter
  <2>1. iter[s] = Step(iter[s \ {Max(s)}], Max(s))
    BY <1>5, <1>7
  <2> QED
    BY <1>4, <1>7, <2>1
<1> HIDE DEF iter, F
<1>8. Walks(iter, n, A, F)
  BY <1>7 DEF Walks
<1>9. PICK c : c[n] = iter[1 .. n] /\ WalkFrom(base, n, A, F, c)
  <2>1. WalksTo(iter[1 .. n], base, n, A, F)
    BY <1>2, <1>3, <1>6, <1>8, FoldWalks
  <2> QED
    BY <2>1 DEF WalksTo
<1>10. ASSUME NEW m \in 1 .. n PROVE c[m] = Step(c[m - 1], m)
  <2>1. c[m - 1] \in A /\ <<m, c[m - 1]>> \in (1 .. n) \X A
    BY <1>9 DEF WalkFrom
  <2> QED
    BY <1>9, <2>1 DEF WalkFrom, F
<1> QED
  BY <1>1, <1>9, <1>10 DEF WalkFrom, SumOf, base, Step

\* The loop of the drawdown
Curves == [equity : Int, peak : Int, worst : Int]
OneOn(at, value) ==
  [equity |-> at.equity + value, peak |-> Larger(at.peak, at.equity + value),
   worst |-> Larger(at.worst, Larger(at.peak, at.equity + value) - (at.equity + value))]

CurveOf(values, n, c) ==
  /\ c[0] = [equity |-> 0, peak |-> 0, worst |-> 0]
  /\ \A m \in 0 .. n : c[m] \in Curves
  /\ \A m \in 1 .. n : c[m] = OneOn(c[m - 1], values[m])

LEMMA DrawdownOneByOne ==
  ASSUME NEW values \in Seq(Int), NEW n \in Nat, n = Len(values)
  PROVE  \E c : CurveOf(values, n, c) /\ MaxDrawdown(values) = c[n].worst
<1> DEFINE A == Curves
<1> DEFINE base == [equity |-> 0, peak |-> 0, worst |-> 0]
           Step(at, m) == OneOn(at, values[m])
           F == [x \in (1 .. n) \X A |-> Step(x[2], x[1])]
           Folds(g) == g = [s \in SUBSET (1 .. n) |->
                              IF s = {} THEN base ELSE Step(g[s \ {Max(s)}], Max(s))]
           iter == CHOOSE g : Folds(g)
<1>0. DOMAIN values = 1 .. n /\ \A m \in 1 .. n : values[m] \in Int
  OBVIOUS
<1>1. MaxDrawdown(values) = iter[1 .. n].worst
  BY <1>0 DEF MaxDrawdown, OneOn, FoldLeft, MapThenFoldSet
<1>2. base \in A /\ \A at \in A, m \in 1 .. n : Step(at, m) \in A
  BY <1>0 DEF Curves, OneOn, Larger
<1> HIDE DEF base, Step
<1>3. F \in [(1 .. n) \X A -> A]
  BY <1>2
<1>4. \A s \in SUBSET (1 .. n) : s # {} => Max(s) \in 1 .. n /\ s \ {Max(s)} \in SUBSET (1 .. n)
  BY LargestIsIn
<1>5. Folds(iter)
  <2>1. PICK g \in [SUBSET (1 .. n) -> A] : FoldsTo(g, n, base, F)
    <3> HIDE DEF F
    <3> QED
      BY <1>2, <1>3, FoldExists
  <2>2. \A s \in SUBSET (1 .. n) :
          g[s] = IF s = {} THEN base ELSE Step(g[s \ {Max(s)}], Max(s))
    BY <1>4, <2>1 DEF FoldsTo
  <2>3. Folds(g)
    BY <2>1, <2>2
  <2> HIDE DEF Folds
  <2> QED
    BY <2>3
<1>6. iter[{}] = base
  BY <1>5
<1>7. ASSUME NEW s \in SUBSET (1 .. n), s # {}, iter[s \ {Max(s)}] \in A
      PROVE  iter[s] = F[<<Max(s), iter[s \ {Max(s)}]>>]
  <2> HIDE DEF iter
  <2>1. iter[s] = Step(iter[s \ {Max(s)}], Max(s))
    BY <1>5, <1>7
  <2> QED
    BY <1>4, <1>7, <2>1
<1> HIDE DEF iter, F
<1>8. Walks(iter, n, A, F)
  BY <1>7 DEF Walks
<1>9. PICK c : c[n] = iter[1 .. n] /\ WalkFrom(base, n, A, F, c)
  <2>1. WalksTo(iter[1 .. n], base, n, A, F)
    BY <1>2, <1>3, <1>6, <1>8, FoldWalks
  <2> QED
    BY <2>1 DEF WalksTo
<1>10. ASSUME NEW m \in 1 .. n PROVE c[m] = Step(c[m - 1], m)
  <2>1. c[m - 1] \in A /\ <<m, c[m - 1]>> \in (1 .. n) \X A
    BY <1>9 DEF WalkFrom
  <2> QED
    BY <1>9, <2>1 DEF WalkFrom, F
<1> QED
  BY <1>1, <1>9, <1>10 DEF WalkFrom, CurveOf, base, Step

\* The loop of the streaks
Runs == [current : Nat, best : Nat]
OneWon(at, sign, value) ==
  LET current == IF sign * value > 0 THEN at.current + 1 ELSE 0
  IN  [current |-> current, best |-> Larger(at.best, current)]

RunOf(values, sign, n, c) ==
  /\ c[0] = [current |-> 0, best |-> 0]
  /\ \A m \in 0 .. n : c[m] \in Runs
  /\ \A m \in 1 .. n : c[m] = OneWon(c[m - 1], sign, values[m])

LEMMA StreakOneByOne ==
  ASSUME NEW values \in Seq(Int), NEW sign \in {1, -1}, NEW n \in Nat, n = Len(values)
  PROVE  \E c : RunOf(values, sign, n, c) /\ MaxStreak(values, sign) = c[n].best
<1> DEFINE A == Runs
<1> DEFINE base == [current |-> 0, best |-> 0]
           Step(at, m) == OneWon(at, sign, values[m])
           F == [x \in (1 .. n) \X A |-> Step(x[2], x[1])]
           Folds(g) == g = [s \in SUBSET (1 .. n) |->
                              IF s = {} THEN base ELSE Step(g[s \ {Max(s)}], Max(s))]
           iter == CHOOSE g : Folds(g)
<1>0. DOMAIN values = 1 .. n /\ \A m \in 1 .. n : values[m] \in Int
  OBVIOUS
<1>1. MaxStreak(values, sign) = iter[1 .. n].best
  BY <1>0 DEF MaxStreak, OneWon, FoldLeft, MapThenFoldSet
<1>2. base \in A /\ \A at \in A, m \in 1 .. n : Step(at, m) \in A
  BY <1>0 DEF Runs, OneWon, Larger
<1> HIDE DEF base, Step
<1>3. F \in [(1 .. n) \X A -> A]
  BY <1>2
<1>4. \A s \in SUBSET (1 .. n) : s # {} => Max(s) \in 1 .. n /\ s \ {Max(s)} \in SUBSET (1 .. n)
  BY LargestIsIn
<1>5. Folds(iter)
  <2>1. PICK g \in [SUBSET (1 .. n) -> A] : FoldsTo(g, n, base, F)
    <3> HIDE DEF F
    <3> QED
      BY <1>2, <1>3, FoldExists
  <2>2. \A s \in SUBSET (1 .. n) :
          g[s] = IF s = {} THEN base ELSE Step(g[s \ {Max(s)}], Max(s))
    BY <1>4, <2>1 DEF FoldsTo
  <2>3. Folds(g)
    BY <2>1, <2>2
  <2> HIDE DEF Folds
  <2> QED
    BY <2>3
<1>6. iter[{}] = base
  BY <1>5
<1>7. ASSUME NEW s \in SUBSET (1 .. n), s # {}, iter[s \ {Max(s)}] \in A
      PROVE  iter[s] = F[<<Max(s), iter[s \ {Max(s)}]>>]
  <2> HIDE DEF iter
  <2>1. iter[s] = Step(iter[s \ {Max(s)}], Max(s))
    BY <1>5, <1>7
  <2> QED
    BY <1>4, <1>7, <2>1
<1> HIDE DEF iter, F
<1>8. Walks(iter, n, A, F)
  BY <1>7 DEF Walks
<1>9. PICK c : c[n] = iter[1 .. n] /\ WalkFrom(base, n, A, F, c)
  <2>1. WalksTo(iter[1 .. n], base, n, A, F)
    BY <1>2, <1>3, <1>6, <1>8, FoldWalks
  <2> QED
    BY <2>1 DEF WalksTo
<1>10. ASSUME NEW m \in 1 .. n PROVE c[m] = Step(c[m - 1], m)
  <2>1. c[m - 1] \in A /\ <<m, c[m - 1]>> \in (1 .. n) \X A
    BY <1>9 DEF WalkFrom
  <2> QED
    BY <1>9, <2>1 DEF WalkFrom, F
<1> QED
  BY <1>1, <1>9, <1>10 DEF WalkFrom, RunOf, base, Step

\* The largest of some numbers, if one is.
LEMMA LargestOfInts ==
  ASSUME NEW S \in SUBSET Int, NEW x \in S, \A y \in S : x >= y
  PROVE  Max(S) = x
<1>1. \A z : z \in S /\ (\A y \in S : z >= y) => z = x
  OBVIOUS
<1> QED
  BY <1>1 DEF Max

\* The equity of a part of the list is the sum on the way.
LEMMA EquityOnTheWay ==
  ASSUME NEW values \in Seq(Int), NEW n \in Nat, n = Len(values), NEW c, SumOf(values, n, c), NEW k \in 0 .. n
  PROVE  Equity(SubSeq(values, 1, k)) = c[k]
<1> DEFINE part == SubSeq(values, 1, k)
<1>1. part \in Seq(Int) /\ Len(part) = k /\ k \in Nat /\ \A m \in 1 .. k : part[m] = values[m]
  OBVIOUS
<1> HIDE DEF part
<1>2. PICK e : SumOf(part, k, e) /\ Equity(part) = e[k]
  BY <1>1, EquityOneByOne
<1> DEFINE T == {m \in 0 .. k : e[m] = c[m]}
<1>3. 0 \in T
  BY <1>2 DEF SumOf
<1>4. ASSUME NEW m \in 0 .. k - 1, m \in T PROVE m + 1 \in T
  <2>1. m + 1 \in 1 .. k /\ m + 1 \in 1 .. n /\ (m + 1) - 1 = m /\ m + 1 \in 0 .. k
    OBVIOUS
  <2>2. e[m + 1] = e[m] + part[m + 1] /\ c[m + 1] = c[m] + values[m + 1]
    BY <1>2, <2>1 DEF SumOf
  <2> QED
    BY <1>1, <1>4, <2>1, <2>2
<1>5. k \in T
  <2> HIDE DEF T
  <2>1. \A m \in 0 .. k : m \in T
    BY <1>1, <1>3, <1>4, CountingUp
  <2> QED
    BY <1>1, <2>1
<1> QED
  BY <1>2, <1>5 DEF part

\* What the running drawdown knows after m results: the peak of the curve so far, and the
\* worst fall from a point to a later one.
FallsKnown(e, at, m) ==
  /\ at.equity = e[m]
  /\ (\E j \in 0 .. m : at.peak = e[j]) /\ \A j \in 0 .. m : e[j] <= at.peak
  /\ \E j, k \in 0 .. m : j <= k /\ at.worst = e[j] - e[k]
  /\ \A j, k \in 0 .. m : j <= k => e[j] - e[k] <= at.worst

LEMMA FallsOneOn ==
  ASSUME NEW e, NEW m \in Nat, \A j \in 0 .. m + 1 : e[j] \in Int,
         NEW at \in Curves, FallsKnown(e, at, m), NEW value \in Int, e[m + 1] = e[m] + value
  PROVE  FallsKnown(e, OneOn(at, value), m + 1)
<1> DEFINE next == OneOn(at, value)
           equity == at.equity + value
           peak == Larger(at.peak, equity)
           worst == Larger(at.worst, peak - equity)
<1>1. next.equity = equity /\ next.peak = peak /\ next.worst = worst
  BY DEF OneOn
<1>2. equity = e[m + 1] /\ equity \in Int /\ at.peak \in Int /\ at.worst \in Int
  BY DEF FallsKnown, Curves
<1>3. /\ peak \in Int /\ peak >= at.peak /\ peak >= equity /\ (peak = at.peak \/ peak = equity)
      /\ worst \in Int /\ worst >= at.worst /\ worst >= peak - equity
      /\ (worst = at.worst \/ worst = peak - equity)
  BY <1>2 DEF Larger
<1> HIDE DEF next, equity, peak, worst
<1>4. \A j \in 0 .. m + 1 : j \in 0 .. m \/ j = m + 1
  OBVIOUS
<1>5. 0 .. m \subseteq 0 .. m + 1 /\ m + 1 \in 0 .. m + 1
  OBVIOUS
<1>6. (\E j \in 0 .. m + 1 : peak = e[j]) /\ \A j \in 0 .. m + 1 : e[j] <= peak
  <2>1. \E j \in 0 .. m + 1 : peak = e[j]
    <3>1. PICK j \in 0 .. m : at.peak = e[j]
      BY DEF FallsKnown
    <3>2. CASE peak = at.peak
      BY <1>5, <3>1, <3>2
    <3>3. CASE peak = equity
      BY <1>2, <1>5, <3>3
    <3> QED
      BY <1>3, <3>2, <3>3
  <2>2. ASSUME NEW j \in 0 .. m + 1 PROVE e[j] <= peak
    <3>1. CASE j \in 0 .. m
      <4>1. e[j] <= at.peak /\ e[j] \in Int
        BY <3>1 DEF FallsKnown
      <4> QED
        BY <1>2, <1>3, <4>1
    <3>2. CASE j = m + 1
      BY <1>2, <1>3, <3>2
    <3> QED
      BY <1>4, <3>1, <3>2
  <2> QED
    BY <2>1, <2>2
<1>7. \E j, k \in 0 .. m + 1 : j <= k /\ worst = e[j] - e[k]
  <2>1. CASE worst = at.worst
    <3>1. PICK j \in 0 .. m, k \in 0 .. m : j <= k /\ at.worst = e[j] - e[k]
      BY DEF FallsKnown
    <3> QED
      BY <1>5, <2>1, <3>1
  <2>2. CASE worst = peak - equity
    <3>1. PICK j \in 0 .. m + 1 : peak = e[j]
      BY <1>6
    <3>2. j <= m + 1
      OBVIOUS
    <3> QED
      BY <1>2, <1>5, <2>2, <3>1, <3>2
  <2> QED
    BY <1>3, <2>1, <2>2
<1>8. ASSUME NEW j \in 0 .. m + 1, NEW k \in 0 .. m + 1, j <= k PROVE e[j] - e[k] <= worst
  <2>0. e[j] \in Int /\ e[k] \in Int
    OBVIOUS
  <2>1. CASE k \in 0 .. m
    <3>1. j \in 0 .. m
      BY <1>8, <2>1
    <3>2. e[j] - e[k] <= at.worst
      BY <1>8, <2>1, <3>1 DEF FallsKnown
    <3> QED
      BY <1>2, <1>3, <2>0, <3>2
  <2>2. CASE k = m + 1
    <3>1. e[j] <= peak /\ e[k] = equity
      BY <1>2, <1>6, <2>2
    <3> QED
      BY <1>2, <1>3, <2>0, <3>1
  <2> QED
    BY <1>4, <2>1, <2>2
<1>9. FallsKnown(e, next, m + 1)
  BY <1>1, <1>2, <1>6, <1>7, <1>8 DEF FallsKnown
<1> QED
  BY <1>9 DEF next

\* The running drawdown is the worst fall between two points of the curve.
LEMMA DrawdownIsExact ==
  ASSUME NEW values \in Seq(Int)
  PROVE  MaxDrawdown(values) = Max(Falls(values))
<1> DEFINE n == Len(values)
<1>1. n \in Nat /\ \A m \in 1 .. n : values[m] \in Int
  OBVIOUS
<1> HIDE DEF n
<1>2. PICK e : SumOf(values, n, e) /\ Equity(values) = e[n]
  BY <1>1, EquityOneByOne DEF n
<1>3. PICK c : CurveOf(values, n, c) /\ MaxDrawdown(values) = c[n].worst
  BY <1>1, DrawdownOneByOne DEF n
<1> DEFINE T == {m \in 0 .. n : FallsKnown(e, c[m], m)}
<1>4. 0 \in T
  <2>1. c[0] = [equity |-> 0, peak |-> 0, worst |-> 0] /\ e[0] = 0
    BY <1>2, <1>3 DEF CurveOf, SumOf
  <2>2. 0 .. 0 = {0} /\ 0 \in 0 .. n
    BY <1>1
  <2> QED
    BY <2>1, <2>2 DEF FallsKnown
<1>5. ASSUME NEW m \in 0 .. n - 1, m \in T PROVE m + 1 \in T
  <2>1. m + 1 \in 1 .. n /\ (m + 1) - 1 = m /\ m \in 0 .. n /\ m \in Nat /\ m + 1 \in 0 .. n
    BY <1>1
  <2>2. c[m] \in Curves /\ c[m + 1] = OneOn(c[m], values[m + 1])
    BY <1>3, <2>1 DEF CurveOf
  <2>3. e[m + 1] = e[m] + values[m + 1] /\ \A j \in 0 .. n : e[j] \in Int
    BY <1>2, <2>1 DEF SumOf
  <2>4. \A j \in 0 .. m + 1 : e[j] \in Int
    BY <1>1, <2>1, <2>3
  <2>5. FallsKnown(e, c[m], m)
    BY <1>5
  <2>6. FallsKnown(e, c[m + 1], m + 1)
    BY <1>1, <2>1, <2>2, <2>3, <2>4, <2>5, FallsOneOn
  <2> QED
    BY <2>1, <2>6
<1>6. FallsKnown(e, c[n], n)
  <2>1. \A m \in 0 .. n : m \in T
    <3> HIDE DEF T
    <3> QED
      BY <1>1, <1>4, <1>5, CountingUp
  <2>2. n \in 0 .. n
    BY <1>1
  <2> QED
    BY <2>1, <2>2
<1>7. \A k \in 0 .. n : Equity(SubSeq(values, 1, k)) = e[k] /\ e[k] \in Int
  BY <1>1, <1>2, EquityOnTheWay DEF n, SumOf
<1>8. Falls(values) = {e[x[1]] - e[x[2]] : x \in Stretches(n)}
  BY <1>7 DEF Falls, Stretches, n
<1>9. Falls(values) \in SUBSET Int
  BY <1>7, <1>8 DEF Stretches
<1>10. c[n].worst \in Falls(values)
  <2>1. PICK j \in 0 .. n, k \in 0 .. n : j <= k /\ c[n].worst = e[j] - e[k]
    BY <1>6 DEF FallsKnown
  <2>2. <<j, k>> \in Stretches(n)
    BY <2>1 DEF Stretches
  <2> QED
    BY <1>8, <2>1, <2>2
<1>11. \A y \in Falls(values) : c[n].worst >= y
  <2>1. SUFFICES ASSUME NEW x \in Stretches(n) PROVE c[n].worst >= e[x[1]] - e[x[2]]
    BY <1>8
  <2>2. x[1] \in 0 .. n /\ x[2] \in 0 .. n /\ x[1] <= x[2]
    BY DEF Stretches
  <2>3. e[x[1]] - e[x[2]] <= c[n].worst
    BY <1>6, <2>2 DEF FallsKnown
  <2>4. c[n].worst \in Int /\ e[x[1]] - e[x[2]] \in Int
    BY <1>7, <1>9, <1>10, <2>2
  <2> QED
    BY <2>3, <2>4
<1> QED
  BY <1>3, <1>9, <1>10, <1>11, LargestOfInts

\* What the streak counter knows after m results: how long the stretch of wins up to here
\* is, and the longest so far.
WonFrom(values, sign, j, k) == \A x \in j .. k : sign * values[x] > 0

RunsKnown(values, sign, at, m) ==
  /\ at.current <= m /\ WonFrom(values, sign, m - at.current + 1, m)
  /\ at.current < m => ~(sign * values[m - at.current] > 0)
  /\ at.best = 0 \/ \E j, k \in 1 .. m : j <= k /\ WonFrom(values, sign, j, k) /\ at.best = k - j + 1
  /\ \A j, k \in 1 .. m : j <= k /\ WonFrom(values, sign, j, k) => k - j + 1 <= at.best

LEMMA RunsOneOn ==
  ASSUME NEW values, NEW sign \in {1, -1}, NEW m \in Nat, \A j \in 1 .. m + 1 : values[j] \in Int,
         NEW at \in Runs, RunsKnown(values, sign, at, m)
  PROVE  RunsKnown(values, sign, OneWon(at, sign, values[m + 1]), m + 1)
<1> DEFINE value == values[m + 1]
           next == OneWon(at, sign, value)
           current == next.current
           best == next.best
<1>1. current = (IF sign * value > 0 THEN at.current + 1 ELSE 0) /\ best = Larger(at.best, current)
  BY DEF OneWon
<1>2. at.current \in Nat /\ at.best \in Nat /\ value \in Int /\ at.current <= m
  BY DEF Runs, RunsKnown
<1>3. \/ sign * value > 0 /\ current = at.current + 1
      \/ ~(sign * value > 0) /\ current = 0
  BY <1>1, <1>2
<1>4. /\ current \in Nat /\ best \in Nat /\ best >= at.best /\ best >= current
      /\ best = at.best \/ best = current
  BY <1>1, <1>2, <1>3 DEF Larger
<1>v. value = values[m + 1]
  OBVIOUS
<1> HIDE DEF next, current, best, value
<1>5. current <= m + 1 /\ WonFrom(values, sign, (m + 1) - current + 1, m + 1)
  <2>1. CASE sign * value > 0
    <3>1. current = at.current + 1 /\ current <= m + 1 /\ (m + 1) - current + 1 = m - at.current + 1
      BY <1>2, <1>3, <2>1
    <3>2. WonFrom(values, sign, m - at.current + 1, m)
      BY DEF RunsKnown
    <3>3. \A x \in m - at.current + 1 .. m + 1 : x \in m - at.current + 1 .. m \/ x = m + 1
      BY <1>2
    <3> QED
      BY <1>v, <2>1, <3>1, <3>2, <3>3 DEF WonFrom
  <2>2. CASE ~(sign * value > 0)
    <3>1. current = 0 /\ (m + 1) - current + 1 = m + 2 /\ m + 2 .. m + 1 = {}
      BY <1>2, <1>3, <2>2
    <3> QED
      BY <3>1 DEF WonFrom
  <2> QED
    BY <2>1, <2>2
<1>6. current < m + 1 => ~(sign * values[(m + 1) - current] > 0)
  <2>1. CASE sign * value > 0
    <3>1. current = at.current + 1 /\ (m + 1) - current = m - at.current /\ (current < m + 1 => at.current < m)
      BY <1>2, <1>3, <2>1
    <3> QED
      BY <3>1 DEF RunsKnown
  <2>2. CASE ~(sign * value > 0)
    <3>1. (m + 1) - current = m + 1
      BY <1>2, <1>3, <2>2
    <3> QED
      BY <1>v, <2>2, <3>1
  <2> QED
    BY <2>1, <2>2
<1>7. best = 0 \/ \E j, k \in 1 .. m + 1 : j <= k /\ WonFrom(values, sign, j, k) /\ best = k - j + 1
  <2>1. CASE best = at.best
    <3>1. 1 .. m \subseteq 1 .. m + 1
      OBVIOUS
    <3>2. at.best = 0 \/ \E j, k \in 1 .. m : j <= k /\ WonFrom(values, sign, j, k) /\ at.best = k - j + 1
      BY DEF RunsKnown
    <3> QED
      BY <2>1, <3>1, <3>2
  <2>2. CASE best = current /\ current > 0
    <3> DEFINE j == (m + 1) - current + 1
    <3>1. j \in 1 .. m + 1 /\ m + 1 \in 1 .. m + 1 /\ j <= m + 1 /\ current = (m + 1) - j + 1
      BY <1>4, <1>5, <2>2
    <3>2. WonFrom(values, sign, j, m + 1)
      BY <1>5
    <3> HIDE DEF j
    <3> QED
      BY <2>2, <3>1, <3>2
  <2> QED
    BY <1>4, <2>1, <2>2
<1>8. ASSUME NEW j \in 1 .. m + 1, NEW k \in 1 .. m + 1, j <= k, WonFrom(values, sign, j, k)
      PROVE  k - j + 1 <= best
  <2>1. CASE k \in 1 .. m
    <3>1. j \in 1 .. m
      BY <1>8, <2>1
    <3>2. k - j + 1 <= at.best
      BY <1>8, <2>1, <3>1 DEF RunsKnown
    <3> QED
      BY <1>2, <1>4, <3>2
  <2>2. CASE k = m + 1
    <3>1. sign * value > 0
      BY <1>8, <1>v, <2>2 DEF WonFrom
    <3>2. current = at.current + 1
      BY <1>3, <3>1
    <3>3. j > m - at.current
      <4> SUFFICES ASSUME j <= m - at.current PROVE FALSE
        BY <1>2
      <4>1. at.current < m /\ m - at.current \in j .. k
        BY <1>2, <2>2
      <4> QED
        BY <1>8, <4>1 DEF WonFrom, RunsKnown
    <3> QED
      BY <1>2, <1>4, <2>2, <3>2, <3>3
  <2>3. k \in 1 .. m \/ k = m + 1
    OBVIOUS
  <2> QED
    BY <2>1, <2>2, <2>3
<1>9. RunsKnown(values, sign, next, m + 1)
  BY <1>5, <1>6, <1>7, <1>8 DEF RunsKnown, current, best
<1> QED
  BY <1>9 DEF next, value

\* The counter ends with the length of the longest stretch of wins.
LEMMA StreakIsExact ==
  ASSUME NEW values \in Seq(Int), NEW sign \in {1, -1}
  PROVE  MaxStreak(values, sign) = Max({0} \cup Streaks(values, sign))
<1> DEFINE n == Len(values)
           S == {0} \cup Streaks(values, sign)
<1>1. n \in Nat /\ \A m \in 1 .. n : values[m] \in Int
  OBVIOUS
<1> HIDE DEF n
<1>2. PICK c : RunOf(values, sign, n, c) /\ MaxStreak(values, sign) = c[n].best
  BY <1>1, StreakOneByOne DEF n
<1> DEFINE T == {m \in 0 .. n : RunsKnown(values, sign, c[m], m)}
<1>3. 0 \in T
  <2>1. c[0] = [current |-> 0, best |-> 0]
    BY <1>2 DEF RunOf
  <2>2. 0 \in 0 .. n /\ 1 .. 0 = {}
    BY <1>1
  <2> QED
    BY <2>1, <2>2 DEF RunsKnown, WonFrom
<1>4. ASSUME NEW m \in 0 .. n - 1, m \in T PROVE m + 1 \in T
  <2>1. m + 1 \in 1 .. n /\ (m + 1) - 1 = m /\ m \in 0 .. n /\ m \in Nat /\ m + 1 \in 0 .. n
    BY <1>1
  <2>2. c[m] \in Runs /\ c[m + 1] = OneWon(c[m], sign, values[m + 1])
    BY <1>2, <2>1 DEF RunOf
  <2>3. \A j \in 1 .. m + 1 : values[j] \in Int
    BY <1>1, <2>1
  <2>4. RunsKnown(values, sign, c[m], m)
    BY <1>4
  <2>5. RunsKnown(values, sign, c[m + 1], m + 1)
    BY <2>1, <2>2, <2>3, <2>4, RunsOneOn
  <2> QED
    BY <2>1, <2>5
<1>5. RunsKnown(values, sign, c[n], n) /\ c[n].best \in Nat
  <2>1. \A m \in 0 .. n : m \in T
    <3> HIDE DEF T
    <3> QED
      BY <1>1, <1>3, <1>4, CountingUp
  <2>2. n \in 0 .. n
    BY <1>1
  <2>3. c[n] \in Runs
    BY <1>2, <2>2 DEF RunOf
  <2> QED
    BY <2>1, <2>2, <2>3 DEF Runs
<1>6. Streaks(values, sign) = {x[2] - x[1] + 1 : x \in {y \in Stretches(n) : Won(values, sign, y)}}
  BY DEF Streaks, n
<1>7. ASSUME NEW x \in Stretches(n), Won(values, sign, x)
      PROVE  x[1] \in 1 .. n /\ x[2] \in 1 .. n /\ x[1] <= x[2] /\ WonFrom(values, sign, x[1], x[2])
  BY <1>1, <1>7 DEF Stretches, Won, WonFrom
<1>8. S \in SUBSET Int
  BY <1>1, <1>6 DEF Stretches
<1>9. c[n].best \in S
  <2>1. CASE c[n].best = 0
    BY <2>1
  <2>2. CASE c[n].best # 0
    <3>1. PICK j \in 1 .. n, k \in 1 .. n : j <= k /\ WonFrom(values, sign, j, k) /\ c[n].best = k - j + 1
      BY <1>5, <2>2 DEF RunsKnown
    <3>2. <<j, k>> \in Stretches(n) /\ Won(values, sign, <<j, k>>)
      BY <1>1, <3>1 DEF Stretches, Won, WonFrom
    <3> QED
      BY <1>6, <3>1, <3>2
  <2> QED
    BY <2>1, <2>2
<1>10. \A y \in S : c[n].best >= y
  <2>1. ASSUME NEW x \in Stretches(n), Won(values, sign, x) PROVE c[n].best >= x[2] - x[1] + 1
    <3>1. x[2] - x[1] + 1 <= c[n].best
      BY <1>5, <1>7, <2>1 DEF RunsKnown
    <3>2. x[1] \in Int /\ x[2] \in Int
      BY <1>7, <2>1
    <3> QED
      BY <1>5, <3>1, <3>2
  <2> QED
    BY <1>5, <1>6, <2>1
<1> HIDE DEF S
<1>11. Max(S) = c[n].best
  BY <1>8, <1>9, <1>10, LargestOfInts
<1> QED
  BY <1>2, <1>11 DEF S

\* After any number of trades, of any results, the drawdown and the streaks that the metrics
\* report are the worst fall and the longest stretches there are, although each is kept by a
\* loop that looks at every result once (calculate_performance_metrics).
THEOREM MetricsStayExact == Spec => []MetricsAreExact
<1>1. BacktestInv => MetricsAreExact
  <2> SUFFICES ASSUME BacktestInv PROVE MetricsAreExact
    OBVIOUS
  <2>1. trades \in Seq(GoodTrades(Len(tape)))
    <3>1. Lists \in ListsBy(Len(tape)) /\ Lists.trades = trades
      BY DEF BacktestInv, Lists
    <3> QED
      BY <3>1 DEF ListsBy
  <2>2. \A t \in GoodTrades(Len(tape)) : t.realized \in Int
    BY DEF GoodTrades, TradesOf
  <2>3. Results \in Seq(Int)
    <3>1. PICK n \in Nat : DOMAIN trades = 1 .. n
      BY <2>1
    <3>2. \A m \in 1 .. n : trades[m].realized \in Int
      BY <2>1, <2>2, <3>1
    <3> QED
      BY <3>1, <3>2 DEF Results
  <2> QED
    BY <2>3, DrawdownIsExact, StreakIsExact DEF MetricsAreExact
<1> QED
  BY <1>1, BacktestHolds, PTL
===============================================================================
