----------------------------- MODULE TradeManagement -----------------------------
(***************************************************************************)
(* backtest/ict_smc_backtest.py: how a replay fills an order and manages a *)
(* position on one closed candle.  run_backtest and the full-system replay *)
(* of scripts/run_ict_smc_backtest.py share these.                         *)
(*                                                                         *)
(* A candle lasts two units of time, and the market may be closed between  *)
(* two candles.  The prices of a signal are on the axis of its direction.  *)
(* A position is closed in quarters, and what it has realized is kept as   *)
(* quarters times price, so that the R of the code is                      *)
(* realized / (4 * risk).                                                  *)
(***************************************************************************)
EXTENDS Candles, SequencesExt, WellFoundedInduction, TLAPS

CONSTANTS
  Opens,            \* the opening time of each candle, a sequence
  Spread2,          \* half the spread
  Slippage,
  MaxHold,          \* max_hold_minutes
  StaleAfter,       \* stale_after_no_target_minutes
  Session,          \* the session of each candle, a sequence
  Cutoff,           \* the candles after the Friday cutoff
  BreakevenAfter    \* move_stop_to_be_after_target_index

\* A candle starts when the one before it has closed, or later.
ASSUME MarketAssumption ==
  /\ Opens \in Seq(Int) /\ \A n \in 1 .. Len(Opens) - 1 : Opens[n + 1] >= Opens[n] + 2
  /\ Spread2 \in Int /\ Slippage \in Int

Whole == 4

OpenTime(i) == Opens[i]
CloseTime(i) == Opens[i] + 2

\* A limit order remembers whether its fill candle also touched the stop; the trade log
\* does not take that over (_position_from_fill, _closed_trade).
Position(order, price, at) ==
  [signal |-> order, entry |-> price, at |-> at, stop |-> order.stop, left |-> Whole,
   realized |-> 0, filled |-> {}]

Risk(pos) == pos.entry - pos.signal.stop

\* _r_multiple, times risk: without a risk nothing is ever gained or lost
Gain(pos, price) == IF Risk(pos) <= 0 THEN 0 ELSE price - pos.entry

Closed(pos, reason, realized) ==
  [signal |-> pos.signal, entry |-> pos.entry, at |-> pos.at, reason |-> reason, risk |-> Risk(pos),
   realized |-> realized, left |-> pos.left, partials |-> pos.filled]

\* _time_exit_reason: the first that applies
TimeExit(pos, i) ==
  LET age == CloseTime(i) - pos.at
  IN  IF i \in Cutoff THEN "friday_cutoff"
      ELSE IF MaxHold > 0 /\ age >= MaxHold THEN "max_hold_time"
      ELSE IF StaleAfter > 0 /\ age >= StaleAfter /\ pos.filled = {} THEN "stale_trade"
      ELSE IF Session[i] # pos.signal.session THEN "session_close"
      ELSE "none"

\* Mutant: one target later.
MovesStopLater(pos, j) == pos.signal.moves /\ BreakevenAfter > 0 /\ j > BreakevenAfter

\* should_move_to_be: the last target counts as number 999
MovesStop(pos, j) ==
  /\ pos.signal.moves /\ BreakevenAfter > 0
  /\ j >= BreakevenAfter \/ j = Len(pos.signal.targets)

\* A target that is hit closes its share of what is left, and moves the stop to
\* breakeven when it is far enough up the ladder.
TakeTarget(pos, j) ==
  LET target == pos.signal.targets[j]
      part == Smaller(pos.left, target.part)
      stop == IF MovesStop(pos, j) THEN pos.entry ELSE pos.stop
  IN  IF pos.left <= 0 THEN pos
      ELSE [pos EXCEPT !.left = @ - part, !.realized = @ + part * Gain(pos, target.price),
                       !.filled = @ \cup {j}, !.stop = stop]

\* hit_targets
Hit(pos, k) ==
  {j \in DOMAIN pos.signal.targets \ pos.filled : Hi(pos.signal.dir, k) >= pos.signal.targets[j].price}

\* The loop over the targets hit, in order
TakeTargets(pos, hit) ==
  LET Take(p, j) == IF j \in hit THEN TakeTarget(p, j) ELSE p
  IN  FoldLeftDomain(Take, pos, pos.signal.targets)

\* What a position has realized when the rest goes at its stop
AtStop(pos) == pos.realized + pos.left * Gain(pos, pos.stop)

\* simulate_trade_management: the position after a candle, and the trade it became
Manage(pos, k, i) ==
  LET d == pos.signal.dir
      hit == Hit(pos, k)
      reason == TimeExit(pos, i)
      after == TakeTargets(pos, hit)
  IN  IF Risk(pos) <= 0 THEN [pos |-> pos, trade |-> <<>>]
      ELSE IF reason # "none"
      THEN [pos |-> pos, trade |-> <<Closed(pos, reason, pos.realized + pos.left * Gain(pos, Cl(d, k)))>>]
      ELSE IF Lo(d, k) <= pos.stop
      THEN LET how == IF hit # {} THEN "ambiguous_stop_first"
                      ELSE IF pos.stop = pos.entry THEN "breakeven_stop" ELSE "stop_loss"
           IN  [pos |-> pos, trade |-> <<Closed(pos, how, AtStop(pos))>>]
      ELSE IF after.left = 0
      THEN [pos |-> after, trade |-> <<Closed(after, "final_target", after.realized)>>]
      ELSE [pos |-> after, trade |-> <<>>]

-------------------------------------------------------------------------------
\* Mutant: a limit order is tried before it is active.
TooEarlyNever(order, i) == FALSE

\* order_not_active, no_retroactive_fill
TooEarly(order, i) == CloseTime(i) <= order.from

\* simulate_order_fill, a limit order
Fill(order, k, i) ==
  IF OpenTime(i) >= order.expiry THEN "order_expired"
  ELSE IF TooEarly(order, i) THEN "no_retroactive_fill"
  ELSE IF Lo(order.dir, k) <= order.entry /\ order.entry <= Hi(order.dir, k) THEN "filled"
  ELSE "limit_not_touched"

\* ... and a market order, on the candle after the signal's
MarketFill(order, i) ==
  IF OpenTime(i) >= order.expiry THEN "order_expired"
  ELSE IF CloseTime(i) <= order.from THEN "no_retroactive_fill"
  ELSE "filled"
-------------------------------------------------------------------------------
(* Folds over sequences, for the theorems of the modules that extend this one. *)

\* Induction over the numbers up to n, for a set of them
LEMMA CountingUp ==
  ASSUME NEW n \in Nat, NEW T, 0 \in T, \A m \in 0 .. n - 1 : m \in T => m + 1 \in T
  PROVE  \A m \in 0 .. n : m \in T
<1> DEFINE Bad == (0 .. n) \ T
           less == {ss \in Nat \X Nat : ss[1] < ss[2]}
<1> SUFFICES ASSUME Bad # {} PROVE FALSE
  OBVIOUS
<1>1. IsWellFoundedOn(less, Nat)
  BY NatLessThanWellFounded DEF OpToRel
<1>2. Bad \subseteq Nat
  OBVIOUS
<1>3. PICK x \in Bad : \A y \in Bad : <<y, x>> \notin less
  <2> HIDE DEF less, Bad
  <2> QED
    BY <1>1, <1>2, WFMin
<1>4. x # 0 /\ x \in 0 .. n /\ x \in Nat
  OBVIOUS
<1>5. x - 1 \in 0 .. n - 1 /\ x - 1 \in Nat /\ (x - 1) + 1 = x
  BY <1>4
<1>6. x - 1 \notin Bad
  <2>1. <<x - 1, x>> \in less
    BY <1>4, <1>5
  <2> QED
    BY <1>3, <2>1
<1> QED
  BY <1>5, <1>6

LEMMA LargestOf ==
  ASSUME NEW m \in Nat, NEW s \in SUBSET (1 .. m), m \in s
  PROVE  Max(s) = m
<1> DEFINE Top(x) == x \in s /\ \A y \in s : x >= y
<1>1. Top(m)
  OBVIOUS
<1>2. \A x : Top(x) => x = m
  OBVIOUS
<1> QED
  BY <1>1, <1>2 DEF Max

LEMMA LargestBounds ==
  ASSUME NEW n \in Nat, NEW s \in SUBSET (1 .. n), s # {}
  PROVE  Max(s) \in s /\ \A y \in s : Max(s) >= y
<1> DEFINE Bad(m) == s \cap (1 .. m) = {}
           T == {m \in 0 .. n : Bad(m) \/ \E x \in s : x <= m /\ \A y \in s : y <= m => x >= y}
<1>1. 0 \in T
  OBVIOUS
<1>2. ASSUME NEW m \in 0 .. n - 1, m \in T PROVE m + 1 \in T
  <2>1. CASE m + 1 \in s
    BY <1>2, <2>1
  <2>2. CASE m + 1 \notin s
    BY <1>2, <2>2
  <2> QED
    BY <2>1, <2>2
<1>3. n \in T
  <2> HIDE DEF T
  <2> QED
    BY <1>1, <1>2, CountingUp, n \in 0 .. n
<1>4. \E x \in s : \A y \in s : x >= y
  <2>1. s \cap (1 .. n) # {}
    OBVIOUS
  <2>2. PICK x \in s : x <= n /\ \A y \in s : y <= n => x >= y
    BY <1>3, <2>1
  <2>3. \A y \in s : y <= n
    OBVIOUS
  <2> QED
    BY <2>2, <2>3
<1> HIDE DEF T
<1>5. \E x : x \in s /\ \A y \in s : x >= y
  BY <1>4
<1> QED
  BY <1>5 DEF Max

LEMMA LargestIsIn ==
  ASSUME NEW n \in Nat, NEW s \in SUBSET (1 .. n), s # {}
  PROVE  Max(s) \in s
BY LargestBounds

LEMMA SmallestIsIn ==
  ASSUME NEW s \in SUBSET Nat, s # {}
  PROVE  Min(s) \in s /\ \A y \in s : Min(s) <= y
<1> DEFINE less == {ss \in Nat \X Nat : ss[1] < ss[2]}
<1>1. IsWellFoundedOn(less, Nat)
  BY NatLessThanWellFounded DEF OpToRel
<1>2. PICK x \in s : \A y \in s : <<y, x>> \notin less
  <2> HIDE DEF less
  <2> QED
    BY <1>1, WFMin
<1>3. ASSUME NEW y \in s PROVE x <= y
  <2>1. x \in Nat /\ y \in Nat /\ <<y, x>> \notin less
    BY <1>2
  <2> QED
    BY <2>1
<1> QED
  BY <1>3 DEF Min

\* A recursive function as the folds of the library define it, over the indexes up to n:
\* one with values in A exists.
FoldsTo(g, n, base, F) ==
  \A s \in SUBSET (1 .. n) : g[s] = IF s = {} THEN base ELSE F[<<Max(s), g[s \ {Max(s)}]>>]

LEMMA FoldExists ==
  ASSUME NEW n \in Nat, NEW A, NEW base \in A, NEW F \in [(1 .. n) \X A -> A]
  PROVE  \E g \in [SUBSET (1 .. n) -> A] : FoldsTo(g, n, base, F)
<1> DEFINE Folds(g, m) ==
             /\ g \in [SUBSET (1 .. m) -> A]
             /\ \A s \in SUBSET (1 .. m) :
                  g[s] = IF s = {} THEN base ELSE F[<<Max(s), g[s \ {Max(s)}]>>]
           T == {m \in 0 .. n : \E g : Folds(g, m)}
<1>1. 0 \in T
  <2> DEFINE g == [s \in SUBSET (1 .. 0) |-> base]
  <2>1. Folds(g, 0)
    OBVIOUS
  <2> HIDE DEF g, Folds
  <2> QED
    BY <2>1
<1>2. ASSUME NEW m \in 0 .. n - 1, m \in T
      PROVE  m + 1 \in T
  <2>1. PICK g : Folds(g, m)
    BY <1>2
  <2> DEFINE f == [s \in SUBSET (1 .. m + 1) |->
                     IF m + 1 \in s THEN F[<<m + 1, g[s \ {m + 1}]>>] ELSE g[s]]
  <2>2. ASSUME NEW s \in SUBSET (1 .. m + 1), m + 1 \in s
        PROVE  f[s] = F[<<Max(s), f[s \ {Max(s)}]>>] /\ f[s] \in A
    <3>1. Max(s) = m + 1
      BY <2>2, LargestOf
    <3>2. s \ {m + 1} \in SUBSET (1 .. m)
      OBVIOUS
    <3>3. f[s \ {m + 1}] = g[s \ {m + 1}] /\ g[s \ {m + 1}] \in A
      BY <2>1, <3>2
    <3>4. f[s] = F[<<m + 1, g[s \ {m + 1}]>>]
      BY <2>2
    <3> QED
      BY <3>1, <3>3, <3>4
  <2>3. ASSUME NEW s \in SUBSET (1 .. m + 1), m + 1 \notin s
        PROVE  /\ f[s] = IF s = {} THEN base ELSE F[<<Max(s), f[s \ {Max(s)}]>>]
               /\ f[s] \in A
    <3>1. s \in SUBSET (1 .. m)
      <4>1. \A x \in s : x \in 1 .. m
        BY <2>3
      <4> QED
        BY <4>1
    <3>a. s \ {Max(s)} \in SUBSET (1 .. m)
      BY <3>1
    <3>2. f[s] = g[s] /\ f[s \ {Max(s)}] = g[s \ {Max(s)}]
      BY <2>3, <3>1, <3>a DEF f
    <3>3. g[s] \in A /\ g[s] = IF s = {} THEN base ELSE F[<<Max(s), g[s \ {Max(s)}]>>]
      BY <2>1, <3>1
    <3> QED
      BY <3>2, <3>3
  <2> HIDE DEF f
  <2>4. Folds(f, m + 1)
    <3>1. f = [s \in SUBSET (1 .. m + 1) |-> f[s]]
      BY DEF f
    <3> QED
      BY <2>2, <2>3, <3>1
  <2>5. m + 1 \in 0 .. n
    OBVIOUS
  <2> HIDE DEF Folds
  <2> QED
    BY <2>4, <2>5
<1> HIDE DEF Folds
<1>3. n \in T
  <2>1. \A m \in 0 .. n : m \in T
    <3> HIDE DEF T
    <3> QED
      BY <1>1, <1>2, CountingUp
  <2> QED
    BY <2>1
<1> QED
  BY <1>3 DEF Folds, FoldsTo

\* Any such function walks through the indexes, one after the other.
Walks(g, n, A, F) ==
  \A s \in SUBSET (1 .. n) : s # {} /\ g[s \ {Max(s)}] \in A => g[s] = F[<<Max(s), g[s \ {Max(s)}]>>]

WalkFrom(base, n, A, F, c) ==
  /\ c[0] = base
  /\ \A m \in 0 .. n : c[m] \in A
  /\ \A m \in 1 .. n : c[m] = F[<<m, c[m - 1]>>]

WalksTo(last, base, n, A, F) == \E c : c[n] = last /\ WalkFrom(base, n, A, F, c)

LEMMA FoldWalks ==
  ASSUME NEW n \in Nat, NEW A, NEW base \in A, NEW F \in [(1 .. n) \X A -> A], NEW g,
         g[{}] = base, Walks(g, n, A, F)
  PROVE  WalksTo(g[1 .. n], base, n, A, F)
<1>1. ASSUME NEW m \in 1 .. n, g[1 .. m - 1] \in A
      PROVE  g[1 .. m] = F[<<m, g[1 .. m - 1]>>] /\ g[1 .. m] \in A
  <2>1. 1 .. m \in SUBSET (1 .. n) /\ m \in 1 .. m
    OBVIOUS
  <2>2. Max(1 .. m) = m
    BY LargestOf
  <2>3. (1 .. m) \ {m} = 1 .. m - 1
    OBVIOUS
  <2>4. 1 .. m # {}
    BY <2>1
  <2> QED
    BY <1>1, <2>1, <2>2, <2>3, <2>4 DEF Walks
<1> DEFINE T == {m \in 0 .. n : g[1 .. m] \in A}
<1>2. 0 \in T
  <2>1. 1 .. 0 = {}
    OBVIOUS
  <2> QED
    BY <2>1
<1>3. ASSUME NEW m \in 0 .. n - 1, m \in T
      PROVE  m + 1 \in T
  <2>1. m + 1 \in 1 .. n /\ (m + 1) - 1 = m /\ m + 1 \in 0 .. n
    OBVIOUS
  <2>2. g[1 .. (m + 1) - 1] \in A
    BY <1>3, <2>1
  <2> QED
    BY <1>1, <2>1, <2>2
<1>4. \A m \in 0 .. n : m \in T
  <2> HIDE DEF T
  <2> QED
    BY <1>2, <1>3, CountingUp
<1> DEFINE c == [m \in 0 .. n |-> g[1 .. m]]
<1>5. c[0] = base /\ c[n] = g[1 .. n]
  BY 1 .. 0 = {}
<1>6. \A m \in 0 .. n : c[m] \in A
  BY <1>4
<1>7. ASSUME NEW m \in 1 .. n PROVE c[m] = F[<<m, c[m - 1]>>]
  <2>1. m \in 0 .. n /\ m - 1 \in 0 .. n
    OBVIOUS
  <2> QED
    BY <1>1, <1>4, <2>1
<1> HIDE DEF c
<1> QED
  BY <1>5, <1>6, <1>7 DEF WalkFrom, WalksTo

-------------------------------------------------------------------------------
(* Times and lists *)

LEMMA OpensAreTimes == Len(Opens) \in Nat /\ \A m \in 1 .. Len(Opens) : m \in Nat /\ Opens[m] \in Int
BY MarketAssumption

\* A candle starts when the one before it has closed, and so does every later one.
LEMMA LaterOpens ==
  ASSUME NEW j \in 1 .. Len(Opens), NEW n \in 1 .. j - 1
  PROVE  OpenTime(j) >= CloseTime(n)
<1> DEFINE k == j - n - 1
           T == {m \in 0 .. k : OpenTime(n + 1 + m) >= CloseTime(n)}
<1>1. \A m \in 1 .. Len(Opens) : Opens[m] \in Int
  BY MarketAssumption
<1>0. Len(Opens) \in Nat
  BY MarketAssumption
<1>2. Len(Opens) \in Nat /\ k \in Nat /\ n \in Nat /\ j \in Nat
  BY <1>0
<1>3. 0 \in T
  <2>1. n \in 1 .. Len(Opens) - 1
    BY <1>2
  <2>2. Opens[n + 1] >= Opens[n] + 2
    BY <2>1, MarketAssumption
  <2> QED
    BY <1>2, <2>2 DEF OpenTime, CloseTime
<1>4. ASSUME NEW m \in 0 .. k - 1, m \in T PROVE m + 1 \in T
  <2>1. n + 1 + m \in 1 .. Len(Opens) - 1 /\ (n + 1 + m) + 1 = n + 1 + (m + 1) /\ m + 1 \in 0 .. k
    BY <1>2
  <2>2. Opens[(n + 1 + m) + 1] >= Opens[n + 1 + m] + 2
    BY <2>1, MarketAssumption
  <2>3. /\ Opens[n] \in Int /\ Opens[n + 1 + m] \in Int /\ Opens[n + 1 + (m + 1)] \in Int
    BY <1>1, <1>2, <2>1
  <2> QED
    BY <1>4, <2>1, <2>2, <2>3 DEF OpenTime, CloseTime
<1>5. k \in T
  <2> HIDE DEF T, k
  <2>1. \A m \in 0 .. k : m \in T
    BY <1>2, <1>3, <1>4, CountingUp
  <2> QED
    BY <1>2, <2>1
<1> QED
  BY <1>2, <1>5

LEMMA ItemsOf ==
  ASSUME NEW S, NEW q \in Seq(S)
  PROVE  \A n \in DOMAIN q : q[n] \in S
OBVIOUS

LEMMA OneMore ==
  ASSUME NEW S, NEW q \in Seq(S), NEW x \in S
  PROVE  /\ Append(q, x) \in Seq(S) /\ q \o <<x>> \in Seq(S)
         /\ Len(Append(q, x)) = Len(q) + 1 /\ Len(q) \in Nat
OBVIOUS

\* The lists with one of them replaced
WithOpen(l, x) == [l EXCEPT !.open = x]
WithPending(l, x) == [l EXCEPT !.pending = x]
WithTrades(l, x) == [l EXCEPT !.trades = x]
WithSkipped(l, x) == [l EXCEPT !.skipped = x]

-------------------------------------------------------------------------------
(* What managing a position keeps of it.  Orders is a set of orders. *)

TimeReasons == {"friday_cutoff", "max_hold_time", "stale_trade", "session_close"}
StopReasons == {"stop_loss", "breakeven_stop", "ambiguous_stop_first"}
Reasons == TimeReasons \cup StopReasons \cup {"final_target", "end_of_test"}

LadderSteps == [price : Int, part : Nat]

Planned(Orders) ==
  \A o \in Orders : o.dir \in Directions /\ o.stop \in Int /\ o.targets \in Seq(LadderSteps)

PositionsOf(Orders) ==
  [signal : Orders, entry : Int, at : Int, stop : Int, left : Int, realized : Int, filled : SUBSET Nat]

TradesOf(Orders) ==
  [signal : Orders, entry : Int, at : Int, reason : Reasons, risk : Int, realized : Int, left : Int,
   partials : SUBSET Nat]

Minutes == [o : Int, h : Int, l : Int, c : Int]

\* Whatever one target keeps, the loop over the targets keeps.
LEMMA TargetsKeep ==
  ASSUME NEW A, NEW pos \in A, NEW hit, pos.signal.targets \in Seq(LadderSteps),
         \A p \in A, j \in DOMAIN pos.signal.targets : TakeTarget(p, j) \in A
  PROVE  TakeTargets(pos, hit) \in A
<1> DEFINE n == Len(pos.signal.targets)
           Take(p, j) == IF j \in hit THEN TakeTarget(p, j) ELSE p
           order == [j \in 1 .. n |-> j]
           F == [x \in (1 .. n) \X A |-> Take(x[2], order[x[1]])]
           Folds(g) == g = [s \in SUBSET (1 .. n) |->
                              IF s = {} THEN pos ELSE Take(g[s \ {Max(s)}], order[Max(s)])]
           iter == CHOOSE g : Folds(g)
<1>1. n \in Nat /\ DOMAIN pos.signal.targets = 1 .. n
  OBVIOUS
<1>2. TakeTargets(pos, hit) = iter[1 .. n]
  BY <1>1 DEF TakeTargets, FoldLeftDomain, FoldLeft, MapThenFoldSet
<1> HIDE DEF n
<1>3. F \in [(1 .. n) \X A -> A]
  BY <1>1
<1>4. PICK g \in [SUBSET (1 .. n) -> A] : FoldsTo(g, n, pos, F)
  <2> HIDE DEF F
  <2> QED
    BY <1>1, <1>3, FoldExists
<1>5. \A s \in SUBSET (1 .. n) : s # {} => Max(s) \in 1 .. n /\ s \ {Max(s)} \in SUBSET (1 .. n)
  BY <1>1, LargestIsIn
<1>6. Folds(g)
  <2>1. \A s \in SUBSET (1 .. n) :
          g[s] = IF s = {} THEN pos ELSE Take(g[s \ {Max(s)}], order[Max(s)])
    BY <1>4, <1>5 DEF FoldsTo
  <2> QED
    BY <1>4, <2>1
<1>7. Folds(iter)
  <2> HIDE DEF Folds
  <2> QED
    BY <1>6
<1>8. iter[{}] = pos
  BY <1>7
<1>9. ASSUME NEW s \in SUBSET (1 .. n), s # {}, iter[s \ {Max(s)}] \in A
      PROVE  iter[s] = F[<<Max(s), iter[s \ {Max(s)}]>>]
  <2>1. iter[s] = Take(iter[s \ {Max(s)}], order[Max(s)])
    <3> HIDE DEF iter, Take, order
    <3> QED
      BY <1>7, <1>9
  <2>2. Max(s) \in 1 .. n
    BY <1>5, <1>9
  <2>3. F[<<Max(s), iter[s \ {Max(s)}]>>] = Take(iter[s \ {Max(s)}], order[Max(s)])
    <3> HIDE DEF iter, Take, order
    <3> QED
      BY <1>9, <2>2
  <2> QED
    BY <2>1, <2>3
<1> HIDE DEF F, iter
<1>10. Walks(iter, n, A, F)
  BY <1>9 DEF Walks
<1>11. WalksTo(iter[1 .. n], pos, n, A, F)
  BY <1>1, <1>3, <1>8, <1>10, FoldWalks
<1> QED
  BY <1>1, <1>2, <1>11 DEF WalkFrom, WalksTo

\* The positions that are pos but for what management changes
SameEntry(Orders, pos) ==
  {p \in PositionsOf(Orders) : p.signal = pos.signal /\ p.entry = pos.entry /\ p.at = pos.at}

LEMMA TargetKeepsEntry ==
  ASSUME NEW Orders, Planned(Orders), NEW pos \in PositionsOf(Orders),
         NEW p \in SameEntry(Orders, pos), NEW j \in DOMAIN pos.signal.targets
  PROVE  TakeTarget(p, j) \in SameEntry(Orders, pos)
<1> DEFINE target == p.signal.targets[j]
           part == Smaller(p.left, target.part)
           stop == IF MovesStop(p, j) THEN p.entry ELSE p.stop
           next == [p EXCEPT !.left = @ - part, !.realized = @ + part * Gain(p, target.price),
                             !.filled = @ \cup {j}, !.stop = stop]
<1>1. p \in PositionsOf(Orders) /\ p.signal = pos.signal /\ p.signal \in Orders
  BY DEF SameEntry, PositionsOf
<1>2. target \in LadderSteps /\ j \in Nat /\ p.signal.stop \in Int
  BY <1>1 DEF Planned, PositionsOf
<1>3. part \in Int /\ stop \in Int /\ Gain(p, target.price) \in Int
  BY <1>1, <1>2 DEF Smaller, Gain, Risk, LadderSteps, PositionsOf
<1>4. part * Gain(p, target.price) \in Int
  BY <1>3
<1> HIDE DEF part, stop
<1>5. next \in PositionsOf(Orders)
  <2> DEFINE won == part * Gain(p, target.price)
  <2> HIDE DEF won
  <2>1. p.left - part \in Int /\ p.realized + won \in Int /\ p.filled \cup {j} \in SUBSET Nat
    BY <1>1, <1>2, <1>3, <1>4 DEF PositionsOf, won
  <2> QED
    BY <1>1, <1>3, <2>1 DEF PositionsOf, won
<1>6. next.signal = p.signal /\ next.entry = p.entry /\ next.at = p.at
  BY <1>1 DEF PositionsOf
<1>7. TakeTarget(p, j) = (IF p.left <= 0 THEN p ELSE next)
  BY DEF TakeTarget, part, stop
<1> HIDE DEF next
<1> QED
  BY <1>1, <1>5, <1>6, <1>7 DEF SameEntry

\* What a candle can make of a position: nothing, a trade by the clock, a trade at its
\* stop, or what its targets leave of it.
Outcomes(pos, m, after) ==
  \/ m.pos = pos /\ m.trade = <<>> /\ Risk(pos) <= 0
  \/ \E how \in TimeReasons, realized \in Int :
       m.pos = pos /\ m.trade = <<Closed(pos, how, realized)>>
  \/ \E how \in StopReasons : m.pos = pos /\ m.trade = <<Closed(pos, how, AtStop(pos))>>
  \/ m.pos = after /\ after.left = 0 /\ m.trade = <<Closed(after, "final_target", after.realized)>>
  \/ m.pos = after /\ m.trade = <<>>

LEMMA GainIsInt ==
  ASSUME NEW Orders, Planned(Orders), NEW pos \in PositionsOf(Orders), NEW price \in Int
  PROVE  Risk(pos) \in Int /\ Gain(pos, price) \in Int /\ pos.left * Gain(pos, price) \in Int
<1>1. pos.signal.stop \in Int /\ pos.entry \in Int /\ pos.left \in Int
  BY DEF PositionsOf, Planned
<1>2. Risk(pos) \in Int
  BY <1>1 DEF Risk
<1>3. Gain(pos, price) \in Int
  BY <1>1, <1>2 DEF Gain
<1> QED
  BY <1>1, <1>2, <1>3

LEMMA ManageHasOutcome ==
  ASSUME NEW Orders, Planned(Orders), NEW pos \in PositionsOf(Orders), NEW k \in Minutes, NEW i
  PROVE  Outcomes(pos, Manage(pos, k, i), TakeTargets(pos, Hit(pos, k)))
<1> DEFINE d == pos.signal.dir
           hit == Hit(pos, k)
           reason == TimeExit(pos, i)
           after == TakeTargets(pos, hit)
           m == Manage(pos, k, i)
           atClose == pos.realized + pos.left * Gain(pos, Cl(d, k))
           how == IF hit # {} THEN "ambiguous_stop_first"
                  ELSE IF pos.stop = pos.entry THEN "breakeven_stop" ELSE "stop_loss"
<1>1. reason \in TimeReasons \cup {"none"}
  BY DEF TimeExit, TimeReasons
<1>2. atClose \in Int
  <2>1. Cl(d, k) \in Int
    BY DEF Cl, Minutes, PositionsOf, Planned, Directions
  <2> QED
    BY <2>1, GainIsInt DEF PositionsOf
<1>3. how \in StopReasons
  BY DEF StopReasons
<1>4. m = IF Risk(pos) <= 0 THEN [pos |-> pos, trade |-> <<>>]
          ELSE IF reason # "none" THEN [pos |-> pos, trade |-> <<Closed(pos, reason, atClose)>>]
          ELSE IF Lo(d, k) <= pos.stop THEN [pos |-> pos, trade |-> <<Closed(pos, how, AtStop(pos))>>]
          ELSE IF after.left = 0
          THEN [pos |-> after, trade |-> <<Closed(after, "final_target", after.realized)>>]
          ELSE [pos |-> after, trade |-> <<>>]
  BY DEF Manage
<1> HIDE DEF d, hit, reason, after, m, atClose, how
<1>5. CASE Risk(pos) <= 0
  BY <1>4, <1>5 DEF Outcomes, m, after, hit
<1>6. CASE ~(Risk(pos) <= 0) /\ reason # "none"
  <2>1. m.pos = pos /\ m.trade = <<Closed(pos, reason, atClose)>>
    BY <1>4, <1>6
  <2>2. reason \in TimeReasons
    BY <1>1, <1>6
  <2> QED
    BY <1>2, <2>1, <2>2 DEF Outcomes, m
<1>7. CASE ~(Risk(pos) <= 0) /\ reason = "none" /\ Lo(d, k) <= pos.stop
  <2>1. m.pos = pos /\ m.trade = <<Closed(pos, how, AtStop(pos))>>
    BY <1>4, <1>7
  <2> QED
    BY <1>3, <2>1 DEF Outcomes, m
<1>8. CASE ~(Risk(pos) <= 0) /\ reason = "none" /\ ~(Lo(d, k) <= pos.stop)
  <2>1. \/ m.pos = after /\ after.left = 0 /\ m.trade = <<Closed(after, "final_target", after.realized)>>
        \/ m.pos = after /\ m.trade = <<>>
    BY <1>4, <1>8
  <2> QED
    BY <2>1 DEF Outcomes, m, after, hit
<1> QED
  BY <1>5, <1>6, <1>7, <1>8

\* However a candle treats a position, what it is or becomes has its order, its entry
\* and its time.
LEMMA ManageKeepsEntry ==
  ASSUME NEW Orders, Planned(Orders), NEW pos \in PositionsOf(Orders), NEW k \in Minutes, NEW i
  PROVE  /\ Manage(pos, k, i).pos \in SameEntry(Orders, pos)
         /\ \/ Manage(pos, k, i).trade = <<>>
            \/ \E t \in TradesOf(Orders) :
                 /\ Manage(pos, k, i).trade = <<t>>
                 /\ t.signal = pos.signal /\ t.entry = pos.entry /\ t.at = pos.at
<1> DEFINE after == TakeTargets(pos, Hit(pos, k))
           m == Manage(pos, k, i)
           Record(p, t) == /\ t \in TradesOf(Orders)
                           /\ t.signal = pos.signal /\ t.entry = pos.entry /\ t.at = pos.at
<1>1. pos \in SameEntry(Orders, pos) /\ pos.signal.targets \in Seq(LadderSteps)
  BY DEF SameEntry, PositionsOf, Planned
<1>2. after \in SameEntry(Orders, pos)
  BY <1>1, TargetKeepsEntry, TargetsKeep
<1>3. ASSUME NEW p \in SameEntry(Orders, pos), NEW how \in Reasons, NEW realized \in Int
      PROVE  /\ Closed(p, how, realized) \in TradesOf(Orders)
             /\ Closed(p, how, realized).signal = pos.signal
             /\ Closed(p, how, realized).entry = pos.entry
             /\ Closed(p, how, realized).at = pos.at
  <2>1. p \in PositionsOf(Orders) /\ p.signal = pos.signal /\ p.entry = pos.entry /\ p.at = pos.at
    BY DEF SameEntry
  <2>2. Risk(p) \in Int
    BY <2>1, GainIsInt, 0 \in Int
  <2> QED
    BY <2>1, <2>2 DEF Closed, TradesOf, PositionsOf
<1>4. AtStop(pos) \in Int
  BY GainIsInt DEF AtStop, PositionsOf
<1>5. after.realized \in Int
  BY <1>2 DEF SameEntry, PositionsOf
<1>6. Outcomes(pos, m, after)
  BY ManageHasOutcome
<1> HIDE DEF after, m
<1>7. \/ m.pos = pos /\ m.trade = <<>>
      \/ m.pos = after /\ m.trade = <<>>
      \/ \E p \in {pos, after}, how \in Reasons, realized \in Int :
           m.pos = p /\ m.trade = <<Closed(p, how, realized)>>
  <2>1. TimeReasons \cup StopReasons \subseteq Reasons /\ "final_target" \in Reasons
    BY DEF Reasons
  <2>2. CASE \E how \in TimeReasons, realized \in Int :
               m.pos = pos /\ m.trade = <<Closed(pos, how, realized)>>
    BY <2>1, <2>2
  <2>3. CASE \E how \in StopReasons : m.pos = pos /\ m.trade = <<Closed(pos, how, AtStop(pos))>>
    BY <1>4, <2>1, <2>3
  <2>4. CASE m.pos = after /\ m.trade = <<Closed(after, "final_target", after.realized)>>
    BY <1>5, <2>1, <2>4
  <2>5. CASE m.trade = <<>> /\ m.pos \in {pos, after}
    BY <2>5
  <2> QED
    BY <1>6, <2>2, <2>3, <2>4, <2>5 DEF Outcomes
<1>8. m.pos \in SameEntry(Orders, pos)
  BY <1>1, <1>2, <1>7
<1>9. \/ m.trade = <<>>
      \/ \E t \in TradesOf(Orders) :
           m.trade = <<t>> /\ t.signal = pos.signal /\ t.entry = pos.entry /\ t.at = pos.at
  BY <1>1, <1>2, <1>3, <1>7
<1> QED
  BY <1>8, <1>9 DEF m

-------------------------------------------------------------------------------
(* What managing a position keeps of its plan *)

\* The targets of an order are beyond its stop; those taken were beyond the entry, which a
\* market order that gapped over them may have missed.
TargetsBeyondStop(order) == \A j \in DOMAIN order.targets : order.targets[j].price >= order.stop
TakenBeyondEntry(order, taken, entry) == \A j \in taken : order.targets[j].price >= entry

\* A target far enough up the ladder to move the stop was taken.
StopWasMoved(order, taken) == order.moves /\ BreakevenAfter > 0 /\ \E j \in taken : j >= BreakevenAfter

\* What a trade has of its plan when it ended at its stop or at its last target
WithinPlan(t) ==
  t.risk > 0 /\ t.reason \in StopReasons \cup {"final_target"} /\ TargetsBeyondStop(t.signal) =>
    /\ t.realized >= -Whole * t.risk
    /\ TakenBeyondEntry(t.signal, t.partials, t.entry) /\ StopWasMoved(t.signal, t.partials) => t.realized >= 0

\* ... and a position, while it is open
InPlan(p) ==
  Risk(p) > 0 /\ TargetsBeyondStop(p.signal) =>
    /\ p.left \in 0 .. Whole /\ p.filled \subseteq DOMAIN p.signal.targets
    /\ p.stop \in {p.signal.stop, p.entry}
    /\ p.realized >= -(Whole - p.left) * Risk(p)
    /\ TakenBeyondEntry(p.signal, p.filled, p.entry) => p.realized >= 0
    /\ StopWasMoved(p.signal, p.filled) => p.stop = p.entry

\* Closing a part of a position loses no more than the part's share of the risk.
LEMMA PartLosesItsShare ==
  ASSUME NEW left \in 0 .. 4, NEW part \in 0 .. left, NEW r \in Int, NEW g \in Int, NEW x \in Int,
         g >= -r, x >= -(4 - left) * r
  PROVE  /\ x + part * g >= -(4 - (left - part)) * r
         /\ g >= 0 => part * g >= 0
<1>1. part * g >= part * (-r)
  <2>1. part \in {0, 1, 2, 3, 4}
    OBVIOUS
  <2> QED
    BY <2>1
<1>2. left \in {0, 1, 2, 3, 4} /\ part \in {0, 1, 2, 3, 4}
  OBVIOUS
<1>3. part * (-r) - (4 - left) * r = -(4 - (left - part)) * r
  <2>1. \A a, b, c \in Int : a * (-c) - (4 - b) * c = -(4 - (b - a)) * c
    OBVIOUS
  <2> QED
    BY <1>2, <2>1
<1>4. g >= 0 => part * g >= 0
  BY <1>2
<1>5. -(4 - left) * r = -((4 - left) * r)
  OBVIOUS
<1>6. part * g \in Int /\ part * (-r) \in Int /\ (4 - left) * r \in Int
  OBVIOUS
<1>7. x + part * g >= part * (-r) - (4 - left) * r
  BY <1>1, <1>5, <1>6
<1> QED
  BY <1>3, <1>4, <1>7

LEMMA TargetStaysInPlan ==
  ASSUME NEW Orders, Planned(Orders), NEW p \in PositionsOf(Orders), InPlan(p),
         NEW j \in DOMAIN p.signal.targets
  PROVE  InPlan(TakeTarget(p, j))
<1> DEFINE target == p.signal.targets[j]
           part == Smaller(p.left, target.part)
           gain == Gain(p, target.price)
           won == p.realized + part * gain
           stop == IF MovesStop(p, j) THEN p.entry ELSE p.stop
           next == [p EXCEPT !.left = p.left - part, !.realized = won, !.filled = p.filled \cup {j}, !.stop = stop]
<1>1. /\ p.signal \in Orders /\ p.entry \in Int /\ p.stop \in Int /\ p.left \in Int /\ p.realized \in Int
      /\ p.filled \in SUBSET Nat /\ p.signal.stop \in Int
  BY DEF PositionsOf, Planned
<1>2. target \in LadderSteps /\ j \in Nat
  BY <1>1, ItemsOf DEF Planned
<1>3. target.price \in Int /\ target.part \in Nat /\ Risk(p) \in Int /\ Risk(p) = p.entry - p.signal.stop
  BY <1>1, <1>2 DEF LadderSteps, Risk
<1>4. TakeTarget(p, j) = (IF p.left <= 0 THEN p ELSE next)
  BY DEF TakeTarget
<1>5. SUFFICES ASSUME p.left > 0, Risk(p) > 0, TargetsBeyondStop(p.signal) PROVE InPlan(next)
  <2> HIDE DEF next
  <2>1. CASE p.left <= 0
    BY <1>4, <2>1
  <2>2. CASE ~(p.left <= 0)
    <3>1. TakeTarget(p, j) = next
      BY <1>4, <2>2
    <3>2. Risk(next) = Risk(p) /\ next.signal = p.signal
      BY DEF next, Risk, PositionsOf
    <3> QED
      BY <1>1, <1>5, <2>2, <3>1, <3>2 DEF InPlan
  <2> QED
    BY <2>1, <2>2
<1>6. /\ p.left \in 0 .. 4 /\ p.filled \subseteq DOMAIN p.signal.targets /\ p.stop \in {p.signal.stop, p.entry}
      /\ p.realized >= -(4 - p.left) * Risk(p)
      /\ TakenBeyondEntry(p.signal, p.filled, p.entry) => p.realized >= 0
      /\ StopWasMoved(p.signal, p.filled) => p.stop = p.entry
  BY <1>5 DEF InPlan, Whole
<1>7. part \in 0 .. p.left /\ p.left - part \in 0 .. 4
  <2>1. PICK l \in 0 .. 4, q \in Nat : l = p.left /\ q = target.part
    BY <1>3, <1>6
  <2>2. Smaller(l, q) \in 0 .. l /\ l - Smaller(l, q) \in 0 .. 4
    BY DEF Smaller
  <2> QED
    BY <2>1, <2>2
<1>8. gain = target.price - p.entry /\ gain \in Int /\ gain >= -Risk(p)
  <2>1. target.price >= p.signal.stop
    BY <1>5 DEF TargetsBeyondStop
  <2> QED
    BY <1>1, <1>3, <1>5, <2>1 DEF Gain
<1> HIDE DEF part, gain, target
<1>9. won >= -(4 - (p.left - part)) * Risk(p) /\ (gain >= 0 => part * gain >= 0)
  BY <1>1, <1>3, <1>6, <1>7, <1>8, PartLosesItsShare
<1>10. part * gain \in Int /\ won \in Int
  BY <1>1, <1>7, <1>8
<1>11. ASSUME TakenBeyondEntry(p.signal, p.filled \cup {j}, p.entry) PROVE won >= 0
  <2>1. TakenBeyondEntry(p.signal, p.filled, p.entry) /\ target.price >= p.entry
    BY <1>11 DEF TakenBeyondEntry, target
  <2>2. gain >= 0
    BY <1>1, <1>3, <1>8, <2>1
  <2> QED
    BY <1>1, <1>6, <1>9, <1>10, <2>1, <2>2
<1>12. ASSUME StopWasMoved(p.signal, p.filled \cup {j}) PROVE stop = p.entry
  <2>1. CASE StopWasMoved(p.signal, p.filled)
    BY <1>6, <2>1
  <2>2. CASE ~StopWasMoved(p.signal, p.filled)
    <3>1. p.signal.moves /\ BreakevenAfter > 0 /\ j >= BreakevenAfter
      BY <1>12, <2>2 DEF StopWasMoved
    <3> QED
      BY <3>1 DEF MovesStop
  <2> QED
    BY <2>1, <2>2
<1>13. stop \in {p.signal.stop, p.entry}
  BY <1>6
<1> HIDE DEF won, stop
<1>14. /\ next.signal = p.signal /\ next.entry = p.entry /\ next.stop = stop /\ next.left = p.left - part
       /\ next.realized = won /\ next.filled = p.filled \cup {j}
  BY DEF PositionsOf
<1> HIDE DEF next
<1>15. Risk(next) = Risk(p)
  BY <1>14 DEF Risk
<1>16. p.filled \cup {j} \subseteq DOMAIN p.signal.targets
  BY <1>6
<1> QED
  BY <1>7, <1>9, <1>11, <1>12, <1>13, <1>14, <1>15, <1>16 DEF InPlan, Whole

LEMMA StopStaysInPlan ==
  ASSUME NEW Orders, Planned(Orders), NEW p \in PositionsOf(Orders), InPlan(p), NEW how \in StopReasons
  PROVE  WithinPlan(Closed(p, how, AtStop(p)))
<1> DEFINE t == Closed(p, how, AtStop(p))
<1>1. /\ p.entry \in Int /\ p.stop \in Int /\ p.left \in Int /\ p.realized \in Int /\ p.signal.stop \in Int
  BY DEF PositionsOf, Planned
<1>2. /\ t.signal = p.signal /\ t.entry = p.entry /\ t.risk = Risk(p) /\ t.realized = AtStop(p)
      /\ t.partials = p.filled
  BY DEF Closed
<1>3. Risk(p) = p.entry - p.signal.stop /\ Risk(p) \in Int
  BY <1>1 DEF Risk
<1> HIDE DEF t
<1>4. SUFFICES ASSUME Risk(p) > 0, TargetsBeyondStop(p.signal)
               PROVE  /\ AtStop(p) >= -4 * Risk(p)
                      /\ TakenBeyondEntry(p.signal, p.filled, p.entry) /\ StopWasMoved(p.signal, p.filled)
                           => AtStop(p) >= 0
  BY <1>2 DEF WithinPlan, Whole, t
<1>5. /\ p.left \in 0 .. 4 /\ p.stop \in {p.signal.stop, p.entry}
      /\ p.realized >= -(4 - p.left) * Risk(p)
      /\ TakenBeyondEntry(p.signal, p.filled, p.entry) => p.realized >= 0
      /\ StopWasMoved(p.signal, p.filled) => p.stop = p.entry
  BY <1>4 DEF InPlan, Whole
<1>6. Gain(p, p.stop) = p.stop - p.entry /\ Gain(p, p.stop) \in Int /\ Gain(p, p.stop) >= -Risk(p)
  BY <1>1, <1>3, <1>4, <1>5 DEF Gain
<1>7. AtStop(p) >= -(4 - (p.left - p.left)) * Risk(p)
  <2>1. p.left \in 0 .. p.left
    BY <1>5
  <2> QED
    BY <1>1, <1>3, <1>5, <1>6, <2>1, PartLosesItsShare DEF AtStop
<1>8. AtStop(p) >= -4 * Risk(p)
  <2>1. 4 - (p.left - p.left) = 4
    BY <1>5
  <2> QED
    BY <1>7, <2>1
<1>9. ASSUME p.stop = p.entry, p.realized >= 0 PROVE AtStop(p) >= 0
  <2>1. Gain(p, p.stop) = 0 /\ p.left * 0 = 0
    BY <1>1, <1>6, <1>9
  <2> QED
    BY <1>1, <1>9, <2>1 DEF AtStop
<1> QED
  BY <1>5, <1>8, <1>9

\* A candle leaves a position in its plan or makes a trade that is within it, with the same
\* order, entry and time.
LEMMA ManageStaysInPlan ==
  ASSUME NEW Orders, Planned(Orders), NEW pos \in PositionsOf(Orders), InPlan(pos),
         NEW k \in Minutes, NEW i
  PROVE  /\ Manage(pos, k, i).pos \in SameEntry(Orders, pos) /\ InPlan(Manage(pos, k, i).pos)
         /\ \/ Manage(pos, k, i).trade = <<>>
            \/ \E t \in TradesOf(Orders) :
                 /\ Manage(pos, k, i).trade = <<t>> /\ WithinPlan(t)
                 /\ t.signal = pos.signal /\ t.entry = pos.entry /\ t.at = pos.at
<1> DEFINE after == TakeTargets(pos, Hit(pos, k))
           m == Manage(pos, k, i)
           A == {p \in SameEntry(Orders, pos) : InPlan(p)}
<1>1. pos \in A /\ pos.signal.targets \in Seq(LadderSteps)
  BY DEF SameEntry, PositionsOf, Planned
<1>2. after \in A
  <2>1. ASSUME NEW p \in A, NEW j \in DOMAIN pos.signal.targets PROVE TakeTarget(p, j) \in A
    <3>1. p \in SameEntry(Orders, pos) /\ p \in PositionsOf(Orders) /\ p.signal = pos.signal /\ InPlan(p)
      BY DEF SameEntry
    <3>2. TakeTarget(p, j) \in SameEntry(Orders, pos)
      BY <3>1, TargetKeepsEntry
    <3>3. InPlan(TakeTarget(p, j))
      BY <3>1, TargetStaysInPlan
    <3> QED
      BY <3>2, <3>3
  <2> HIDE DEF A
  <2> QED
    BY <1>1, <2>1, TargetsKeep
<1>3. Outcomes(pos, m, after)
  BY ManageHasOutcome
<1>4. m.pos \in {pos, after}
  BY <1>3 DEF Outcomes
<1>5. ASSUME NEW t, m.trade = <<t>> PROVE WithinPlan(t)
  <2>1. CASE \E how \in TimeReasons, realized \in Int : t = Closed(pos, how, realized)
    BY <2>1 DEF WithinPlan, TimeReasons, StopReasons, Closed
  <2>2. CASE \E how \in StopReasons : t = Closed(pos, how, AtStop(pos))
    BY <2>2, StopStaysInPlan
  <2>3. CASE t = Closed(after, "final_target", after.realized) /\ after.left = 0
    <3> DEFINE T == Closed(after, "final_target", after.realized)
    <3>1. /\ T.signal = after.signal /\ T.entry = after.entry /\ T.risk = Risk(after)
          /\ T.realized = after.realized /\ T.partials = after.filled
      BY DEF Closed
    <3>2. InPlan(after)
      BY <1>2
    <3>3. Risk(after) \in Int
      <4>1. after \in PositionsOf(Orders)
        BY <1>2 DEF SameEntry
      <4> QED
        BY <4>1, GainIsInt, 0 \in Int
    <3> HIDE DEF T, after
    <3>4. ASSUME Risk(after) > 0, TargetsBeyondStop(after.signal)
          PROVE  /\ after.realized >= -4 * Risk(after)
                 /\ TakenBeyondEntry(after.signal, after.filled, after.entry) => after.realized >= 0
      <4>1. /\ after.realized >= -(4 - after.left) * Risk(after)
            /\ TakenBeyondEntry(after.signal, after.filled, after.entry) => after.realized >= 0
        BY <3>2, <3>4 DEF InPlan, Whole
      <4>2. 4 - after.left = 4
        BY <2>3
      <4> QED
        BY <4>1, <4>2
    <3>5. WithinPlan(T)
      BY <3>1, <3>4 DEF WithinPlan, Whole
    <3> QED
      BY <2>3, <3>5 DEF T
  <2>4. m.trade # <<>>
    BY <1>5
  <2>5. \A a, b : <<a>> = <<b>> => a = b
    OBVIOUS
  <2> HIDE DEF m, after
  <2>6. \/ \E how \in TimeReasons, realized \in Int : m.trade = <<Closed(pos, how, realized)>>
        \/ \E how \in StopReasons : m.trade = <<Closed(pos, how, AtStop(pos))>>
        \/ after.left = 0 /\ m.trade = <<Closed(after, "final_target", after.realized)>>
    BY <1>3, <2>4 DEF Outcomes
  <2> QED
    BY <1>5, <2>1, <2>2, <2>3, <2>5, <2>6
<1>6. /\ m.pos \in SameEntry(Orders, pos)
      /\ \/ m.trade = <<>>
         \/ \E t \in TradesOf(Orders) :
              m.trade = <<t>> /\ t.signal = pos.signal /\ t.entry = pos.entry /\ t.at = pos.at
  BY ManageKeepsEntry
<1> HIDE DEF m
<1> QED
  BY <1>1, <1>2, <1>4, <1>5, <1>6 DEF m
===============================================================================
