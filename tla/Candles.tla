-------------------------------- MODULE Candles --------------------------------
(***************************************************************************)
(* Closed candles as the analytics and strategy packages see them, and the *)
(* arithmetic all of them repeat.                                          *)
(*                                                                         *)
(* A candle is a record of integer prices, a tape a sequence of candles,   *)
(* oldest first; a position of the code (from 0) is an index from 1 here.  *)
(* The source writes every rule twice, for bullish and bearish; the two    *)
(* are mirror images, so a rule is written once, on the axis of its        *)
(* direction d: +1 keeps prices, -1 negates them and so swaps high and low.*)
(***************************************************************************)
EXTENDS Integers, Sequences, FiniteSets, FiniteSetsExt

Directions == {1, -1}

Candle(o, h, l, c) == [o |-> o, h |-> h, l |-> l, c |-> c]

Op(d, k) == d * k.o
Cl(d, k) == d * k.c
Hi(d, k) == IF d = 1 THEN k.h ELSE -k.l
Lo(d, k) == IF d = 1 THEN k.l ELSE -k.h

\* _Candle.range, .body, .bullish / .bearish
Size(k) == k.h - k.l
Abs(x) == IF x < 0 THEN -x ELSE x
Body(k) == Abs(k.c - k.o)
With(d, k) == Cl(d, k) > Op(d, k)
Against(d, k) == Cl(d, k) < Op(d, k)

Smaller(a, b) == IF a <= b THEN a ELSE b
Larger(a, b) == IF a >= b THEN a ELSE b
Clamp(x, low, high) == Larger(low, Smaller(high, x))
The(one) == CHOOSE x \in one : TRUE
Earliest(indexes) == {i \in indexes : \A j \in indexes : i <= j}
If(b, value) == IF b THEN value ELSE 0

\* body_to_range and the close position of d, both at least pct per cent
BodyAtLeast(k, pct) == Size(k) > 0 /\ 100 * Body(k) >= pct * Size(k)
ClosesAtLeast(d, k, pct) == 100 * (Cl(d, k) - Lo(d, k)) >= pct * Size(k)

\* _atr: the mean true range of the last n candles (the whole tape while it is
\* shorter), in whole units or in parts of one; the first candle of a tape has no
\* previous close.
TrueRange(t, i) ==
  LET before == IF i = 1 THEN t[1].c ELSE t[i - 1].c
  IN  Larger(Size(t[i]), Larger(Abs(t[i].h - before), Abs(t[i].l - before)))

AtrIn(parts, t, n) ==
  LET last == Larger(1, Len(t) - n + 1) .. Len(t)
      TrueRangeAt(i) == TrueRange(t, i)
  IN  IF t = <<>> THEN 0 ELSE (parts * MapThenSumSet(TrueRangeAt, last)) \div Cardinality(last)

Atr(t, n) == AtrIn(1, t, n)

\* _atr of the later strategies: the mean range of the n candles up to i
MeanRange(t, i, n) ==
  LET last == Larger(1, i - n + 1) .. i
      SizeAt(j) == Size(t[j])
  IN  MapThenSumSet(SizeAt, last) \div Cardinality(last)

\* The strength of a displacement candle, in hundredths: its body, its size and its close
StrengthOf(d, k, atr) ==
  LET unit == Larger(1, atr)
  IN  Clamp(  (300 * Body(k)) \div Size(k) + (150 * Smaller(3 * unit, Size(k))) \div unit
            + (200 * (Cl(d, k) - Lo(d, k))) \div Size(k), 0, 1000)

\* candles[: i + 1], the tape as it was when candle i closed
UpTo(t, i) == SubSeq(t, 1, i)

\* _confirmed_swings when the context brings none: a candle strictly beyond
\* both its neighbours is a swing, known once the second one has closed.
SwingsOf(d, t) ==
  {i \in 2 .. Len(t) - 1 : Hi(d, t[i]) > Hi(d, t[i - 1]) /\ Hi(d, t[i]) > Hi(d, t[i + 1])}

\* The swings a rule of d may call a level: those the context brings (records of
\* kind, at, price), or, when it brings none, the tape's own.
SwingLevels(swings, d, t) ==
  IF swings = {} THEN {[at |-> i, price |-> Hi(d, t[i])] : i \in SwingsOf(d, t)}
  ELSE {[at |-> s.at, price |-> d * s.price] : s \in {x \in swings : x.kind = d}}

\* A liquidity pool: side 1 rests above the market (buy side), -1 below.
Pool(side, lo, hi) == [side |-> side, lo |-> lo, hi |-> hi]
PoolLo(d, p) == IF d = 1 THEN p.lo ELSE -p.hi
PoolHi(d, p) == IF d = 1 THEN p.hi ELSE -p.lo
===============================================================================
