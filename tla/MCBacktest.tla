-------------------------------- MODULE MCBacktest --------------------------------
EXTENDS Backtest

\* A long signal at 10 with its stop at 6 and two targets, and its mirror image below.
Target(price, part) == [price |-> price, part |-> part]
Signal(id, d, type, at, from) ==
  [id |-> id, dir |-> d, type |-> type, at |-> at, from |-> from, expiry |-> at + 6, session |-> "ny",
   allowed |-> TRUE, news |-> FALSE, moves |-> TRUE,
   entry |-> d * 10, stop |-> d * 10 - 4, targets |-> <<Target(d * 10 + 3, 2), Target(d * 10 + 6, 2)>>]

Plans == {<<Signal(1, 1, "limit", 2, 2), [Signal(2, -1, "limit", 3, 7) EXCEPT !.expiry = 11]>>,
          <<Signal(1, 1, "market", 1, 1), Signal(2, 1, "limit", 2, 2)>>,
          <<Signal(1, 1, "market", 2, 3)>>,
          <<[Signal(1, -1, "market", 1, 1) EXCEPT !.news = TRUE], Signal(2, -1, "market", 4, 4)>>,
          <<[Signal(1, 1, "limit", 1, 1) EXCEPT !.expiry = 4], [Signal(2, -1, "market", 2, 2) EXCEPT !.allowed = FALSE],
            [Signal(3, -1, "limit", 2, 2) EXCEPT !.session = "asia"]>>}

\* Quiet candles at the entry and above, one to either target, one to either stop, one to
\* both, and one that opens beyond the first target.
Candlesticks == {Candle(10, 11, 9, 10), Candle(12, 14, 12, 13), Candle(12, 17, 11, 16), Candle(11, 12, 8, 8),
                 Candle(8, 9, 3, 4), Candle(10, 18, 2, 9), Candle(14, 17, 13, 16)}

\* The market is closed for a while after the third candle.
Times == <<0, 2, 4, 8, 10>>
Hours == <<"ny", "ny", "ny", "asia", "ny">>
Friday == {5}
===============================================================================
