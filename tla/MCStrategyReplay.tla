---------------------------- MODULE MCStrategyReplay ----------------------------
EXTENDS StrategyReplay

Setup(key, d, type, entry, stop) == [key |-> key, dir |-> d, type |-> type, entry |-> entry, stop |-> stop]

\* A limit order below the market, a market order near it, and a sale above.
Scored == {Setup("sweep", 1, "limit", 10, 7), Setup("fvg", 1, "market", 12, 8), Setup("sweep", -1, "limit", -13, -17)}

\* A rise that comes back, a gap beyond the stops and quiet candles: the
\* third of four minutes is the first of a new bucket, and the market closes before it.
Rise == Candle(11, 14, 10, 13)
Peak == Candle(13, 20, 12, 19)
Back == Candle(12, 13, 9, 10)
Gap == Candle(6, 9, 5, 8)
Candles5 == [1 .. 5 -> {Rise, Peak, Back, Gap}]
Times == <<0, 2, 6, 8, 10>>
Hours == <<"ny", "ny", "ny", "ny", "ny">>
Friday == {}
Rungs == <<[rr |-> 1, part |-> 1], [rr |-> 2, part |-> 1], [rr |-> 3, part |-> 2]>>
===============================================================================
