---------------------------- MODULE MCSetupDetector ----------------------------
EXTENDS SetupDetector

Strategy(key, priority, min, kz, sweep, bias) ==
  [key |-> key, priority |-> priority, minCandles |-> min, killzones |-> kz,
   needsSweep |-> sweep, needsBias |-> bias, newsOnly |-> FALSE]

\* Three of the library's definitions, candles scaled down: one that asks for a sweep,
\* one for a bias, one for a killzone; and the one no context of the detector allows.
Library == {Strategy("sweep_mss_fvg", 95, 2, {}, TRUE, FALSE),
            Strategy("fvg_continuation", 82, 1, {"NY Open"}, FALSE, TRUE),
            [Strategy("news_liquidity_sweep", 92, 1, {}, FALSE, FALSE) EXCEPT !.newsOnly = TRUE]}

Signal(dir, score, rr) == [dir |-> dir, score |-> score, rr |-> rr]
Verdicts == {Signal("BUY", 70, 30), Signal("SELL", 90, 30), Signal("BUY", 60, 30), Signal("BUY", 90, 10)}

K(high, low, close) == [high |-> high, low |-> low, close |-> close]
MinutesTried == {K(6, 4, 5), K(8, 5, 6), K(5, 2, 3)}
PricesTried == {1, 5, 9}
HoursTried == {1, 2}
Names == {"NY Open", "London Open", "None"}
Closed == {"London Open"}
===============================================================================
