----------------------------- MODULE MCTradeRunner -----------------------------
(***************************************************************************)
(* TradeRunner for TLC: the values that a .cfg cannot write down.          *)
(*                                                                         *)
(* One R is 20 units, so that the buffers of the code are 4 (0.20 R) and 3 *)
(* (0.15 R).  Closes sits on both sides of the first confirmation line     *)
(* (24) and on the second (44).                                            *)
(***************************************************************************)
EXTENDS TradeRunner

CONSTANTS r1, r2

OneRunner == {r1}
TwoRunners == {r1, r2}
AllModes == SUBSET {"execute", "manage"}
EnteringModes == {{"execute"}, {"execute", "manage"}}
ManagingModes == {{"execute", "manage"}}
SomeCloses == {23, 24, 44}
RaisedStop == {38}
================================================================================
