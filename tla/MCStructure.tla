------------------------------- MODULE MCStructure -------------------------------
EXTENDS MarketStructure

K(o, h, l, c) == Candle(o, h, l, c)

\* One script for each strategy: the candles that lead to its entry, and at the later ones a
\* choice between those that confirm, delay or break the setup.
OfSweep ==
  <<{K(50, 54, 46, 48)}, {K(48, 52, 44, 46)}, {K(46, 48, 30, 45)}, {K(45, 56, 43, 52)}, {K(52, 54, 44, 46)},
    {K(46, 70, 45, 68)}, {K(68, 80, 60, 78), K(68, 80, 50, 78)}, {K(78, 82, 72, 80)},
    {K(80, 81, 58, 70), K(80, 84, 70, 80)}, {K(70, 72, 56, 60), K(80, 90, 69, 88)},
    {K(60, 62, 55, 56), K(60, 100, 59, 98)}>>

OfContinuation ==
  <<{K(200, 220, 196, 214)}, {K(214, 240, 210, 220)}, {K(220, 224, 200, 206)}, {K(206, 216, 202, 212)},
    {K(212, 260, 210, 256)}, {K(256, 300, 252, 296), K(256, 300, 230, 296)}, {K(296, 304, 280, 286)},
    {K(286, 288, 230, 234), K(286, 288, 240, 262)}, {K(234, 236, 214, 216), K(234, 262, 232, 260)},
    {K(230, 270, 226, 268), K(230, 232, 190, 196)}, {K(260, 268, 255, 257), K(260, 300, 258, 299)}>>

OfBreaker ==
  <<{K(300, 310, 280, 290)}, {K(290, 295, 250, 270)}, {K(270, 300, 265, 292)}, {K(292, 312, 288, 304)},
    {K(304, 306, 240, 244), K(304, 306, 262, 266)}, {K(244, 270, 236, 262)}, {K(262, 330, 260, 324)},
    {K(324, 340, 320, 330), K(324, 326, 300, 304)}, {K(330, 332, 300, 306), K(330, 332, 270, 280)},
    {K(306, 326, 302, 322), K(306, 308, 282, 284)}, {K(322, 330, 300, 312), K(300, 360, 298, 350)},
    {K(322, 330, 300, 312), K(300, 360, 298, 350)}>>

OfOrderBlock ==
  <<{K(10, 13, 9, 12)}, {K(12, 14, 10, 11)}, {K(10, 11, 3, 7)}, {K(7, 18, 6, 17), K(7, 12, 6, 9)},
    {K(11, 16, 9, 15), K(16, 17, 12, 13), K(11, 16, 7, 8)}, {K(11, 16, 9, 15), K(9, 20, 5, 19), K(14, 15, 1, 2)},
    {K(11, 16, 9, 15), K(14, 30, 5, 29), K(14, 15, 1, 2)}, {K(11, 16, 9, 15), K(9, 20, 5, 19), K(14, 15, 1, 2)}>>

OfPreviousDay ==
  <<{K(58, 62, 54, 57)}, {K(57, 60, 53, 54)}, {K(54, 58, 52, 53)}, {K(53, 55, 44, 48), K(53, 56, 46, 52)},
    {K(48, 56, 47, 55), K(48, 49, 42, 45)}, {K(55, 57, 51, 53)}, {K(53, 74, 52, 73), K(58, 76, 58, 75)},
    {K(73, 75, 62, 64), K(73, 74, 54, 60), K(73, 74, 40, 45)}, {K(64, 66, 53, 58), K(64, 90, 63, 88)},
    {K(60, 62, 40, 45), K(88, 104, 86, 100), K(60, 70, 59, 68)}>>

OfAccumulation ==
  <<{K(104, 108, 101, 107)}, {K(107, 112, 105, 106)}, {K(106, 108, 100, 102)}, {K(102, 107, 101, 105)},
    {K(105, 106, 95, 98), K(105, 106, 97, 103)}, {K(98, 104, 96, 102), K(98, 99, 90, 92)},
    {K(102, 116, 101, 115), K(102, 105, 98, 104)}, {K(115, 118, 110, 112), K(104, 118, 103, 117)},
    {K(112, 114, 92, 101), K(117, 120, 112, 118)}, {K(101, 125, 100, 124), K(101, 104, 98, 99)}>>

OfSession ==
  <<{K(110, 128, 110, 127)}, {K(127, 140, 125, 138)}, {K(138, 139, 122, 123)}, {K(123, 124, 107, 108)},
    {K(108, 112, 100, 103)}, {K(103, 118, 102, 117)}, {K(117, 120, 104, 106), K(117, 120, 92, 101)},
    {K(106, 107, 92, 96)}, {K(96, 110, 95, 108), K(96, 98, 90, 94)}, {K(108, 112, 105, 106)}, {K(106, 110, 103, 109)},
    {K(109, 130, 108, 129), K(109, 116, 108, 114)}, {K(129, 136, 124, 134)}, {K(134, 135, 116, 120), K(134, 150, 133, 149)},
    {K(120, 122, 108, 110), K(149, 150, 118, 140)}, {K(120, 160, 118, 159)}>>

OfWindow ==
  <<{K(60, 64, 55, 57)}, {K(57, 62, 52, 54)}, {K(54, 56, 44, 47)}, {K(47, 50, 32, 44), K(47, 50, 36, 44)},
    {K(44, 54, 42, 52), K(44, 50, 30, 46)}, {K(52, 54, 46, 50)}, {K(50, 80, 49, 78), K(55, 82, 55, 80), K(50, 56, 48, 54)},
    {K(78, 84, 70, 82), K(78, 96, 76, 94)}, {K(82, 84, 52, 66), K(82, 84, 76, 80), K(94, 95, 64, 70)},
    {K(66, 68, 40, 44), K(66, 90, 60, 88)}, {K(66, 68, 34, 46), K(88, 92, 54, 60)}>>

OfNews ==
  <<{K(98, 104, 96, 101)}, {K(101, 105, 97, 99)}, {K(99, 103, 95, 100)}, {K(100, 102, 70, 85)}, {K(85, 96, 78, 94)},
    {K(94, 97, 86, 90), K(90, 92, 60, 78)}, {K(90, 95, 84, 93), K(78, 84, 72, 76)}, {K(93, 99, 90, 97)},
    {K(97, 112, 96, 111), K(97, 101, 90, 92)}, {K(111, 114, 104, 106), K(92, 114, 91, 113)},
    {K(106, 110, 66, 104), K(106, 120, 105, 119)}, {K(104, 122, 103, 121), K(119, 124, 76, 90)},
    {K(104, 106, 58, 100), K(121, 125, 118, 124)}>>

OfZone ==
  <<{K(270, 275, 255, 258)}, {K(258, 262, 235, 240)}, {K(240, 246, 228, 230), K(240, 242, 190, 196)},
    {K(230, 236, 215, 233), K(196, 204, 160, 202)}, {K(233, 240, 230, 238)}, {K(238, 250, 236, 240)},
    {K(240, 244, 232, 242)}, {K(242, 275, 241, 272), K(242, 252, 240, 246)},
    {K(272, 285, 260, 282), K(272, 280, 240, 262)}, {K(282, 284, 250, 270), K(282, 284, 246, 248), K(282, 300, 275, 298)},
    {K(270, 276, 214, 240), K(270, 300, 268, 296)}, {K(298, 300, 252, 290), K(240, 250, 210, 215)}>>

OfKillzone ==
  <<{K(60, 64, 55, 57)}, {K(57, 62, 52, 54)}, {K(54, 56, 46, 47)}, {K(47, 50, 43, 44)},
    {K(44, 48, 32, 46), K(44, 48, 36, 41)}, {K(46, 54, 44, 52), K(46, 54, 34, 45)}, {K(52, 78, 50, 76), K(52, 60, 48, 58)},
    {K(76, 84, 68, 82), K(76, 82, 56, 80)}, {K(82, 90, 66, 70), K(84, 96, 84, 94)},
    {K(70, 72, 52, 64), K(94, 98, 79, 82)}, {K(64, 70, 50, 56), K(82, 84, 30, 50)}, {K(56, 90, 54, 88)},
    {K(88, 94, 80, 92)}>>

OfPath ==
  <<{K(60, 70, 58, 66)}, {K(66, 95, 64, 68)}, {K(66, 68, 40, 45)}, {K(45, 80, 44, 78)},
    {K(78, 96, 59, 72), K(78, 96, 43, 72)}, {K(72, 75, 60, 62)}, {K(62, 96, 61, 66), K(62, 88, 61, 66)}, {K(66, 84, 62, 82)},
    {K(82, 110, 80, 90), K(82, 86, 70, 72)}, {K(80, 82, 60, 62), K(72, 104, 71, 100)}, {K(62, 90, 61, 88)},
    {K(88, 140, 86, 100), K(88, 92, 84, 91)}, {K(91, 94, 30, 90), K(91, 94, 60, 70)}, {K(70, 93, 68, 92)}>>

All == <<OfSweep, OfContinuation, OfBreaker, OfOrderBlock, OfPreviousDay, OfAccumulation, OfSession, OfWindow,
         OfNews, OfZone,
         OfKillzone, OfPath>>

OnSweep ==
  [on |-> {1}, pools |-> <<Pool(-1, 35, 38), Pool(1, 115, 118), Pool(-1, -60, -55)>>, named |-> {}, swings |-> {},
   mssWait |-> 12, displacementWait |-> 4, retestExpiry |-> 12, spread |-> 1, minScore |-> 750]
OnContinuation ==
  [on |-> {2}, bias |-> 1, biasScore |-> 750, pools |-> <<Pool(1, 415, 420), Pool(-1, 35, 38)>>, swings |-> {},
   displacementWait |-> 4, retracementWait |-> 12, reactionWait |-> 2, spread |-> 1, minScore |-> 700]
OnBreaker ==
  [on |-> {3}, pools |-> <<Pool(1, 445, 450), Pool(-1, 35, 38)>>, swings |-> {}, displacementWait |-> 4,
   acceptanceWait |-> 3, retestWait |-> 12, reactionWait |-> 3, stopBuffer |-> 1, spread |-> 1, minScore |-> 700]
OnPreviousDay ==
  [on |-> {5}, pdh |-> 100, pdl |-> 50, pools |-> <<[side |-> 1, price |-> 130]>>, maxReclaim |-> 3, mssWait |-> 8,
   entryWait |-> 6, maxWidth |-> 12, spread |-> 1, minScore |-> 700]
OnAccumulation ==
  [on |-> {6}, pools |-> <<[side |-> 1, price |-> 190]>>, quiet |-> 4, maxReclaim |-> 3, shiftWait |-> 8,
   spread |-> 1, minScore |-> 700]
OnSession ==
  [on |-> {7}, session |-> 6, pools |-> <<Pool(1, 200, 205)>>, named |-> {}, swings |-> {}, reclaimWait |-> 5,
   mssWait |-> 10, displacementWait |-> 4, retestExpiry |-> 12, spread |-> 1, minScore |-> 750]
OnWindow ==
  [on |-> {8}, window |-> 3 .. 11, edges |-> {3, 11}, pools |-> <<Pool(-1, 38, 40), Pool(1, 150, 155)>>,
   named |-> {}, fvgWait |-> 8, retestExpiry |-> 12, spread |-> 1, minScore |-> 750]
OnNews ==
  [on |-> {9}, news |-> 4, minutes |-> 5, pools |-> <<Pool(-1, 80, 82), Pool(-1, 88, 89), Pool(1, 240, 242)>>,
   mssWait |-> 8, noise |-> 1, minScore |-> 750]
OnZone ==
  [on |-> {10}, htf |-> <<K(230, 240, 195, 200), K(200, 205, 150, 160), K(160, 300, 155, 295), K(295, 310, 250, 300)>>,
   bias |-> 1, pools |-> <<Pool(-1, 225, 227), Pool(-1, 170, 172)>>, targets |-> <<Pool(1, 400, 405)>>, swings |-> {},
   maxPoiWidth |-> 120, maxEntryWidth |-> 40, mssWait |-> 8, displacementWait |-> 5, entryScan |-> 6,
   minDistance |-> 10, spread |-> 1, minScore |-> 750]
OnKillzone ==
  [on |-> {11}, start |-> 540, step |-> 5,
   killzones |-> <<[from |-> 420, to |-> 600], [from |-> 750, to |-> 960], [from |-> 750, to |-> 870]>>,
   pools |-> <<Pool(-1, 40, 42), Pool(1, 130, 135)>>, mssWait |-> 5, entryWait |-> 5, retestWait |-> 5,
   maxPoiWidth |-> 30, maxRange |-> 80, stopBuffer |-> 1, minDistance |-> 5, spread |-> 1, minScore |-> 700]
OnPath ==
  [on |-> {12}, taken |-> [at |-> 3, side |-> -1], entryModel |-> [entry |-> 60, stop |-> 50], bias |-> 1,
   htfPois |-> {[dir |-> -1, lo |-> 107, hi |-> 109]}, equalTolerance |-> 1, boundary |-> 1, minDistance |-> 9,
   maxRange |-> 90, spread |-> 1, slippage |-> 1, minScore |-> 700]

OnPlans ==
  [sweep |-> OnSweep, continuation |-> OnContinuation, breaker |-> OnBreaker, previousDay |-> OnPreviousDay,
   accumulation |-> OnAccumulation, session |-> OnSession, window |-> OnWindow, news |-> OnNews, zone |-> OnZone,
   killzone |-> OnKillzone, path |-> OnPath]

-------------------------------------------------------------------------------
\* Candles named by what the swings and breaks need of them: up and down legs of
\* two sizes, an outside candle, and a wick through the highs.
Up == Candle(20, 27, 19, 26)
Down == Candle(24, 25, 13, 14)
Peak == Candle(26, 34, 25, 27)
Trough == Candle(18, 19, 8, 17)
Burst == Candle(27, 46, 26, 44)
Plunge == Candle(14, 15, 0, 2)
Wick == Candle(26, 40, 24, 25)
Outside == Candle(22, 36, 10, 24)

Legs == <<{Up, Down}, {Peak, Trough, Outside}, {Up, Down}, {Up, Down, Trough}, {Up, Burst, Wick, Trough},
          {Down, Peak, Burst, Plunge}, {Up, Down, Burst, Plunge}, {Up, Plunge, Wick}>>

\* Lower highs and lower lows, then a break upwards: plain, after a new low, or none.
Fall == <<{Candle(58, 60, 54, 55)}, {Candle(57, 66, 56, 58), Candle(57, 62, 56, 58)}, {Candle(58, 59, 48, 49)},
          {Candle(48, 50, 40, 47), Candle(48, 50, 28, 47)}, {Candle(47, 55, 46, 54)},
          {Candle(54, 62, 50, 52), Candle(54, 63, 50, 62)}, {Candle(52, 53, 38, 39)},
          {Candle(39, 41, 30, 38), Candle(39, 70, 30, 38)}, {Candle(38, 44, 37, 43)},
          {Candle(43, 46, 41, 42), Candle(43, 46, 29, 42)},
          {Candle(43, 66, 42, 65), Candle(43, 66, 28, 65), Candle(43, 46, 40, 44)},
          {Candle(64, 65, 50, 51), Candle(64, 72, 60, 71), Candle(64, 73, 26, 72)},
          {Candle(64, 65, 50, 51), Candle(70, 71, 62, 63)}>>

Swinging == <<Legs, Fall>>
Everything == All \o Swinging
OfLegs == {Len(All) + 1}    \* its many candles try the swings alone

Breaks == [minimum |-> 350, external |-> 550, lookahead |-> 2]
Shifts == [minimum |-> 350, normal |-> 450, high |-> 550, maxSweep |-> 4, lookahead |-> 2]
Warns == [minimum |-> 350, upgrade |-> 550, maxSweep |-> 4, lookahead |-> 2]
BlockPlans ==
  [pools |-> <<Pool(-1, 5, 6), Pool(1, 40, 42), Pool(-1, -20, -18)>>,
   swings |-> {[kind |-> 1, at |-> 2, price |-> 14]}, breakWait |-> 8, retestExpiry |-> 20,
   reactionWait |-> 3, spread |-> 0, minScore |-> 750]

Found == {[dir |-> x[1], at |-> x[2]] : x \in {<<1, 3>>, <<1, 12>>, <<-1, 3>>, <<-1, 6>>}}

OnGaps ==
  [structures |-> {[dir |-> 1, at |-> 5], [dir |-> -1, at |-> 6]}, zones |-> {[dir |-> 1, lo |-> 25, hi |-> 30]},
   gapZones |-> {[dir |-> 1, lo |-> 20, hi |-> 60]}, location |-> 1, bias |-> 1, stale |-> 3]
OnBlocks ==
  [events |-> {[dir |-> 1, at |-> 4, type |-> "BOS", strength |-> "unknown"],
               [dir |-> 1, at |-> 7, type |-> "BOS", strength |-> "strong"],
               [dir |-> -1, at |-> 6, type |-> "MSS", strength |-> "moderate"],
               [dir |-> 1, at |-> 9, type |-> "MSS", strength |-> "unknown"]},
   fvgs |-> {[dir |-> 1, at |-> 8, lo |-> 20, hi |-> 30]}, zones |-> {[dir |-> 1, lo |-> 20, hi |-> 60]},
   equilibrium |-> 40, location |-> 1, bias |-> 1, buffer |-> 1, stopBuffer |-> 2, narrow |-> 10,
   target |-> [d \in {1, -1} |-> IF d = 1 THEN 90 ELSE -10]]
OnSessions ==
  [start |-> 400, step |-> 5, london |-> [from |-> 410, to |-> 430, buffer |-> 15],
   newYork |-> [from |-> 415, to |-> 460, buffer |-> 0],
   asian |-> [hi |-> 72, lo |-> 50, quality |-> 800, end |-> 405],
   levels |-> <<[side |-> 1, lo |-> 71, hi |-> 73, price |-> 72, quality |-> 800, priority |-> 700],
                [side |-> -1, lo |-> 49, hi |-> 51, price |-> 50, quality |-> 800, priority |-> 800],
                [side |-> 1, lo |-> 84, hi |-> 86, price |-> 85, quality |-> 700, priority |-> 900],
                [side |-> -1, lo |-> 44, hi |-> 44, price |-> 44, quality |-> 700, priority |-> 700]>>,
   bias |-> 1, londonTrend |-> 1, news |-> "caution", sweepBuffer |-> 1, closeBuffer |-> 0, breakBuffer |-> 1,
   stopBuffer |-> 6, minRr |-> 80, minScore |-> 700, minAsian |-> 600]
OnRange ==
  [session |-> [hi |-> 112, lo |-> 100, end |-> 4, quality |-> 800], sweepBuffer |-> 1, closeBuffer |-> 0,
   bias |-> 1, active |-> TRUE]
OnRaids ==
  [levels |-> <<[side |-> 1, lo |-> 124, hi |-> 126, at |-> 0, quality |-> 800],
                [side |-> -1, lo |-> 36, hi |-> 37, at |-> 1, quality |-> 700],
                [side |-> -1, lo |-> 99, hi |-> 101, at |-> 2, quality |-> 900],
                [side |-> 1, lo |-> 58, hi |-> 60, at |-> 2, quality |-> 300]>>,
   pools |-> <<[side |-> -1, lo |-> 34, hi |-> 36, priority |-> 500, at |-> 1, quality |-> 800],
               [side |-> 1, lo |-> 98, hi |-> 99, priority |-> 500, at |-> 3, quality |-> 600],
               [side |-> 1, lo |-> 136, hi |-> 137, priority |-> 500, at |-> 1, quality |-> 290],
               [side |-> -1, lo |-> 98, hi |-> 99, priority |-> 600, at |-> 4, quality |-> 700],
               [side |-> 1, lo |-> 61, hi |-> 62, priority |-> 400, at |-> 2, quality |-> 1000]>>,
   windows |-> <<3 .. 8, 5 .. 12>>, sweepBuffer |-> 1, closeBuffer |-> 2, breakBuffer |-> 1, stopBuffer |-> 2,
   bias |-> -1, mssEvents |-> {[dir |-> 1, at |-> 7], [dir |-> 1, at |-> 9], [dir |-> -1, at |-> 11]},
   chochEvents |-> {[dir |-> 1, at |-> 6], [dir |-> -1, at |-> 8]}]

-------------------------------------------------------------------------------
\* docs/ict_smc_swing_points.md:16-17, "confirmed ... This avoids repainting":
\* a swing the detector has given is given ever after.
SwingsAreNotRepainted == [][Kept(tape, tape')]_tape
===============================================================================
