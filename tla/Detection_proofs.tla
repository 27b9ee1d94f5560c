---------------------------- MODULE Detection_proofs ----------------------------
(***************************************************************************)
(* Theorems about what finds setups: the setup detector with its liquidity *)
(* and structure engines, for every strategy library, every price and      *)
(* every bound, and the detectors of market structure with the order block *)
(* strategy, for every tape of candles and every configuration.            *)
(***************************************************************************)
EXTENDS SetupDetector, MarketStructure, FiniteSetTheorems, WellFoundedInduction, TLAPS

MinuteType == [high : Int, low : Int, close : Int]

-------------------------------------------------------------------------------
(* structure_engine.py *)

\* The window after a candle holds at most three, the newest last.
LEMMA WindowType ==
  ASSUME StructureTypeOK, NEW k \in MinuteType
  PROVE  /\ Window(k) \in Seq(MinuteType)
         /\ Len(Window(k)) \in 1 .. 3
         /\ Window(k)[Len(Window(k))] = k
<1>1. CASE Len(recent) < 3
  <2>1. recent \in Seq(MinuteType) /\ Window(k) = Append(recent, k)
    BY <1>1 DEF StructureTypeOK, Window, MinuteType
  <2> QED
    BY <1>1, <2>1
<1>2. CASE ~(Len(recent) < 3)
  <2>0. recent \in Seq(MinuteType) /\ Len(recent) <= 3
    BY DEF StructureTypeOK, MinuteType
  <2>1. recent \in Seq(MinuteType) /\ Len(recent) = 3
    <3>1. Len(recent) \in Nat
      BY <2>0
    <3>2. \A n \in Nat : ~(n < 3) /\ n <= 3 => n = 3
      OBVIOUS
    <3>3. Len(recent) = 3
      BY <1>2, <2>0, <3>1, <3>2
    <3> QED
      BY <2>0, <3>3
  <2>2. recent[2] \in MinuteType /\ recent[3] \in MinuteType
    BY <2>1
  <2>3. Window(k) = <<recent[2], recent[3], k>>
    BY <1>2 DEF Window
  <2> QED
    BY <2>2, <2>3
<1> QED
  BY <1>1, <1>2

\* A closed candle leaves only the levels its close has not broken
\* (ingest_candle_close).
LEMMA IngestBrackets ==
  ASSUME StructureTypeOK, NEW k \in MinuteType, StructureIngest(k)
  PROVE  StructureTypeOK' /\ LevelsBracketClose'
<1> DEFINE w == Window(k)
<1>1. /\ w \in Seq(MinuteType) /\ Len(w) \in 1 .. 3 /\ w[Len(w)] = k
  BY WindowType
<1>2. recent' = w
  BY DEF StructureIngest
<1>3. k.close \in Int
  BY DEF MinuteType
<1>4. \A p \in structuralHigh' : p \in Int /\ k.close <= p
  <2>1. ASSUME PivotHigh(w) PROVE w[2].high \in Int
    <3>1. Len(w) = 3
      BY <2>1 DEF PivotHigh
    <3>2. w[2] \in MinuteType
      BY <1>1, <3>1
    <3> QED
      BY <3>2 DEF MinuteType
  <2> QED
    <3>1. structuralHigh' = {p \in IF PivotHigh(w) THEN {w[2].high} ELSE structuralHigh : ~(k.close > p)}
      BY DEF StructureIngest, Broken
    <3>2. structuralHigh \subseteq Int
      BY DEF StructureTypeOK
    <3>3. \A p \in IF PivotHigh(w) THEN {w[2].high} ELSE structuralHigh : p \in Int
      BY <2>1, <3>2
    <3> HIDE DEF w
    <3> QED
      BY <3>1, <3>3, <1>3
<1>5. \A p \in structuralLow' : p \in Int /\ p <= k.close
  <2>1. ASSUME PivotLow(w) PROVE w[2].low \in Int
    <3>1. Len(w) = 3
      BY <2>1 DEF PivotLow
    <3>2. w[2] \in MinuteType
      BY <1>1, <3>1
    <3> QED
      BY <3>2 DEF MinuteType
  <2> QED
    <3>1. structuralLow' = {p \in IF PivotLow(w) THEN {w[2].low} ELSE structuralLow : ~(k.close < p)}
      BY DEF StructureIngest, Broken
    <3>2. structuralLow \subseteq Int
      BY DEF StructureTypeOK
    <3>3. \A p \in IF PivotLow(w) THEN {w[2].low} ELSE structuralLow : p \in Int
      BY <2>1, <3>2
    <3> HIDE DEF w
    <3> QED
      BY <3>1, <3>3, <1>3
<1>6. StructureTypeOK'
  BY <1>1, <1>2, <1>4, <1>5 DEF StructureTypeOK, MinuteType
<1>7. LevelsBracketClose'
  BY <1>1, <1>2, <1>4, <1>5 DEF LevelsBracketClose
<1> QED
  BY <1>6, <1>7

-------------------------------------------------------------------------------
(* liquidity_engine.py *)

PoolsInv == PoolsTypeOK /\ PoolIdsUnique /\ PoolsApart

\* Pools that are swept are only removed (evaluate_tick_sweeps).
LEMMA SweepingKeepsPools ==
  ASSUME PoolsInv, pools' \subseteq pools, made' = made
  PROVE  PoolsInv'
BY DEF PoolsInv, PoolsTypeOK, PoolIdsUnique, PoolsApart

\* A pivot repeats the first pool within the tolerance of it, or makes a new one away
\* from all of its side (register_structural_pivot_pool).
LEMMA RegisterKeepsPools ==
  ASSUME PoolsInv, NEW left \in SUBSET pools, NEW buySide \in BOOLEAN, NEW price \in Int,
         Register(left, buySide, price)
  PROVE  PoolsInv'
<1> DEFINE matches == Matches(left, buySide, price)
<1>0. Tolerance \in Nat /\ Offset \in Nat /\ Offset <= Tolerance
  BY PoolAssumption
<1>1. CASE matches # {}
  <2>1. PICK pool \in matches : pools' = (left \ {pool}) \cup {[pool EXCEPT !.touches = @ + 1]}
    BY <1>1 DEF Register, First
  <2>2. made' = made
    BY <1>1 DEF Register
  <2> DEFINE again == [pool EXCEPT !.touches = @ + 1]
  <2>3. pool \in pools /\ pool \in [id : Nat, buySide : BOOLEAN, touches : Nat, ceiling : Int]
    BY DEF Matches, PoolsInv, PoolsTypeOK
  <2>4. /\ again \in [id : Nat, buySide : BOOLEAN, touches : Nat, ceiling : Int]
        /\ again.id = pool.id /\ again.buySide = pool.buySide /\ again.ceiling = pool.ceiling
    BY <2>3
  <2>5. \A p \in pools' : \E o \in pools : /\ o.id = p.id /\ o.buySide = p.buySide /\ o.ceiling = p.ceiling
                                           /\ p # again => o = p
                                           /\ p = again => o = pool
    BY <2>1, <2>3, <2>4
  <2>6. PoolsTypeOK'
    BY <2>1, <2>2, <2>4 DEF PoolsInv, PoolsTypeOK
  <2>7. PoolIdsUnique'
    BY <2>1, <2>2, <2>3, <2>4 DEF PoolsInv, PoolIdsUnique
  <2>8. PoolsApart'
    BY <2>5 DEF PoolsInv, PoolsApart
  <2> QED
    BY <2>6, <2>7, <2>8 DEF PoolsInv
<1>2. CASE matches = {}
  <2> DEFINE new == [id |-> made + 1, buySide |-> buySide, touches |-> 1,
                     ceiling |-> IF buySide THEN price + Offset ELSE price]
  <2>1. pools' = left \cup {new} /\ made' = made + 1
    BY <1>2 DEF Register
  <2>2. made \in Nat /\ \A p \in left : /\ p \in [id : Nat, buySide : BOOLEAN, touches : Nat, ceiling : Int]
                                        /\ p.id <= made
    BY DEF PoolsInv, PoolsTypeOK, PoolIdsUnique
  <2>3. new \in [id : Nat, buySide : BOOLEAN, touches : Nat, ceiling : Int]
    BY <2>2, <1>0
  <2>4. \A p \in left : p.buySide = buySide =>
          price - Tolerance > p.ceiling \/ p.ceiling > price + Tolerance
    <3> SUFFICES ASSUME NEW p \in left, p.buySide = buySide
                 PROVE  price - Tolerance > p.ceiling \/ p.ceiling > price + Tolerance
      OBVIOUS
    <3>1. ~(price - Tolerance <= p.ceiling /\ p.ceiling <= price + Tolerance)
      BY <1>2 DEF Matches
    <3> QED
      BY <3>1, <2>2, <1>0
  <2>5. \A p \in left : p.buySide = new.buySide =>
          LET apart == IF p.buySide THEN Tolerance - Offset ELSE Tolerance
          IN  p.ceiling - new.ceiling > apart \/ new.ceiling - p.ceiling > apart
    BY <2>2, <2>4, <1>0
  <2>6. PoolsTypeOK'
    BY <2>1, <2>2, <2>3 DEF PoolsInv, PoolsTypeOK
  <2>7. PoolIdsUnique'
    BY <2>1, <2>2 DEF PoolsInv, PoolIdsUnique
  <2>8. PoolsApart'
    <3> SUFFICES ASSUME NEW p \in pools', NEW q \in pools', p.id < q.id, p.buySide = q.buySide
                 PROVE  LET apart == IF p.buySide THEN Tolerance - Offset ELSE Tolerance
                        IN  p.ceiling - q.ceiling > apart \/ q.ceiling - p.ceiling > apart
      BY DEF PoolsApart
    <3>1. CASE p \in left /\ q \in left
      BY <3>1 DEF PoolsInv, PoolsApart
    <3>2. CASE p \in left /\ q = new
      BY <3>2, <2>5
    <3>3. p # new
      BY <2>1, <2>2
    <3> QED
      BY <3>1, <3>2, <3>3, <2>1
  <2> QED
    BY <2>6, <2>7, <2>8 DEF PoolsInv
<1> QED
  BY <1>1, <1>2

\* The pivot of three candles, if there is one, is registered.
LEMMA RegisterPivotKeepsPools ==
  ASSUME PoolsInv, NEW left \in SUBSET pools, NEW w \in Seq(MinuteType), RegisterPivot(left, w)
  PROVE  PoolsInv'
<1>1. CASE PivotHigh(w)
  <2>1. w[2].high \in Int
    <3>1. Len(w) = 3
      BY <1>1 DEF PivotHigh
    <3>2. w[2] \in MinuteType
      BY <3>1
    <3> QED
      BY <3>2 DEF MinuteType
  <2>2. Register(left, TRUE, w[2].high)
    BY <1>1 DEF RegisterPivot
  <2> QED
    BY <2>1, <2>2, RegisterKeepsPools
<1>2. CASE ~PivotHigh(w) /\ PivotLow(w)
  <2>1. w[2].low \in Int
    <3>1. Len(w) = 3
      BY <1>2 DEF PivotLow
    <3>2. w[2] \in MinuteType
      BY <3>1
    <3> QED
      BY <3>2 DEF MinuteType
  <2>2. Register(left, FALSE, w[2].low)
    BY <1>2 DEF RegisterPivot
  <2> QED
    BY <2>1, <2>2, RegisterKeepsPools
<1>3. CASE ~PivotHigh(w) /\ ~PivotLow(w)
  <2>1. pools' = left /\ made' = made
    BY <1>3 DEF RegisterPivot
  <2> QED
    BY <2>1, SweepingKeepsPools
<1> QED
  BY <1>1, <1>2, <1>3

-------------------------------------------------------------------------------
(* The two engines inside the detector *)

EnginesInv == StructureTypeOK /\ LevelsBracketClose /\ PoolsInv

LEMMA EnginesStart == Init => EnginesInv
<1> SUFFICES ASSUME Init PROVE EnginesInv
  OBVIOUS
<1>1. StructureTypeOK /\ LevelsBracketClose
  BY DEF Init, StructureInit, StructureTypeOK, LevelsBracketClose
<1>2. PoolsInv
  BY DEF Init, PoolsInit, PoolsInv, PoolsTypeOK, PoolIdsUnique, PoolsApart
<1> QED
  BY <1>1, <1>2 DEF EnginesInv

\* A candle with what is left of the pools, as a live one and as a seeded one.
LEMMA CandleKeepsEngines ==
  ASSUME EnginesInv, NEW k \in MinuteCandles, NEW left \in SUBSET pools,
         StructureIngest(k), RegisterPivot(left, Window(k))
  PROVE  EnginesInv'
<1>1. k \in MinuteType
  BY ClockAssumption DEF MinuteType
<1>2. StructureTypeOK' /\ LevelsBracketClose'
  BY <1>1, IngestBrackets DEF EnginesInv
<1>3. PoolsInv'
  BY <1>1, WindowType, RegisterPivotKeepsPools DEF EnginesInv
<1> QED
  BY <1>2, <1>3 DEF EnginesInv

LEMMA UnchangedKeepsEngines ==
  ASSUME EnginesInv, pools' \subseteq pools, made' = made, UNCHANGED structureVars
  PROVE  EnginesInv'
<1>1. PoolsInv'
  BY SweepingKeepsPools DEF EnginesInv
<1>2. StructureTypeOK' /\ LevelsBracketClose'
  BY DEF EnginesInv, structureVars, StructureTypeOK, LevelsBracketClose
<1> QED
  BY <1>1, <1>2 DEF EnginesInv

LEMMA EnginesStep == EnginesInv /\ [Next]_vars => EnginesInv'
<1> SUFFICES ASSUME EnginesInv, [Next]_vars PROVE EnginesInv'
  OBVIOUS
<1>1. ASSUME NEW price \in Prices, NEW step \in Steps, NEW killzone \in Killzones,
             Tick(price, now + step, killzone)
      PROVE  EnginesInv'
  BY <1>1, UnchangedKeepsEngines DEF Tick
<1>2. ASSUME NEW k \in MinuteCandles, MinuteCandle(k) PROVE EnginesInv'
  BY <1>2, CandleKeepsEngines DEF MinuteCandle
<1>3. ASSUME NEW k \in MinuteCandles, SeedMinute(k) PROVE EnginesInv'
  BY <1>3, CandleKeepsEngines DEF SeedMinute
<1>4. ASSUME NEW close \in HourCloses, HourCandle(close) PROVE EnginesInv'
  BY <1>4, UnchangedKeepsEngines DEF HourCandle, poolVars
<1>5. CASE Drain
  BY <1>5, UnchangedKeepsEngines DEF Drain, poolVars
<1>6. CASE Terminate
  BY <1>6, UnchangedKeepsEngines DEF Terminate, poolVars
<1>7. CASE UNCHANGED vars
  BY <1>7, UnchangedKeepsEngines DEF vars, poolVars
<1> QED
  BY <1>1, <1>2, <1>3, <1>4, <1>5, <1>6, <1>7 DEF Next

LEMMA EnginesHold == Spec => []EnginesInv
BY EnginesStart, EnginesStep, PTL DEF Spec

\* No two pools of a side stand for the same level, whatever the pivots and the ticks
\* (liquidity_engine.py, register_structural_pivot_pool and evaluate_tick_sweeps).
THEOREM PoolsAreApart == Spec => []PoolsApart
<1>1. EnginesInv => PoolsApart
  BY DEF EnginesInv, PoolsInv
<1> QED
  BY <1>1, EnginesHold, PTL

\* The last close lies between the structural levels in force (structure_engine.py,
\* ingest_candle_close).
THEOREM CloseIsBracketed == Spec => []LevelsBracketClose
<1>1. EnginesInv => LevelsBracketClose
  BY DEF EnginesInv
<1> QED
  BY <1>1, EnginesHold, PTL

-------------------------------------------------------------------------------
(* setup_detector.py: what is tracked, and the cooldown it leaves *)

SetupsInv ==
  /\ now \in Nat /\ counter \in Nat
  /\ cooldown \in [Keys \X Sides -> Nat]
  /\ \A s \in setups : /\ s.id \in Nat /\ s.id <= counter /\ s.created \in Nat
                       /\ s.key \in Keys /\ s.dir \in Sides
                       /\ s.created + Cooldown <= cooldown[<<s.key, s.dir>>]
  /\ CooldownHolds /\ TrackedAreFresh

LEMMA SetupsStart == Init => SetupsInv
BY ClockAssumption DEF Init, SetupsInv, CooldownHolds, TrackedAreFresh

\* Fewer setups, and no time passes: every conjunct is about the ones there are.
LEMMA FewerSetups ==
  ASSUME SetupsInv, setups' \subseteq setups, UNCHANGED <<now, cooldown, counter>>
  PROVE  SetupsInv'
BY DEF SetupsInv, CooldownHolds, TrackedAreFresh

\* A tick that queues nothing only lets setups expire.
LEMMA ExpiringKeepsSetups ==
  ASSUME SetupsInv, NEW t \in Nat, now' = t, setups' = Alive(t), UNCHANGED <<cooldown, counter>>
  PROVE  SetupsInv'
BY DEF SetupsInv, CooldownHolds, TrackedAreFresh, Alive

\* The selected setup of a tick, refused by its cooldown or its quality, or tracked and queued
\* (_accept_ict_strategy_selection).
LEMMA AcceptKeepsSetups ==
  ASSUME SetupsInv, NEW t \in Nat, now' = t, NEW best, best.key \in Keys, best.dir \in Sides, Accept(best, t)
  PROVE  SetupsInv'
<1> DEFINE slot == <<best.key, best.dir>>
           refused == t < cooldown[slot] \/ best.score < QualityFloor
           new == [id |-> counter + 1, key |-> best.key, dir |-> best.dir, created |-> t, expires |-> t + Expiry]
<1>0. Cooldown \in Nat /\ Expiry \in Nat /\ Expiry > 0
  BY ClockAssumption
<1>1. CASE refused
  BY <1>1, ExpiringKeepsSetups DEF Accept
<1>2. CASE ~refused
  <2>1. /\ counter' = counter + 1
        /\ setups' = Alive(t) \cup {new}
        /\ cooldown' = [cooldown EXCEPT ![slot] = t + Cooldown]
    BY <1>2 DEF Accept, CooldownUntil
  <2>2. counter \in Nat /\ slot \in Keys \X Sides /\ cooldown \in [Keys \X Sides -> Nat]
    BY DEF SetupsInv
  <2>3. cooldown' \in [Keys \X Sides -> Nat] /\ cooldown'[slot] = t + Cooldown
    BY <2>1, <2>2, <1>0
  <2>4. cooldown[slot] \in Nat /\ cooldown[slot] <= t
    BY <1>2, <2>2
  <2>5. \A x \in Keys \X Sides : x # slot => cooldown'[x] = cooldown[x]
    BY <2>1, <2>2
  <2>6. \A s \in Alive(t) : /\ s.id \in Nat /\ s.id <= counter /\ s.created \in Nat
                            /\ s.key \in Keys /\ s.dir \in Sides
                            /\ s.created + Cooldown <= cooldown[<<s.key, s.dir>>]
    BY DEF SetupsInv, Alive
  <2>7. \A s \in Alive(t) : s.created + Cooldown <= cooldown'[<<s.key, s.dir>>]
    <3> SUFFICES ASSUME NEW s \in Alive(t) PROVE s.created + Cooldown <= cooldown'[<<s.key, s.dir>>]
      OBVIOUS
    <3>1. CASE <<s.key, s.dir>> = slot
      BY <3>1, <2>3, <2>4, <2>6, <1>0
    <3>2. CASE <<s.key, s.dir>> # slot
      BY <3>2, <2>5, <2>6
    <3> QED
      BY <3>1, <3>2
  <2>8. \A s \in setups' : /\ s.id \in Nat /\ s.id <= counter' /\ s.created \in Nat
                           /\ s.key \in Keys /\ s.dir \in Sides
                           /\ s.created + Cooldown <= cooldown'[<<s.key, s.dir>>]
    <3>1. ASSUME NEW s \in Alive(t)
          PROVE  /\ s.id \in Nat /\ s.id <= counter' /\ s.created \in Nat
                 /\ s.key \in Keys /\ s.dir \in Sides
                 /\ s.created + Cooldown <= cooldown'[<<s.key, s.dir>>]
      BY <2>1, <2>2, <2>6, <2>7
    <3>2. /\ new.id \in Nat /\ new.id <= counter' /\ new.created \in Nat
          /\ new.key \in Keys /\ new.dir \in Sides
          /\ new.created + Cooldown <= cooldown'[<<new.key, new.dir>>]
      BY <2>1, <2>2, <2>3, <1>0
    <3> QED
      BY <2>1, <3>1, <3>2
  <2>9. CooldownHolds'
    <3> SUFFICES ASSUME NEW a \in setups', NEW b \in setups', a.key = b.key, a.dir = b.dir, a.id < b.id
                 PROVE  b.created >= a.created + Cooldown
      BY DEF CooldownHolds
    <3>1. CASE a \in Alive(t) /\ b \in Alive(t)
      BY <3>1 DEF SetupsInv, CooldownHolds, Alive
    <3>2. CASE a \in Alive(t) /\ b = new
      <4>1. <<a.key, a.dir>> = slot
        BY <3>2
      <4> QED
        BY <3>2, <4>1, <2>4, <2>6, <1>0
    <3>3. a # new
      BY <2>1, <2>2, <2>6
    <3> QED
      BY <3>1, <3>2, <3>3, <2>1
  <2>10. TrackedAreFresh'
    BY <2>1, <1>0 DEF TrackedAreFresh, Alive
  <2> QED
    BY <2>1, <2>2, <2>3, <2>8, <2>9, <2>10 DEF SetupsInv
<1> QED
  BY <1>1, <1>2

\* The answers of strategies of the library name one of them and a side.
LEMMA AnswersAreOurs ==
  ASSUME NEW eligible \in SUBSET Strategies, NEW found \in Answers(eligible), NEW best \in found
  PROVE  best.key \in Keys /\ best.dir \in Sides
<1>1. PICK s \in eligible, x \in Signals :
        best = [key |-> s.key, priority |-> s.priority, dir |-> x.dir, score |-> x.score, rr |-> x.rr]
  BY DEF Answers
<1> QED
  BY <1>1, ClockAssumption DEF Keys, Sides

LEMMA TickKeepsSetups ==
  ASSUME SetupsInv, NEW price \in Prices, NEW step \in Steps, NEW killzone \in Killzones,
         Tick(price, now + step, killzone)
  PROVE  SetupsInv'
<1> DEFINE t == now + step
           eligible == {s \in Strategies : Eligible(s, killzone, Swept(price))}
<1>1. t \in Nat /\ now' = t
  BY ClockAssumption DEF SetupsInv, Tick
<1>2. CASE minutes > 0 /\ Due(Swept(price), t)
  <2>1. PICK found \in Answers(eligible) :
          IF found = {} THEN setups' = Alive(t) /\ UNCHANGED <<cooldown, candidates, counter>>
          ELSE \E best \in Best(found) : Accept(best, t)
    BY <1>2 DEF Tick
  <2>2. CASE found = {}
    BY <1>1, <2>1, <2>2, ExpiringKeepsSetups
  <2>3. CASE found # {}
    <3>1. PICK best \in Best(found) : Accept(best, t)
      BY <2>1, <2>3
    <3>2. best \in found
      BY DEF Best
    <3>3. best.key \in Keys /\ best.dir \in Sides
      BY <3>2, AnswersAreOurs
    <3> QED
      BY <1>1, <3>1, <3>3, AcceptKeepsSetups
  <2> QED
    BY <2>2, <2>3
<1>3. CASE ~(minutes > 0 /\ Due(Swept(price), t))
  BY <1>1, <1>3, ExpiringKeepsSetups DEF Tick
<1> QED
  BY <1>2, <1>3

LEMMA SetupsStep == SetupsInv /\ [Next]_vars => SetupsInv'
<1> SUFFICES ASSUME SetupsInv, [Next]_vars PROVE SetupsInv'
  OBVIOUS
<1>1. ASSUME NEW price \in Prices, NEW step \in Steps, NEW killzone \in Killzones,
             Tick(price, now + step, killzone)
      PROVE  SetupsInv'
  BY <1>1, TickKeepsSetups
<1>2. ASSUME NEW k \in MinuteCandles, MinuteCandle(k) \/ SeedMinute(k) PROVE SetupsInv'
  BY <1>2, FewerSetups DEF MinuteCandle, SeedMinute
<1>3. ASSUME NEW close \in HourCloses, HourCandle(close) PROVE SetupsInv'
  BY <1>3, FewerSetups DEF HourCandle
<1>4. CASE Drain
  BY <1>4, FewerSetups DEF Drain
<1>5. CASE Terminate
  BY <1>5 DEF Terminate, SetupsInv, CooldownHolds, TrackedAreFresh
<1>6. CASE UNCHANGED vars
  BY <1>6, FewerSetups DEF vars, detectorVars
<1> QED
  BY <1>1, <1>2, <1>3, <1>4, <1>5, <1>6 DEF Next

LEMMA SetupsHold == Spec => []SetupsInv
BY SetupsStart, SetupsStep, PTL DEF Spec

\* A strategy's setup in a direction is never queued twice within the cooldown, though setups
\* expire, are drained and the detector is terminated meanwhile (setup_detector.py,
\* _accept_ict_strategy_selection).
THEOREM CooldownIsKept == Spec => []CooldownHolds
<1>1. SetupsInv => CooldownHolds
  BY DEF SetupsInv
<1> QED
  BY <1>1, SetupsHold, PTL

\* No tracked setup has expired by the last tick (evaluate_invalidation).
THEOREM TrackedStayFresh == Spec => []TrackedAreFresh
<1>1. SetupsInv => TrackedAreFresh
  BY DEF SetupsInv
<1> QED
  BY <1>1, SetupsHold, PTL

-------------------------------------------------------------------------------
(* setup_detector.py, on_tick_received: a sweep is always looked at *)

\* A pool comes from candles the detector still holds, as long as it runs.
PoolsHaveCandles == minutes \in Nat /\ (running => pools = {} \/ minutes > 0)

LEMMA PoolsHaveCandlesStep == PoolsHaveCandles /\ [Next]_vars => PoolsHaveCandles'
<1> SUFFICES ASSUME PoolsHaveCandles, [Next]_vars PROVE PoolsHaveCandles'
  OBVIOUS
<1>0. MaxBars \in Nat /\ MaxBars > 0
  BY ClockAssumption
<1>1. ASSUME NEW price \in Prices, NEW step \in Steps, NEW killzone \in Killzones,
             Tick(price, now + step, killzone)
      PROVE  PoolsHaveCandles'
  BY <1>1 DEF Tick, PoolsHaveCandles
<1>2. ASSUME NEW k \in MinuteCandles, MinuteCandle(k) \/ SeedMinute(k) PROVE PoolsHaveCandles'
  <2>1. minutes' = IF minutes < MaxBars THEN minutes + 1 ELSE minutes
    BY <1>2 DEF MinuteCandle, SeedMinute
  <2> QED
    BY <2>1, <1>0 DEF PoolsHaveCandles
<1>3. ASSUME NEW close \in HourCloses, HourCandle(close) PROVE PoolsHaveCandles'
  BY <1>3 DEF HourCandle, PoolsHaveCandles, poolVars
<1>4. CASE Drain
  BY <1>4 DEF Drain, PoolsHaveCandles, poolVars
<1>5. CASE Terminate
  BY <1>5 DEF Terminate, PoolsHaveCandles
<1>6. CASE UNCHANGED vars
  BY <1>6 DEF vars, detectorVars, poolVars, PoolsHaveCandles
<1> QED
  BY <1>1, <1>2, <1>3, <1>4, <1>5, <1>6 DEF Next

LEMMA SweepStep ==
  ASSUME PoolsHaveCandles, SetupsInv, [Next]_vars
  PROVE  (running /\ now' # now /\ pools' # pools) => lastEvaluation' = {now'}
<1>1. ASSUME NEW price \in Prices, NEW step \in Steps, NEW killzone \in Killzones,
             Tick(price, now + step, killzone), running, pools' # pools
      PROVE  lastEvaluation' = {now'}
  <2>1. pools' = pools \ Swept(price) /\ now' = now + step
    BY <1>1 DEF Tick
  <2>2. Swept(price) # {} /\ pools # {}
    BY <1>1, <2>1 DEF Swept
  <2>3. minutes > 0 /\ Due(Swept(price), now + step)
    BY <1>1, <2>2 DEF Due, PoolsHaveCandles
  <2> QED
    BY <1>1, <2>1, <2>3 DEF Tick
<1>2. ASSUME NEW k \in MinuteCandles, MinuteCandle(k) \/ SeedMinute(k) PROVE now' = now
  BY <1>2 DEF MinuteCandle, SeedMinute
<1>3. ASSUME NEW close \in HourCloses, HourCandle(close) PROVE now' = now
  BY <1>3 DEF HourCandle
<1>4. CASE Drain \/ Terminate \/ UNCHANGED vars
  BY <1>4 DEF Drain, Terminate, vars, detectorVars
<1> QED
  BY <1>1, <1>2, <1>3, <1>4 DEF Next

\* While the detector runs, no tick takes a pool without asking the strategies about it, even
\* within the evaluation interval (on_tick_received).
THEOREM NoSweepIsMissed == Spec => SweepsAreEvaluated
<1>1. Init => PoolsHaveCandles
  BY DEF Init, PoolsInit, PoolsHaveCandles
<1>2. PoolsHaveCandles /\ SetupsInv /\ [Next]_vars
        => [running /\ now' # now /\ pools' # pools => lastEvaluation' = {now'}]_vars
  BY SweepStep
<1> QED
  BY <1>1, <1>2, PoolsHaveCandlesStep, SetupsHold, PTL DEF Spec, SweepsAreEvaluated

-------------------------------------------------------------------------------
(* swing_points.py *)

\* Induction over the numbers up to n, for a set of them
LEMMA CountingUp ==
  ASSUME NEW n \in Nat, NEW T, 0 \in T, \A m \in 0 .. n - 1 : m \in T => m + 1 \in T
  PROVE  \A m \in 0 .. n : m \in T
<1> DEFINE Bad == (0 .. n) \ T
           less == {ss \in Nat \X Nat : ss[1] < ss[2]}
<1> SUFFICES ASSUME Bad # {} PROVE FALSE
  OBVIOUS
<1>1. IsWellFoundedOn(less, Nat)
  BY NatLessThanWellFounded DEF OpToRel
<1>2. Bad \subseteq Nat
  OBVIOUS
<1>3. PICK x \in Bad : \A y \in Bad : <<y, x>> \notin less
  <2> HIDE DEF less, Bad
  <2> QED
    BY <1>1, <1>2, WFMin
<1>4. x # 0 /\ x \in 0 .. n /\ x \in Nat
  OBVIOUS
<1>5. x - 1 \in 0 .. n - 1 /\ x - 1 \in Nat /\ (x - 1) + 1 = x
  BY <1>4
<1>6. x - 1 \notin Bad
  <2>1. <<x - 1, x>> \in less
    BY <1>4, <1>5
  <2> QED
    BY <1>3, <2>1
<1> QED
  BY <1>5, <1>6

SwingType == [kind : Directions, at : Nat, strength : 0 .. 1000]

LEMMA SwingFields == \A s \in SwingType : s.at \in Nat /\ s.strength \in 0 .. 1000 /\ s.kind \in Directions
BY DEF SwingType

LEMMA ItemsAre == ASSUME NEW S, NEW q \in Seq(S) PROVE Len(q) \in Nat /\ \A n \in 1 .. Len(q) : q[n] \in S
OBVIOUS

\* A raw swing, when its candle has one, has that candle's position.
LEMMA RawSwings ==
  ASSUME NEW t, Len(t) \in Nat, NEW d \in Directions, NEW i
  PROVE  /\ RawAt(t, d, i) = {} \/ \E s : RawAt(t, d, i) = {s}
         /\ \A s \in RawAt(t, d, i) : s \in SwingType /\ s.at = i /\ s.kind = d /\ i + RightBars <= Len(t)
<1>1. LeftBars \in Nat /\ RightBars \in Nat
  BY StructureAssumption
<1>2. Strength(t, d, i) \in 0 .. 1000
  <2>1. ReactionScore(t, d, i) \in {0, 50, 100, 200}
    BY DEF ReactionScore, If
  <2>2. ChopPenalty(t, i) \in {0, 50, 150}
    BY DEF ChopPenalty, If
  <2> DEFINE score == 375 + ReactionScore(t, d, i) - ChopPenalty(t, i)
  <2>3. score \in Int
    BY <2>1, <2>2
  <2>4. Strength(t, d, i) = Clamp(score, 0, 1000)
    BY DEF Strength
  <2> HIDE DEF score
  <2>5. Clamp(score, 0, 1000) \in 0 .. 1000
    BY <2>3 DEF Clamp, Larger, Smaller
  <2> QED
    BY <2>4, <2>5
<1>3. ASSUME i \in LeftBars + 1 .. Len(t) - RightBars PROVE i \in Nat /\ i + RightBars <= Len(t)
  BY <1>1, <1>3
<1>4. ASSUME NEW s \in RawAt(t, d, i)
      PROVE  s = [kind |-> d, at |-> i, strength |-> Strength(t, d, i)] /\ i \in LeftBars + 1 .. Len(t) - RightBars
  BY <1>4 DEF RawAt
<1>5. ASSUME NEW s \in RawAt(t, d, i)
      PROVE  s \in SwingType /\ s.at = i /\ s.kind = d /\ i + RightBars <= Len(t)
  <2>1. i \in Nat /\ i + RightBars <= Len(t)
    BY <1>3, <1>4, <1>5
  <2>2. s = [kind |-> d, at |-> i, strength |-> Strength(t, d, i)]
    BY <1>4, <1>5
  <2>3. s \in SwingType
    BY <1>2, <2>1, <2>2 DEF SwingType
  <2> QED
    BY <2>1, <2>2, <2>3
<1>6. RawAt(t, d, i) = {} \/ RawAt(t, d, i) = {[kind |-> d, at |-> i, strength |-> Strength(t, d, i)]}
  BY DEF RawAt
<1> QED
  BY <1>5, <1>6

\* What GapKept says of a list of swings
Apart(swings) == \A n \in 1 .. Len(swings) - 1 : swings[n + 1].at - swings[n].at >= MinCandleGap

\* The rounds keep the swings apart, and in the order of their candles up to candle i.
Filtered(i) == {q \in Seq(SwingType) : Apart(q) /\ \A n \in 1 .. Len(q) : q[n].at <= i}

LEMMA ReplaceLast ==
  ASSUME NEW i \in Nat, NEW q \in Filtered(i), q # <<>>, NEW s \in SwingType,
         s.at >= Last(q).at, s.at <= i
  PROVE  Append(Front(q), s) \in Filtered(i)
<1> PICK n \in Nat : n = Len(q)
  BY DEF Filtered
<1>1. q \in Seq(SwingType) /\ n >= 1 /\ Apart(q) /\ \A k \in 1 .. n : q[k].at <= i
  BY DEF Filtered
<1>2. \A k \in 1 .. n : q[k] \in SwingType /\ q[k].at \in Nat
  BY <1>1, ItemsAre, SwingFields
<1> DEFINE r == Append(Front(q), s)
<1>3. r \in Seq(SwingType) /\ Len(r) = n /\ r[n] = s /\ \A k \in 1 .. n - 1 : r[k] = q[k]
  BY <1>1 DEF Front
<1>4. Last(q) = q[n]
  BY DEF Last
<1> HIDE DEF r
<1>5. ASSUME NEW k \in 1 .. n - 1 PROVE r[k + 1].at - r[k].at >= MinCandleGap
  <2>1. q[k + 1].at - q[k].at >= MinCandleGap
    BY <1>1 DEF Apart
  <2>2. r[k] = q[k] /\ (k + 1 = n \/ k + 1 \in 1 .. n - 1) /\ k \in 1 .. n /\ k + 1 \in 1 .. n
    BY <1>3
  <2>3. r[k + 1].at >= q[k + 1].at
    <3>1. CASE k + 1 = n
      BY <1>3, <1>4, <3>1
    <3>2. CASE k + 1 \in 1 .. n - 1
      BY <1>2, <1>3, <2>2, <3>2
    <3> QED
      BY <2>2, <3>1, <3>2
  <2>4. r[k + 1].at \in Nat /\ MinCandleGap \in Nat
    BY <1>3, <2>2, ItemsAre, SwingFields, StructureAssumption
  <2> QED
    BY <1>2, <2>1, <2>2, <2>3, <2>4
<1>6. ASSUME NEW k \in 1 .. n PROVE r[k].at <= i
  BY <1>1, <1>3
<1>7. Apart(r)
  BY <1>3, <1>5 DEF Apart
<1> QED
  BY <1>3, <1>6, <1>7 DEF Filtered, r

LEMMA AddLast ==
  ASSUME NEW i \in Nat, NEW q \in Filtered(i), NEW s \in SwingType, s.at <= i,
         q = <<>> \/ s.at - Last(q).at >= MinCandleGap
  PROVE  Append(q, s) \in Filtered(i)
<1> PICK n \in Nat : n = Len(q)
  BY DEF Filtered
<1>1. q \in Seq(SwingType) /\ Apart(q) /\ \A k \in 1 .. n : q[k].at <= i
  BY DEF Filtered
<1> DEFINE r == Append(q, s)
<1>2. r \in Seq(SwingType) /\ Len(r) = n + 1 /\ r[n + 1] = s /\ \A k \in 1 .. n : r[k] = q[k]
  BY <1>1
<1>3. n >= 1 => q # <<>> /\ Last(q) = q[n]
  BY <1>1 DEF Last
<1> HIDE DEF r
<1>4. ASSUME NEW k \in 1 .. n PROVE r[k + 1].at - r[k].at >= MinCandleGap
  <2>1. CASE k = n
    BY <1>2, <1>3, <2>1
  <2>2. CASE k \in 1 .. n - 1
    <3>1. q[k + 1].at - q[k].at >= MinCandleGap
      BY <1>1, <2>2 DEF Apart
    <3> QED
      BY <1>2, <2>2, <3>1
  <2> QED
    BY <2>1, <2>2
<1>5. Apart(r)
  BY <1>2, <1>4 DEF Apart
<1>6. ASSUME NEW k \in 1 .. n + 1 PROVE r[k].at <= i
  BY <1>1, <1>2
<1> QED
  BY <1>2, <1>5, <1>6 DEF Filtered, r

LEMMA JoinedStaysFiltered ==
  ASSUME NEW t, NEW i \in Nat, NEW q \in Filtered(i), NEW s \in SwingType, s.at = i
  PROVE  Joined(t, q, s) \in Filtered(i)
<1>1. CASE q = <<>>
  <2>1. Append(q, s) \in Filtered(i)
    <3>1. s.at <= i
      OBVIOUS
    <3> QED
      BY <1>1, <3>1, AddLast
  <2> QED
    BY <1>1, <2>1 DEF Joined
<1>2. CASE q # <<>>
  <2> DEFINE last == Last(q)
  <2>1. last \in SwingType /\ last.at <= s.at /\ last.at \in Nat
    <3>1. Len(q) \in Nat /\ Len(q) \in 1 .. Len(q) /\ q \in Seq(SwingType) /\ q[Len(q)].at <= i
      BY <1>2 DEF Filtered
    <3>2. q[Len(q)] \in SwingType
      BY <3>1, ItemsAre
    <3> QED
      BY <3>1, <3>2, SwingFields DEF Last
  <2> HIDE DEF last
  <2>2. MoreExtreme(t, last, s) \in {last, s} /\ Stronger(last, s) \in {last, s}
    BY DEF MoreExtreme, Stronger
  <2>3. \A x \in {last, s} : Append(Front(q), x) \in Filtered(i)
    BY <1>2, <2>1, ReplaceLast DEF last
  <2>4. WithDistance(t, s, last) \in SwingType /\ WithDistance(t, s, last).at = i
    <3> DEFINE bonus == IF Abs(PriceOf(t, s) - PriceOf(t, last)) >= AtrAt(t, ConfirmedAt(s)) THEN 100
                        ELSE If(4 * Abs(PriceOf(t, s) - PriceOf(t, last)) >= AtrAt(t, ConfirmedAt(s)), 50)
    <3>1. bonus \in {0, 50, 100}
      BY DEF If
    <3>2. WithDistance(t, s, last) = [s EXCEPT !.strength = Clamp(s.strength + bonus, 0, 1000)]
      BY DEF WithDistance, SwingType
    <3> HIDE DEF bonus
    <3>3. Clamp(s.strength + bonus, 0, 1000) \in 0 .. 1000
      BY <3>1 DEF Clamp, Larger, Smaller, SwingType
    <3> QED
      BY <3>2, <3>3 DEF SwingType
  <2>5. CASE s.kind = last.kind
    BY <1>2, <2>2, <2>3, <2>5 DEF Joined, last
  <2>6. CASE s.kind # last.kind /\ s.at - last.at < MinCandleGap
    BY <1>2, <2>2, <2>3, <2>6 DEF Joined, last
  <2>7. CASE s.kind # last.kind /\ ~(s.at - last.at < MinCandleGap)
    <3>1. MinCandleGap \in Nat
      BY StructureAssumption
    <3>2. i - last.at >= MinCandleGap
      BY <2>1, <2>7, <3>1
    <3>3. Append(q, WithDistance(t, s, last)) \in Filtered(i)
      BY <2>4, <3>2, AddLast DEF last
    <3> QED
      BY <1>2, <2>7, <3>3 DEF Joined, last
  <2> QED
    BY <2>5, <2>6, <2>7
<1> QED
  BY <1>1, <1>2

LEMMA RoundStaysFiltered ==
  ASSUME NEW t, Len(t) \in Nat, NEW i \in Nat, NEW d \in Directions, NEW q \in Filtered(i)
  PROVE  Round(t, q, RawAt(t, d, i)) \in Filtered(i)
<1>1. CASE RawAt(t, d, i) = {}
  BY <1>1 DEF Round
<1>2. CASE RawAt(t, d, i) # {}
  <2>1. The(RawAt(t, d, i)) \in RawAt(t, d, i)
    BY <1>2 DEF The
  <2>2. The(RawAt(t, d, i)) \in SwingType /\ The(RawAt(t, d, i)).at = i
    BY <2>1, RawSwings
  <2> QED
    BY <1>2, <2>2, JoinedStaysFiltered DEF Round
<1> QED
  BY <1>1, <1>2

\* The loop of _filter_and_rescore over a whole tape
LEMMA DetectedAreFiltered ==
  ASSUME NEW t, Len(t) \in Nat
  PROVE  Detected(t) \in Filtered(Len(t))
<1> DEFINE n == Len(t)
           Good(f, m) == f = [i \in 0 .. m |-> IF i = 0 THEN <<>> ELSE Rounds(t, f[i - 1], i)]
           T == {m \in 0 .. n : \E f : Good(f, m)}
           upTo == CHOOSE f : Good(f, n)
<1> PICK len \in Nat : len = n
  OBVIOUS
<1>1. 0 \in T
  <2>1. Good([i \in 0 .. 0 |-> <<>>], 0)
    OBVIOUS
  <2>2. \E f : Good(f, 0)
    <3> HIDE DEF Good
    <3> QED
      BY <2>1
  <2> QED
    BY <2>2
<1>2. ASSUME NEW m \in 0 .. n - 1, m \in T PROVE m + 1 \in T
  <2>1. PICK f : Good(f, m)
    BY <1>2
  <2> DEFINE g == [i \in 0 .. m + 1 |-> IF i = m + 1 THEN Rounds(t, f[m], i) ELSE f[i]]
  <2>2. \A i \in 0 .. m : g[i] = f[i]
    OBVIOUS
  <2>3. ASSUME NEW i \in 0 .. m + 1 PROVE g[i] = IF i = 0 THEN <<>> ELSE Rounds(t, g[i - 1], i)
    <3>1. CASE i = m + 1
      <4>1. i # 0 /\ i - 1 = m /\ m \in 0 .. m
        BY <3>1
      <4>2. g[i] = Rounds(t, f[m], i)
        BY <3>1
      <4> QED
        BY <2>2, <4>1, <4>2
    <3>2. CASE i \in 0 .. m
      <4>1. f[i] = IF i = 0 THEN <<>> ELSE Rounds(t, f[i - 1], i)
        BY <2>1, <3>2
      <4>2. i # 0 => i - 1 \in 0 .. m
        BY <3>2
      <4> HIDE DEF g
      <4> QED
        BY <2>2, <3>2, <4>1, <4>2
    <3> QED
      BY <3>1, <3>2
  <2>4. Good(g, m + 1)
    <3>1. g = [i \in 0 .. m + 1 |-> g[i]]
      OBVIOUS
    <3> HIDE DEF g
    <3> QED
      BY <2>3, <3>1
  <2>5. \E f1 : Good(f1, m + 1)
    <3> HIDE DEF Good, g
    <3> QED
      BY <2>4
  <2> QED
    BY <2>5
<1>3. n \in T
  <2> HIDE DEF T
  <2> QED
    BY <1>1, <1>2, CountingUp, n \in 0 .. n
<1>4. Good(upTo, n)
  BY <1>3
<1>5. Detected(t) = upTo[n]
  BY DEF Detected
<1>6. \A i \in 0 .. n : upTo[i] = IF i = 0 THEN <<>> ELSE Rounds(t, upTo[i - 1], i)
  BY <1>4
<1> HIDE DEF upTo
<1> DEFINE K == {m \in 0 .. n : upTo[m] \in Filtered(m)}
<1>7. 0 \in K
  <2>1. upTo[0] = <<>>
    BY <1>6
  <2>2. <<>> \in Filtered(0)
    BY DEF Filtered, Apart
  <2> QED
    BY <2>1, <2>2
<1>8. ASSUME NEW m \in 0 .. n - 1, m \in K PROVE m + 1 \in K
  <2>1. m \in Nat /\ m + 1 \in 0 .. n /\ m + 1 # 0 /\ (m + 1) - 1 = m
    OBVIOUS
  <2>2. upTo[m + 1] = Rounds(t, upTo[m], m + 1)
    BY <1>6, <2>1
  <2>3. upTo[m] \in Filtered(m + 1)
    <3>1. upTo[m] \in Filtered(m)
      BY <1>8
    <3>2. \A k \in 1 .. Len(upTo[m]) : upTo[m][k].at \in Nat
      BY <3>1, ItemsAre, SwingFields DEF Filtered
    <3> QED
      BY <2>1, <3>1, <3>2 DEF Filtered
  <2>4. Round(t, upTo[m], RawAt(t, 1, m + 1)) \in Filtered(m + 1)
    BY <2>1, <2>3, RoundStaysFiltered DEF Directions
  <2>5. Rounds(t, upTo[m], m + 1) \in Filtered(m + 1)
    BY <2>1, <2>4, RoundStaysFiltered DEF Directions, Rounds
  <2> QED
    BY <2>1, <2>2, <2>5
<1>9. n \in K
  <2> HIDE DEF K
  <2> QED
    BY <1>7, <1>8, CountingUp, n \in 0 .. n
<1> QED
  BY <1>5, <1>9

\* The tape grows by one candle at a time.
TapeInv == script \in DOMAIN Scripts /\ tape \in Seq(CandleType)

LEMMA NextCandle == ASSUME TapeInv, CandleCloses PROVE \E k \in CandleType : tape' = Append(tape, k)
<1>1. script \in DOMAIN Scripts /\ Scripts[script] \in Seq(SUBSET CandleType) /\ tape \in Seq(CandleType)
  BY StructureAssumption DEF TapeInv
<1>2. Len(tape) + 1 \in 1 .. Len(Scripts[script]) /\ Len(tape) \in Nat
  BY <1>1 DEF CandleCloses
<1>3. Scripts[script][Len(tape) + 1] \subseteq CandleType
  BY <1>1, <1>2
<1> QED
  BY <1>3 DEF CandleCloses

LEMMA TapeHolds == TapeSpec => []TapeInv
<1>1. TapeInit => TapeInv
  BY DEF TapeInit, TapeInv
<1>2. TapeInv /\ [TapeNext]_tapeVars => TapeInv'
  <2> SUFFICES ASSUME TapeInv, CandleCloses PROVE TapeInv'
    BY DEF TapeNext, tapeVars, TapeInv
  <2> QED
    BY NextCandle DEF CandleCloses, TapeInv
<1> QED
  BY <1>1, <1>2, PTL DEF TapeSpec

\* However accepted swings replace each other on whatever tape, and whatever the strengths and
\* the bars of a swing are, two that stand side by side are min_candle_gap apart
\* (_filter_and_rescore).
THEOREM SwingsStayApart == TapeSpec => []SwingsKeepTheirGap
<1>1. TapeInv => SwingsKeepTheirGap
  <2> SUFFICES ASSUME TapeInv PROVE SwingsKeepTheirGap
    OBVIOUS
  <2>1. Len(tape) \in Nat
    BY DEF TapeInv
  <2>2. Apart(Detected(tape))
    BY <2>1, DetectedAreFiltered DEF Filtered
  <2> QED
    BY <2>2 DEF SwingsKeepTheirGap, GapKept, Apart
<1> QED
  BY <1>1, TapeHolds, PTL

-------------------------------------------------------------------------------
(* break_of_structure.py, change_of_character.py *)

\* detect of the BOS detector, candle by candle
BreaksUpTo(f, t, swings) ==
  /\ f[0] = {} /\ f[Len(t)] = BOS!Events(t, swings)
  /\ \A i \in 1 .. Len(t) : f[i] = f[i - 1] \cup BOS!EventsAt(t, swings, f[i - 1], i)

LEMMA BreaksOneByOne ==
  ASSUME NEW t, Len(t) \in Nat, NEW swings
  PROVE  \E f : BreaksUpTo(f, t, swings)
<1> DEFINE n == Len(t)
           Good(f, m) == f = [i \in 0 .. m |-> IF i = 0 THEN {} ELSE f[i - 1] \cup BOS!EventsAt(t, swings, f[i - 1], i)]
           T == {m \in 0 .. n : \E f : Good(f, m)}
           upTo == CHOOSE f : Good(f, n)
<1>1. 0 \in T
  <2>1. Good([i \in 0 .. 0 |-> {}], 0)
    OBVIOUS
  <2>2. \E f : Good(f, 0)
    <3> HIDE DEF Good
    <3> QED
      BY <2>1
  <2> QED
    BY <2>2
<1>2. ASSUME NEW m \in 0 .. n - 1, m \in T PROVE m + 1 \in T
  <2>1. PICK f : Good(f, m)
    BY <1>2
  <2> DEFINE g == [i \in 0 .. m + 1 |-> IF i = m + 1 THEN f[m] \cup BOS!EventsAt(t, swings, f[m], i) ELSE f[i]]
  <2>2. \A i \in 0 .. m : g[i] = f[i]
    OBVIOUS
  <2>3. ASSUME NEW i \in 0 .. m + 1
        PROVE  g[i] = IF i = 0 THEN {} ELSE g[i - 1] \cup BOS!EventsAt(t, swings, g[i - 1], i)
    <3>1. CASE i = m + 1
      <4>1. i # 0 /\ i - 1 = m /\ m \in 0 .. m
        BY <3>1
      <4>2. g[i] = f[m] \cup BOS!EventsAt(t, swings, f[m], i)
        BY <3>1
      <4> QED
        BY <2>2, <4>1, <4>2
    <3>2. CASE i \in 0 .. m
      <4>1. f[i] = IF i = 0 THEN {} ELSE f[i - 1] \cup BOS!EventsAt(t, swings, f[i - 1], i)
        BY <2>1, <3>2
      <4>2. i # 0 => i - 1 \in 0 .. m
        BY <3>2
      <4> HIDE DEF g
      <4> QED
        BY <2>2, <3>2, <4>1, <4>2
    <3> QED
      BY <3>1, <3>2
  <2>4. Good(g, m + 1)
    <3>1. g = [i \in 0 .. m + 1 |-> g[i]]
      OBVIOUS
    <3> HIDE DEF g
    <3> QED
      BY <2>3, <3>1
  <2>5. \E f1 : Good(f1, m + 1)
    <3> HIDE DEF Good, g
    <3> QED
      BY <2>4
  <2> QED
    BY <2>5
<1>3. n \in T
  <2> HIDE DEF T
  <2> QED
    BY <1>1, <1>2, CountingUp, n \in 0 .. n
<1>4. Good(upTo, n)
  BY <1>3
<1>5. BOS!Events(t, swings) = upTo[n]
  BY DEF BOS!Events
<1>6. \A i \in 0 .. n : upTo[i] = IF i = 0 THEN {} ELSE upTo[i - 1] \cup BOS!EventsAt(t, swings, upTo[i - 1], i)
  BY <1>4
<1> HIDE DEF upTo
<1>7. 0 \in 0 .. n /\ \A i \in 1 .. n : i \in 0 .. n /\ i # 0
  OBVIOUS
<1> QED
  BY <1>5, <1>6, <1>7 DEF BreaksUpTo

\* ... and of the CHoCH detector
WarningsUpTo(f, t, swings) ==
  /\ f[0] = {} /\ f[Len(t)] = CHC!Warnings(t, swings)
  /\ \A i \in 1 .. Len(t) : f[i] = f[i - 1] \cup CHC!WarningsAt(t, swings, f[i - 1], i)

LEMMA WarningsOneByOne ==
  ASSUME NEW t, Len(t) \in Nat, NEW swings
  PROVE  \E f : WarningsUpTo(f, t, swings)
<1> DEFINE n == Len(t)
           Good(f, m) == f = [i \in 0 .. m |-> IF i = 0 THEN {} ELSE f[i - 1] \cup CHC!WarningsAt(t, swings, f[i - 1], i)]
           T == {m \in 0 .. n : \E f : Good(f, m)}
           upTo == CHOOSE f : Good(f, n)
<1>1. 0 \in T
  <2>1. Good([i \in 0 .. 0 |-> {}], 0)
    OBVIOUS
  <2>2. \E f : Good(f, 0)
    <3> HIDE DEF Good
    <3> QED
      BY <2>1
  <2> QED
    BY <2>2
<1>2. ASSUME NEW m \in 0 .. n - 1, m \in T PROVE m + 1 \in T
  <2>1. PICK f : Good(f, m)
    BY <1>2
  <2> DEFINE g == [i \in 0 .. m + 1 |-> IF i = m + 1 THEN f[m] \cup CHC!WarningsAt(t, swings, f[m], i) ELSE f[i]]
  <2>2. \A i \in 0 .. m : g[i] = f[i]
    OBVIOUS
  <2>3. ASSUME NEW i \in 0 .. m + 1
        PROVE  g[i] = IF i = 0 THEN {} ELSE g[i - 1] \cup CHC!WarningsAt(t, swings, g[i - 1], i)
    <3>1. CASE i = m + 1
      <4>1. i # 0 /\ i - 1 = m /\ m \in 0 .. m
        BY <3>1
      <4>2. g[i] = f[m] \cup CHC!WarningsAt(t, swings, f[m], i)
        BY <3>1
      <4> QED
        BY <2>2, <4>1, <4>2
    <3>2. CASE i \in 0 .. m
      <4>1. f[i] = IF i = 0 THEN {} ELSE f[i - 1] \cup CHC!WarningsAt(t, swings, f[i - 1], i)
        BY <2>1, <3>2
      <4>2. i # 0 => i - 1 \in 0 .. m
        BY <3>2
      <4> HIDE DEF g
      <4> QED
        BY <2>2, <3>2, <4>1, <4>2
    <3> QED
      BY <3>1, <3>2
  <2>4. Good(g, m + 1)
    <3>1. g = [i \in 0 .. m + 1 |-> g[i]]
      OBVIOUS
    <3> HIDE DEF g
    <3> QED
      BY <2>3, <3>1
  <2>5. \E f1 : Good(f1, m + 1)
    <3> HIDE DEF Good, g
    <3> QED
      BY <2>4
  <2> QED
    BY <2>5
<1>3. n \in T
  <2> HIDE DEF T
  <2> QED
    BY <1>1, <1>2, CountingUp, n \in 0 .. n
<1>4. Good(upTo, n)
  BY <1>3
<1>5. CHC!Warnings(t, swings) = upTo[n]
  BY DEF CHC!Warnings
<1>6. \A i \in 0 .. n : upTo[i] = IF i = 0 THEN {} ELSE upTo[i - 1] \cup CHC!WarningsAt(t, swings, upTo[i - 1], i)
  BY <1>4
<1> HIDE DEF upTo
<1>7. 0 \in 0 .. n /\ \A i \in 1 .. n : i \in 0 .. n /\ i # 0
  OBVIOUS
<1> QED
  BY <1>5, <1>6, <1>7 DEF WarningsUpTo

LEMMA Greatest ==
  ASSUME NEW S, S # {}, \E n \in Nat : S \subseteq 0 .. n
  PROVE  \E m \in S : \A x \in S : x <= m
<1> PICK n \in Nat : S \subseteq 0 .. n
  OBVIOUS
<1> DEFINE T == {m \in 0 .. n : (\A x \in S : x > m) \/ \E y \in S : y <= m /\ \A x \in S : x <= m => x <= y}
<1>1. 0 \in T
  OBVIOUS
<1>2. ASSUME NEW m \in 0 .. n - 1, m \in T PROVE m + 1 \in T
  <2>1. CASE m + 1 \in S
    BY <2>1
  <2>2. CASE m + 1 \notin S
    BY <1>2, <2>2
  <2> QED
    BY <2>1, <2>2
<1>3. n \in T
  <2> HIDE DEF T
  <2> QED
    BY <1>1, <1>2, CountingUp, n \in 0 .. n
<1>4. \A x \in S : x <= n /\ x \in Nat
  OBVIOUS
<1>5. PICK y \in S : y <= n /\ \A x \in S : x <= n => x <= y
  <2>1. ~ \A x \in S : x > n
    <3>1. PICK z \in S : TRUE
      OBVIOUS
    <3>2. z <= n /\ z \in Nat
      BY <1>4
    <3> QED
      BY <3>2
  <2>2. (\A x \in S : x > n) \/ \E y \in S : y <= n /\ \A x \in S : x <= n => x <= y
    BY <1>3
  <2> QED
    BY <2>1, <2>2
<1> QED
  BY <1>4, <1>5

\* The best score there is, in hundredths
TopScore == 1000
Scores == 0 .. TopScore

LEMMA BestScore ==
  ASSUME NEW S, S # {}, S \subseteq Scores
  PROVE  \E m \in S : \A x \in S : x <= m
<1>1. TopScore \in Nat
  BY DEF TopScore
<1>2. \E most \in Nat : S \subseteq 0 .. most
  BY <1>1 DEF Scores
<1> QED
  BY <1>2, Greatest

\* What _latest_valid_swing compares in the swings c
Ranked(c, n) == \A s \in c : s.known \in 0 .. n /\ s.strength \in 0 .. 1000

\* It finds one wherever there is a candidate.
LEMMA LatestIsCandidate ==
  ASSUME NEW n \in Nat, NEW c, c # {}, Ranked(c, n)
  PROVE  BOS!LatestOf(c) \in c
<1>1. PICK k : k \in {s.known : s \in c} /\ \A x \in {s.known : s \in c} : x <= k
  <2> DEFINE S == {s.known : s \in c}
  <2>1. S \in SUBSET (0 .. n) /\ S # {}
    BY DEF Ranked
  <2> HIDE DEF S
  <2>2. \E m \in S : \A x \in S : x <= m
    <3>1. S # {} /\ \E most \in Nat : S \subseteq 0 .. most
      BY <2>1
    <3> QED
      BY <3>1, Greatest
  <2> QED
    BY <2>2 DEF S
<1> DEFINE last == {s \in c : s.known = k}
<1>2. last # {} /\ last \subseteq c
  BY <1>1
<1>3. PICK w \in {s.strength : s \in last} : \A x \in {s.strength : s \in last} : x <= w
  <2> DEFINE S == {s.strength : s \in last}
  <2>1. S # {} /\ S \subseteq Scores
    BY <1>2 DEF Ranked, Scores, TopScore
  <2> HIDE DEF S, last
  <2>2. \E m \in S : \A x \in S : x <= m
    BY <2>1, BestScore
  <2> QED
    BY <2>2 DEF S
<1>4. PICK s \in last : s.strength = w
  BY <1>3
<1>5. s \in c /\ \A x \in c : x.known < s.known \/ (x.known = s.known /\ x.strength <= s.strength)
  <2> SUFFICES ASSUME NEW x \in c PROVE x.known < s.known \/ (x.known = s.known /\ x.strength <= s.strength)
    BY <1>2
  <2>1. x.known <= k /\ x.known \in Int /\ s.known = k /\ k \in Int
    BY <1>1 DEF Ranked
  <2>2. x.known = k => x.strength <= s.strength
    BY <1>3, <1>4
  <2> QED
    BY <2>1, <2>2
<1> HIDE DEF last
<1> QED
  BY <1>5 DEF BOS!LatestOf

\* The breaks of one candle, each of a swing that no close has broken
LEMMA BreaksOfCandle ==
  ASSUME NEW n \in Nat, NEW swings, Ranked(swings, n),
         NEW t, NEW before, NEW i
  PROVE  \A e \in BOS!EventsAt(t, swings, before, i) :
           /\ e.at = i /\ e.dir \in Directions /\ e.swing \in swings /\ e.swing.kind = e.dir
           /\ e.swing \notin BOS!Broken(before)
           /\ \A x \in BOS!EventsAt(t, swings, before, i) : x.dir = e.dir => x = e
<1> DEFINE C(d) == BOS!Candidates(swings, d, i, BOS!Broken(before))
           Of(d) == IF C(d) = {} THEN {} ELSE BOS!BreakAt(t, d, i, BOS!LatestOf(C(d)))
<1>1. BOS!EventsAt(t, swings, before, i) = Of(1) \cup Of(-1)
  BY DEF BOS!EventsAt
<1>2. ASSUME NEW d \in Directions, NEW e \in Of(d)
      PROVE  /\ e.at = i /\ e.dir = d /\ e.swing \in C(d)
             /\ \A x \in Of(d) : x = e
  <2>1. C(d) # {}
    BY <1>2
  <2>2. Ranked(C(d), n)
    BY DEF BOS!Candidates, Ranked
  <2> DEFINE latest == BOS!LatestOf(C(d))
  <2>3. latest \in C(d)
    <3> HIDE DEF C
    <3> QED
      BY <2>1, <2>2, LatestIsCandidate
  <2>4. Of(d) = BOS!BreakAt(t, d, i, latest)
    BY <2>1
  <2> HIDE DEF latest, C, Of
  <2>5. \A x \in BOS!BreakAt(t, d, i, latest) : x.at = i /\ x.dir = d /\ x.swing = latest
    BY DEF BOS!BreakAt
  <2>6. \A x, y \in BOS!BreakAt(t, d, i, latest) : x = y
    BY DEF BOS!BreakAt
  <2> QED
    BY <1>2, <2>3, <2>4, <2>5, <2>6
<1>3. \A d \in Directions : \A s \in C(d) : s \in swings /\ s.kind = d /\ s \notin BOS!Broken(before)
  BY DEF BOS!Candidates
<1> HIDE DEF C, Of
<1>4. \A e \in Of(1) \cup Of(-1) : \E d \in Directions : e \in Of(d)
  BY DEF Directions
<1>5. \A d \in Directions, e \in Of(1) \cup Of(-1) : e.dir = d => e \in Of(d)
  BY <1>2, <1>4
<1> SUFFICES ASSUME NEW e \in Of(1) \cup Of(-1)
             PROVE  /\ e.at = i /\ e.dir \in Directions /\ e.swing \in swings /\ e.swing.kind = e.dir
                    /\ e.swing \notin BOS!Broken(before)
                    /\ \A x \in Of(1) \cup Of(-1) : x.dir = e.dir => x = e
  BY <1>1
<1>6. PICK d \in Directions : e \in Of(d)
  BY <1>4
<1>7. e.at = i /\ e.dir = d /\ e.swing \in C(d) /\ \A x \in Of(d) : x = e
  BY <1>2, <1>6
<1> QED
  BY <1>3, <1>5, <1>7

\* Each swing is broken by one close at most, whatever swings the caller hands in.
LEMMA SwingBreaksOnce ==
  ASSUME NEW t, Len(t) \in Nat, NEW end \in Nat,
         NEW swings, Ranked(swings, end)
  PROVE  BOS!BrokenOnce(t, swings)
<1> PICK n \in Nat : n = Len(t)
  OBVIOUS
<1> PICK f : BreaksUpTo(f, t, swings)
  BY BreaksOneByOne
<1>1. /\ f[0] = {} /\ f[n] = BOS!Events(t, swings)
      /\ \A i \in 1 .. n : f[i] = f[i - 1] \cup BOS!EventsAt(t, swings, f[i - 1], i)
  BY DEF BreaksUpTo
<1> DEFINE Once(events) == \A a, b \in events : (a.closed /\ b.closed /\ a.swing = b.swing) => a = b
           T == {m \in 0 .. n : Once(f[m])}
<1>2. 0 \in T
  BY <1>1
<1>3. ASSUME NEW m \in 0 .. n - 1, m \in T PROVE m + 1 \in T
  <2> DEFINE new == BOS!EventsAt(t, swings, f[m], m + 1)
  <2>1. m + 1 \in 1 .. n /\ (m + 1) - 1 = m
    OBVIOUS
  <2>2. f[m + 1] = f[m] \cup new
    BY <1>1, <2>1
  <2>3. \A e \in new : /\ e.swing.kind = e.dir /\ e.swing \notin BOS!Broken(f[m])
                       /\ \A x \in new : x.dir = e.dir => x = e
    BY BreaksOfCandle
  <2>4. \A a \in f[m] : a.closed => a.swing \in BOS!Broken(f[m])
    BY DEF BOS!Broken
  <2> HIDE DEF new
  <2>5. Once(f[m] \cup new)
    <3> SUFFICES ASSUME NEW a \in f[m] \cup new, NEW b \in f[m] \cup new,
                        a.closed, b.closed, a.swing = b.swing
                 PROVE  a = b
      OBVIOUS
    <3>1. CASE a \in f[m] /\ b \in f[m]
      BY <1>3, <3>1
    <3>2. CASE a \in new /\ b \in new
      BY <2>3, <3>2
    <3>3. CASE a \in f[m] /\ b \in new
      BY <2>3, <2>4, <3>3
    <3>4. CASE a \in new /\ b \in f[m]
      BY <2>3, <2>4, <3>4
    <3> QED
      BY <3>1, <3>2, <3>3, <3>4
  <2> QED
    BY <2>1, <2>2, <2>5
<1>4. n \in T
  <2> HIDE DEF T
  <2> QED
    <3> HIDE DEF Once
    <3> QED
      BY <1>2, <1>3, CountingUp, n \in 0 .. n
<1> QED
  BY <1>1, <1>4 DEF BOS!BrokenOnce

\* Each swing warns once, by its wick or by its close.
LEMMA SwingWarnsOnce ==
  ASSUME NEW t, Len(t) \in Nat, NEW swings
  PROVE  CHC!WarnedOnce(t, swings)
<1> PICK n \in Nat : n = Len(t)
  OBVIOUS
<1> PICK f : WarningsUpTo(f, t, swings)
  BY WarningsOneByOne
<1>1. /\ f[0] = {} /\ f[n] = CHC!Warnings(t, swings)
      /\ \A i \in 1 .. n : f[i] = f[i - 1] \cup CHC!WarningsAt(t, swings, f[i - 1], i)
  BY DEF WarningsUpTo
<1> DEFINE Once(events) == \A a, b \in events : a.swing = b.swing => a = b
           T == {m \in 0 .. n : Once(f[m])}
<1>2. 0 \in T
  BY <1>1
<1>3. ASSUME NEW m \in 0 .. n - 1, m \in T PROVE m + 1 \in T
  <2> DEFINE new == CHC!WarningsAt(t, swings, f[m], m + 1)
  <2>1. m + 1 \in 1 .. n /\ (m + 1) - 1 = m
    OBVIOUS
  <2>2. f[m + 1] = f[m] \cup new
    BY <1>1, <2>1
  <2>3. \A e \in new : e.swing.kind = e.dir /\ e.swing \notin CHC!Used(f[m])
    BY DEF CHC!WarningsAt, CHC!Latest
  <2>4. \A a, b \in new : (a.swing = b.swing /\ a.dir = b.dir) => a = b
    BY DEF CHC!WarningsAt
  <2>5. \A a \in f[m] : a.swing \in CHC!Used(f[m])
    BY DEF CHC!Used
  <2> HIDE DEF new
  <2>6. Once(f[m] \cup new)
    <3> SUFFICES ASSUME NEW a \in f[m] \cup new, NEW b \in f[m] \cup new, a.swing = b.swing PROVE a = b
      OBVIOUS
    <3>1. CASE a \in f[m] /\ b \in f[m]
      BY <1>3, <3>1
    <3>2. CASE a \in new /\ b \in new
      BY <2>3, <2>4, <3>2
    <3>3. CASE a \in f[m] /\ b \in new
      BY <2>3, <2>5, <3>3
    <3>4. CASE a \in new /\ b \in f[m]
      BY <2>3, <2>5, <3>4
    <3> QED
      BY <3>1, <3>2, <3>3, <3>4
  <2> QED
    BY <2>1, <2>2, <2>6
<1>4. n \in T
  <2> HIDE DEF T
  <2> QED
    <3> HIDE DEF Once
    <3> QED
      BY <1>2, <1>3, CountingUp, n \in 0 .. n
<1> QED
  BY <1>1, <1>4 DEF CHC!WarnedOnce

\* On whatever tape, a swing the detector accepted is broken by one close at most, and warns
\* once: what has used it up is not asked again (broken_swing_keys, used_swing_keys).
THEOREM SwingsAnswerOnlyOnce == TapeSpec => []SwingsAnswerOnce
<1>1. TapeInv => SwingsAnswerOnce
  <2> SUFFICES ASSUME TapeInv PROVE SwingsAnswerOnce
    OBVIOUS
  <2>1. PICK len \in Nat : len = Len(tape)
    BY DEF TapeInv
  <2>2. RightBars \in Nat
    BY StructureAssumption
  <2>3. Detected(tape) \in Filtered(len)
    BY <2>1, DetectedAreFiltered
  <2>4. \A s \in ToSet(Detected(tape)) : s \in SwingType /\ s.at <= len
    <3>1. Detected(tape) \in Seq(SwingType) /\ \A n \in 1 .. Len(Detected(tape)) : Detected(tape)[n].at <= len
      BY <2>3 DEF Filtered
    <3>2. DOMAIN Detected(tape) = 1 .. Len(Detected(tape))
      BY <3>1
    <3> QED
      BY <3>1, <3>2, ItemsAre DEF ToSet
  <2>5. \A s \in Accepted(tape) : s.known \in 0 .. len + RightBars /\ s.strength \in 0 .. 1000
    <3> SUFFICES ASSUME NEW s \in ToSet(Detected(tape))
                 PROVE  ConfirmedAt(s) \in 0 .. len + RightBars /\ s.strength \in 0 .. 1000
      BY DEF Accepted, Level
    <3>1. s.at \in Nat /\ s.at <= len /\ s.strength \in 0 .. 1000
      BY <2>4, SwingFields
    <3> QED
      BY <2>2, <3>1 DEF ConfirmedAt
  <2>6. BOS!BrokenOnce(tape, Accepted(tape))
    <3> PICK end \in Nat : end = len + RightBars
      BY <2>2
    <3>1. Ranked(Accepted(tape), end)
      BY <2>5 DEF Ranked
    <3> QED
      BY <2>1, <3>1, SwingBreaksOnce
  <2>7. CHC!WarnedOnce(tape, Accepted(tape))
    BY <2>1, SwingWarnsOnce
  <2> QED
    BY <2>6, <2>7 DEF SwingsAnswerOnce
<1> QED
  BY <1>1, TapeHolds, PTL

-------------------------------------------------------------------------------
(* The answers to a tape with one more candle *)

\* later goes on where t ends.
Prefix(t, later) ==
  /\ Len(later) = Len(t) + 1
  /\ \A j \in 1 .. Len(t) : later[j] = t[j]
  /\ \A j \in 1 .. Len(t) : SubSeq(later, 1, j) = SubSeq(t, 1, j)

LEMMA AsBefore ==
  ASSUME NEW t \in Seq(CandleType), NEW k \in CandleType
  PROVE  Prefix(t, Append(t, k))
<1> PICK n \in Nat : n = Len(t)
  OBVIOUS
<1> DEFINE later == Append(t, k)
<1>1. later \in Seq(CandleType) /\ Len(later) = n + 1 /\ \A j \in 1 .. n : later[j] = t[j]
  OBVIOUS
<1> HIDE DEF later
<1>2. ASSUME NEW j \in 1 .. n PROVE SubSeq(later, 1, j) = SubSeq(t, 1, j)
  <2>1. SubSeq(later, 1, j) = [m \in 1 .. j |-> later[m]] /\ SubSeq(t, 1, j) = [m \in 1 .. j |-> t[m]]
    BY <1>1
  <2>2. \A m \in 1 .. j : later[m] = t[m]
    BY <1>1
  <2> QED
    BY <2>1, <2>2
<1> QED
  BY <1>1, <1>2 DEF Prefix, later

LEMMA BreaksAreOfTheTape ==
  ASSUME NEW t, Len(t) \in Nat, NEW swings
  PROVE  \A e \in BOS!Events(t, swings) : e.at \in 1 .. Len(t)
<1> PICK n \in Nat : n = Len(t)
  OBVIOUS
<1> PICK f : BreaksUpTo(f, t, swings)
  BY BreaksOneByOne
<1>1. /\ f[0] = {} /\ f[n] = BOS!Events(t, swings)
      /\ \A i \in 1 .. n : f[i] = f[i - 1] \cup BOS!EventsAt(t, swings, f[i - 1], i)
  BY DEF BreaksUpTo
<1> DEFINE T == {m \in 0 .. n : \A e \in f[m] : e.at \in 1 .. n}
<1>2. 0 \in T
  BY <1>1
<1>3. ASSUME NEW m \in 0 .. n - 1, m \in T PROVE m + 1 \in T
  <2>1. m + 1 \in 1 .. n /\ (m + 1) - 1 = m
    OBVIOUS
  <2>2. f[m + 1] = f[m] \cup BOS!EventsAt(t, swings, f[m], m + 1)
    BY <1>1, <2>1
  <2>3. \A e \in BOS!EventsAt(t, swings, f[m], m + 1) : e.at = m + 1
    BY DEF BOS!EventsAt, BOS!BreakAt
  <2> QED
    BY <1>3, <2>1, <2>2, <2>3
<1>4. n \in T
  <2> HIDE DEF T
  <2> QED
    BY <1>2, <1>3, CountingUp, n \in 0 .. n
<1> QED
  BY <1>1, <1>4

\* What the BOS detector reads of a candle and of those before it is the same one candle later.
LEMMA BreakLooksBack ==
  ASSUME NEW t \in Seq(CandleType), NEW k \in CandleType, NEW i \in 1 .. Len(t), NEW d
  PROVE  /\ BOS!AtrAt(Append(t, k), i) = BOS!AtrAt(t, i)
         /\ BOS!DisplacementScore(Append(t, k), d, i) = BOS!DisplacementScore(t, d, i)
         /\ BOS!GapMade(Append(t, k), d, i) = BOS!GapMade(t, d, i)
         /\ BOS!ChopPenalty(Append(t, k), i) = BOS!ChopPenalty(t, i)
<1> PICK n \in Nat : n = Len(t)
  OBVIOUS
<1> DEFINE later == Append(t, k)
<1>1. Prefix(t, later)
  BY AsBefore
<1> HIDE DEF later
<1>2. (\A j \in 1 .. n : later[j] = t[j]) /\ \A j \in 1 .. n : SubSeq(later, 1, j) = SubSeq(t, 1, j)
  BY <1>1 DEF Prefix
<1>3. BOS!AtrAt(later, i) = BOS!AtrAt(t, i)
  BY <1>2 DEF BOS!AtrAt, BOS!UpTo
<1>4. later[i] = t[i]
  BY <1>2
<1>5. BOS!DisplacementScore(later, d, i) = BOS!DisplacementScore(t, d, i)
  BY <1>3, <1>4 DEF BOS!DisplacementScore
<1>6. BOS!GapMade(later, d, i) = BOS!GapMade(t, d, i)
  <2>1. CASE i > 2
    <3>1. i - 2 \in 1 .. n
      BY <2>1
    <3>2. later[i - 2] = t[i - 2]
      BY <1>2, <3>1
    <3> QED
      BY <1>4, <3>2 DEF BOS!GapMade
  <2>2. CASE ~(i > 2)
    BY <2>2 DEF BOS!GapMade
  <2> QED
    BY <2>1, <2>2
<1>7. BOS!ChopPenalty(later, i) = BOS!ChopPenalty(t, i)
  <2> DEFINE window == BOS!Larger(2, i - 7) .. i
  <2>1. \A j \in window \ {i} : j \in 1 .. n /\ j + 1 \in 1 .. n
    BY DEF BOS!Larger
  <2>2. {j \in window \ {i} : later[j + 1].h >= later[j].l /\ later[j + 1].l <= later[j].h}
          = {j \in window \ {i} : t[j + 1].h >= t[j].l /\ t[j + 1].l <= t[j].h}
    <3> HIDE DEF window
    <3> QED
      BY <1>2, <2>1
  <2> QED
    BY <2>2 DEF BOS!ChopPenalty
<1> QED
  BY <1>3, <1>5, <1>6, <1>7 DEF later

\* A break that has failed is as failed, and as good, one candle later.
LEMMA FailureStays ==
  ASSUME NEW t \in Seq(CandleType), NEW k \in CandleType, NEW e, e.at \in 1 .. Len(t), BOS!Failed(t, e)
  PROVE  BOS!Failed(Append(t, k), e) /\ BOS!FinalQuality(Append(t, k), e) = BOS!FinalQuality(t, e)
<1> PICK n \in Nat : n = Len(t)
  OBVIOUS
<1> DEFINE later == Append(t, k)
           i == e.at
           d == e.dir
<1>1. Prefix(t, later)
  BY AsBefore
<1>2. /\ BOS!DisplacementScore(later, d, i) = BOS!DisplacementScore(t, d, i)
      /\ BOS!GapMade(later, d, i) = BOS!GapMade(t, d, i)
      /\ BOS!ChopPenalty(later, i) = BOS!ChopPenalty(t, i)
  BY BreakLooksBack
<1> HIDE DEF later
<1>3. Len(later) = n + 1 /\ \A j \in 1 .. n : later[j] = t[j]
  BY <1>1 DEF Prefix
<1>4. BOS!Failed(later, e)
  <2>1. Bos.lookahead \in Nat /\ i \in 1 .. n
    BY StructureAssumption
  <2>2. PICK j \in i + 1 .. BOS!Smaller(n, i + Bos.lookahead) : BOS!Cl(d, t[j]) < d * e.swing.price
    BY DEF BOS!Failed
  <2>3. j \in 1 .. n /\ j \in i + 1 .. BOS!Smaller(n + 1, i + Bos.lookahead)
    BY <2>1 DEF BOS!Smaller
  <2>4. BOS!Cl(d, later[j]) < d * e.swing.price
    BY <1>3, <2>2, <2>3
  <2>5. e.closed
    BY DEF BOS!Failed
  <2> QED
    BY <1>3, <2>3, <2>4, <2>5 DEF BOS!Failed
<1>5. \A j \in BOS!SixBefore(i) : later[j] = t[j]
  <2>1. \A j \in BOS!SixBefore(i) : j \in 1 .. n
    BY DEF BOS!SixBefore, BOS!Larger
  <2> QED
    BY <1>3, <2>1
<1>6. BOS!OrderBlockScore(later, d, i) = BOS!OrderBlockScore(t, d, i)
  BY <1>2, <1>5 DEF BOS!OrderBlockScore
<1>7. \A price : BOS!PriorSweep(later, d, i, price) = BOS!PriorSweep(t, d, i, price)
  BY <1>5 DEF BOS!PriorSweep
<1>8. BOS!Quality(later, e) = BOS!Quality(t, e)
  BY <1>2, <1>6, <1>7 DEF BOS!Quality
<1> QED
  BY <1>4, <1>8 DEF BOS!FinalQuality, later

\* Failure is decided in the lookahead and then stands: whatever candle closes next on whatever
\* tape, a break that failed stays failed, and its capped quality does not recover
\* (_apply_failed_bos_status, _replace_status).
THEOREM FailureIsForGood == TapeSpec => FailedBreaksStayFailed
<1>1. TapeInv /\ [TapeNext]_tapeVars => [BOS!FailureIsFinal(tape, Confirmed(tape), tape')]_tape
  <2> SUFFICES ASSUME TapeInv, CandleCloses
               PROVE  BOS!FailureIsFinal(tape, Confirmed(tape), tape')
    BY DEF TapeNext, tapeVars
  <2>1. tape \in Seq(CandleType) /\ Len(tape) \in Nat
    BY DEF TapeInv
  <2>2. PICK k \in CandleType : tape' = Append(tape, k)
    BY NextCandle
  <2>3. \A e \in BOS!Events(tape, Confirmed(tape)) : e.at \in 1 .. Len(tape)
    BY <2>1, BreaksAreOfTheTape
  <2> QED
    BY <2>1, <2>2, <2>3, FailureStays DEF BOS!FailureIsFinal
<1> QED
  BY <1>1, TapeHolds, PTL DEF TapeSpec, FailedBreaksStayFailed

-------------------------------------------------------------------------------
(* market_structure_shift.py *)

\* detect of the MSS detector, candle by candle
ShiftsUpTo(f, t, swings) ==
  /\ f[0] = {} /\ f[Len(t)] = MSS!Events(t, swings)
  /\ \A i \in 1 .. Len(t) : f[i] = f[i - 1] \cup MSS!EventsAt(t, swings, f[i - 1], i)

LEMMA ShiftsOneByOne ==
  ASSUME NEW t, Len(t) \in Nat, NEW swings
  PROVE  \E f : ShiftsUpTo(f, t, swings)
<1> DEFINE n == Len(t)
           Good(f, m) == f = [i \in 0 .. m |-> IF i = 0 THEN {} ELSE f[i - 1] \cup MSS!EventsAt(t, swings, f[i - 1], i)]
           T == {m \in 0 .. n : \E f : Good(f, m)}
           upTo == CHOOSE f : Good(f, n)
<1>1. 0 \in T
  <2>1. Good([i \in 0 .. 0 |-> {}], 0)
    OBVIOUS
  <2>2. \E f : Good(f, 0)
    <3> HIDE DEF Good
    <3> QED
      BY <2>1
  <2> QED
    BY <2>2
<1>2. ASSUME NEW m \in 0 .. n - 1, m \in T PROVE m + 1 \in T
  <2>1. PICK f : Good(f, m)
    BY <1>2
  <2> DEFINE g == [i \in 0 .. m + 1 |-> IF i = m + 1 THEN f[m] \cup MSS!EventsAt(t, swings, f[m], i) ELSE f[i]]
  <2>2. \A i \in 0 .. m : g[i] = f[i]
    OBVIOUS
  <2>3. ASSUME NEW i \in 0 .. m + 1
        PROVE  g[i] = IF i = 0 THEN {} ELSE g[i - 1] \cup MSS!EventsAt(t, swings, g[i - 1], i)
    <3>1. CASE i = m + 1
      <4>1. i # 0 /\ i - 1 = m /\ m \in 0 .. m
        BY <3>1
      <4>2. g[i] = f[m] \cup MSS!EventsAt(t, swings, f[m], i)
        BY <3>1
      <4> QED
        BY <2>2, <4>1, <4>2
    <3>2. CASE i \in 0 .. m
      <4>1. f[i] = IF i = 0 THEN {} ELSE f[i - 1] \cup MSS!EventsAt(t, swings, f[i - 1], i)
        BY <2>1, <3>2
      <4>2. i # 0 => i - 1 \in 0 .. m
        BY <3>2
      <4> HIDE DEF g
      <4> QED
        BY <2>2, <3>2, <4>1, <4>2
    <3> QED
      BY <3>1, <3>2
  <2>4. Good(g, m + 1)
    <3>1. g = [i \in 0 .. m + 1 |-> g[i]]
      OBVIOUS
    <3> HIDE DEF g
    <3> QED
      BY <2>3, <3>1
  <2>5. \E f1 : Good(f1, m + 1)
    <3> HIDE DEF Good, g
    <3> QED
      BY <2>4
  <2> QED
    BY <2>5
<1>3. n \in T
  <2> HIDE DEF T
  <2> QED
    BY <1>1, <1>2, CountingUp, n \in 0 .. n
<1>4. Good(upTo, n)
  BY <1>3
<1>5. MSS!Events(t, swings) = upTo[n]
  BY DEF MSS!Events
<1>6. \A i \in 0 .. n : upTo[i] = IF i = 0 THEN {} ELSE upTo[i - 1] \cup MSS!EventsAt(t, swings, upTo[i - 1], i)
  BY <1>4
<1> HIDE DEF upTo
<1>7. 0 \in 0 .. n /\ \A i \in 1 .. n : i \in 0 .. n /\ i # 0
  OBVIOUS
<1> QED
  BY <1>5, <1>6, <1>7 DEF ShiftsUpTo

LEMMA ShiftsAreOfTheTape ==
  ASSUME NEW t, Len(t) \in Nat, NEW swings
  PROVE  \A e \in MSS!Events(t, swings) : e.at \in 1 .. Len(t)
<1> PICK n \in Nat : n = Len(t)
  OBVIOUS
<1> PICK f : ShiftsUpTo(f, t, swings)
  BY ShiftsOneByOne
<1>1. /\ f[0] = {} /\ f[n] = MSS!Events(t, swings)
      /\ \A i \in 1 .. n : f[i] = f[i - 1] \cup MSS!EventsAt(t, swings, f[i - 1], i)
  BY DEF ShiftsUpTo
<1> DEFINE T == {m \in 0 .. n : \A e \in f[m] : e.at \in 1 .. n}
<1>2. 0 \in T
  BY <1>1
<1>3. ASSUME NEW m \in 0 .. n - 1, m \in T PROVE m + 1 \in T
  <2>1. m + 1 \in 1 .. n /\ (m + 1) - 1 = m
    OBVIOUS
  <2>2. f[m + 1] = f[m] \cup MSS!EventsAt(t, swings, f[m], m + 1)
    BY <1>1, <2>1
  <2>3. \A e \in MSS!EventsAt(t, swings, f[m], m + 1) : e.at = m + 1
    BY DEF MSS!EventsAt, MSS!ShiftAt
  <2> QED
    BY <1>3, <2>1, <2>2, <2>3
<1>4. n \in T
  <2> HIDE DEF T
  <2> QED
    BY <1>2, <1>3, CountingUp, n \in 0 .. n
<1> QED
  BY <1>1, <1>4

\* What the MSS detector reads of a candle and of those before it is the same one candle later.
LEMMA ShiftLooksBack ==
  ASSUME NEW t \in Seq(CandleType), NEW k \in CandleType, NEW i \in 1 .. Len(t), NEW d
  PROVE  /\ MSS!AtrAt(Append(t, k), i) = MSS!AtrAt(t, i)
         /\ MSS!DisplacementScore(Append(t, k), d, i) = MSS!DisplacementScore(t, d, i)
         /\ MSS!GapMade(Append(t, k), d, i) = MSS!GapMade(t, d, i)
         /\ MSS!ChopPenalty(Append(t, k), i) = MSS!ChopPenalty(t, i)
<1> PICK n \in Nat : n = Len(t)
  OBVIOUS
<1> DEFINE later == Append(t, k)
<1>1. Prefix(t, later)
  BY AsBefore
<1> HIDE DEF later
<1>2. (\A j \in 1 .. n : later[j] = t[j]) /\ \A j \in 1 .. n : SubSeq(later, 1, j) = SubSeq(t, 1, j)
  BY <1>1 DEF Prefix
<1>3. MSS!AtrAt(later, i) = MSS!AtrAt(t, i)
  BY <1>2 DEF MSS!AtrAt, MSS!UpTo
<1>4. later[i] = t[i]
  BY <1>2
<1>5. MSS!DisplacementScore(later, d, i) = MSS!DisplacementScore(t, d, i)
  BY <1>3, <1>4 DEF MSS!DisplacementScore
<1>6. MSS!GapMade(later, d, i) = MSS!GapMade(t, d, i)
  <2>1. CASE i > 2
    <3>1. i - 2 \in 1 .. n
      BY <2>1
    <3>2. later[i - 2] = t[i - 2]
      BY <1>2, <3>1
    <3> QED
      BY <1>4, <3>2 DEF MSS!GapMade
  <2>2. CASE ~(i > 2)
    BY <2>2 DEF MSS!GapMade
  <2> QED
    BY <2>1, <2>2
<1>7. MSS!ChopPenalty(later, i) = MSS!ChopPenalty(t, i)
  <2> DEFINE window == MSS!Larger(2, i - 7) .. i
  <2>1. \A j \in window \ {i} : j \in 1 .. n /\ j + 1 \in 1 .. n
    BY DEF MSS!Larger
  <2>2. {j \in window \ {i} : later[j + 1].h >= later[j].l /\ later[j + 1].l <= later[j].h}
          = {j \in window \ {i} : t[j + 1].h >= t[j].l /\ t[j + 1].l <= t[j].h}
    <3> HIDE DEF window
    <3> QED
      BY <1>2, <2>1
  <2> QED
    BY <2>2 DEF MSS!ChopPenalty
<1> QED
  BY <1>3, <1>5, <1>6, <1>7 DEF later

\* The sweeps that support a shift were all found when it was.
LEMMA SupportStays ==
  ASSUME NEW t, Len(t) \in Nat, NEW later, Len(later) = Len(t) + 1, NEW e, e.at \in 1 .. Len(t)
  PROVE  MSS!SweepsBefore(SweepsSoFar(later), e) = MSS!SweepsBefore(SweepsSoFar(t), e)
<1>1. ASSUME NEW s \in LiquidityEvents, s.at < e.at PROVE s.at <= Len(t) /\ s.at <= Len(later)
  <2>1. s.at \in Nat
    BY StructureAssumption
  <2> QED
    BY <1>1, <2>1
<1>2. \A s : s \in MSS!SweepsBefore(SweepsSoFar(later), e) <=> s \in MSS!SweepsBefore(SweepsSoFar(t), e)
  BY <1>1 DEF MSS!SweepsBefore, SweepsSoFar
<1> QED
  BY <1>2, Zenon

LEMMA ShiftScoreStays ==
  ASSUME NEW t \in Seq(CandleType), NEW k \in CandleType, NEW e, e.at \in 1 .. Len(t)
  PROVE  MSS!Score(Append(t, k), SweepsSoFar(Append(t, k)), e) = MSS!Score(t, SweepsSoFar(t), e)
<1> DEFINE later == Append(t, k)
           i == e.at
           d == e.dir
<1>1. Len(later) = Len(t) + 1 /\ Len(t) \in Nat
  OBVIOUS
<1>2. /\ MSS!DisplacementScore(later, d, i) = MSS!DisplacementScore(t, d, i)
      /\ MSS!GapMade(later, d, i) = MSS!GapMade(t, d, i)
      /\ MSS!ChopPenalty(later, i) = MSS!ChopPenalty(t, i)
  BY ShiftLooksBack
<1> HIDE DEF later
<1>3. MSS!SweepsBefore(SweepsSoFar(later), e) = MSS!SweepsBefore(SweepsSoFar(t), e)
  BY <1>1, SupportStays
<1>4. MSS!Score(later, SweepsSoFar(later), e) = MSS!Score(t, SweepsSoFar(t), e)
  BY <1>2, <1>3 DEF MSS!Score
<1> QED
  BY <1>4 DEF later

\* A shift that has failed stays failed, and after the lookahead nothing can fail it any more.
LEMMA ShiftFailureStays ==
  ASSUME NEW t \in Seq(CandleType), NEW k \in CandleType, NEW e, e.at \in 1 .. Len(t)
  PROVE  /\ MSS!Failed(t, e) => MSS!Failed(Append(t, k), e)
         /\ Len(t) >= e.at + Mss.lookahead => (MSS!Failed(Append(t, k), e) => MSS!Failed(t, e))
<1> PICK n \in Nat : n = Len(t)
  OBVIOUS
<1> DEFINE later == Append(t, k)
           i == e.at
           d == e.dir
<1>1. Prefix(t, later)
  BY AsBefore
<1> HIDE DEF later
<1>2. Len(later) = n + 1 /\ \A j \in 1 .. n : later[j] = t[j]
  BY <1>1 DEF Prefix
<1>3. Mss.lookahead \in Nat /\ i \in 1 .. n
  BY StructureAssumption
<1>4. ASSUME MSS!Failed(t, e) PROVE MSS!Failed(later, e)
  <2>1. PICK j \in i + 1 .. MSS!Smaller(n, i + Mss.lookahead) : MSS!Cl(d, t[j]) < d * e.swing.price
    BY <1>4 DEF MSS!Failed
  <2>2. j \in 1 .. n /\ j \in i + 1 .. MSS!Smaller(n + 1, i + Mss.lookahead)
    BY <1>3, <2>1 DEF MSS!Smaller
  <2>3. MSS!Cl(d, later[j]) < d * e.swing.price
    BY <1>2, <2>1, <2>2
  <2>4. e.closed
    BY <1>4 DEF MSS!Failed
  <2> QED
    BY <1>2, <2>2, <2>3, <2>4 DEF MSS!Failed
<1>5. ASSUME n >= i + Mss.lookahead, MSS!Failed(later, e) PROVE MSS!Failed(t, e)
  <2>1. PICK j \in i + 1 .. MSS!Smaller(n + 1, i + Mss.lookahead) :
          MSS!Cl(d, later[j]) < d * e.swing.price
    BY <1>2, <1>5 DEF MSS!Failed
  <2>2. j \in 1 .. n /\ j \in i + 1 .. MSS!Smaller(n, i + Mss.lookahead)
    BY <1>3, <1>5, <2>1 DEF MSS!Smaller
  <2>3. MSS!Cl(d, t[j]) < d * e.swing.price
    BY <1>2, <2>1, <2>2
  <2>4. e.closed
    BY <1>5 DEF MSS!Failed
  <2> QED
    BY <2>2, <2>3, <2>4 DEF MSS!Failed
<1> QED
  BY <1>4, <1>5 DEF later

\* Whatever swings and sweeps there are, the confidence of a shift, once given, is not touched by
\* the sweeps found with the candle that closes next, and by that candle only if the shift has
\* failed (then it is 5.0 at most), and not at all once its lookahead has passed
\* (_liquidity_context, _confidence_score, _apply_failure_status, _replace_status).
THEOREM ConfidenceIsForGood == TapeSpec => ShiftConfidenceKept
<1>1. TapeInv /\ [TapeNext]_tapeVars
        => [MSS!ConfidenceKept(tape, Confirmed(tape), SweepsSoFar(tape), tape', SweepsSoFar(tape'))]_tape
  <2> SUFFICES ASSUME TapeInv, CandleCloses
               PROVE  MSS!ConfidenceKept(tape, Confirmed(tape), SweepsSoFar(tape), tape', SweepsSoFar(tape'))
    BY DEF TapeNext, tapeVars
  <2>1. tape \in Seq(CandleType) /\ Len(tape) \in Nat
    BY DEF TapeInv
  <2>2. PICK k \in CandleType : tape' = Append(tape, k)
    BY NextCandle
  <2>3. \A e \in MSS!Events(tape, Confirmed(tape)) : e.at \in 1 .. Len(tape)
    BY <2>1, ShiftsAreOfTheTape
  <2> SUFFICES ASSUME NEW e \in MSS!Events(tape, Confirmed(tape))
               PROVE  LET given == MSS!Confidence(tape, SweepsSoFar(tape), e)
                          kept == MSS!Confidence(tape', SweepsSoFar(tape'), e)
                      IN  /\ kept = IF MSS!Failed(tape', e) THEN MSS!Smaller(given, 500) ELSE given
                          /\ Len(tape) >= e.at + Mss.lookahead => kept = given
    BY DEF MSS!ConfidenceKept
  <2>4. MSS!Score(tape', SweepsSoFar(tape'), e) = MSS!Score(tape, SweepsSoFar(tape), e)
    BY <2>1, <2>2, <2>3, ShiftScoreStays
  <2>5. /\ MSS!Failed(tape, e) => MSS!Failed(tape', e)
        /\ Len(tape) >= e.at + Mss.lookahead => (MSS!Failed(tape', e) => MSS!Failed(tape, e))
    BY <2>1, <2>2, <2>3, ShiftFailureStays
  <2> DEFINE score == MSS!Score(tape, SweepsSoFar(tape), e)
  <2>6. MSS!Smaller(MSS!Smaller(score, 500), 500) = MSS!Smaller(score, 500)
    <3> HIDE DEF score
    <3> QED
      BY DEF MSS!Smaller
  <2>7. /\ MSS!Confidence(tape, SweepsSoFar(tape), e)
             = IF MSS!Failed(tape, e) THEN MSS!Smaller(score, 500) ELSE score
        /\ MSS!Confidence(tape', SweepsSoFar(tape'), e)
             = IF MSS!Failed(tape', e) THEN MSS!Smaller(score, 500) ELSE score
    BY <2>4 DEF MSS!Confidence
  <2> HIDE DEF score
  <2> QED
    BY <2>5, <2>6, <2>7
<1> QED
  BY <1>1, TapeHolds, PTL DEF TapeSpec, ShiftConfidenceKept

-------------------------------------------------------------------------------
(* order_block_retest.py *)

\* A set of positions has a first and a last one.
LEMMA FirstIsIn ==
  ASSUME NEW S, S # {}, S \subseteq Nat
  PROVE  OBR!Min(S) \in S /\ \A y \in S : OBR!Min(S) <= y
<1> DEFINE less == {ss \in Nat \X Nat : ss[1] < ss[2]}
<1>1. IsWellFoundedOn(less, Nat)
  BY NatLessThanWellFounded DEF OpToRel
<1>2. PICK x \in S : \A y \in S : <<y, x>> \notin less
  <2> HIDE DEF less
  <2> QED
    BY <1>1, WFMin
<1>3. ASSUME NEW y \in S PROVE x <= y
  <2>1. x \in Nat /\ y \in Nat /\ <<y, x>> \notin less
    BY <1>2
  <2> QED
    BY <2>1
<1> QED
  BY <1>3 DEF OBR!Min

LEMMA LastIsIn ==
  ASSUME NEW S, S # {}, \E n \in Nat : S \subseteq 0 .. n
  PROVE  OBR!Max(S) \in S
<1>1. PICK m \in S : \A x \in S : x <= m
  BY Greatest
<1>2. \A x \in S : m >= x
  <2>1. S \subseteq Nat
    OBVIOUS
  <2> QED
    BY <1>1, <2>1
<1> QED
  BY <1>2 DEF OBR!Max

CandleFields(k) == k.o \in Int /\ k.h \in Int /\ k.l \in Int /\ k.c \in Int

LEMMA CandlesAre ==
  ASSUME NEW t \in Seq(CandleType)
  PROVE  Len(t) \in Nat /\ \A i \in 1 .. Len(t) : CandleFields(t[i])
<1>1. \A k \in CandleType : CandleFields(k)
  BY DEF CandleType, CandleFields
<1> QED
  BY <1>1, ItemsAre

LEMMA AxisIsWhole ==
  ASSUME NEW k, CandleFields(k), NEW d \in Directions
  PROVE  /\ OBR!Cl(d, k) \in Int /\ OBR!Op(d, k) \in Int /\ OBR!Hi(d, k) \in Int /\ OBR!Lo(d, k) \in Int
         /\ OBR!Size(k) \in Int
BY DEF CandleFields, Directions, OBR!Cl, OBR!Op, OBR!Hi, OBR!Lo, OBR!Size

\* The sum of whole numbers, as the averages add them up, is whole; of natural ones it is natural.
SumOf(f, S, v) ==
  f = [s \in SUBSET S |-> IF s = {} THEN 0 ELSE v[CHOOSE x \in s : TRUE] + f[s \ {CHOOSE x \in s : TRUE}]]

LEMMA SumIsWhole ==
  ASSUME NEW S, IsFiniteSet(S), NEW N \in {Nat, Int}, NEW v, \A i \in S : v[i] \in N
  PROVE  (CHOOSE f : SumOf(f, S, v))[S] \in N
<1> DEFINE One(s) == CHOOSE x \in s : TRUE
           V(x) == v[x]
           Small(m) == {s \in SUBSET S : Cardinality(s) <= m}
           Good(f, m) == \A s \in Small(m) : f[s] = IF s = {} THEN 0 ELSE V(One(s)) + f[s \ {One(s)}]
           Whole(f, m) == \A s \in Small(m) : f[s] \in N
           T == {m \in 0 .. Cardinality(S) : \E f : Good(f, m) /\ Whole(f, m)}
<1> PICK n \in Nat : n = Cardinality(S)
  BY FS_CardinalityType
<1>0. 0 \in N /\ \A x, y \in N : x + y \in N
  OBVIOUS
<1>1. \A s \in SUBSET S : IsFiniteSet(s) /\ Cardinality(s) \in Nat /\ Cardinality(s) <= n
  BY FS_Subset, FS_CardinalityType
<1>2. ASSUME NEW s \in SUBSET S, s # {}
      PROVE  /\ One(s) \in S /\ One(s) \in s /\ s \ {One(s)} \in SUBSET S
             /\ Cardinality(s \ {One(s)}) = Cardinality(s) - 1
  <2>1. One(s) \in s
    BY <1>2
  <2>2. IsFiniteSet(s)
    BY <1>1
  <2> HIDE DEF One
  <2>3. Cardinality(s \ {One(s)}) = Cardinality(s) - 1
    BY <2>1, <2>2, FS_RemoveElement
  <2> QED
    BY <2>1, <2>3
<1> HIDE DEF One
<1>3. 0 \in T
  <2> DEFINE f == [s \in SUBSET S |-> 0]
  <2>1. \A s \in Small(0) : s = {}
    BY <1>1, FS_EmptySet
  <2>2. Good(f, 0) /\ Whole(f, 0)
    BY <1>0, <2>1
  <2> HIDE DEF Good, Whole, f
  <2>3. \E g : Good(g, 0) /\ Whole(g, 0)
    BY <2>2
  <2> QED
    BY <2>3
<1>4. ASSUME NEW m \in 0 .. n - 1, m \in T PROVE m + 1 \in T
  <2>1. PICK f : Good(f, m) /\ Whole(f, m)
    BY <1>4
  <2> DEFINE g == [s \in SUBSET S |-> IF s = {} THEN 0 ELSE V(One(s)) + f[s \ {One(s)}]]
  <2>2. \A s \in Small(m) : g[s] = f[s]
    BY <2>1
  <2>3. ASSUME NEW s \in Small(m + 1), s # {} PROVE s \ {One(s)} \in Small(m)
    <3>1. Cardinality(s \ {One(s)}) = Cardinality(s) - 1 /\ s \ {One(s)} \in SUBSET S /\ Cardinality(s) \in Nat
      BY <1>1, <1>2, <2>3
    <3>2. Cardinality(s) <= m + 1
      OBVIOUS
    <3> QED
      BY <3>1, <3>2
  <2>4. ASSUME NEW s \in Small(m + 1), s # {}
        PROVE  g[s] = V(One(s)) + g[s \ {One(s)}] /\ g[s] \in N
    <3>1. g[s] = V(One(s)) + f[s \ {One(s)}]
      BY <2>4
    <3> HIDE DEF g
    <3>2. g[s \ {One(s)}] = f[s \ {One(s)}] /\ f[s \ {One(s)}] \in N
      BY <2>1, <2>2, <2>3, <2>4
    <3>3. V(One(s)) \in N
      BY <1>2, <2>4
    <3> HIDE DEF V
    <3> QED
      BY <1>0, <3>1, <3>2, <3>3
  <2>5. g[{}] = 0
    OBVIOUS
  <2> HIDE DEF g, V, Small
  <2>6. Good(g, m + 1) /\ Whole(g, m + 1)
    <3> SUFFICES ASSUME NEW s \in Small(m + 1)
                 PROVE  g[s] = (IF s = {} THEN 0 ELSE V(One(s)) + g[s \ {One(s)}]) /\ g[s] \in N
      OBVIOUS
    <3>1. CASE s = {}
      BY <1>0, <2>5, <3>1
    <3>2. CASE s # {}
      BY <2>4, <3>2
    <3> QED
      BY <3>1, <3>2
  <2> HIDE DEF Good, Whole
  <2>7. \E h : Good(h, m + 1) /\ Whole(h, m + 1)
    BY <2>6
  <2> QED
    BY <2>7
<1>5. n \in T
  <2> HIDE DEF T
  <2> QED
    BY <1>3, <1>4, CountingUp, n \in 0 .. n
<1>6. PICK f : Good(f, n) /\ Whole(f, n)
  BY <1>5
<1>7. Small(n) = SUBSET S
  BY <1>1
<1> DEFINE g == [s \in SUBSET S |-> f[s]]
<1>8. \A s \in SUBSET S : g[s] = IF s = {} THEN 0 ELSE V(One(s)) + g[s \ {One(s)}]
  <2>1. \A s \in SUBSET S : g[s] = f[s] /\ g[s \ {One(s)}] = f[s \ {One(s)}]
    OBVIOUS
  <2> HIDE DEF g
  <2> QED
    BY <1>6, <1>7, <2>1
<1>9. SumOf(g, S, v)
  <2>1. g = [s \in SUBSET S |-> g[s]]
    OBVIOUS
  <2> HIDE DEF g
  <2> QED
    BY <1>8, <2>1 DEF SumOf, One
<1> DEFINE iter == CHOOSE x : SumOf(x, S, v)
<1>10. SumOf(iter, S, v)
  <2> HIDE DEF g, SumOf
  <2> QED
    BY <1>9
<1> HIDE DEF iter
<1>11. \A s \in SUBSET S : iter[s] = IF s = {} THEN 0 ELSE V(One(s)) + iter[s \ {One(s)}]
  BY <1>10 DEF SumOf, One
<1> DEFINE K == {m \in 0 .. n : Whole(iter, m)}
<1>12. 0 \in K
  <2>1. \A s \in Small(0) : s = {}
    BY <1>1, FS_EmptySet
  <2>2. iter[{}] \in N
    <3> HIDE DEF V, Small, Whole
    <3>1. {} \in SUBSET S
      OBVIOUS
    <3>2. iter[{}] = 0
      BY <1>11, <3>1
    <3> QED
      BY <1>0, <3>2
  <2>3. Whole(iter, 0)
    BY <2>1, <2>2
  <2> HIDE DEF Whole
  <2> QED
    BY <2>3
<1>13. ASSUME NEW m \in 0 .. n - 1, m \in K PROVE m + 1 \in K
  <2>1. Whole(iter, m)
    BY <1>13
  <2>2. ASSUME NEW s \in Small(m + 1) PROVE iter[s] \in N
    <3>1. CASE s = {}
      <4> HIDE DEF V, Whole
      <4>1. s \in SUBSET S
        OBVIOUS
      <4> HIDE DEF Small
      <4>2. iter[s] = 0
        BY <1>11, <3>1, <4>1
      <4> QED
        BY <1>0, <4>2
    <3>2. CASE s # {}
      <4>1. /\ One(s) \in S /\ s \ {One(s)} \in SUBSET S /\ Cardinality(s) \in Nat
            /\ Cardinality(s \ {One(s)}) = Cardinality(s) - 1 /\ Cardinality(s) <= m + 1
        BY <1>1, <1>2, <3>2
      <4>2. s \ {One(s)} \in Small(m)
        BY <4>1
      <4>3. iter[s \ {One(s)}] \in N /\ V(One(s)) \in N
        BY <2>1, <4>1, <4>2
      <4>4. iter[s] = V(One(s)) + iter[s \ {One(s)}]
        BY <1>11, <3>2
      <4> HIDE DEF V
      <4> QED
        BY <1>0, <4>3, <4>4
    <3> QED
      BY <3>1, <3>2
  <2> QED
    BY <2>2
<1>14. n \in K
  <2> HIDE DEF K
  <2> QED
    BY <1>12, <1>13, CountingUp, n \in 0 .. n
<1>15. iter[S] \in N
  BY <1>7, <1>14
<1> QED
  BY <1>15 DEF iter

\* The average true range is a whole number, as the model counts prices.
LEMMA AtrIsWhole ==
  ASSUME NEW t \in Seq(CandleType), NEW parts \in Nat, NEW m \in Nat \ {0}
  PROVE  OBR!AtrIn(parts, t, m) \in Nat
<1> PICK n \in Nat : n = Len(t)
  BY CandlesAre
<1>1. ASSUME NEW i \in 1 .. n PROVE OBR!TrueRange(t, i) \in Nat
  <2>1. CandleFields(t[i])
    BY CandlesAre
  <2>2. CandleFields(IF i = 1 THEN t[1] ELSE t[i - 1])
    BY CandlesAre
  <2> DEFINE before == IF i = 1 THEN t[1].c ELSE t[i - 1].c
  <2>3. before \in Int
    BY <2>2 DEF CandleFields
  <2>4. OBR!TrueRange(t, i)
          = OBR!Larger(OBR!Size(t[i]), OBR!Larger(OBR!Abs(t[i].h - before), OBR!Abs(t[i].l - before)))
    BY DEF OBR!TrueRange
  <2> HIDE DEF before
  <2>5. OBR!Size(t[i]) \in Int /\ t[i].h - before \in Int /\ t[i].l - before \in Int
    BY <2>1, <2>3 DEF CandleFields, OBR!Size
  <2>6. \A x, y, z \in Int : OBR!Larger(x, OBR!Larger(OBR!Abs(y), OBR!Abs(z))) \in Nat
    BY DEF OBR!Larger, OBR!Abs
  <2> QED
    BY <2>4, <2>5, <2>6
<1>2. CASE t = <<>>
  BY <1>2 DEF OBR!AtrIn
<1>3. CASE t # <<>>
  <2> DEFINE S == OBR!Larger(1, Len(t) - m + 1) .. Len(t)
             v == [i \in S |-> OBR!TrueRange(t, i)]
             iter == CHOOSE f : SumOf(f, S, v)
  <2>1. n >= 1
    BY <1>3
  <2>2. PICK a \in 1 .. n : a = OBR!Larger(1, n - m + 1)
    <3> HIDE DEF S, iter
    <3>1. OBR!Larger(1, n - m + 1) \in 1 .. n
      BY <2>1 DEF OBR!Larger
    <3> QED
      BY <3>1
  <2>3. S \subseteq 1 .. n /\ IsFiniteSet(S) /\ Cardinality(S) \in Nat \ {0}
    <3>1. S = a .. n /\ a \in Int /\ n \in Int /\ a >= 1 /\ ~(a > n)
      BY <2>2
    <3> HIDE DEF S
    <3>2. IsFiniteSet(a .. n) /\ Cardinality(a .. n) = n - a + 1
      BY <3>1, FS_Interval
    <3>3. n - a + 1 \in Nat \ {0}
      BY <3>1
    <3> QED
      BY <3>1, <3>2, <3>3
  <2>5. OBR!AtrIn(parts, t, m) = (parts * iter[S]) \div Cardinality(S)
    <3>1. OBR!Cardinality(S) = Cardinality(S)
      BY DEF OBR!Cardinality, Cardinality
    <3> DEFINE One(s) == CHOOSE x \in s : TRUE
               Sums(f) == f = [s \in SUBSET S |-> IF s = {} THEN 0 ELSE OBR!TrueRange(t, One(s)) + f[s \ {One(s)}]]
    <3>2. OBR!AtrIn(parts, t, m) = (parts * (CHOOSE f : Sums(f))[S]) \div Cardinality(S)
      BY <1>3, <3>1 DEF OBR!AtrIn, OBR!MapThenSumSet, OBR!MapThenFoldSet
    <3>3. ASSUME NEW f PROVE Sums(f) <=> SumOf(f, S, v)
      <4>1. \A s \in SUBSET S : s # {} => OBR!TrueRange(t, One(s)) = v[One(s)]
        <5>1. \A s \in SUBSET S : s # {} => One(s) \in S
          OBVIOUS
        <5> HIDE DEF S, One
        <5> QED
          BY <5>1
      <4> HIDE DEF v, S, iter
      <4>2. ASSUME NEW s \in SUBSET S
            PROVE  (IF s = {} THEN 0 ELSE OBR!TrueRange(t, One(s)) + f[s \ {One(s)}])
                     = (IF s = {} THEN 0 ELSE v[One(s)] + f[s \ {One(s)}])
        BY <4>1
      <4>3. [s \in SUBSET S |-> IF s = {} THEN 0 ELSE OBR!TrueRange(t, One(s)) + f[s \ {One(s)}]]
              = [s \in SUBSET S |-> IF s = {} THEN 0 ELSE v[One(s)] + f[s \ {One(s)}]]
        BY <4>2
      <4> QED
        BY <4>3 DEF SumOf
    <3> HIDE DEF Sums
    <3> QED
      BY <3>2, <3>3
  <2>4. iter[S] \in Nat
    <3>1. \A i \in S : v[i] \in Nat
      BY <1>1, <2>3
    <3> HIDE DEF S, v
    <3> QED
      BY <2>3, <3>1, SumIsWhole
  <2> HIDE DEF S
  <2> HIDE DEF iter
  <2>6. \A x \in Nat, y \in Nat \ {0} : x \div y \in Nat
    OBVIOUS
  <2>7. parts * iter[S] \in Nat
    BY <2>4
  <2> QED
    BY <2>3, <2>5, <2>6, <2>7
<1> QED
  BY <1>2, <1>3

\* A sweep has its candle, its direction and its pool, and a quality in hundredths.
LEMMA SweepsAre ==
  ASSUME NEW t \in Seq(CandleType), NEW d \in Directions, NEW e \in OBR!Sweeps(t, d)
  PROVE  e.dir = d /\ e.at \in 1 .. Len(t) /\ OBR!SweepQuality(t, e) \in 0 .. 1000
<1>1. e.dir = d /\ e.at \in 1 .. Len(t) /\ e.pool \in DOMAIN OrderBlock.pools
  <2>1. e \in [dir : {d}, pool : DOMAIN OrderBlock.pools, at : DOMAIN t]
    BY DEF OBR!Sweeps
  <2>2. DOMAIN t = 1 .. Len(t)
    OBVIOUS
  <2> QED
    BY <2>1, <2>2
<1> DEFINE p == OrderBlock.pools[e.pool]
           k == t[e.at]
           c == OBR!Cl(d, k)
           atr == OBR!Atr(t, OBR!AtrPeriod)
           depth == OBR!PoolLo(d, p) - OBR!Lo(d, k)
           deep == OBR!Smaller(120, (100 * depth) \div OBR!Larger(1, atr))
           score == 650 + OBR!If(2 * c > OBR!PoolLo(d, p) + OBR!PoolHi(d, p), 100)
                    + OBR!If(c > OBR!PoolHi(d, p), 100) + deep
<1>2. p \in [side : Directions, lo : Int, hi : Int]
  <2> DEFINE P == [side : Directions, lo : Int, hi : Int]
             q == OrderBlock.pools
  <2>1. q \in Seq(P)
    BY StructureAssumption
  <2> HIDE DEF P, q
  <2>2. DOMAIN q = 1 .. Len(q) /\ \A m \in 1 .. Len(q) : q[m] \in P
    BY <2>1
  <2> QED
    BY <1>1, <2>2 DEF P, q
<1>3. OBR!PoolLo(d, p) \in Int /\ OBR!PoolHi(d, p) \in Int
  BY <1>2 DEF OBR!PoolLo, OBR!PoolHi
<1>4. c \in Int /\ OBR!Lo(d, k) \in Int
  BY <1>1, CandlesAre, AxisIsWhole
<1>5. atr \in Int
  BY AtrIsWhole DEF OBR!Atr, OBR!AtrPeriod
<1>6. deep \in Int
  <2>1. OBR!Larger(1, atr) \in Nat \ {0}
    <3> HIDE DEF atr
    <3> QED
      BY <1>5 DEF OBR!Larger
  <2>2. depth \in Int
    <3> HIDE DEF p, k
    <3> QED
      BY <1>3, <1>4
  <2> DEFINE unit == OBR!Larger(1, atr)
  <2> HIDE DEF unit, depth
  <2>3. (100 * depth) \div unit \in Int
    BY <2>1, <2>2 DEF unit
  <2> DEFINE ratio == (100 * depth) \div unit
  <2> HIDE DEF ratio
  <2>4. OBR!Smaller(120, ratio) \in Int
    BY <2>3 DEF OBR!Smaller, ratio
  <2> QED
    BY <2>4 DEF ratio, unit
<1>7. score \in Int
  <2> HIDE DEF deep, c, p
  <2> QED
    BY <1>6 DEF OBR!If
<1>8. OBR!SweepQuality(t, e) = OBR!Clamp(score, 0, 1000)
  BY <1>1 DEF OBR!SweepQuality
<1> HIDE DEF score
<1>9. OBR!Clamp(score, 0, 1000) \in 0 .. 1000
  BY <1>7 DEF OBR!Clamp, OBR!Larger, OBR!Smaller
<1> QED
  BY <1>1, <1>8, <1>9

\* A plan of sweep e holds its block from the break to the entry.
LEMMA PlansHold ==
  ASSUME NEW t \in Seq(CandleType), NEW d \in Directions, NEW e \in OBR!Sweeps(t, d), NEW s \in OBR!PlanOf(t, e)
  PROVE  /\ s.sweep = e
         /\ \A i \in s.break + 1 .. s.at : OBR!Cl(s.dir, t[i]) >= OBR!Lo(s.dir, t[s.block])
<1> PICK n \in Nat : n = Len(t)
  BY CandlesAre
<1> DEFINE brk == OBR!Min(OBR!Breaks(t, e))
           ob == OBR!Max(OBR!OrderBlocks(t, e, brk))
           rt == OBR!Retest(t, d, ob, brk)
           at == OBR!Reaction(t, d, ob, rt.at)
           C(i) == OBR!Cl(d, t[i])
           floor == OBR!Lo(d, t[ob])
<1>1. e.dir = d /\ e.at \in 1 .. n
  BY SweepsAre
<1>2. /\ OBR!Breaks(t, e) # {} /\ OBR!OrderBlocks(t, e, brk) # {} /\ rt.status = "detected" /\ at # 0
      /\ s.dir = d /\ s.sweep = e /\ s.break = brk /\ s.block = ob /\ s.at = at
  BY <1>1 DEF OBR!PlanOf
<1>3. brk \in 1 .. n
  <2>1. \A i \in OBR!Breaks(t, e) : i \in 1 .. n
    <3>1. \A i \in OBR!Breaks(t, e) : i \in e.at + 1 .. OBR!Smaller(n, e.at + OrderBlock.breakWait)
      BY DEF OBR!Breaks
    <3>2. OrderBlock.breakWait \in Nat
      BY StructureAssumption
    <3> QED
      BY <1>1, <3>1, <3>2 DEF OBR!Smaller
  <2> QED
    BY <1>2, <2>1, FirstIsIn
<1>4. ob \in 1 .. n
  <2> HIDE DEF brk
  <2> DEFINE S == OBR!OrderBlocks(t, e, brk)
  <2>1. \A i \in S : i \in e.at .. brk - 1
    BY DEF OBR!OrderBlocks
  <2>2. S \subseteq 0 .. n /\ S \subseteq 1 .. n
    BY <1>1, <1>3, <2>1
  <2>3. S # {} /\ \E m \in Nat : S \subseteq 0 .. m
    BY <1>2, <2>2 DEF brk
  <2> HIDE DEF S
  <2>4. OBR!Max(S) \in S
    BY <2>3, LastIsIn
  <2> QED
    BY <2>2, <2>4 DEF S
<1> HIDE DEF ob, brk
<1>5. floor \in Int /\ \A i \in 1 .. n : C(i) \in Int
  BY <1>4, CandlesAre, AxisIsWhole
<1> DEFINE D == {i \in brk + 1 .. n : OBR!Decides(t, d, ob, brk, i)}
<1>6. D # {} /\ rt.at = OBR!Min(D) /\ ~(C(rt.at) < floor)
  BY <1>2 DEF OBR!Retest
<1>7. rt.at \in brk + 1 .. n /\ \A i \in D : rt.at <= i
  <2>1. D \subseteq Nat
    BY <1>3
  <2> HIDE DEF D, rt
  <2>2. rt.at \in D /\ \A i \in D : rt.at <= i
    BY <1>6, <2>1, FirstIsIn
  <2> QED
    BY <2>2 DEF D
<1>8. \A i \in brk + 1 .. rt.at - 1 : ~(C(i) < floor)
  <2> SUFFICES ASSUME NEW i \in brk + 1 .. rt.at - 1 PROVE ~(C(i) < floor)
    OBVIOUS
  <2>1. i \in brk + 1 .. n /\ i \notin D
    <3> HIDE DEF D, rt
    <3> QED
      BY <1>3, <1>7
  <2> QED
    BY <2>1 DEF OBR!Decides
<1> HIDE DEF rt, D
<1> DEFINE last == OBR!Smaller(n, rt.at + OrderBlock.reactionWait)
           E == {i \in rt.at .. last :
                   \/ OBR!Cl(d, t[i]) < OBR!Lo(d, t[ob])
                   \/ OBR!With(d, t[i]) /\ 2 * OBR!Cl(d, t[i]) > OBR!Lo(d, t[ob]) + OBR!Hi(d, t[ob])}
<1>9. E # {} /\ at = OBR!Min(E) /\ ~(C(at) < floor)
  BY <1>2 DEF OBR!Reaction
<1>10. rt.at .. last \subseteq 1 .. n
  <2>1. OrderBlock.reactionWait \in Nat
    BY StructureAssumption
  <2> QED
    BY <1>3, <1>7, <2>1 DEF OBR!Smaller
<1>11. at \in rt.at .. last /\ \A i \in E : at <= i
  <2>1. E \subseteq Nat
    BY <1>10
  <2> HIDE DEF E, at
  <2>2. at \in E /\ \A i \in E : at <= i
    BY <1>9, <2>1, FirstIsIn
  <2> QED
    BY <2>2 DEF E
<1>12. \A i \in rt.at .. at - 1 : ~(C(i) < floor)
  <2> SUFFICES ASSUME NEW i \in rt.at .. at - 1 PROVE ~(C(i) < floor)
    OBVIOUS
  <2>1. i \in rt.at .. last /\ i \notin E
    <3>1. at \in Nat /\ rt.at \in Nat /\ last \in Int
      <4>1. at \in 1 .. n /\ rt.at \in Nat
        BY <1>3, <1>7, <1>10, <1>11
      <4>2. OrderBlock.reactionWait \in Nat
        BY StructureAssumption
      <4> HIDE DEF at
      <4> QED
        BY <4>1, <4>2 DEF OBR!Smaller
    <3> HIDE DEF E, at, last
    <3> QED
      BY <1>11, <3>1
  <2> QED
    BY <2>1
<1>13. ASSUME NEW i \in brk + 1 .. at PROVE i \in 1 .. n /\ ~(C(i) < floor)
  <2>1. at \in 1 .. n /\ rt.at \in 1 .. n
    BY <1>3, <1>7, <1>10, <1>11
  <2> HIDE DEF at, C, last, floor
  <2>2. i \in brk + 1 .. rt.at - 1 \/ i \in rt.at .. at - 1 \/ i = at
    BY <1>3, <2>1
  <2> QED
    BY <1>3, <1>8, <1>9, <1>12, <2>1, <2>2
<1>14. \A i \in brk + 1 .. at : C(i) >= floor
  <2> HIDE DEF C, floor, at
  <2> QED
    BY <1>5, <1>13
<1> QED
  BY <1>2, <1>14

\* Of finitely many ranks, some a has the best of the first.
Rated(all, at, q) == \A a \in all : at[a] \in Nat /\ q[a] \in 0 .. 1000

LEMMA FirstAndBest ==
  ASSUME NEW all, all # {}, NEW at, NEW q, Rated(all, at, q)
  PROVE  \E a \in all : \A b \in all : at[a] < at[b] \/ (at[a] = at[b] /\ q[a] >= q[b])
<1>1. \E first \in {at[a] : a \in all} : \A x \in {at[a] : a \in all} : first <= x
  <2> DEFINE S == {at[a] : a \in all}
  <2>1. S # {} /\ S \subseteq Nat
    BY DEF Rated
  <2> HIDE DEF S
  <2>2. OBR!Min(S) \in S /\ \A y \in S : OBR!Min(S) <= y
    BY <2>1, FirstIsIn
  <2> QED
    BY <2>2 DEF S
<1>2. PICK c \in all : \A b \in all : at[c] <= at[b]
  BY <1>1
<1> DEFINE early == {a \in all : at[a] = at[c]}
<1>3. \E best \in {q[a] : a \in early} : \A x \in {q[a] : a \in early} : x <= best
  <2> DEFINE S == {q[a] : a \in early}
  <2>1. S # {}
    <3>1. c \in early
      BY <1>2
    <3> HIDE DEF early
    <3> QED
      BY <3>1
  <2>2. S \subseteq Scores
    BY DEF Rated, Scores, TopScore
  <2> HIDE DEF S, early
  <2>4. \E m \in S : \A x \in S : x <= m
    BY <2>1, <2>2, BestScore
  <2> QED
    BY <2>4 DEF S
<1>4. PICK a \in early : \A b \in early : q[b] <= q[a]
  BY <1>3
<1>5. ASSUME NEW b \in all PROVE at[a] < at[b] \/ (at[a] = at[b] /\ q[a] >= q[b])
  <2>1. a \in all /\ at[a] = at[c] /\ at[c] <= at[b]
    BY <1>2
  <2>2. at[a] \in Nat /\ at[b] \in Nat /\ q[a] \in 0 .. 1000 /\ q[b] \in 0 .. 1000
    BY <2>1 DEF Rated
  <2>3. at[b] = at[a] => q[b] <= q[a]
    BY <1>4, <2>1
  <2> QED
    BY <2>1, <2>2, <2>3
<1> QED
  BY <1>5

\* The signal, if there is one, is the plan of a sweep: the first, and of its candle a best one.
LEMMA SignalIsAPlan ==
  ASSUME NEW t \in Seq(CandleType), NEW s \in OBR!Signal(t)
  PROVE  \E d \in Directions : \E e \in OBR!Sweeps(t, d) : s \in OBR!PlanOf(t, e)
<1> PICK n \in Nat : n = Len(t)
  BY CandlesAre
<1> DEFINE Q(a) == OBR!SweepQuality(t, a.sweep)
           all == UNION {OBR!PlanOf(t, e) : e \in OBR!Sweeps(t, 1) \cup OBR!Sweeps(t, -1)}
           Earlier(a, b) ==
             \/ a.sweep.at < b.sweep.at
             \/ a.sweep.at = b.sweep.at /\ Q(a) >= Q(b)
<1>1. all # {} /\ s = CHOOSE a \in all : \A b \in all : Earlier(a, b)
  BY DEF OBR!Signal
<1>2. \A a \in all : \E d \in Directions : \E e \in OBR!Sweeps(t, d) : a \in OBR!PlanOf(t, e)
  BY DEF Directions
<1>3. ASSUME NEW a \in all PROVE a.sweep.at \in 1 .. n /\ Q(a) \in 0 .. 1000
  <2>1. PICK d \in Directions : \E e \in OBR!Sweeps(t, d) : a \in OBR!PlanOf(t, e)
    BY <1>2
  <2>2. PICK e \in OBR!Sweeps(t, d) : a \in OBR!PlanOf(t, e)
    BY <2>1
  <2>3. a.sweep = e
    BY <2>2, PlansHold
  <2> QED
    BY <2>3, SweepsAre
<1> HIDE DEF all
<1>4. \E a \in all : \A b \in all : Earlier(a, b)
  <2> DEFINE at == [a \in all |-> a.sweep.at]
             q == [a \in all |-> Q(a)]
  <2>1. Rated(all, at, q)
    <3> SUFFICES ASSUME NEW a \in all PROVE a.sweep.at \in Nat /\ Q(a) \in 0 .. 1000
      BY DEF Rated
    <3>1. a.sweep.at \in 1 .. n /\ Q(a) \in 0 .. 1000
      BY <1>3
    <3> HIDE DEF Q
    <3> QED
      BY <3>1
  <2>2. \A a \in all : at[a] = a.sweep.at /\ q[a] = Q(a)
    OBVIOUS
  <2> HIDE DEF at, q
  <2>3. PICK a \in all : \A b \in all : at[a] < at[b] \/ (at[a] = at[b] /\ q[a] >= q[b])
    BY <1>1, <2>1, FirstAndBest
  <2> HIDE DEF Q
  <2>4. \A b \in all : Earlier(a, b)
    BY <2>2, <2>3
  <2> HIDE DEF Earlier
  <2> QED
    BY <2>4
<1>9. s \in all
  <2> HIDE DEF Earlier
  <2> QED
    BY <1>1, <1>4
<1> QED
  BY <1>2, <1>9

\* On whatever tape, with whatever pools, swings and bounds of the search, a candle that closes
\* through the order block before the entry ends the setup: detect_ob_retest up to the retest,
\* validate_ob_reaction from there on, and between them no candle is left unwatched.
THEOREM BlocksHold == TapeSpec => []BlocksHoldUntilEntry
<1>1. TapeInv => BlocksHoldUntilEntry
  <2> SUFFICES ASSUME TapeInv, NEW s \in OBR!Signal(tape)
               PROVE  \A i \in s.break + 1 .. s.at : OBR!Cl(s.dir, tape[i]) >= OBR!Lo(s.dir, tape[s.block])
    BY DEF BlocksHoldUntilEntry, OBR!BlockHeldUntilEntry
  <2>1. tape \in Seq(CandleType)
    BY DEF TapeInv
  <2>2. PICK d \in Directions : \E e \in OBR!Sweeps(tape, d) : s \in OBR!PlanOf(tape, e)
    BY <2>1, SignalIsAPlan
  <2>3. PICK e \in OBR!Sweeps(tape, d) : s \in OBR!PlanOf(tape, e)
    BY <2>2
  <2> QED
    BY <2>1, <2>3, PlansHold
<1> QED
  BY <1>1, TapeHolds, PTL

-------------------------------------------------------------------------------
(* swing_points.py, break_of_structure.py, market_structure_shift.py: nothing is repainted *)

\* The swing of a candle, once confirmed, is confirmed ever after, with the same strength.
LEMMA RawStays ==
  ASSUME RightBars >= 2, NEW t \in Seq(CandleType), NEW k \in CandleType, NEW d,
         NEW i \in Nat \ {0}, i + RightBars <= Len(t)
  PROVE  RawAt(Append(t, k), d, i) = RawAt(t, d, i)
<1> PICK n \in Nat : n = Len(t)
  BY CandlesAre
<1> DEFINE r == Append(t, k)
<1>0. LeftBars \in Nat \ {0} /\ RightBars \in Nat \ {0} /\ i \in 1 .. n
  BY StructureAssumption
<1>1. Prefix(t, r)
  BY AsBefore
<1> HIDE DEF r
<1>2. Len(r) = n + 1 /\ (\A j \in 1 .. n : r[j] = t[j]) /\ \A j \in 1 .. n : SubSeq(r, 1, j) = SubSeq(t, 1, j)
  BY <1>1 DEF Prefix
<1>3. AtrAt(r, i) = AtrAt(t, i) /\ r[i] = t[i]
  BY <1>0, <1>2 DEF AtrAt, UpTo
<1>4. ReactionScore(r, d, i) = ReactionScore(t, d, i)
  <2>1. \A j \in i + 1 .. i + RightBars : r[j] = t[j]
    BY <1>0, <1>2
  <2>2. {Lo(d, r[j]) : j \in i + 1 .. i + RightBars} = {Lo(d, t[j]) : j \in i + 1 .. i + RightBars}
    BY <2>1
  <2> QED
    BY <1>3, <2>2 DEF ReactionScore
<1>5. ChopPenalty(r, i) = ChopPenalty(t, i)
  <2>1. Smaller(Len(r), i + 2) = i + 2 /\ Smaller(Len(t), i + 2) = i + 2
    BY <1>0, <1>2 DEF Smaller
  <2> DEFINE local == Larger(1, i - 2) .. i + 2
  <2>2. \A j \in local : r[j] = t[j]
    BY <1>0, <1>2 DEF Larger
  <2> HIDE DEF local
  <2>3. {j \in local : 100 * Size(r[j]) < 45 * AtrAt(r, i) \/ ~BodyAtLeast(r[j], 20)}
          = {j \in local : 100 * Size(t[j]) < 45 * AtrAt(t, i) \/ ~BodyAtLeast(t[j], 20)}
    BY <1>3, <2>2
  <2> QED
    BY <2>1, <2>3 DEF ChopPenalty, local
<1>6. Strength(r, d, i) = Strength(t, d, i)
  BY <1>4, <1>5 DEF Strength
<1>7. i \in LeftBars + 1 .. Len(r) - RightBars <=> i \in LeftBars + 1 .. Len(t) - RightBars
  BY <1>0, <1>2
<1>8. ASSUME i \in LeftBars + 1 .. Len(t) - RightBars
      PROVE  \A j \in (i - LeftBars .. i + RightBars) \ {i} : r[j] = t[j]
  BY <1>0, <1>2, <1>8
<1> QED
  BY <1>3, <1>6, <1>7, <1>8 DEF RawAt, r

\* later are the swings after one more candle: those of before, and some known with that candle.
SameSwings(swings, later, n) ==
  /\ \A s \in later : s.known \in Int
  /\ \A s : (s \in later /\ s.known <= n) <=> s \in swings

LEMMA ConfirmedStays ==
  ASSUME RightBars >= 2, NEW t \in Seq(CandleType), NEW k \in CandleType
  PROVE  SameSwings(Confirmed(t), Confirmed(Append(t, k)), Len(t))
<1> PICK n \in Nat : n = Len(t)
  BY CandlesAre
<1> DEFINE r == Append(t, k)
<1>1. Prefix(t, r) /\ Len(r) \in Nat /\ DOMAIN r = 1 .. Len(r) /\ DOMAIN t = 1 .. n
  BY AsBefore
<1>2. \A d \in Directions, i \in Nat \ {0} : i + RightBars <= n => RawAt(r, d, i) = RawAt(t, d, i)
  BY RawStays
<1> HIDE DEF r
<1>3. Len(r) = n + 1 /\ \A j \in 1 .. n : r[j] = t[j]
  BY <1>1 DEF Prefix
<1>4. RightBars \in Nat
  BY StructureAssumption
<1>5. ASSUME NEW d \in Directions, NEW i \in Nat \ {0}, i + RightBars <= n, NEW x, x.at = i
      PROVE  Level(r, x) = Level(t, x)
  <2>1. i \in 1 .. n
    BY <1>4, <1>5
  <2> QED
    BY <1>3, <1>5, <2>1 DEF Level, PriceOf
<1>6. ASSUME NEW s \in Confirmed(r)
      PROVE  \E d \in Directions, i \in 1 .. n + 1 : \E x \in RawAt(r, d, i) :
               s = Level(r, x) /\ x.at = i /\ s.known = i + RightBars
  <2>1. PICK d \in Directions, i \in 1 .. n + 1 : \E x \in RawAt(r, d, i) : s = Level(r, x)
    BY <1>1, <1>3 DEF Confirmed, Raw
  <2>2. PICK x \in RawAt(r, d, i) : s = Level(r, x)
    BY <2>1
  <2>3. x.at = i
    BY <1>1, RawSwings
  <2>4. s.known = i + RightBars
    BY <2>2, <2>3 DEF Level, ConfirmedAt
  <2> QED
    BY <2>2, <2>3, <2>4
<1>7. ASSUME NEW s \in Confirmed(t)
      PROVE  \E d \in Directions, i \in 1 .. n : \E x \in RawAt(t, d, i) :
               s = Level(t, x) /\ x.at = i /\ s.known = i + RightBars /\ i + RightBars <= n
  <2>1. PICK d \in Directions, i \in 1 .. n : \E x \in RawAt(t, d, i) : s = Level(t, x)
    BY <1>1 DEF Confirmed, Raw
  <2>2. PICK x \in RawAt(t, d, i) : s = Level(t, x)
    BY <2>1
  <2>3. x.at = i /\ i + RightBars <= n
    BY RawSwings
  <2>4. s.known = i + RightBars
    BY <2>2, <2>3 DEF Level, ConfirmedAt
  <2> QED
    BY <2>2, <2>3, <2>4
<1>8. \A s \in Confirmed(r) : s.known \in Int
  BY <1>4, <1>6
<1>9. ASSUME NEW s \in Confirmed(r), s.known <= n PROVE s \in Confirmed(t)
  <2>1. PICK d \in Directions, i \in 1 .. n + 1 : \E x \in RawAt(r, d, i) :
          s = Level(r, x) /\ x.at = i /\ s.known = i + RightBars
    BY <1>6
  <2>2. PICK x \in RawAt(r, d, i) : s = Level(r, x) /\ x.at = i /\ s.known = i + RightBars
    BY <2>1
  <2>3. i \in Nat \ {0} /\ i + RightBars <= n /\ i \in 1 .. n
    BY <1>4, <1>9, <2>2
  <2>4. x \in RawAt(t, d, i)
    BY <1>2, <2>2, <2>3
  <2>5. s = Level(t, x)
    BY <1>5, <2>2, <2>3
  <2>6. x \in Raw(t)
    BY <1>1, <2>3, <2>4 DEF Raw
  <2> QED
    BY <2>5, <2>6 DEF Confirmed
<1>10. ASSUME NEW s \in Confirmed(t) PROVE s \in Confirmed(r) /\ s.known <= n
  <2>1. PICK d \in Directions, i \in 1 .. n : \E x \in RawAt(t, d, i) :
          s = Level(t, x) /\ x.at = i /\ s.known = i + RightBars /\ i + RightBars <= n
    BY <1>7
  <2>2. PICK x \in RawAt(t, d, i) :
          s = Level(t, x) /\ x.at = i /\ s.known = i + RightBars /\ i + RightBars <= n
    BY <2>1
  <2>3. i \in Nat \ {0} /\ i \in DOMAIN r
    BY <1>1, <1>3
  <2>4. x \in RawAt(r, d, i)
    BY <1>2, <2>2, <2>3
  <2>5. s = Level(r, x)
    BY <1>5, <2>2, <2>3
  <2>6. x \in Raw(r)
    BY <2>3, <2>4 DEF Raw
  <2> QED
    BY <2>2, <2>5, <2>6 DEF Confirmed
<1> QED
  BY <1>8, <1>9, <1>10 DEF SameSwings, r

\* A candle of the BOS detector is answered alike one candle later.
LEMMA BreaksAlike ==
  ASSUME NEW t \in Seq(CandleType), NEW k \in CandleType, NEW swings, NEW later,
         SameSwings(swings, later, Len(t)), NEW before, NEW i \in 1 .. Len(t)
  PROVE  BOS!EventsAt(Append(t, k), later, before, i) = BOS!EventsAt(t, swings, before, i)
<1> PICK n \in Nat : n = Len(t)
  BY CandlesAre
<1> DEFINE r == Append(t, k)
<1>1. Prefix(t, r)
  BY AsBefore
<1>2. BOS!AtrAt(r, i) = BOS!AtrAt(t, i)
  BY BreakLooksBack
<1> HIDE DEF r
<1>3. \A j \in 1 .. n : r[j] = t[j]
  BY <1>1 DEF Prefix
<1>4. \A s : (s \in later /\ s.known < i) <=> (s \in swings /\ s.known < i)
  BY DEF SameSwings
<1>5. \A d, b : BOS!Candidates(later, d, i, b) = BOS!Candidates(swings, d, i, b)
  BY <1>4 DEF BOS!Candidates
<1>6. \A d, s : BOS!BreakAt(r, d, i, s) = BOS!BreakAt(t, d, i, s)
  <2>1. r[i] = t[i]
    BY <1>3
  <2> QED
    BY <1>2, <2>1 DEF BOS!BreakAt
<1> QED
  BY <1>5, <1>6 DEF BOS!EventsAt, r

\* ... so what it detected stays detected, with the same swing.
LEMMA BreaksStay ==
  ASSUME NEW t \in Seq(CandleType), NEW k \in CandleType, NEW swings, NEW later,
         SameSwings(swings, later, Len(t))
  PROVE  BOS!Kept(t, swings, Append(t, k), later)
<1> PICK n \in Nat : n = Len(t)
  BY CandlesAre
<1> DEFINE r == Append(t, k)
<1>1. Len(r) = n + 1
  OBVIOUS
<1>2. \A i \in 1 .. n : \A before : BOS!EventsAt(r, later, before, i) = BOS!EventsAt(t, swings, before, i)
  BY BreaksAlike
<1> HIDE DEF r
<1>3. PICK f : BreaksUpTo(f, t, swings)
  BY BreaksOneByOne
<1>4. PICK g : BreaksUpTo(g, r, later)
  <2>1. Len(r) \in Nat
    BY <1>1
  <2> QED
    BY <2>1, BreaksOneByOne
<1>5. /\ f[0] = {} /\ f[n] = BOS!Events(t, swings)
      /\ \A i \in 1 .. n : f[i] = f[i - 1] \cup BOS!EventsAt(t, swings, f[i - 1], i)
  BY <1>3 DEF BreaksUpTo
<1>6. /\ g[0] = {} /\ g[n + 1] = BOS!Events(r, later)
      /\ \A i \in 1 .. n + 1 : g[i] = g[i - 1] \cup BOS!EventsAt(r, later, g[i - 1], i)
  BY <1>1, <1>4 DEF BreaksUpTo
<1> DEFINE T == {m \in 0 .. n : f[m] = g[m]}
<1>7. 0 \in T
  <2>1. f[0] = {} /\ g[0] = {}
    BY <1>5, <1>6
  <2>2. f[0] = g[0] /\ 0 \in 0 .. n
    BY <2>1
  <2> QED
    BY <2>2, Zenon
<1>8. ASSUME NEW m \in 0 .. n - 1, m \in T PROVE m + 1 \in T
  <2>1. m + 1 \in 1 .. n /\ m + 1 \in 1 .. n + 1 /\ (m + 1) - 1 = m /\ f[m] = g[m]
    BY <1>8
  <2>2. f[m + 1] = f[m] \cup BOS!EventsAt(t, swings, f[m], m + 1)
    BY <1>5, <2>1
  <2>3. g[m + 1] = g[m] \cup BOS!EventsAt(r, later, g[m], m + 1)
    BY <1>6, <2>1
  <2>4. BOS!EventsAt(r, later, f[m], m + 1) = BOS!EventsAt(t, swings, f[m], m + 1)
    BY <1>2, <2>1
  <2>5. f[m + 1] = g[m + 1] /\ m + 1 \in 0 .. n
    BY <2>1, <2>2, <2>3, <2>4
  <2> QED
    BY <2>5, Zenon
<1>9. n \in T
  <2> HIDE DEF T
  <2> QED
    BY <1>7, <1>8, CountingUp, n \in 0 .. n
<1>10. g[n] \subseteq g[n + 1]
  <2>1. n + 1 \in 1 .. n + 1 /\ (n + 1) - 1 = n
    OBVIOUS
  <2>2. g[n + 1] = g[n] \cup BOS!EventsAt(r, later, g[n], n + 1)
    BY <1>6, <2>1
  <2> QED
    BY <2>2
<1> QED
  BY <1>5, <1>6, <1>9, <1>10 DEF BOS!Kept, r

\* A candle of the MSS detector is answered alike one candle later.
LEMMA ShiftsAlike ==
  ASSUME NEW t \in Seq(CandleType), NEW k \in CandleType, NEW swings, NEW later,
         SameSwings(swings, later, Len(t)), NEW before, NEW i \in 1 .. Len(t)
  PROVE  MSS!EventsAt(Append(t, k), later, before, i) = MSS!EventsAt(t, swings, before, i)
<1> PICK n \in Nat : n = Len(t)
  BY CandlesAre
<1> DEFINE r == Append(t, k)
<1>1. Prefix(t, r)
  BY AsBefore
<1>2. MSS!AtrAt(r, i) = MSS!AtrAt(t, i)
  BY ShiftLooksBack
<1> HIDE DEF r
<1>3. \A j \in 1 .. n : r[j] = t[j]
  BY <1>1 DEF Prefix
<1>4. \A s : (s \in later /\ s.known < i) <=> (s \in swings /\ s.known < i)
  BY DEF SameSwings
<1>5. \A d, b : MSS!Candidates(later, d, i, b) = MSS!Candidates(swings, d, i, b)
  BY <1>4 DEF MSS!Candidates
<1>6. \A d, s, p : MSS!ShiftAt(r, d, i, s, p) = MSS!ShiftAt(t, d, i, s, p)
  <2>1. r[i] = t[i]
    BY <1>3
  <2> QED
    BY <1>2, <2>1 DEF MSS!ShiftAt
<1>7. MSS!Previous(r, later, i) = MSS!Previous(t, swings, i)
  <2>1. {s \in later : s.known < i} = {s \in swings : s.known < i}
    BY <1>4
  <2>2. MSS!LastFour(later, i) = MSS!LastFour(swings, i)
    BY <2>1 DEF MSS!LastFour
  <2>3. r[i] = t[i]
    BY <1>3
  <2>4. r[MSS!Larger(1, i - 4)] = t[MSS!Larger(1, i - 4)]
    <3>1. MSS!Larger(1, i - 4) \in 1 .. n
      BY DEF MSS!Larger
    <3> QED
      BY <1>3, <3>1
  <2> QED
    BY <2>2, <2>3, <2>4 DEF MSS!Previous
<1> QED
  BY <1>5, <1>6, <1>7 DEF MSS!EventsAt, r

\* ... so what it detected stays detected, with the same swing.
LEMMA ShiftsStay ==
  ASSUME NEW t \in Seq(CandleType), NEW k \in CandleType, NEW swings, NEW later,
         SameSwings(swings, later, Len(t))
  PROVE  MSS!Kept(t, swings, Append(t, k), later)
<1> PICK n \in Nat : n = Len(t)
  BY CandlesAre
<1> DEFINE r == Append(t, k)
<1>1. Len(r) = n + 1
  OBVIOUS
<1>2. \A i \in 1 .. n : \A before : MSS!EventsAt(r, later, before, i) = MSS!EventsAt(t, swings, before, i)
  BY ShiftsAlike
<1> HIDE DEF r
<1>3. PICK f : ShiftsUpTo(f, t, swings)
  BY ShiftsOneByOne
<1>4. PICK g : ShiftsUpTo(g, r, later)
  <2>1. Len(r) \in Nat
    BY <1>1
  <2> QED
    BY <2>1, ShiftsOneByOne
<1>5. /\ f[0] = {} /\ f[n] = MSS!Events(t, swings)
      /\ \A i \in 1 .. n : f[i] = f[i - 1] \cup MSS!EventsAt(t, swings, f[i - 1], i)
  BY <1>3 DEF ShiftsUpTo
<1>6. /\ g[0] = {} /\ g[n + 1] = MSS!Events(r, later)
      /\ \A i \in 1 .. n + 1 : g[i] = g[i - 1] \cup MSS!EventsAt(r, later, g[i - 1], i)
  BY <1>1, <1>4 DEF ShiftsUpTo
<1> DEFINE T == {m \in 0 .. n : f[m] = g[m]}
<1>7. 0 \in T
  <2>1. f[0] = {} /\ g[0] = {}
    BY <1>5, <1>6
  <2>2. f[0] = g[0] /\ 0 \in 0 .. n
    BY <2>1
  <2> QED
    BY <2>2, Zenon
<1>8. ASSUME NEW m \in 0 .. n - 1, m \in T PROVE m + 1 \in T
  <2>1. m + 1 \in 1 .. n /\ m + 1 \in 1 .. n + 1 /\ (m + 1) - 1 = m /\ f[m] = g[m]
    BY <1>8
  <2>2. f[m + 1] = f[m] \cup MSS!EventsAt(t, swings, f[m], m + 1)
    BY <1>5, <2>1
  <2>3. g[m + 1] = g[m] \cup MSS!EventsAt(r, later, g[m], m + 1)
    BY <1>6, <2>1
  <2>4. MSS!EventsAt(r, later, f[m], m + 1) = MSS!EventsAt(t, swings, f[m], m + 1)
    BY <1>2, <2>1
  <2>5. f[m + 1] = g[m + 1] /\ m + 1 \in 0 .. n
    BY <2>1, <2>2, <2>3, <2>4
  <2> QED
    BY <2>5, Zenon
<1>9. n \in T
  <2> HIDE DEF T
  <2> QED
    BY <1>7, <1>8, CountingUp, n \in 0 .. n
<1>10. g[n] \subseteq g[n + 1]
  <2>1. n + 1 \in 1 .. n + 1 /\ (n + 1) - 1 = n
    OBVIOUS
  <2>2. g[n + 1] = g[n] \cup MSS!EventsAt(r, later, g[n], n + 1)
    BY <1>6, <2>1
  <2> QED
    BY <2>2
<1> QED
  BY <1>5, <1>6, <1>9, <1>10 DEF MSS!Kept, r

-------------------------------------------------------------------------------
(* fair_value_gap.py, imbalance.py *)

\* What came first comes first when something later is added.
LEMMA FirstStays ==
  ASSUME NEW A, NEW B, A \subseteq B, B \subseteq Int, A # {}, \A i \in A, j \in B \ A : i < j
  PROVE  {i \in B : \A j \in B : i <= j} = {i \in A : \A j \in A : i <= j}
<1>1. PICK a \in A : TRUE
  OBVIOUS
<1>2. ASSUME NEW i \in B, \A j \in B : i <= j PROVE i \in A /\ \A j \in A : i <= j
  <2>1. i \in A
    BY <1>1, <1>2
  <2> QED
    BY <1>2, <2>1
<1>3. ASSUME NEW i \in A, \A j \in A : i <= j PROVE i \in B /\ \A j \in B : i <= j
  <2>1. ASSUME NEW j \in B PROVE i <= j
    <3>1. CASE j \in A
      BY <1>3, <3>1
    <3>2. CASE j \notin A
      BY <1>3, <3>2
    <3> QED
      BY <3>1, <3>2
  <2> QED
    BY <1>3, <2>1
<1> QED
  BY <1>2, <1>3

\* What the zone detectors ask of a candle is the same one candle later.
LEMMA GapLooksBack ==
  ASSUME NEW t, NEW later, Prefix(t, later), NEW i \in 1 .. Len(t)
  PROVE  /\ GAP!AtrAt(later, i) = GAP!AtrAt(t, i)
         /\ \A rule, d : GAP!Strength(rule, later, d, i) = GAP!Strength(rule, t, d, i)
<1>1. GAP!AtrAt(later, i) = GAP!AtrAt(t, i)
  BY DEF Prefix, GAP!AtrAt, GAP!UpTo
<1>2. later[i] = t[i]
  BY DEF Prefix
<1> QED
  BY <1>1, <1>2 DEF GAP!Strength

Zoned(z, n) == z.dir \in Directions /\ z.at \in 1 .. n /\ z.by \in 1 .. n /\ z.lo \in Int /\ z.hi \in Int

LEMMA GapsAre ==
  ASSUME NEW t \in Seq(CandleType), NEW z \in GAP!Gaps(t)
  PROVE  Zoned(z, Len(t)) /\ z.kind = "fvg" /\ z.by = z.at - 1
<1> PICK n \in Nat : n = Len(t)
  BY CandlesAre
<1>1. PICK d \in GAP!Directions, i \in 3 .. n :
         z = [kind |-> "fvg", dir |-> d, at |-> i, by |-> i - 1, lo |-> GAP!Hi(d, t[i - 2]), hi |-> GAP!Lo(d, t[i])]
  BY DEF GAP!Gaps
<1>2. i \in 1 .. n /\ i - 1 \in 1 .. n /\ i - 2 \in 1 .. n
  OBVIOUS
<1>3. CandleFields(t[i]) /\ CandleFields(t[i - 2])
  BY <1>2, CandlesAre
<1>4. GAP!Hi(d, t[i - 2]) \in Int /\ GAP!Lo(d, t[i]) \in Int
  BY <1>3 DEF CandleFields, GAP!Hi, GAP!Lo
<1> QED
  BY <1>1, <1>2, <1>4 DEF Zoned, GAP!Directions, Directions

LEMMA GapStays ==
  ASSUME NEW t \in Seq(CandleType), NEW later, Prefix(t, later), NEW z \in GAP!Gaps(t)
  PROVE  z \in GAP!Gaps(later)
<1> PICK n \in Nat : n = Len(t)
  BY CandlesAre
<1>1. PICK d \in GAP!Directions, i \in 3 .. n :
         z = [kind |-> "fvg", dir |-> d, at |-> i, by |-> i - 1, lo |-> GAP!Hi(d, t[i - 2]), hi |-> GAP!Lo(d, t[i])]
  BY DEF GAP!Gaps
<1>2. later[i] = t[i] /\ later[i - 2] = t[i - 2] /\ i \in 3 .. Len(later)
  BY DEF Prefix
<1>3. z.lo < z.hi
  BY DEF GAP!Gaps
<1> QED
  BY <1>1, <1>2, <1>3 DEF GAP!Gaps

\* The searches of a zone: what they found stays, and what is new comes later.
LEMMA ZoneLooksAhead ==
  ASSUME NEW t \in Seq(CandleType), NEW later, Prefix(t, later), NEW z, z.at \in 1 .. Len(t)
  PROVE  /\ GAP!Through(t, z) # {} => GAP!Through(later, z) = GAP!Through(t, z)
         /\ GAP!Touches(t, z) \subseteq GAP!Touches(later, z)
         /\ \A least : GAP!Reactions(t, z, least) \subseteq GAP!Reactions(later, z, least)
<1> PICK n \in Nat : n = Len(t)
  BY CandlesAre
<1>1. Len(later) = n + 1 /\ (\A j \in 1 .. n : later[j] = t[j]) /\ z.at \in 1 .. n
  BY DEF Prefix
<1> DEFINE A == {i \in z.at + 1 .. n : GAP!Cl(z.dir, t[i]) < z.lo}
           B == {i \in z.at + 1 .. n + 1 : GAP!Cl(z.dir, later[i]) < z.lo}
<1>2. A \subseteq B /\ B \subseteq Int /\ \A i \in A, j \in B \ A : i < j
  BY <1>1
<1>3. GAP!Through(t, z) = {i \in A : \A j \in A : i <= j} /\ GAP!Through(later, z) = {i \in B : \A j \in B : i <= j}
  BY <1>1 DEF GAP!Through, GAP!Earliest
<1>4. GAP!Through(t, z) # {} => GAP!Through(later, z) = GAP!Through(t, z)
  <2> HIDE DEF A, B
  <2> QED
    BY <1>2, <1>3, FirstStays
<1>5. GAP!Touches(t, z) \subseteq GAP!Touches(later, z) /\ \A i \in GAP!Touches(t, z) : i \in 1 .. n
  BY <1>1 DEF GAP!Touches
<1>6. \A least : GAP!Reactions(t, z, least) \subseteq GAP!Reactions(later, z, least)
  BY <1>1, <1>5 DEF GAP!Reactions
<1> QED
  BY <1>4, <1>5, <1>6

\* Of the whole numbers at finitely many positions one is the least.
LEMMA LeastOf ==
  ASSUME NEW n \in Nat, NEW I, I \subseteq 1 .. n, I # {}, NEW f, \A i \in I : f[i] \in Int
  PROVE  \E i \in I : \A j \in I : f[i] <= f[j]
<1> DEFINE Found(m) == (\A i \in I : i > m) \/ \E i \in I : i <= m /\ \A j \in I : j <= m => f[i] <= f[j]
           T == {m \in 0 .. n : Found(m)}
<1>1. 0 \in T
  OBVIOUS
<1>2. ASSUME NEW m \in 0 .. n - 1, m \in T PROVE m + 1 \in T
  <2>1. m + 1 \in 0 .. n /\ \A j \in I : j \in Int /\ (j <= m + 1 <=> j <= m \/ j = m + 1)
    OBVIOUS
  <2>2. CASE m + 1 \notin I
    BY <1>2, <2>1, <2>2
  <2>3. CASE m + 1 \in I
    <3>1. CASE \A i \in I : i > m
      <4>1. \A j \in I : j <= m + 1 => j = m + 1
        BY <2>1, <3>1
      <4> QED
        BY <2>1, <2>3, <4>1
    <3>2. CASE \E i \in I : i <= m /\ \A j \in I : j <= m => f[i] <= f[j]
      <4>1. PICK i \in I : i <= m /\ \A j \in I : j <= m => f[i] <= f[j]
        BY <3>2
      <4>2. CASE f[i] <= f[m + 1]
        <5>1. i <= m + 1 /\ \A j \in I : j <= m + 1 => f[i] <= f[j]
          BY <2>1, <4>1, <4>2
        <5> QED
          BY <2>1, <5>1
      <4>3. CASE ~(f[i] <= f[m + 1])
        <5>1. \A j \in I : j <= m + 1 => f[m + 1] <= f[j]
          BY <2>1, <2>3, <4>1, <4>3
        <5> QED
          BY <2>1, <2>3, <5>1
      <4> QED
        BY <4>2, <4>3
    <3> QED
      BY <1>2, <3>1, <3>2
  <2> QED
    BY <2>2, <2>3
<1>3. n \in T
  <2> HIDE DEF T
  <2> QED
    BY <1>1, <1>2, CountingUp, n \in 0 .. n
<1>4. \A j \in I : j <= n
  OBVIOUS
<1>5. \E i \in I : i <= n /\ \A j \in I : j <= n => f[i] <= f[j]
  <2>1. ~ \A i \in I : i > n
    <3>1. PICK i \in I : TRUE
      OBVIOUS
    <3>2. i \in 1 .. n /\ ~(i > n)
      BY <3>1
    <3> QED
      BY <3>2
  <2> QED
    BY <1>3, <2>1
<1> QED
  BY <1>4, <1>5

\* How deep the touches of a zone went
LEMMA DeepestIs ==
  ASSUME NEW t \in Seq(CandleType), NEW z, Zoned(z, Len(t)), GAP!Touches(t, z) # {}
  PROVE  /\ GAP!Deepest(t, z) \in Int
         /\ \E i \in GAP!Touches(t, z) : GAP!Deepest(t, z) = GAP!Lo(z.dir, t[i])
         /\ \A i \in GAP!Touches(t, z) : GAP!Deepest(t, z) <= GAP!Lo(z.dir, t[i])
<1> PICK n \in Nat : n = Len(t)
  BY CandlesAre
<1> DEFINE I == GAP!Touches(t, z)
           f == [i \in I |-> GAP!Lo(z.dir, t[i])]
           S == {GAP!Lo(z.dir, t[i]) : i \in I}
<1>1. I \subseteq 1 .. n
  BY DEF GAP!Touches, Zoned
<1>2. \A i \in I : f[i] \in Int
  BY <1>1, CandlesAre DEF CandleFields, GAP!Lo
<1>3. S = {f[i] : i \in I} /\ GAP!Deepest(t, z) = CHOOSE x \in S : \A y \in S : x <= y
  BY DEF GAP!Deepest, GAP!Min
<1> HIDE DEF I, f
<1>4. PICK i \in I : \A j \in I : f[i] <= f[j]
  BY <1>1, <1>2, LeastOf DEF I
<1>5. f[i] \in S /\ \A y \in S : f[i] <= y
  BY <1>3, <1>4
<1> HIDE DEF S
<1>6. GAP!Deepest(t, z) \in S /\ \A y \in S : GAP!Deepest(t, z) <= y
  BY <1>3, <1>5
<1> QED
  BY <1>2, <1>6 DEF S, f, I

LEMMA FullStays ==
  ASSUME NEW t \in Seq(CandleType), NEW later \in Seq(CandleType), Prefix(t, later), NEW z, Zoned(z, Len(t)),
         GAP!FillOf(t, z) = "full"
  PROVE  GAP!FillOf(later, z) = "full"
<1> PICK n \in Nat : n = Len(t)
  BY CandlesAre
<1>1. GAP!Touches(t, z) # {} /\ GAP!Deepest(t, z) <= z.lo
  BY DEF GAP!FillOf
<1>2. PICK i \in GAP!Touches(t, z) : GAP!Lo(z.dir, t[i]) <= z.lo
  BY <1>1, DeepestIs
<1>3. i \in GAP!Touches(later, z) /\ i \in 1 .. n
  <2>1. i \in GAP!Touches(later, z)
    BY ZoneLooksAhead DEF Zoned
  <2> QED
    BY <2>1 DEF GAP!Touches, Zoned
<1>4. later[i] = t[i] /\ Zoned(z, Len(later))
  BY <1>3 DEF Prefix, Zoned
<1>5. GAP!Deepest(later, z) <= z.lo /\ GAP!Deepest(later, z) \notin z.lo + 1 .. z.hi - 1
  <2>1. GAP!Deepest(later, z) \in Int /\ GAP!Deepest(later, z) <= GAP!Lo(z.dir, later[i])
    BY <1>3, <1>4, DeepestIs
  <2>2. GAP!Lo(z.dir, t[i]) \in Int /\ z.lo \in Int
    BY <1>3, CandlesAre DEF CandleFields, GAP!Lo, Zoned
  <2> QED
    BY <1>2, <1>4, <2>1, <2>2
<1> QED
  BY <1>3, <1>5 DEF GAP!FillOf

LEMMA GapsGoOn ==
  ASSUME NEW t \in Seq(CandleType), NEW later \in Seq(CandleType), Prefix(t, later)
  PROVE  GAP!GapsStay(t, later)
<1> SUFFICES ASSUME NEW z \in GAP!Gaps(t)
             PROVE  /\ z \in GAP!Gaps(later)
                    /\ GAP!Strength(GAP!OfGap, later, z.dir, z.by) = GAP!Strength(GAP!OfGap, t, z.dir, z.by)
                    /\ GAP!Through(t, z) # {} => GAP!Through(later, z) = GAP!Through(t, z)
                    /\ GAP!FillOf(t, z) = "full" => GAP!FillOf(later, z) = "full"
  BY DEF GAP!GapsStay
<1>1. Zoned(z, Len(t))
  BY GapsAre
<1>2. z.by \in 1 .. Len(t) /\ z.at \in 1 .. Len(t)
  BY <1>1 DEF Zoned
<1> QED
  BY <1>1, <1>2, GapStays, GapLooksBack, ZoneLooksAhead, FullStays

LEMMA GapWasThere ==
  ASSUME NEW t \in Seq(CandleType), NEW later, Prefix(t, later), NEW z \in GAP!Gaps(later), z.at <= Len(t)
  PROVE  z \in GAP!Gaps(t)
<1> PICK n \in Nat : n = Len(t)
  BY CandlesAre
<1>1. PICK d \in GAP!Directions, i \in 3 .. n + 1 :
         z = [kind |-> "fvg", dir |-> d, at |-> i, by |-> i - 1,
              lo |-> GAP!Hi(d, later[i - 2]), hi |-> GAP!Lo(d, later[i])]
  BY DEF GAP!Gaps, Prefix
<1>2. i \in 1 .. n /\ i - 2 \in 1 .. n
  BY <1>1
<1>3. later[i] = t[i] /\ later[i - 2] = t[i - 2] /\ i \in 3 .. Len(t)
  BY <1>2 DEF Prefix
<1>4. z.lo < z.hi
  BY DEF GAP!Gaps
<1> QED
  BY <1>1, <1>3, <1>4 DEF GAP!Gaps

\* Where a zone was made
Settled(z, n) == z.dir \in GAP!Directions /\ z.at \in 1 .. n /\ z.by \in 1 .. n

\* An imbalance that something happened to is one ever after.
LEMMA BodyStays ==
  ASSUME NEW t \in Seq(CandleType), NEW later, Prefix(t, later), NEW z \in GAP!Bodies(t)
  PROVE  Settled(z, Len(t)) /\ (z.at < Len(t) => z \in GAP!Bodies(later))
<1> PICK n \in Nat : n = Len(t)
  BY CandlesAre
<1>1. PICK x \in GAP!Directions \X (2 .. n) :
        /\ z = [kind |-> "body", dir |-> x[1], at |-> x[2], by |-> x[2],
                lo |-> GAP!Op(x[1], t[x[2]]), hi |-> GAP!Cl(x[1], t[x[2]])]
        /\ GAP!Strength(GAP!OfImbalance, t, x[1], x[2]) \in {"strong", "moderate"}
        /\ \A y \in GAP!Gaps(t) : y.dir # x[1] \/ y.by # x[2]
  BY DEF GAP!Bodies
<1>2. x[1] \in GAP!Directions /\ x[2] \in 2 .. n /\ x[2] \in 1 .. n /\ x \in GAP!Directions \X (2 .. n + 1)
  BY <1>1
<1>3. Len(later) = n + 1 /\ later[x[2]] = t[x[2]]
  BY <1>2 DEF Prefix
<1>4. GAP!Strength(GAP!OfImbalance, later, x[1], x[2]) = GAP!Strength(GAP!OfImbalance, t, x[1], x[2])
  BY <1>2, GapLooksBack
<1>5. ASSUME z.at < n, NEW y \in GAP!Gaps(later) PROVE y.dir # x[1] \/ y.by # x[2]
  <2>1. PICK i \in 3 .. n + 1 : y.at = i /\ y.by = i - 1
    BY <1>3 DEF GAP!Gaps
  <2>2. CASE i <= n
    BY <1>1, <2>1, <2>2, GapWasThere
  <2>3. CASE i = n + 1
    BY <1>1, <1>2, <1>5, <2>1, <2>3
  <2> QED
    BY <2>1, <2>2, <2>3
<1>6. z.at < n => z \in GAP!Bodies(later)
  BY <1>1, <1>2, <1>3, <1>4, <1>5 DEF GAP!Bodies
<1>7. Settled(z, n)
  BY <1>1, <1>2 DEF Settled
<1> QED
  BY <1>6, <1>7

LEMMA RunLooksBack ==
  ASSUME NEW t \in Seq(CandleType), NEW later, Prefix(t, later), NEW d,
         NEW first \in 1 .. Len(t), NEW last \in 1 .. Len(t)
  PROVE  /\ GAP!Run(later, d, first, last) <=> GAP!Run(t, d, first, last)
         /\ GAP!RunZone(later, d, first, last) = GAP!RunZone(t, d, first, last)
<1> PICK n \in Nat : n = Len(t)
  BY CandlesAre
<1>1. \A i \in first .. last : i \in 1 .. n /\ later[i] = t[i]
  BY DEF Prefix
<1>2. \A i \in first + 1 .. last : later[i] = t[i] /\ later[i - 1] = t[i - 1]
  <2>1. \A i \in first + 1 .. last : i \in first .. last /\ i - 1 \in first .. last
    OBVIOUS
  <2> QED
    BY <1>1, <2>1
<1>3. later[first] = t[first] /\ later[last] = t[last]
  BY DEF Prefix
<1>4. GAP!AtrAt(later, last) = GAP!AtrAt(t, last)
  BY GapLooksBack
<1>5. {i \in first .. last : GAP!With(d, later[i])} = {i \in first .. last : GAP!With(d, t[i])}
  BY <1>1
<1>6. {i \in first + 1 .. last : GAP!Cl(d, later[i]) >= GAP!Cl(d, later[i - 1])}
        = {i \in first + 1 .. last : GAP!Cl(d, t[i]) >= GAP!Cl(d, t[i - 1])}
  BY <1>2
<1>7. GAP!Run(later, d, first, last) <=> GAP!Run(t, d, first, last)
  BY <1>3, <1>4, <1>5, <1>6 DEF GAP!Run
<1>8. /\ {GAP!Smaller(GAP!Op(d, later[i]), GAP!Cl(d, later[i])) : i \in first .. last}
           = {GAP!Smaller(GAP!Op(d, t[i]), GAP!Cl(d, t[i])) : i \in first .. last}
      /\ {GAP!Larger(GAP!Op(d, later[i]), GAP!Cl(d, later[i])) : i \in first .. last}
           = {GAP!Larger(GAP!Op(d, t[i]), GAP!Cl(d, t[i])) : i \in first .. last}
  BY <1>1
<1> QED
  BY <1>7, <1>8 DEF GAP!RunZone

LEMMA RunStays ==
  ASSUME NEW t \in Seq(CandleType), NEW later, Prefix(t, later), NEW z \in GAP!Runs(t)
  PROVE  Settled(z, Len(t)) /\ z \in GAP!Runs(later)
<1> PICK n \in Nat : n = Len(t)
  BY CandlesAre
<1>1. PICK x \in GAP!Directions \X (1 .. n - 5) \X (1 .. 4) :
        GAP!Run(t, x[1], x[2], x[2] + x[3]) /\ z = GAP!RunZone(t, x[1], x[2], x[2] + x[3])
  BY DEF GAP!Runs
<1>2. x[1] \in GAP!Directions /\ x[2] \in 1 .. n /\ x[2] + x[3] \in 1 .. n
  BY <1>1
<1>3. x \in GAP!Directions \X (1 .. Len(later) - 5) \X (1 .. 4)
  <2>1. x = <<x[1], x[2], x[3]>> /\ x[2] \in 1 .. n - 5 /\ x[3] \in 1 .. 4 /\ Len(later) = n + 1
    BY <1>1 DEF Prefix
  <2>2. x[2] \in 1 .. Len(later) - 5
    BY <2>1
  <2> QED
    BY <1>2, <2>1, <2>2
<1>4. GAP!Run(later, x[1], x[2], x[2] + x[3]) /\ z = GAP!RunZone(later, x[1], x[2], x[2] + x[3])
  BY <1>1, <1>2, RunLooksBack
<1>5. Settled(z, n)
  BY <1>1, <1>2 DEF Settled, GAP!RunZone
<1>6. \/ GAP!Matching(GapContext.structures, z.dir, z.at) \/ GAP!Matching(LiquidityEvents, z.dir, z.at)
      \/ GAP!Overlaps(z, GapContext.gapZones)
  BY DEF GAP!Runs
<1> QED
  BY <1>3, <1>4, <1>5, <1>6 DEF GAP!Runs

LEMMA ScoreStays ==
  ASSUME NEW t, NEW later, Prefix(t, later), NEW z, Settled(z, Len(t)),
         GAP!ImbalanceStatus(later, z) = GAP!ImbalanceStatus(t, z)
  PROVE  GAP!ImbalanceScore(later, z) = GAP!ImbalanceScore(t, z)
<1>1. z.by \in 1 .. Len(t)
  BY DEF Settled
<1>2. GAP!AtrAt(later, z.by) = GAP!AtrAt(t, z.by)
      /\ GAP!Strength(GAP!OfImbalance, later, z.dir, z.by) = GAP!Strength(GAP!OfImbalance, t, z.dir, z.by)
  BY <1>1, GapLooksBack
<1> QED
  BY <1>2 DEF GAP!ImbalanceScore

LEMMA AllowedGoOn ==
  ASSUME NEW t \in Seq(CandleType), NEW later \in Seq(CandleType), Prefix(t, later)
  PROVE  GAP!AllowedUntilThrough(t, later)
<1> PICK n \in Nat : n = Len(t)
  BY CandlesAre
<1> SUFFICES ASSUME NEW z \in GAP!Imbalances(t), GAP!ImbalanceEntryAllowed(t, z)
             PROVE  z \in GAP!Imbalances(later) /\ (GAP!ImbalanceEntryAllowed(later, z) \/ GAP!Through(later, z) # {})
  BY DEF GAP!AllowedUntilThrough
<1>1. Settled(z, n)
  <2>1. CASE z \in GAP!Gaps(t)
    BY <2>1, GapsAre DEF Zoned, Settled, Directions, GAP!Directions
  <2> QED
    BY <2>1, BodyStays, RunStays DEF GAP!Imbalances
<1>2. GAP!ImbalanceStatus(t, z) = "respected" /\ GAP!ImbalanceScore(t, z) >= 700
  BY DEF GAP!ImbalanceEntryAllowed
<1>3. GAP!Reactions(t, z, 0) # {}
  BY <1>2 DEF GAP!ImbalanceStatus, GAP!FillOf
<1>4. z.at < n
  <2>1. PICK i \in GAP!Reactions(t, z, 0) : i \in z.at + 1 .. n
    BY <1>3 DEF GAP!Reactions, GAP!Touches
  <2> QED
    BY <1>1, <2>1 DEF Settled
<1>5. z \in GAP!Imbalances(later)
  BY <1>4, GapStays, BodyStays, RunStays DEF GAP!Imbalances
<1>6. ASSUME GAP!Through(later, z) = {} PROVE GAP!ImbalanceEntryAllowed(later, z)
  <2>1. GAP!Reactions(later, z, 0) # {}
    BY <1>1, <1>3, ZoneLooksAhead DEF Settled
  <2>2. GAP!ImbalanceStatus(later, z) = "respected"
    BY <1>6, <2>1 DEF GAP!ImbalanceStatus
  <2>3. GAP!ImbalanceScore(later, z) = GAP!ImbalanceScore(t, z)
    BY <1>1, <1>2, <2>2, ScoreStays
  <2> QED
    BY <1>2, <2>2, <2>3 DEF GAP!ImbalanceEntryAllowed
<1> QED
  BY <1>5, <1>6

-------------------------------------------------------------------------------
(* order_block.py and its mirrors, breaker_block.py, mitigation_block.py *)

\* FirstStays on a tape that grew by one candle.
LEMMA FoundStays ==
  ASSUME NEW n \in Nat, NEW A, NEW B, A \subseteq 1 .. n, A \subseteq B, B \subseteq A \cup {n + 1}, A # {}
  PROVE  {i \in B : \A j \in B : i <= j} = {i \in A : \A j \in A : i <= j}
<1>1. B \subseteq Int /\ \A i \in A, j \in B \ A : i < j
  OBVIOUS
<1> QED
  BY <1>1, FirstStays

LEMMA BlockLooksBack ==
  ASSUME NEW t, NEW later, Prefix(t, later), NEW i \in 1 .. Len(t)
  PROVE  /\ BLK!AtrAt(later, i) = BLK!AtrAt(t, i)
         /\ \A d : BLK!Displaces(later, d, i) <=> BLK!Displaces(t, d, i)
<1>1. BLK!AtrAt(later, i) = BLK!AtrAt(t, i)
  BY DEF Prefix, BLK!AtrAt, BLK!UpTo
<1>2. later[i] = t[i]
  BY DEF Prefix
<1> QED
  BY <1>1, <1>2 DEF BLK!Displaces

KnownEvent(e, n) == e.at \in 1 .. n /\ e.dir \in Directions

LEMMA KnownAre ==
  ASSUME NEW t \in Seq(CandleType), NEW later, Prefix(t, later), NEW e \in BLK!Known(BlockContext.events, t)
  PROVE  KnownEvent(e, Len(t)) /\ e \in BLK!Known(BlockContext.events, later)
<1> PICK n \in Nat : n = Len(t)
  BY CandlesAre
<1>1. e \in BlockContext.events /\ e.at <= n
  BY DEF BLK!Known
<1>2. e.at \in Nat \ {0} /\ e.dir \in Directions
  BY <1>1, ContextAssumption
<1>3. e.at <= Len(later)
  BY <1>1, <1>2 DEF Prefix
<1> QED
  BY <1>1, <1>2, <1>3 DEF BLK!Known, KnownEvent

\* The displacement before an event, and the last candles against a direction
LEMMA StartStays ==
  ASSUME NEW t \in Seq(CandleType), NEW later, Prefix(t, later), NEW e, KnownEvent(e, Len(t))
  PROVE  BLK!Start(t, e) \in 1 .. Len(t) /\ BLK!Start(later, e) = BLK!Start(t, e)
<1> PICK n \in Nat : n = Len(t)
  BY CandlesAre
<1> DEFINE range == BLK!Larger(1, e.at - BLK!Lookback) .. e.at
           Of(x) == {i \in range : BLK!Displaces(x, e.dir, i)}
<1>1. range \subseteq 1 .. n
  BY DEF BLK!Larger, BLK!Lookback, KnownEvent
<1> HIDE DEF range
<1>2. Of(later) = Of(t)
  BY <1>1, BlockLooksBack
<1>3. BLK!Start(later, e) = BLK!Start(t, e)
  BY <1>2 DEF BLK!Start, range
<1>4. BLK!Start(t, e) \in 1 .. n
  <2>1. BLK!Start(t, e) = IF BLK!Earliest(Of(t)) = {} THEN e.at ELSE BLK!The(BLK!Earliest(Of(t)))
    BY DEF BLK!Start, range
  <2>2. BLK!Earliest(Of(t)) \subseteq 1 .. n
    BY <1>1 DEF BLK!Earliest
  <2>3. e.at \in 1 .. n
    BY DEF KnownEvent
  <2> HIDE DEF Of
  <2> QED
    BY <2>1, <2>2, <2>3 DEF BLK!The
<1> QED
  BY <1>3, <1>4

LEMMA AgainstStays ==
  ASSUME NEW t \in Seq(CandleType), NEW later, Prefix(t, later), NEW d, NEW i \in 1 .. Len(t)
  PROVE  BLK!LastAgainst(t, d, i) \subseteq 1 .. i - 1 /\ BLK!LastAgainst(later, d, i) = BLK!LastAgainst(t, d, i)
<1> PICK n \in Nat : n = Len(t)
  BY CandlesAre
<1> DEFINE range == BLK!Larger(1, i - BLK!Lookback) .. i - 1
<1>1. range \subseteq 1 .. i - 1 /\ range \subseteq 1 .. n
  BY DEF BLK!Larger, BLK!Lookback
<1> HIDE DEF range
<1>2. \A j \in range : later[j] = t[j]
  BY <1>1 DEF Prefix
<1> QED
  BY <1>1, <1>2 DEF BLK!LastAgainst, range

\* A block of either kind: its place, its event, its range
Blocked(t, b) ==
  /\ KnownEvent(b.event, Len(t)) /\ b.dir = b.event.dir
  /\ \E at \in 1 .. Len(t) : b.at = at /\ b.lo = BLK!Lo(b.dir, t[at]) /\ b.hi = BLK!Hi(b.dir, t[at])

LEMMA SameBlock ==
  ASSUME NEW t, NEW later, Prefix(t, later), NEW e, KnownEvent(e, Len(t)), NEW at \in 1 .. Len(t), NEW start
  PROVE  Blocked(t, BLK!Block(t, e, at, start)) /\ BLK!Block(later, e, at, start) = BLK!Block(t, e, at, start)
<1>1. later[at] = t[at]
  BY DEF Prefix
<1> QED
  BY <1>1 DEF BLK!Block, Blocked

LEMMA EventBlockStays ==
  ASSUME NEW t \in Seq(CandleType), NEW later, Prefix(t, later), NEW b \in BLK!OfEvents(t)
  PROVE  Blocked(t, b) /\ b \in BLK!OfEvents(later)
<1> PICK n \in Nat : n = Len(t)
  BY CandlesAre
<1>1. PICK e \in BLK!Known(BlockContext.events, t) :
        /\ BLK!LastAgainst(t, e.dir, BLK!Start(t, e)) # {}
        /\ b = BLK!Block(t, e, BLK!Max(BLK!LastAgainst(t, e.dir, BLK!Start(t, e))), BLK!Start(t, e))
  BY DEF BLK!OfEvents
<1>2. KnownEvent(e, n) /\ e \in BLK!Known(BlockContext.events, later)
  BY KnownAre
<1>3. BLK!Start(t, e) \in 1 .. n /\ BLK!Start(later, e) = BLK!Start(t, e)
  BY <1>2, StartStays
<1> DEFINE last == BLK!LastAgainst(t, e.dir, BLK!Start(t, e))
<1>4. last \subseteq 1 .. n /\ BLK!LastAgainst(later, e.dir, BLK!Start(later, e)) = last
  BY <1>3, AgainstStays
<1>5. BLK!Max(last) \in 1 .. n
  <2>1. OBR!Max(last) \in last
    <3>1. last # {} /\ last \subseteq 0 .. n
      BY <1>1, <1>4
    <3> HIDE DEF last
    <3> QED
      BY <3>1, LastIsIn
  <2> QED
    BY <1>4, <2>1 DEF OBR!Max, BLK!Max
<1>6. Blocked(t, b) /\ b = BLK!Block(later, e, BLK!Max(last), BLK!Start(later, e))
  BY <1>1, <1>2, <1>3, <1>5, SameBlock
<1>7. b.event.at - b.at \in 1 .. 20
  BY DEF BLK!OfEvents
<1> QED
  BY <1>1, <1>2, <1>4, <1>6, <1>7 DEF BLK!OfEvents

LEMMA CandidateStays ==
  ASSUME NEW t \in Seq(CandleType), NEW later, Prefix(t, later), NEW b \in BLK!Candidates(t)
  PROVE  Blocked(t, b) /\ b \in BLK!Candidates(later)
<1> PICK n \in Nat : n = Len(t)
  BY CandlesAre
<1>1. PICK x \in BLK!Known(BlockContext.events, t) \X DOMAIN t : b = BLK!Block(t, x[1], x[2], x[1].at)
  BY DEF BLK!Candidates
<1> DEFINE Near(y) == {i \in BLK!LastAgainst(y, b.dir, b.event.at) : 2 * BLK!Size(y[i]) <= 5 * BLK!AtrAt(y, i)}
<1>2. b.event.strength \notin {"none", "weak"} /\ b.at = BLK!Max({0} \cup Near(t))
  BY DEF BLK!Candidates
<1>3. /\ x[1] \in BLK!Known(BlockContext.events, t) /\ x[2] \in 1 .. n /\ KnownEvent(x[1], n)
      /\ x[1] \in BLK!Known(BlockContext.events, later)
  BY <1>1, KnownAre
<1>4. Blocked(t, b) /\ b = BLK!Block(later, x[1], x[2], x[1].at)
  BY <1>1, <1>3, SameBlock
<1>5. <<x[1], x[2]>> \in BLK!Known(BlockContext.events, later) \X DOMAIN later
  BY <1>3 DEF Prefix
<1>6. b.event.at \in 1 .. n
  BY <1>4 DEF Blocked, KnownEvent
<1>7. Near(later) = Near(t)
  <2>1. /\ BLK!LastAgainst(later, b.dir, b.event.at) = BLK!LastAgainst(t, b.dir, b.event.at)
        /\ BLK!LastAgainst(t, b.dir, b.event.at) \subseteq 1 .. n
    BY <1>6, AgainstStays
  <2>2. \A i \in 1 .. n : later[i] = t[i] /\ BLK!AtrAt(later, i) = BLK!AtrAt(t, i)
    BY BlockLooksBack DEF Prefix
  <2> QED
    BY <2>1, <2>2
<1> HIDE DEF Near
<1>8. \E y \in BLK!Known(BlockContext.events, later) \X DOMAIN later : b = BLK!Block(later, y[1], y[2], y[1].at)
  BY <1>4, <1>5
<1> QED
  BY <1>2, <1>4, <1>7, <1>8 DEF BLK!Candidates, Near

\* What the searches behind a block's event found stays found.
LEMMA BlockLooksAhead ==
  ASSUME NEW t \in Seq(CandleType), NEW later, Prefix(t, later), NEW b, b.event.at \in 1 .. Len(t)
  PROVE  /\ BLK!Failure(t, b) # {} => BLK!Failure(later, b) = BLK!Failure(t, b)
         /\ BLK!Retest(t, b) # {} => BLK!Retest(later, b) = BLK!Retest(t, b)
         /\ BLK!Broken(t, b) # {} => BLK!Broken(later, b) = BLK!Broken(t, b)
         /\ BLK!MitigationRetest(t, b) # {} => BLK!MitigationRetest(later, b) = BLK!MitigationRetest(t, b)
<1> PICK n \in Nat : n = Len(t)
  BY CandlesAre
<1> PICK from \in 1 .. n : from = b.event.at
  OBVIOUS
<1>1. Len(later) = n + 1 /\ \A j \in 1 .. n : later[j] = t[j]
  BY DEF Prefix
<1>2. \A i \in from + 1 .. n : i \in 1 .. n /\ i \in from + 1 .. n + 1 /\ later[i] = t[i]
  BY <1>1
<1>3. ASSUME BLK!Failure(t, b) # {} PROVE BLK!Failure(later, b) = BLK!Failure(t, b)
  <2> DEFINE A == {i \in from + 1 .. n : BLK!Cl(b.dir, t[i]) < b.lo}
             B == {i \in from + 1 .. n + 1 : BLK!Cl(b.dir, later[i]) < b.lo}
  <2>1. A \subseteq 1 .. n /\ A \subseteq B /\ B \subseteq A \cup {n + 1}
    BY <1>2
  <2>2. BLK!Failure(t, b) = {i \in A : \A j \in A : i <= j} /\ BLK!Failure(later, b) = {i \in B : \A j \in B : i <= j}
    BY <1>1 DEF BLK!Failure, BLK!Earliest
  <2> HIDE DEF A, B
  <2> QED
    BY <1>3, <2>1, <2>2, FoundStays
<1>4. ASSUME BLK!Retest(t, b) # {} PROVE BLK!Retest(later, b) = BLK!Retest(t, b)
  <2> DEFINE P(x, i) == BLK!Cl(b.dir, x[i]) < b.lo - BlockContext.stopBuffer \/ BLK!Lo(b.dir, x[i]) <= b.hi
             A == {i \in from + 1 .. n : P(t, i)}
             B == {i \in from + 1 .. n + 1 : P(later, i)}
  <2>1. A \subseteq 1 .. n /\ A \subseteq B /\ B \subseteq A \cup {n + 1}
    BY <1>2
  <2>2. BLK!Retest(t, b) = {i \in A : \A j \in A : i <= j} /\ BLK!Retest(later, b) = {i \in B : \A j \in B : i <= j}
    BY <1>1 DEF BLK!Retest, BLK!Earliest
  <2> HIDE DEF A, B
  <2> QED
    BY <1>4, <2>1, <2>2, FoundStays
<1>5. ASSUME BLK!Broken(t, b) # {} PROVE BLK!Broken(later, b) = BLK!Broken(t, b)
  <2> DEFINE A == {i \in from + 1 .. n : BLK!Cl(b.dir, t[i]) < b.lo - BlockContext.buffer}
             B == {i \in from + 1 .. n + 1 : BLK!Cl(b.dir, later[i]) < b.lo - BlockContext.buffer}
  <2>1. A \subseteq 1 .. n /\ A \subseteq B /\ B \subseteq A \cup {n + 1}
    BY <1>2
  <2>2. BLK!Broken(t, b) = {i \in A : \A j \in A : i <= j} /\ BLK!Broken(later, b) = {i \in B : \A j \in B : i <= j}
    BY <1>1 DEF BLK!Broken, BLK!Earliest
  <2> HIDE DEF A, B
  <2> QED
    BY <1>5, <2>1, <2>2, FoundStays
<1>6. ASSUME BLK!MitigationRetest(t, b) # {} PROVE BLK!MitigationRetest(later, b) = BLK!MitigationRetest(t, b)
  <2> DEFINE P(x, i) == BLK!Cl(b.dir, x[i]) < b.lo - BlockContext.buffer \/ BLK!Lo(b.dir, x[i]) <= b.hi
             A == {i \in from + 1 .. n : P(t, i)}
             B == {i \in from + 1 .. n + 1 : P(later, i)}
  <2>1. A \subseteq 1 .. n /\ A \subseteq B /\ B \subseteq A \cup {n + 1}
    BY <1>2
  <2>2. /\ BLK!MitigationRetest(t, b) = {i \in A : \A j \in A : i <= j}
        /\ BLK!MitigationRetest(later, b) = {i \in B : \A j \in B : i <= j}
    BY <1>1 DEF BLK!MitigationRetest, BLK!Earliest
  <2> HIDE DEF A, B
  <2> QED
    BY <1>6, <2>1, <2>2, FoundStays
<1> QED
  BY <1>3, <1>4, <1>5, <1>6

LEMMA BlockEntryStays ==
  ASSUME NEW t \in Seq(CandleType), NEW later, Prefix(t, later), NEW b, b.event.at \in 1 .. Len(t),
         BLK!BlockEntryAllowed(t, b)
  PROVE  BLK!BlockEntryAllowed(later, b)
<1> PICK n \in Nat : n = Len(t)
  BY CandlesAre
<1>1. PICK i \in BLK!Retest(t, b) :
        /\ BLK!Cl(b.dir, t[i]) >= b.lo - BlockContext.stopBuffer /\ BLK!Reacts(b.dir, t[i], b.lo, b.hi)
        /\ BLK!Rr(t, b, i) >= 150
  BY DEF BLK!BlockEntryAllowed
<1>2. i \in BLK!Retest(later, b) /\ i \in 1 .. n
  <2>1. BLK!Retest(later, b) = BLK!Retest(t, b)
    BY BlockLooksAhead
  <2>2. i \in 1 .. n
    BY DEF BLK!Retest, BLK!Earliest
  <2> QED
    BY <2>1, <2>2
<1>3. later[i] = t[i]
  BY <1>2 DEF Prefix
<1>4. BLK!Rr(later, b, i) = BLK!Rr(t, b, i)
  BY <1>3 DEF BLK!Rr
<1> QED
  BY <1>1, <1>2, <1>3, <1>4 DEF BLK!BlockEntryAllowed

LEMMA BreakerEntryStays ==
  ASSUME NEW t \in Seq(CandleType), NEW later, Prefix(t, later), NEW b, b.event.at \in 1 .. Len(t),
         BLK!BreakerEntryAllowed(t, b)
  PROVE  BLK!BreakerEntryAllowed(later, b)
<1> PICK n \in Nat : n = Len(t)
  BY CandlesAre
<1> DEFINE d == -b.dir
<1>1. Len(later) = n + 1 /\ \A j \in 1 .. n : later[j] = t[j]
  BY DEF Prefix
<1>2. BLK!Broken(t, b) # {} /\ BLK!BreakerStatus(t, b) = "confirmed_reaction"
  BY DEF BLK!BreakerEntryAllowed
<1>3. BLK!Broken(later, b) = BLK!Broken(t, b)
  BY <1>2, BlockLooksAhead
<1>4. BLK!BreakerRetest(t, b) # {}
  BY <1>2 DEF BLK!BreakerStatus
<1>5. BLK!BreakerRetest(later, b) = BLK!BreakerRetest(t, b) /\ BLK!BreakerRetest(t, b) \subseteq 1 .. n
  <2> DEFINE P(x, i) == BLK!Cl(d, x[i]) < -b.hi - BlockContext.buffer \/ BLK!Lo(d, x[i]) <= -b.lo
             After(i) == \E f \in BLK!Broken(t, b) : i > f
             A == {i \in 1 .. n : After(i) /\ P(t, i)}
             B == {i \in 1 .. n + 1 : After(i) /\ P(later, i)}
  <2>1. A \subseteq 1 .. n /\ A \subseteq B /\ B \subseteq A \cup {n + 1}
    BY <1>1
  <2>2. BLK!BreakerRetest(t, b) = {i \in A : \A j \in A : i <= j}
    BY DEF BLK!BreakerRetest, BLK!Earliest
  <2>3. BLK!BreakerRetest(later, b) = {i \in B : \A j \in B : i <= j}
    BY <1>1, <1>3 DEF BLK!BreakerRetest, BLK!Earliest
  <2> HIDE DEF A, B
  <2> QED
    BY <1>4, <2>1, <2>2, <2>3, FoundStays
<1> DEFINE i == BLK!The(BLK!BreakerRetest(t, b))
<1>6. i \in 1 .. n
  BY <1>4, <1>5 DEF BLK!The
<1>7. later[i] = t[i]
  BY <1>1, <1>6
<1>8. \A x \in BLK!Known(BlockContext.events, t) : x \in BLK!Known(BlockContext.events, later)
  BY KnownAre
<1>9. BLK!FollowedBy(t, d, i) => BLK!FollowedBy(later, d, i)
  BY <1>8 DEF BLK!FollowedBy
<1>10. /\ ~(BLK!Cl(d, t[i]) < -b.hi - BlockContext.buffer)
       /\ BLK!FollowedBy(t, d, i) \/ BLK!Reacts(d, t[i], -b.hi, -b.lo)
  BY <1>2, <1>4 DEF BLK!BreakerStatus
<1>11. BLK!BreakerStatus(later, b) = "confirmed_reaction"
  BY <1>4, <1>5, <1>7, <1>9, <1>10 DEF BLK!BreakerStatus
<1> QED
  BY <1>2, <1>3, <1>11 DEF BLK!BreakerEntryAllowed

\* What mitigation_block.py adds up, but for the gaps, and what it caps the sum with
MitigationRest(t, b) ==
  LET status == BLK!MitigationStatus(t, b)
      swept == \E s \in BLK!Known(LiquidityEvents, t) : s.dir = b.dir /\ s.at <= b.event.at
      zone == \E z \in BlockContext.zones : z.dir = b.dir /\ BLK!Overlap(b, z)
  IN  (IF b.event.type = "MSS" THEN 150 + BLK!If(swept, 50) ELSE 100)
      + (CASE b.event.strength = "strong" -> 150 [] b.event.strength = "moderate" -> 75 [] OTHER -> 0)
      + 100 + BLK!If(swept, 100) + BLK!If(zone, 50) + BLK!If(BlockContext.location = b.dir, 100)
      + (CASE status = "confirmed_reaction" -> 150 [] status = "retest_no_reaction" -> 50 [] OTHER -> 0)
      + 75 + 75 * b.dir * BlockContext.bias - BLK!If(BlockContext.bias = -b.dir, 25)
      - BLK!If(b.hi - b.lo > 2 * BLK!AtrAt(t, b.at), 50)

MitigationCaps(t, b) ==
  LET status == BLK!MitigationStatus(t, b)
      swept == \E s \in BLK!Known(LiquidityEvents, t) : s.dir = b.dir /\ s.at <= b.event.at
      caps == {x \in {600} : b.event.strength \notin {"strong", "moderate"}} \cup {x \in {400} : ~swept}
              \cup {x \in {300} : status = "failed"} \cup {x \in {600} : status \in {"fresh", "retest_no_reaction"}}
  IN  {1000} \cup caps

NearGap(t, b) ==
  \E g \in BLK!Known(BlockContext.fvgs, t) : g.dir = b.dir /\ (g.at >= b.event.at \/ BLK!Overlap(b, g))

LEMMA MitigationSum ==
  ASSUME NEW t, NEW b, b.dir \in Directions
  PROVE  /\ MitigationRest(t, b) \in Int
         /\ BLK!MitigationQuality(t, b)
              = BLK!Clamp(MitigationRest(t, b) + BLK!If(NearGap(t, b), 50), 0, BLK!Min(MitigationCaps(t, b)))
<1> DEFINE status == BLK!MitigationStatus(t, b)
           swept == \E s \in BLK!Known(LiquidityEvents, t) : s.dir = b.dir /\ s.at <= b.event.at
           zone == \E z \in BlockContext.zones : z.dir = b.dir /\ BLK!Overlap(b, z)
           a1 == IF b.event.type = "MSS" THEN 150 + BLK!If(swept, 50) ELSE 100
           a2 == CASE b.event.strength = "strong" -> 150 [] b.event.strength = "moderate" -> 75 [] OTHER -> 0
           a3 == BLK!If(swept, 100)
           a4 == BLK!If(NearGap(t, b), 50)
           a5 == BLK!If(zone, 50)
           a6 == BLK!If(BlockContext.location = b.dir, 100)
           a7 == CASE status = "confirmed_reaction" -> 150 [] status = "retest_no_reaction" -> 50 [] OTHER -> 0
           a8 == 75 * b.dir * BlockContext.bias
           a9 == BLK!If(BlockContext.bias = -b.dir, 25)
           a10 == BLK!If(b.hi - b.lo > 2 * BLK!AtrAt(t, b.at), 50)
<1>1. a1 \in Int /\ a2 \in Int /\ a3 \in Int /\ a4 \in Int /\ a5 \in Int /\ a6 \in Int /\ a7 \in Int
  BY DEF BLK!If
<1>2. a9 \in Int /\ a10 \in Int
  BY DEF BLK!If
<1>3. a8 \in Int
  <2>1. BlockContext.bias \in Int
    BY ContextAssumption
  <2>2. b.dir \in {1, -1}
    BY DEF Directions
  <2> QED
    BY <2>1, <2>2
<1>4. MitigationRest(t, b) = a1 + a2 + 100 + a3 + a5 + a6 + a7 + 75 + a8 - a9 - a10
  BY DEF MitigationRest
<1>5. BLK!MitigationQuality(t, b)
        = BLK!Clamp(a1 + a2 + 100 + a3 + a4 + a5 + a6 + a7 + 75 + a8 - a9 - a10, 0, BLK!Min(MitigationCaps(t, b)))
  BY DEF BLK!MitigationQuality, MitigationCaps, NearGap
<1> HIDE DEF a1, a2, a3, a4, a5, a6, a7, a8, a9, a10
<1>6. /\ a1 + a2 + 100 + a3 + a5 + a6 + a7 + 75 + a8 - a9 - a10 \in Int
      /\ a1 + a2 + 100 + a3 + a4 + a5 + a6 + a7 + 75 + a8 - a9 - a10
           = (a1 + a2 + 100 + a3 + a5 + a6 + a7 + 75 + a8 - a9 - a10) + a4
  BY <1>1, <1>2, <1>3
<1> QED
  BY <1>4, <1>5, <1>6 DEF a4

LEMMA MitigationEntryStays ==
  ASSUME NEW t \in Seq(CandleType), NEW later, Prefix(t, later), NEW b, Blocked(t, b),
         BLK!MitigationEntryAllowed(t, b)
  PROVE  BLK!MitigationEntryAllowed(later, b)
<1> PICK n \in Nat : n = Len(t)
  BY CandlesAre
<1>1. /\ b.event.at \in 1 .. n /\ b.at \in 1 .. n /\ b.dir \in Directions /\ Len(later) = n + 1
      /\ \A j \in 1 .. n : later[j] = t[j]
  BY DEF Prefix, Blocked, KnownEvent
<1>2. BLK!MitigationStatus(t, b) = "confirmed_reaction" /\ BLK!MitigationQuality(t, b) >= 500
  BY DEF BLK!MitigationEntryAllowed
<1>3. BLK!MitigationStatus(later, b) = "confirmed_reaction"
  <2>1. BLK!MitigationRetest(t, b) # {}
    BY <1>2 DEF BLK!MitigationStatus
  <2>2. BLK!MitigationRetest(later, b) = BLK!MitigationRetest(t, b)
    BY <1>1, <2>1, BlockLooksAhead
  <2>3. BLK!MitigationRetest(t, b) \subseteq 1 .. n
    BY <1>1 DEF BLK!MitigationRetest, BLK!Earliest
  <2>4. BLK!The(BLK!MitigationRetest(t, b)) \in 1 .. n
    BY <2>1, <2>3 DEF BLK!The
  <2>5. later[BLK!The(BLK!MitigationRetest(t, b))] = t[BLK!The(BLK!MitigationRetest(t, b))]
    BY <1>1, <2>4
  <2> QED
    BY <1>2, <2>2, <2>5 DEF BLK!MitigationStatus
<1>4. (\E s \in BLK!Known(LiquidityEvents, later) : s.dir = b.dir /\ s.at <= b.event.at)
        <=> \E s \in BLK!Known(LiquidityEvents, t) : s.dir = b.dir /\ s.at <= b.event.at
  <2>1. \A s \in LiquidityEvents : s.at <= b.event.at => s.at <= n /\ s.at <= n + 1
    <3>1. \A x \in Nat, e \in 1 .. n : x <= e => x <= n /\ x <= n + 1
      OBVIOUS
    <3>2. \A s \in LiquidityEvents : s.at \in Nat
      BY StructureAssumption
    <3> QED
      BY <1>1, <3>1, <3>2
  <2> QED
    BY <1>1, <2>1 DEF BLK!Known
<1>5. BLK!AtrAt(later, b.at) = BLK!AtrAt(t, b.at)
  BY <1>1, BlockLooksBack
<1>6. MitigationCaps(later, b) = MitigationCaps(t, b) /\ MitigationRest(later, b) = MitigationRest(t, b)
  <2>1. BLK!MitigationStatus(later, b) = BLK!MitigationStatus(t, b)
    BY <1>2, <1>3
  <2>2. MitigationCaps(later, b) = MitigationCaps(t, b)
    BY <1>4, <2>1 DEF MitigationCaps
  <2>3. MitigationRest(later, b) = MitigationRest(t, b)
    BY <1>4, <1>5, <2>1, Zenon DEF MitigationRest
  <2> QED
    BY <2>2, <2>3
<1>7. NearGap(t, b) => NearGap(later, b)
  <2>1. \A g \in BLK!Known(BlockContext.fvgs, t) : g \in BLK!Known(BlockContext.fvgs, later)
    BY <1>1, ContextAssumption DEF BLK!Known
  <2> QED
    BY <2>1 DEF NearGap
<1>8. BLK!Min(MitigationCaps(t, b)) \in Int
  <2>1. MitigationCaps(t, b) # {} /\ MitigationCaps(t, b) \subseteq Nat
    BY DEF MitigationCaps
  <2>2. OBR!Min(MitigationCaps(t, b)) \in Nat
    BY <2>1, FirstIsIn
  <2> QED
    BY <2>2 DEF OBR!Min, BLK!Min
<1> DEFINE cap == BLK!Min(MitigationCaps(t, b))
           rest == MitigationRest(t, b)
           was == BLK!If(NearGap(t, b), 50)
           is == BLK!If(NearGap(later, b), 50)
<1>9. /\ BLK!MitigationQuality(t, b) = BLK!Clamp(rest + was, 0, cap) /\ rest \in Int
      /\ BLK!MitigationQuality(later, b) = BLK!Clamp(rest + is, 0, cap)
  BY <1>1, <1>6, MitigationSum
<1>10. was \in Int /\ is \in Int /\ was <= is
  BY <1>7 DEF BLK!If
<1> HIDE DEF cap, rest, was, is
<1>11. cap \in Int
  BY <1>8 DEF cap
<1>12. BLK!Clamp(rest + is, 0, cap) >= BLK!Clamp(rest + was, 0, cap) /\ BLK!Clamp(rest + was, 0, cap) \in Int
       /\ BLK!Clamp(rest + is, 0, cap) \in Int
  BY <1>9, <1>10, <1>11 DEF BLK!Clamp, BLK!Larger, BLK!Smaller
<1>13. BLK!MitigationQuality(later, b) >= 500
  BY <1>2, <1>9, <1>12
<1> QED
  BY <1>3, <1>13 DEF BLK!MitigationEntryAllowed

LEMMA BlocksGoOn ==
  ASSUME NEW t \in Seq(CandleType), NEW later, Prefix(t, later)
  PROVE  BLK!BlocksStay(t, later)
<1>1. \A b \in BLK!OfEvents(t) : Blocked(t, b) /\ b \in BLK!OfEvents(later)
  BY EventBlockStays
<1>2. \A b \in BLK!Candidates(t) : Blocked(t, b) /\ b \in BLK!Candidates(later)
  BY CandidateStays
<1>3. ASSUME NEW b \in BLK!OfEvents(t)
      PROVE  /\ BLK!Failure(t, b) # {} => BLK!Failure(later, b) = BLK!Failure(t, b)
             /\ BLK!BlockEntryAllowed(t, b) => BLK!BlockEntryAllowed(later, b)
             /\ BLK!BreakerEntryAllowed(t, b) => BLK!BreakerEntryAllowed(later, b)
  <2>1. b.event.at \in 1 .. Len(t)
    BY <1>1 DEF Blocked, KnownEvent
  <2> QED
    BY <2>1, BlockLooksAhead, BlockEntryStays, BreakerEntryStays
<1>4. \A b \in BLK!Candidates(t) : BLK!MitigationEntryAllowed(t, b) => BLK!MitigationEntryAllowed(later, b)
  BY <1>2, MitigationEntryStays
<1> QED
  BY <1>1, <1>2, <1>3, <1>4 DEF BLK!BlocksStay

\* An order block, of an event or a weak one
LEMMA OrderBlocksAre ==
  ASSUME NEW t \in Seq(CandleType), NEW later, Prefix(t, later), NEW b \in BLK!OrderBlocks(t)
  PROVE  /\ b.event.at \in 1 .. Len(t) /\ b.dir \in Directions
         /\ \E at \in 1 .. Len(t) : b.lo = BLK!Lo(b.dir, t[at]) /\ b.hi = BLK!Hi(b.dir, t[at])
<1> PICK n \in Nat : n = Len(t)
  BY CandlesAre
<1>1. CASE b \in BLK!OfEvents(t)
  BY <1>1, EventBlockStays DEF Blocked, KnownEvent
<1>2. CASE b \in BLK!Weak(t)
  <2>1. PICK i \in 2 .. n : b = BLK!Block(t, [dir |-> IF BLK!With(1, t[i]) THEN 1 ELSE -1, at |-> i,
                                              type |-> "none", strength |-> "none"], i - 1, i)
    BY <1>2 DEF BLK!Weak, BLK!Earliest
  <2>2. i \in 1 .. n /\ i - 1 \in 1 .. n
    OBVIOUS
  <2> QED
    BY <2>1, <2>2 DEF BLK!Block, Directions
<1> QED
  BY <1>1, <1>2 DEF BLK!OrderBlocks

LEMMA BreakersComeLate ==
  ASSUME NEW t \in Seq(CandleType), NEW later, Prefix(t, later), \A i \in 1 .. Len(t) : Formed(t[i])
  PROVE  BLK!BreakersComeFromFailures(t)
<1> PICK n \in Nat : n = Len(t)
  BY CandlesAre
<1> SUFFICES ASSUME NEW b \in BLK!OrderBlocks(t)
             PROVE  /\ \A i \in BLK!Broken(t, b) : \E f \in BLK!Failure(t, b) : f <= i
                    /\ BLK!BlockEntryAllowed(t, b) => \A i \in BLK!Retest(t, b), f \in BLK!Failure(t, b) : i < f
  BY DEF BLK!BreakersComeFromFailures
<1>1. PICK at \in 1 .. n : b.lo = BLK!Lo(b.dir, t[at]) /\ b.hi = BLK!Hi(b.dir, t[at])
  BY OrderBlocksAre
<1>2. b.event.at \in 1 .. n /\ b.dir \in Directions
  BY OrderBlocksAre
<1>3. \A i \in 1 .. n : CandleFields(t[i]) /\ Formed(t[i])
  BY CandlesAre
<1>4. ASSUME NEW i \in 1 .. n
      PROVE  /\ BLK!Cl(b.dir, t[i]) \in Int /\ BLK!Lo(b.dir, t[i]) \in Int /\ BLK!Hi(b.dir, t[i]) \in Int
             /\ BLK!Lo(b.dir, t[i]) <= BLK!Cl(b.dir, t[i]) /\ BLK!Lo(b.dir, t[i]) <= BLK!Hi(b.dir, t[i])
  BY <1>2, <1>3 DEF CandleFields, Formed, Directions, BLK!Cl, BLK!Lo, BLK!Hi
<1>5. b.lo \in Int /\ b.hi \in Int /\ b.lo <= b.hi
  BY <1>1, <1>4
<1> DEFINE Fails == {i \in b.event.at + 1 .. n : BLK!Cl(b.dir, t[i]) < b.lo}
<1>6. BLK!Failure(t, b) = {i \in Fails : \A j \in Fails : i <= j} /\ Fails \subseteq 1 .. n
  BY <1>2 DEF BLK!Failure, BLK!Earliest
<1>7. ASSUME NEW i \in BLK!Broken(t, b) PROVE \E f \in BLK!Failure(t, b) : f <= i
  <2>1. i \in b.event.at + 1 .. n /\ i \in 1 .. n /\ BLK!Cl(b.dir, t[i]) < b.lo - BlockContext.buffer
    BY <1>2 DEF BLK!Broken, BLK!Earliest
  <2>2. i \in Fails
    <3>1. BlockContext.buffer \in Nat
      BY ContextAssumption
    <3>2. BLK!Cl(b.dir, t[i]) \in Int /\ b.lo \in Int
      BY <1>4, <1>5, <2>1
    <3>3. BLK!Cl(b.dir, t[i]) < b.lo
      BY <2>1, <3>1, <3>2
    <3> QED
      BY <2>1, <3>3
  <2> HIDE DEF Fails
  <2>3. OBR!Min(Fails) \in Fails /\ \A y \in Fails : OBR!Min(Fails) <= y
    <3>1. Fails # {} /\ Fails \subseteq Nat
      BY <1>6, <2>2
    <3> QED
      BY <3>1, FirstIsIn
  <2> QED
    BY <1>6, <2>2, <2>3
<1>8. ASSUME BLK!BlockEntryAllowed(t, b), NEW i \in BLK!Retest(t, b), NEW f \in BLK!Failure(t, b) PROVE i < f
  <2> DEFINE Decides == {x \in b.event.at + 1 .. n :
                           BLK!Cl(b.dir, t[x]) < b.lo - BlockContext.stopBuffer \/ BLK!Lo(b.dir, t[x]) <= b.hi}
  <2>1. BLK!Retest(t, b) = {x \in Decides : \A y \in Decides : x <= y} /\ Decides \subseteq 1 .. n
    BY <1>2 DEF BLK!Retest, BLK!Earliest
  <2>2. f \in b.event.at + 1 .. n /\ f \in 1 .. n /\ BLK!Cl(b.dir, t[f]) < b.lo
    BY <1>6
  <2>3. BLK!Lo(b.dir, t[f]) <= b.hi
    BY <1>4, <1>5, <2>2
  <2>4. f \in Decides
    BY <2>2, <2>3
  <2> HIDE DEF Decides
  <2>5. i <= f /\ i \in 1 .. n
    BY <2>1, <2>4
  <2>6. 2 * BLK!Cl(b.dir, t[i]) > b.lo + b.hi
    <3>1. PICK x \in BLK!Retest(t, b) : BLK!Reacts(b.dir, t[x], b.lo, b.hi)
      BY <1>8 DEF BLK!BlockEntryAllowed
    <3>2. x = i
      <4>1. x \in 1 .. n /\ x <= i /\ i <= x
        BY <2>1
      <4> QED
        BY <2>5, <4>1
    <3> QED
      BY <3>1, <3>2 DEF BLK!Reacts
  <2>7. i # f
    BY <1>4, <1>5, <2>2, <2>6
  <2> QED
    BY <2>2, <2>5, <2>7
<1> QED
  BY <1>7, <1>8

-------------------------------------------------------------------------------
(* liquidity_sweep.py *)

\* What a pool is
PoolFields(p) ==
  p.side \in Directions /\ p.lo \in Int /\ p.hi \in Int /\ p.priority \in Int /\ p.at \in Nat /\ p.quality \in Int

LEMMA PoolsAre == \A p \in DOMAIN RaidContext.pools : PoolFields(RaidContext.pools[p])
<1> DEFINE P == [side : Directions, lo : Int, hi : Int, priority : Int, at : Nat, quality : Int]
           q == RaidContext.pools
<1>1. q \in Seq(P)
  BY ContextAssumption
<1>2. \A x \in P : PoolFields(x)
  BY DEF PoolFields
<1> HIDE DEF P, q
<1>3. \A p \in DOMAIN q : q[p] \in P
  BY <1>1
<1> QED
  BY <1>2, <1>3 DEF q

\* A candle does the same at a pool one candle later, and what consumed it stays.
LEMMA RaidAtrIs ==
  ASSUME NEW t \in Seq(CandleType), NEW i \in 1 .. Len(t)
  PROVE  RAID!AtrAt(t, i) \in Nat
<1>1. SubSeq(t, 1, i) \in Seq(CandleType)
  OBVIOUS
<1>2. OBR!AtrIn(100, SubSeq(t, 1, i), 14) \in Nat
  <2> DEFINE s == SubSeq(t, 1, i)
  <2> HIDE DEF s
  <2>1. s \in Seq(CandleType)
    BY <1>1 DEF s
  <2>2. \A parts \in Nat, m \in Nat \ {0} : OBR!AtrIn(parts, s, m) \in Nat
    BY <2>1, AtrIsWhole
  <2>3. 100 \in Nat /\ 14 \in Nat \ {0}
    OBVIOUS
  <2> QED
    BY <2>2, <2>3 DEF s
<1>3. \A s : RAID!AtrIn(100, s, 14) = OBR!AtrIn(100, s, 14)
  BY DEF RAID!AtrIn, OBR!AtrIn, RAID!MapThenSumSet, RAID!MapThenFoldSet, OBR!MapThenSumSet, OBR!MapThenFoldSet,
         RAID!Cardinality, OBR!Cardinality, RAID!TrueRange, OBR!TrueRange, RAID!Larger, OBR!Larger, RAID!Size,
         OBR!Size, RAID!Abs, OBR!Abs
<1>4. RAID!AtrAt(t, i) = RAID!AtrIn(100, SubSeq(t, 1, i), 14)
  BY DEF RAID!AtrAt, RAID!UpTo, RAID!Period
<1> QED
  BY <1>2, <1>3, <1>4

LEMMA PoolLooksBack ==
  ASSUME NEW t, NEW later, Prefix(t, later), NEW i \in 1 .. Len(t)
  PROVE  RAID!AtrAt(later, i) = RAID!AtrAt(t, i) /\ \A p : RAID!PoolKind(later, p, i) = RAID!PoolKind(t, p, i)
<1>1. RAID!AtrAt(later, i) = RAID!AtrAt(t, i)
  BY DEF Prefix, RAID!AtrAt, RAID!UpTo
<1>2. later[i] = t[i]
  BY DEF Prefix
<1> QED
  BY <1>1, <1>2 DEF RAID!PoolKind

LEMMA ConsumedStays ==
  ASSUME NEW t \in Seq(CandleType), NEW later \in Seq(CandleType), Prefix(t, later), NEW p, RAID!Consumed(t, p) # {}
  PROVE  RAID!Consumed(later, p) = RAID!Consumed(t, p)
<1> PICK n \in Nat : n = Len(t)
  BY CandlesAre
<1>1. Len(later) = n + 1 /\ DOMAIN t = 1 .. n /\ DOMAIN later = 1 .. n + 1
  BY DEF Prefix
<1> DEFINE Does(x, i) == RAID!Eligible(p, i) /\ RAID!PoolKind(x, p, i) \in {"accepted", "reversal"}
           A == {i \in 1 .. n : Does(t, i)}
           B == {i \in 1 .. n + 1 : Does(later, i)}
<1>2. \A i \in 1 .. n : Does(later, i) <=> Does(t, i)
  BY PoolLooksBack
<1> HIDE DEF Does
<1>3. A \subseteq 1 .. n /\ A \subseteq B /\ B \subseteq A \cup {n + 1}
  BY <1>2
<1>4. /\ RAID!Consumed(t, p) = {i \in A : \A j \in A : i <= j}
      /\ RAID!Consumed(later, p) = {i \in B : \A j \in B : i <= j}
  BY <1>1 DEF RAID!Consumed, RAID!Earliest, Does
<1> HIDE DEF A, B
<1>5. A # {}
  BY <1>4
<1> QED
  BY <1>3, <1>4, <1>5, FoundStays

LEMMA PoolSweepStays ==
  ASSUME NEW t \in Seq(CandleType), NEW later \in Seq(CandleType), Prefix(t, later), NEW s \in RAID!PoolSweeps(t)
  PROVE  /\ s.pool \in DOMAIN RaidContext.pools /\ s.at \in 1 .. Len(t)
         /\ RAID!PoolKind(t, s.pool, s.at) = "reversal" /\ s \in RAID!PoolSweeps(later)
<1> PICK n \in Nat : n = Len(t)
  BY CandlesAre
<1>1. PICK p \in DOMAIN RaidContext.pools :
        \E i \in RAID!Consumed(t, p) : RAID!PoolKind(t, p, i) = "reversal" /\ s = [pool |-> p, at |-> i]
  BY DEF RAID!PoolSweeps
<1> PICK i \in RAID!Consumed(t, p) : RAID!PoolKind(t, p, i) = "reversal" /\ s = [pool |-> p, at |-> i]
  BY <1>1
<1>2. i \in 1 .. n
  BY DEF RAID!Consumed, RAID!Earliest
<1>3. i \in RAID!Consumed(later, p) /\ RAID!PoolKind(later, p, i) = "reversal"
  BY <1>1, <1>2, ConsumedStays, PoolLooksBack
<1> QED
  BY <1>1, <1>2, <1>3 DEF RAID!PoolSweeps

\* The searches after a sweep
LEMMA ConfirmingStays ==
  ASSUME NEW t \in Seq(CandleType), NEW later \in Seq(CandleType), Prefix(t, later), NEW s, s.at \in 1 .. Len(t),
         NEW events, RAID!Confirming(t, s, events) # {}
  PROVE  RAID!Confirming(later, s, events) = RAID!Confirming(t, s, events)
<1> PICK n \in Nat : n = Len(t)
  BY CandlesAre
<1>1. Len(later) = n + 1
  BY DEF Prefix
<1>2. s.at \in 1 .. n
  OBVIOUS
<1> DEFINE R(m) == s.at + 1 .. RAID!Smaller(m, s.at + 10)
           In(m) == {e.at : e \in {x \in events : x.dir = RAID!DirOf(s) /\ x.at \in R(m)}}
           A == In(n)
           B == In(n + 1)
<1>3. R(n) \subseteq 1 .. n /\ R(n) \subseteq R(n + 1) /\ R(n + 1) \subseteq R(n) \cup {n + 1}
  BY <1>2 DEF RAID!Smaller
<1>4. /\ RAID!Confirming(t, s, events) = {i \in A : \A j \in A : i <= j}
      /\ RAID!Confirming(later, s, events) = {i \in B : \A j \in B : i <= j}
  BY <1>1 DEF RAID!Confirming, RAID!Earliest
<1> HIDE DEF R
<1>5. A \subseteq 1 .. n /\ A \subseteq B /\ B \subseteq A \cup {n + 1}
  BY <1>3
<1> HIDE DEF A, B
<1>6. A # {}
  BY <1>4
<1> QED
  BY <1>4, <1>5, <1>6, FoundStays

LEMMA MovedStays ==
  ASSUME NEW t \in Seq(CandleType), NEW later \in Seq(CandleType), Prefix(t, later), NEW s, s.at \in 1 .. Len(t),
         RAID!Moved(t, s) # "none"
  PROVE  RAID!Moved(later, s) = RAID!Moved(t, s)
<1> PICK n \in Nat : n = Len(t)
  BY CandlesAre
<1>1. Len(later) = n + 1 /\ (\A j \in 1 .. n : later[j] = t[j]) /\ s.at \in 1 .. n
  BY DEF Prefix
<1> DEFINE d == RAID!DirOf(s)
           Does(x, j) == RAID!With(d, x[j]) /\ 100 * RAID!Body(x[j]) > 44 * RAID!Size(x[j])
           A == {j \in s.at + 1 .. RAID!Smaller(n, s.at + 10) : Does(t, j)}
           B == {j \in s.at + 1 .. RAID!Smaller(n + 1, s.at + 10) : Does(later, j)}
           a == {i \in A : \A j \in A : i <= j}
           b == {i \in B : \A j \in B : i <= j}
           Large(x, j) == RAID!BodyAtLeast(x[j], 55) /\ 10000 * RAID!Size(x[j]) >= 85 * RAID!AtrAt(x, s.at)
<1>2. \A j \in 1 .. n : (Does(later, j) <=> Does(t, j)) /\ (Large(later, j) <=> Large(t, j))
  BY <1>1, PoolLooksBack
<1>3. /\ RAID!Moved(t, s) = CASE a = {} -> "none" [] \E j \in a : Large(t, j) -> "strong" [] OTHER -> "moderate"
      /\ RAID!Moved(later, s) = CASE b = {} -> "none" [] \E j \in b : Large(later, j) -> "strong" [] OTHER -> "moderate"
  BY <1>1 DEF RAID!Moved, RAID!Earliest
<1> HIDE DEF Does, Large
<1>4. A \subseteq 1 .. n /\ A \subseteq B /\ B \subseteq A \cup {n + 1}
  <2> DEFINE R(m) == s.at + 1 .. RAID!Smaller(m, s.at + 10)
  <2>1. R(n) \subseteq 1 .. n /\ R(n) \subseteq R(n + 1) /\ R(n + 1) \subseteq R(n) \cup {n + 1}
    BY <1>1 DEF RAID!Smaller
  <2> HIDE DEF R
  <2>2. A = {j \in R(n) : Does(t, j)} /\ B = {j \in R(n + 1) : Does(later, j)}
    BY DEF R
  <2> QED
    BY <1>2, <2>1, <2>2
<1> HIDE DEF A, B
<1>5. a # {}
  BY <1>3
<1>6. A # {} /\ a \subseteq 1 .. n
  BY <1>4, <1>5
<1>7. b = a
  BY <1>4, <1>6, FoundStays
<1> HIDE DEF a, b
<1>8. (\E j \in a : Large(later, j)) <=> \E j \in a : Large(t, j)
  BY <1>2, <1>6
<1> QED
  BY <1>3, <1>7, <1>8

LEMMA GapAfterStays ==
  ASSUME NEW t \in Seq(CandleType), NEW later \in Seq(CandleType), Prefix(t, later), NEW s, s.at \in 1 .. Len(t),
         RAID!GapAfter(t, s)
  PROVE  RAID!GapAfter(later, s)
<1> PICK n \in Nat : n = Len(t)
  BY CandlesAre
<1>1. Len(later) = n + 1 /\ (\A j \in 1 .. n : later[j] = t[j]) /\ s.at \in 1 .. n
  BY DEF Prefix
<1>2. PICK j \in s.at + 1 .. RAID!Smaller(n - 1, s.at + 3) : RAID!LeavesGap(RAID!DirOf(s), t, j)
  BY DEF RAID!GapAfter
<1>3. j - 1 \in 1 .. n /\ j + 1 \in 1 .. n /\ j \in s.at + 1 .. RAID!Smaller(n + 1 - 1, s.at + 3)
  BY <1>1 DEF RAID!Smaller
<1>4. RAID!LeavesGap(RAID!DirOf(s), later, j)
  BY <1>1, <1>2, <1>3 DEF RAID!LeavesGap
<1> QED
  BY <1>1, <1>3, <1>4 DEF RAID!GapAfter

\* The parts of liquidity_sweep.py's score: those of the sweep itself, and those that may still come
OwnScore(t, s) ==
  RAID!Smaller(200, RaidContext.pools[s.pool].quality \div 5) + RAID!WickScore(t, s) + RAID!ReclaimScore(t, s)
  - RAID!If(100 * RAID!Size(t[s.at]) > 3 * RAID!AtrAt(t, s.at), 100)

Shown(t, s) ==
  RAID!Confirming(t, s, RaidContext.mssEvents) # {} \/ RAID!Confirming(t, s, RaidContext.chochEvents) # {}

AddedScore(t, s) ==
  RAID!If(RAID!Confirming(t, s, RaidContext.mssEvents) # {}, 150)
  + RAID!If(RAID!Confirming(t, s, RaidContext.chochEvents) # {}, 75)
  + (CASE RAID!Moved(t, s) = "strong" -> 100 [] RAID!Moved(t, s) = "moderate" -> 50 [] OTHER -> 0)
  + RAID!If(RAID!GapAfter(t, s), 50)

\* The candle of a sweep has a range, and its score is a whole number.
LEMMA SweepCandleIs ==
  ASSUME NEW t \in Seq(CandleType), NEW s, s.pool \in DOMAIN RaidContext.pools, s.at \in 1 .. Len(t),
         RAID!PoolKind(t, s.pool, s.at) = "reversal", Formed(t[s.at])
  PROVE  RAID!Size(t[s.at]) \in Nat \ {0} /\ RAID!WickScore(t, s) \in Int /\ RAID!ReclaimScore(t, s) \in Int
         /\ OwnScore(t, s) \in Int /\ AddedScore(t, s) \in Int
<1> DEFINE k == t[s.at]
           p == RaidContext.pools[s.pool]
           atr == RAID!AtrAt(t, s.at)
<1>1. CandleFields(k) /\ PoolFields(p) /\ atr \in Nat /\ Formed(k)
  BY CandlesAre, PoolsAre, RaidAtrIs
<1>2. RAID!RunKind(10000 * (RAID!Hi(p.side, k) - RAID!PoolHi(p.side, p)),
                   10000 * (RAID!Cl(p.side, k) - RAID!PoolHi(p.side, p)), 2 * atr, 5 * atr) = "reversal"
  BY DEF RAID!PoolKind
<1> HIDE DEF k, p, atr
<1> DEFINE high == 10000 * (RAID!Hi(p.side, k) - RAID!PoolHi(p.side, p))
           close == 10000 * (RAID!Cl(p.side, k) - RAID!PoolHi(p.side, p))
<1>3. high > 2 * atr /\ close < 0
  <2> HIDE DEF high, close
  <2> QED
    BY <1>2 DEF RAID!RunKind, high, close
<1>4. RAID!Size(k) \in Nat \ {0}
  <2>1. p.side = 1 \/ p.side = -1
    BY <1>1 DEF PoolFields, Directions
  <2>2. CASE p.side = 1
    <3>1. high = 10000 * (k.h - p.hi) /\ close = 10000 * (k.c - p.hi)
      BY <1>1, <2>2 DEF RAID!Hi, RAID!Cl, RAID!PoolHi, CandleFields, PoolFields
    <3> PICK h \in Int, l \in Int, c \in Int, e \in Int : h = k.h /\ l = k.l /\ c = k.c /\ e = p.hi
      BY <1>1 DEF CandleFields, PoolFields
    <3>2. h \in Int /\ l \in Int /\ c \in Int /\ e \in Int
      OBVIOUS
    <3>3. 10000 * (h - e) > 2 * atr /\ 10000 * (c - e) < 0
      BY <1>3, <3>1
    <3>4. l <= c
      BY <1>1 DEF Formed
    <3>5. h > e
      <4> DEFINE a == 2 * atr
      <4>1. a \in Nat
        BY <1>1
      <4> HIDE DEF a
      <4>2. 10000 * (h - e) > a
        BY <3>3 DEF a
      <4>3. \A x \in Nat, y \in Int, z \in Int : 10000 * (y - z) > x => y > z
        OBVIOUS
      <4> QED
        BY <3>2, <4>1, <4>2, <4>3
    <3>6. c < e
      <4>1. \A y \in Int, z \in Int : 10000 * (y - z) < 0 => y < z
        OBVIOUS
      <4> QED
        BY <3>2, <3>3, <4>1
    <3>7. h - l \in Nat \ {0}
      BY <3>2, <3>4, <3>5, <3>6
    <3> QED
      BY <3>7 DEF RAID!Size
  <2>3. CASE p.side = -1
    <3>1. high = 10000 * (-k.l - -p.lo) /\ close = 10000 * (-k.c - -p.lo)
      BY <1>1, <2>3 DEF RAID!Hi, RAID!Cl, RAID!PoolHi, CandleFields, PoolFields
    <3> PICK h \in Int, l \in Int, c \in Int, e \in Int : h = k.h /\ l = k.l /\ c = k.c /\ e = p.lo
      BY <1>1 DEF CandleFields, PoolFields
    <3>2. h \in Int /\ l \in Int /\ c \in Int /\ e \in Int
      OBVIOUS
    <3>3. 10000 * (e - l) > 2 * atr /\ 10000 * (e - c) < 0
      <4>1. -l - -e = e - l /\ -c - -e = e - c
        BY <3>2
      <4>2. high = 10000 * (-l - -e) /\ close = 10000 * (-c - -e)
        BY <3>1
      <4>3. high = 10000 * (e - l) /\ close = 10000 * (e - c)
        BY <4>1, <4>2
      <4> HIDE DEF high, close
      <4> QED
        BY <1>3, <4>3
    <3>4. c <= h
      BY <1>1 DEF Formed
    <3>5. e > l
      <4> DEFINE a == 2 * atr
      <4>1. a \in Nat
        BY <1>1
      <4> HIDE DEF a
      <4>2. 10000 * (e - l) > a
        BY <3>3 DEF a
      <4>3. \A x \in Nat, y \in Int, z \in Int : 10000 * (y - z) > x => y > z
        OBVIOUS
      <4> QED
        BY <3>2, <4>1, <4>2, <4>3
    <3>6. e < c
      <4>1. \A y \in Int, z \in Int : 10000 * (y - z) < 0 => y < z
        OBVIOUS
      <4> QED
        BY <3>2, <3>3, <4>1
    <3>7. h - l \in Nat \ {0}
      BY <3>2, <3>4, <3>5, <3>6
    <3> QED
      BY <3>7 DEF RAID!Size
  <2> QED
    BY <2>1, <2>2, <2>3
<1> DEFINE d == RAID!DirOf(s)
           wick == RAID!Smaller(RAID!Op(d, k), RAID!Cl(d, k)) - RAID!Lo(d, k)
           size == RAID!Size(k)
<1>5. RAID!WickScore(t, s) \in Int
  <2>1. d \in Directions
    BY <1>1 DEF RAID!DirOf, p, PoolFields, Directions
  <2> HIDE DEF d
  <2>2. RAID!Op(d, k) \in Int /\ RAID!Cl(d, k) \in Int /\ RAID!Lo(d, k) \in Int
    BY <1>1, <2>1 DEF RAID!Op, RAID!Cl, RAID!Lo, CandleFields, Directions
  <2>3. wick \in Int
    BY <2>2 DEF RAID!Smaller
  <2>4. RAID!WickScore(t, s) = RAID!If(wick > 0, 100) + RAID!Smaller(100, (250 * wick) \div size)
    BY DEF RAID!WickScore, k, d
  <2> HIDE DEF wick, size
  <2>5. size \in Nat \ {0}
    BY <1>4 DEF size
  <2>6. (250 * wick) \div size \in Int
    BY <2>3, <2>5
  <2> DEFINE share == (250 * wick) \div size
  <2> HIDE DEF share
  <2> QED
    BY <2>4, <2>6 DEF RAID!If, RAID!Smaller, share
<1>6. RAID!ReclaimScore(t, s) \in Int
  BY DEF RAID!ReclaimScore
<1>7. OwnScore(t, s) \in Int
  <2>1. p.quality \div 5 \in Int
    BY <1>1 DEF PoolFields
  <2>2. RAID!Smaller(200, p.quality \div 5) \in Int
    BY <2>1 DEF RAID!Smaller
  <2>3. RAID!If(100 * RAID!Size(t[s.at]) > 3 * RAID!AtrAt(t, s.at), 100) \in Int
    BY DEF RAID!If
  <2> QED
    BY <1>5, <1>6, <2>2, <2>3 DEF OwnScore, p
<1>8. AddedScore(t, s) \in Int
  BY DEF AddedScore, RAID!If
<1> QED
  BY <1>4, <1>5, <1>6, <1>7, <1>8 DEF k

LEMMA SweepScoreIs ==
  ASSUME NEW t \in Seq(CandleType), NEW s, s.pool \in DOMAIN RaidContext.pools, s.at \in 1 .. Len(t),
         RAID!PoolKind(t, s.pool, s.at) = "reversal", Formed(t[s.at])
  PROVE  RAID!SweepScore(t, s)
           = RAID!Clamp(IF Shown(t, s) THEN OwnScore(t, s) + AddedScore(t, s)
                        ELSE RAID!Smaller(OwnScore(t, s) + AddedScore(t, s), 600), 0, 1000)
<1> DEFINE mss == RAID!Confirming(t, s, RaidContext.mssEvents) # {}
           choch == RAID!Confirming(t, s, RaidContext.chochEvents) # {}
           a1 == RAID!Smaller(200, RaidContext.pools[s.pool].quality \div 5)
           a2 == RAID!WickScore(t, s)
           a3 == RAID!ReclaimScore(t, s)
           a4 == RAID!If(mss, 150)
           a5 == RAID!If(choch, 75)
           a6 == CASE RAID!Moved(t, s) = "strong" -> 100 [] RAID!Moved(t, s) = "moderate" -> 50 [] OTHER -> 0
           a7 == RAID!If(RAID!GapAfter(t, s), 50)
           a8 == RAID!If(100 * RAID!Size(t[s.at]) > 3 * RAID!AtrAt(t, s.at), 100)
           sum == a1 + a2 + a3 + a4 + a5 + a6 + a7 - a8
<1>1. RAID!SweepScore(t, s) = RAID!Clamp(IF mss \/ choch THEN sum ELSE RAID!Smaller(sum, 600), 0, 1000)
  BY DEF RAID!SweepScore
<1>2. OwnScore(t, s) = a1 + a2 + a3 - a8 /\ AddedScore(t, s) = a4 + a5 + a6 + a7 /\ (Shown(t, s) <=> mss \/ choch)
  BY DEF OwnScore, AddedScore, Shown
<1>3. a2 \in Int /\ a3 \in Int
  BY SweepCandleIs
<1>4. a4 \in Int /\ a5 \in Int /\ a6 \in Int /\ a7 \in Int /\ a8 \in Int
  BY DEF RAID!If
<1>5. a1 \in Int
  <2>1. RaidContext.pools[s.pool].quality \in Int
    BY PoolsAre DEF PoolFields
  <2> DEFINE q == RaidContext.pools[s.pool].quality
  <2> HIDE DEF q
  <2>2. q \div 5 \in Int
    BY <2>1 DEF q
  <2> QED
    BY <2>2 DEF RAID!Smaller, q
<1> HIDE DEF a1, a2, a3, a4, a5, a6, a7, a8, mss, choch
<1>6. sum = OwnScore(t, s) + AddedScore(t, s)
  BY <1>2, <1>3, <1>4, <1>5
<1> HIDE DEF sum
<1> QED
  BY <1>1, <1>2, <1>6

LEMMA PoolSweepsGoOn ==
  ASSUME NEW t \in Seq(CandleType), NEW later \in Seq(CandleType), Prefix(t, later),
         \A i \in 1 .. Len(t) : Formed(t[i])
  PROVE  RAID!PoolSweepsOnlyGrow(t, later)
<1>1. \A p \in DOMAIN RaidContext.pools : RAID!Consumed(t, p) # {} => RAID!Consumed(later, p) = RAID!Consumed(t, p)
  BY ConsumedStays
<1>2. ASSUME NEW s \in RAID!PoolSweeps(t)
      PROVE  /\ s \in RAID!PoolSweeps(later)
             /\ RAID!SweepScore(later, s) >= RAID!SweepScore(t, s)
             /\ RAID!SweepStatus(t, s) = "confirmed_by_mss"
                  => RAID!Confirming(later, s, RaidContext.mssEvents) = RAID!Confirming(t, s, RaidContext.mssEvents)
             /\ RAID!SweepAllows(t, s) => RAID!SweepAllows(later, s)
  <2>1. /\ s.pool \in DOMAIN RaidContext.pools /\ s.at \in 1 .. Len(t)
        /\ RAID!PoolKind(t, s.pool, s.at) = "reversal" /\ s \in RAID!PoolSweeps(later)
    BY PoolSweepStays
  <2>2. later[s.at] = t[s.at] /\ s.at \in 1 .. Len(later) /\ Formed(t[s.at])
    BY <2>1 DEF Prefix
  <2>3. RAID!PoolKind(later, s.pool, s.at) = "reversal" /\ RAID!AtrAt(later, s.at) = RAID!AtrAt(t, s.at)
    BY <2>1, PoolLooksBack
  <2> DEFINE mss(x) == RAID!Confirming(x, s, RaidContext.mssEvents)
             choch(x) == RAID!Confirming(x, s, RaidContext.chochEvents)
  <2>4. (mss(t) # {} => mss(later) = mss(t)) /\ (choch(t) # {} => choch(later) = choch(t))
    BY <2>1, ConfirmingStays
  <2>5. RAID!Moved(t, s) # "none" => RAID!Moved(later, s) = RAID!Moved(t, s)
    BY <2>1, MovedStays
  <2>6. RAID!GapAfter(t, s) => RAID!GapAfter(later, s)
    BY <2>1, GapAfterStays
  <2>7. OwnScore(later, s) = OwnScore(t, s)
    BY <2>2, <2>3 DEF OwnScore, RAID!WickScore, RAID!ReclaimScore, RAID!Strong
  <2>8. AddedScore(later, s) >= AddedScore(t, s)
    <3> DEFINE m(x) == RAID!If(mss(x) # {}, 150)
               c(x) == RAID!If(choch(x) # {}, 75)
               v(x) == CASE RAID!Moved(x, s) = "strong" -> 100 [] RAID!Moved(x, s) = "moderate" -> 50 [] OTHER -> 0
               g(x) == RAID!If(RAID!GapAfter(x, s), 50)
    <3>1. \A x : AddedScore(x, s) = m(x) + c(x) + v(x) + g(x)
      BY DEF AddedScore
    <3>2. \A x : m(x) \in Nat /\ c(x) \in Nat /\ v(x) \in Nat /\ g(x) \in Nat
      BY DEF RAID!If
    <3>3. m(later) >= m(t) /\ c(later) >= c(t) /\ g(later) >= g(t)
      BY <2>4, <2>6 DEF RAID!If
    <3>4. v(later) >= v(t)
      <4>1. CASE RAID!Moved(t, s) = "none"
        BY <3>2, <4>1
      <4>2. CASE RAID!Moved(t, s) # "none"
        BY <2>5, <3>2, <4>2
      <4> QED
        BY <4>1, <4>2
    <3> HIDE DEF m, c, v, g
    <3> QED
      BY <3>1, <3>2, <3>3, <3>4
  <2>9. Shown(t, s) => Shown(later, s)
    BY <2>4 DEF Shown
  <2>10. /\ OwnScore(t, s) \in Int /\ AddedScore(t, s) \in Int /\ AddedScore(later, s) \in Int
    BY <2>1, <2>2, <2>3, SweepCandleIs
  <2>11. /\ RAID!SweepScore(t, s)
              = RAID!Clamp(IF Shown(t, s) THEN OwnScore(t, s) + AddedScore(t, s)
                           ELSE RAID!Smaller(OwnScore(t, s) + AddedScore(t, s), 600), 0, 1000)
         /\ RAID!SweepScore(later, s)
              = RAID!Clamp(IF Shown(later, s) THEN OwnScore(later, s) + AddedScore(later, s)
                           ELSE RAID!Smaller(OwnScore(later, s) + AddedScore(later, s), 600), 0, 1000)
    BY <2>1, <2>2, <2>3, SweepScoreIs
  <2>12. RAID!SweepScore(later, s) >= RAID!SweepScore(t, s)
    <3> DEFINE own == OwnScore(t, s)
               was == AddedScore(t, s)
               is == AddedScore(later, s)
               shown == Shown(t, s)
               showsNow == Shown(later, s)
    <3>1. RAID!SweepScore(t, s) = RAID!Clamp(IF shown THEN own + was ELSE RAID!Smaller(own + was, 600), 0, 1000)
      BY <2>11
    <3>2. RAID!SweepScore(later, s) = RAID!Clamp(IF showsNow THEN own + is ELSE RAID!Smaller(own + is, 600), 0, 1000)
      BY <2>7, <2>11
    <3>3. own \in Int /\ was \in Int /\ is \in Int /\ was <= is /\ (shown => showsNow)
      BY <2>8, <2>9, <2>10
    <3> HIDE DEF own, was, is, shown, showsNow
    <3> QED
      BY <3>1, <3>2, <3>3 DEF RAID!Clamp, RAID!Larger, RAID!Smaller
  <2>13. RAID!SweepStatus(t, s) = "confirmed_by_mss" <=> mss(t) # {}
    BY DEF RAID!SweepStatus
  <2>14. RAID!SweepStatus(later, s) = "confirmed_by_mss" <=> mss(later) # {}
    BY DEF RAID!SweepStatus
  <2>15. RAID!SweepAllows(t, s) => RAID!SweepAllows(later, s)
    BY <2>4, <2>5, <2>13, <2>14 DEF RAID!SweepAllows
  <2> QED
    BY <2>1, <2>4, <2>12, <2>13, <2>15
<1> QED
  BY <1>1, <1>2 DEF RAID!PoolSweepsOnlyGrow

-------------------------------------------------------------------------------
(* stop_hunt_reversal.py *)

\* A hunt has its level and its candle, and stays one.
LEMMA HuntStays ==
  ASSUME NEW t \in Seq(CandleType), NEW later \in Seq(CandleType), Prefix(t, later), NEW kind,
         NEW h \in RAID!Hunts(t, kind)
  PROVE  h.at \in 1 .. Len(t) /\ h.level \in DOMAIN RaidContext.levels /\ h \in RAID!Hunts(later, kind)
<1> PICK n \in Nat : n = Len(t)
  BY CandlesAre
<1>1. Len(later) = n + 1 /\ DOMAIN t = 1 .. n /\ DOMAIN later = 1 .. n + 1
  BY DEF Prefix
<1>2. h \in [level : RAID!Meaningful, at : 1 .. n]
  BY <1>1 DEF RAID!Hunts
<1>3. h \in [level : RAID!Meaningful, at : 1 .. n + 1] /\ h.at \in 1 .. n
  BY <1>2
<1>4. later[h.at] = t[h.at]
  BY <1>3 DEF Prefix
<1>5. h \in RAID!Hunts(later, kind)
  BY <1>1, <1>3, <1>4 DEF RAID!Hunts
<1> QED
  BY <1>2, <1>3, <1>5 DEF RAID!Meaningful

\* A level is on a side, and of a quality.
LEMMA LevelsAre ==
  \A l \in DOMAIN RaidContext.levels :
    RaidContext.levels[l].side \in Directions /\ RaidContext.levels[l].quality \in Int
<1> DEFINE L == [side : Directions, lo : Int, hi : Int, at : Nat, quality : Int]
           q == RaidContext.levels
<1>1. q \in Seq(L)
  BY ContextAssumption
<1>2. \A x \in L : x.side \in Directions /\ x.quality \in Int
  OBVIOUS
<1> HIDE DEF L, q
<1>3. \A l \in DOMAIN q : q[l] \in L
  BY <1>1
<1> QED
  BY <1>2, <1>3 DEF q

\* Its shift, once found, and what is seen at it
LEMMA HuntShiftStays ==
  ASSUME NEW t \in Seq(CandleType), NEW later \in Seq(CandleType), Prefix(t, later), NEW h, h.at \in 1 .. Len(t),
         RAID!HuntShift(t, h) # {}
  PROVE  RAID!HuntShift(later, h) = RAID!HuntShift(t, h) /\ RAID!HuntShift(t, h) \subseteq h.at + 2 .. Len(t)
<1> PICK n \in Nat : n = Len(t)
  BY CandlesAre
<1>1. Len(later) = n + 1 /\ (\A j \in 1 .. n : later[j] = t[j]) /\ h.at \in 1 .. n
  BY DEF Prefix
<1> DEFINE d == RAID!HuntDir(h)
           Beyond(x, j) == \A i \in h.at + 1 .. j - 1 : RAID!Cl(d, x[j]) > RAID!Hi(d, x[i]) + RaidContext.breakBuffer
           A == {j \in h.at + 2 .. n : Beyond(t, j)}
           B == {j \in h.at + 2 .. n + 1 : Beyond(later, j)}
<1>2. \A j \in h.at + 2 .. n : Beyond(later, j) <=> Beyond(t, j)
  <2> SUFFICES ASSUME NEW j \in h.at + 2 .. n PROVE Beyond(later, j) <=> Beyond(t, j)
    OBVIOUS
  <2>1. later[j] = t[j] /\ \A i \in h.at + 1 .. j - 1 : later[i] = t[i]
    BY <1>1
  <2> QED
    BY <2>1
<1>3. /\ RAID!HuntShift(t, h) = {i \in A : \A j \in A : i <= j}
      /\ RAID!HuntShift(later, h) = {i \in B : \A j \in B : i <= j}
  BY <1>1 DEF RAID!HuntShift, RAID!Earliest
<1> HIDE DEF Beyond
<1>4. A \subseteq 1 .. n /\ A \subseteq B /\ B \subseteq A \cup {n + 1} /\ A \subseteq h.at + 2 .. n
  BY <1>1, <1>2
<1> HIDE DEF A, B
<1>5. A # {}
  BY <1>3
<1>6. RAID!HuntShift(later, h) = RAID!HuntShift(t, h)
  BY <1>3, <1>4, <1>5, FoundStays
<1> QED
  BY <1>3, <1>4, <1>6

LEMMA HuntZoneStays ==
  ASSUME NEW t \in Seq(CandleType), NEW later \in Seq(CandleType), Prefix(t, later), NEW h, h.at \in 1 .. Len(t),
         RAID!HuntShift(t, h) # {}
  PROVE  RAID!HuntZone(later, h) = RAID!HuntZone(t, h)
<1> PICK n \in Nat : n = Len(t)
  BY CandlesAre
<1>1. Len(later) = n + 1 /\ (\A j \in 1 .. n : later[j] = t[j]) /\ h.at \in 1 .. n
  BY DEF Prefix
<1>2. RAID!HuntShift(later, h) = RAID!HuntShift(t, h) /\ RAID!HuntShift(t, h) \subseteq h.at + 2 .. n
  BY HuntShiftStays
<1> DEFINE d == RAID!HuntDir(h)
           At(x, j) == IF RAID!LeavesGap(d, x, j - 1) THEN {[lo |-> RAID!Hi(d, x[j - 2]), hi |-> RAID!Lo(d, x[j])]}
                       ELSE {[lo |-> RAID!Lo(d, x[b]), hi |-> RAID!Hi(d, x[b])] : b \in RAID!HuntBlocks(x, h, j)}
<1>3. ASSUME NEW j \in h.at + 2 .. n PROVE At(later, j) = At(t, j)
  <2>1. j \in 1 .. n /\ j - 1 \in 1 .. n /\ j - 2 \in 1 .. n /\ j - 1 - 1 = j - 2 /\ j - 1 + 1 = j
    BY <1>1
  <2>2. later[j] = t[j] /\ later[j - 2] = t[j - 2]
    BY <1>1, <2>1
  <2>3. RAID!LeavesGap(d, later, j - 1) <=> RAID!LeavesGap(d, t, j - 1)
    BY <2>1, <2>2 DEF RAID!LeavesGap
  <2> DEFINE R == RAID!Larger(1, j - 5) .. j - 1
  <2>4. R \subseteq 1 .. n
    BY <2>1 DEF RAID!Larger
  <2> HIDE DEF R
  <2>5. \A i \in R : later[i] = t[i]
    BY <1>1, <2>4
  <2>6. {i \in R : RAID!Against(d, later[i])} = {i \in R : RAID!Against(d, t[i])}
    BY <2>5
  <2>7. RAID!HuntBlocks(later, h, j) = RAID!HuntBlocks(t, h, j) /\ RAID!HuntBlocks(t, h, j) \subseteq R
    BY <2>6 DEF RAID!HuntBlocks, R
  <2>8. \A b \in RAID!HuntBlocks(t, h, j) : later[b] = t[b]
    BY <2>5, <2>7
  <2>9. {[lo |-> RAID!Lo(d, later[b]), hi |-> RAID!Hi(d, later[b])] : b \in RAID!HuntBlocks(later, h, j)}
          = {[lo |-> RAID!Lo(d, t[b]), hi |-> RAID!Hi(d, t[b])] : b \in RAID!HuntBlocks(t, h, j)}
    BY <2>7, <2>8
  <2> HIDE DEF d
  <2> QED
    BY <2>2, <2>3, <2>9
<1>4. /\ RAID!HuntZone(t, h) = UNION {At(t, j) : j \in RAID!HuntShift(t, h)}
      /\ RAID!HuntZone(later, h) = UNION {At(later, j) : j \in RAID!HuntShift(later, h)}
  BY DEF RAID!HuntZone
<1> HIDE DEF At
<1>5. {At(later, j) : j \in RAID!HuntShift(later, h)} = {At(t, j) : j \in RAID!HuntShift(t, h)}
  BY <1>2, <1>3
<1> QED
  BY <1>4, <1>5

LEMMA HuntPlanStays ==
  ASSUME NEW t \in Seq(CandleType), NEW later \in Seq(CandleType), Prefix(t, later), NEW h, h.at \in 1 .. Len(t),
         RAID!HuntShift(t, h) # {}
  PROVE  RAID!HuntTarget(later, h) = RAID!HuntTarget(t, h) /\ RAID!HuntRr(later, h) = RAID!HuntRr(t, h)
<1> PICK n \in Nat : n = Len(t)
  BY CandlesAre
<1>1. Len(later) = n + 1 /\ (\A j \in 1 .. n : later[j] = t[j]) /\ h.at \in 1 .. n
  BY DEF Prefix
<1>2. \A i \in 1 .. h.at - 1 : later[i] = t[i]
  BY <1>1
<1>3. RAID!HuntTarget(later, h) = RAID!HuntTarget(t, h)
  BY <1>2 DEF RAID!HuntTarget
<1>4. RAID!HuntZone(later, h) = RAID!HuntZone(t, h) /\ later[h.at] = t[h.at]
  BY <1>1, HuntZoneStays
<1> QED
  BY <1>3, <1>4 DEF RAID!HuntRr

\* The score of a hunt, but for its displacement
HuntRest(t, h) ==
  200 + RaidContext.levels[h.level].quality \div 5 + 130 + 160 + RAID!If(RAID!HuntZone(t, h) # {}, 100)
  + RAID!If(RAID!HuntTarget(t, h) # {}, 80) + RAID!If(RAID!HuntRr(t, h) >= 150, 70)

LEMMA HuntScoreIs ==
  ASSUME NEW t, NEW h, h.level \in DOMAIN RaidContext.levels, RAID!HuntShift(t, h) # {}
  PROVE  /\ HuntRest(t, h) \in Int
         /\ RAID!HuntScore(t, h) = RAID!Clamp(HuntRest(t, h) + RAID!If(RAID!HuntDisplaced(t, h), 100), 0, 1000)
<1> DEFINE a1 == RaidContext.levels[h.level].quality \div 5
           a2 == RAID!If(RAID!HuntShift(t, h) # {}, 160)
           a3 == RAID!If(RAID!HuntDisplaced(t, h), 100)
           a4 == RAID!If(RAID!HuntZone(t, h) # {}, 100)
           a5 == RAID!If(RAID!HuntTarget(t, h) # {}, 80)
           a6 == RAID!If(RAID!HuntRr(t, h) >= 150, 70)
           sum == 200 + a1 + 130 + a2 + a3 + a4 + a5 + a6
<1>1. RAID!HuntScore(t, h) = RAID!Clamp(IF RAID!HuntShift(t, h) # {} THEN sum ELSE RAID!Smaller(sum, 500), 0, 1000)
  BY DEF RAID!HuntScore
<1>2. HuntRest(t, h) = 200 + a1 + 130 + 160 + a4 + a5 + a6 /\ a2 = 160
  BY DEF HuntRest, RAID!If
<1>3. a1 \in Int
  <2> DEFINE q == RaidContext.levels[h.level].quality
  <2>1. q \in Int
    BY LevelsAre
  <2> HIDE DEF q
  <2> QED
    BY <2>1 DEF q
<1>4. a3 \in Int /\ a4 \in Int /\ a5 \in Int /\ a6 \in Int
  BY DEF RAID!If
<1> HIDE DEF a1, a2, a3, a4, a5, a6
<1>5. sum = HuntRest(t, h) + a3 /\ HuntRest(t, h) \in Int
  BY <1>2, <1>3, <1>4
<1> HIDE DEF sum
<1> QED
  BY <1>1, <1>5 DEF a3

LEMMA HuntsGoOn ==
  ASSUME NEW t \in Seq(CandleType), NEW later \in Seq(CandleType), Prefix(t, later)
  PROVE  RAID!HuntsStay(t, later)
<1>1. ASSUME NEW h \in RAID!Hunts(t, "reversal"), RAID!HuntShift(t, h) # {}
      PROVE  RAID!Abs(RAID!HuntScore(later, h) - RAID!HuntScore(t, h)) <= 100
  <2>1. h.at \in 1 .. Len(t) /\ h.level \in DOMAIN RaidContext.levels
    BY HuntStays
  <2>2. RAID!HuntShift(later, h) = RAID!HuntShift(t, h)
    BY <1>1, <2>1, HuntShiftStays
  <2>3. HuntRest(later, h) = HuntRest(t, h)
    <3>1. RAID!HuntZone(later, h) = RAID!HuntZone(t, h)
      BY <1>1, <2>1, HuntZoneStays
    <3>2. RAID!HuntTarget(later, h) = RAID!HuntTarget(t, h) /\ RAID!HuntRr(later, h) = RAID!HuntRr(t, h)
      BY <1>1, <2>1, HuntPlanStays
    <3> QED
      BY <3>1, <3>2 DEF HuntRest
  <2> DEFINE rest == HuntRest(t, h)
             was == RAID!If(RAID!HuntDisplaced(t, h), 100)
             is == RAID!If(RAID!HuntDisplaced(later, h), 100)
  <2>4. /\ rest \in Int
        /\ RAID!HuntScore(t, h) = RAID!Clamp(rest + was, 0, 1000)
        /\ RAID!HuntScore(later, h) = RAID!Clamp(rest + is, 0, 1000)
    BY <1>1, <2>1, <2>2, <2>3, HuntScoreIs
  <2>5. was \in {0, 100} /\ is \in {0, 100}
    BY DEF RAID!If
  <2> HIDE DEF rest, was, is
  <2> QED
    BY <2>4, <2>5 DEF RAID!Clamp, RAID!Larger, RAID!Smaller, RAID!Abs
<1>2. ASSUME NEW h \in RAID!Hunts(t, "reversal"), RAID!HuntShift(t, h) # {}
      PROVE  /\ RAID!HuntShift(later, h) = RAID!HuntShift(t, h)
             /\ RAID!HuntZone(later, h) = RAID!HuntZone(t, h) /\ RAID!HuntRr(later, h) = RAID!HuntRr(t, h)
  <2>1. h.at \in 1 .. Len(t)
    BY HuntStays
  <2> QED
    BY <1>2, <2>1, HuntShiftStays, HuntZoneStays, HuntPlanStays
<1>3. \A h \in RAID!Hunts(t, "reversal") : h \in RAID!Hunts(later, "reversal")
  BY HuntStays
<1>4. RAID!Raises(t) => RAID!Raises(later) /\ ~RAID!HuntDetected(later)
  <2>1. \A h \in RAID!Hunts(t, "unclear") : h \in RAID!Hunts(later, "unclear")
    BY HuntStays
  <2> QED
    BY <2>1 DEF RAID!Raises, RAID!HuntDetected
<1> QED
  BY <1>1, <1>2, <1>3, <1>4 DEF RAID!HuntsStay

-------------------------------------------------------------------------------
(* silver_bullet.py *)

\* The prices of a candle on an axis of the raids
LEMMA RaidAxisIs ==
  ASSUME NEW k, CandleFields(k), NEW d \in Directions
  PROVE  RAID!Cl(d, k) \in Int /\ RAID!Op(d, k) \in Int /\ RAID!Hi(d, k) \in Int /\ RAID!Lo(d, k) \in Int
BY DEF CandleFields, Directions, RAID!Cl, RAID!Op, RAID!Hi, RAID!Lo

LEMMA BulletSweepIs ==
  ASSUME NEW t \in Seq(CandleType), NEW s \in RAID!Sweeps(t)
  PROVE  s.pool \in DOMAIN RaidContext.pools /\ s.at \in 1 .. Len(t) /\ RAID!DirOf(s) \in Directions
<1>1. RAID!InWindow(t) \subseteq 1 .. Len(t)
  BY DEF RAID!InWindow
<1>2. s \in [pool : DOMAIN RaidContext.pools, at : RAID!InWindow(t)]
  BY DEF RAID!Sweeps
<1>3. s.pool \in DOMAIN RaidContext.pools /\ s.at \in 1 .. Len(t)
  BY <1>1, <1>2
<1> QED
  BY <1>3, PoolsAre DEF PoolFields, RAID!DirOf, Directions

\* The leg of a sweep is one candle, whose gap has closed.
LEMMA LegIs ==
  ASSUME NEW t \in Seq(CandleType), NEW s, s.at \in 1 .. Len(t), NEW leg \in RAID!Leg(t, s)
  PROVE  /\ leg \in 2 .. Len(t) - 2 /\ RAID!Leg(t, s) = {leg}
         /\ RAID!Displaces(t, RAID!DirOf(s), t[leg])
<1> PICK n \in Nat : n = Len(t)
  BY CandlesAre
<1>1. s.at \in 1 .. n
  OBVIOUS
<1> DEFINE d == RAID!DirOf(s)
           A == {j \in s.at + 1 .. RAID!Smaller(n - 2, s.at + 8) :
                   RAID!Displaces(t, d, t[j]) /\ RAID!LeavesGap(d, t, j)}
<1>2. RAID!Leg(t, s) = {i \in A : \A j \in A : i <= j}
  BY DEF RAID!Leg, RAID!Earliest
<1>3. \A j \in A : j \in 2 .. n - 2 /\ RAID!Displaces(t, d, t[j])
  BY <1>1 DEF RAID!Smaller
<1> HIDE DEF A
<1>4. \A j \in RAID!Leg(t, s) : j = leg
  BY <1>2, <1>3
<1> QED
  BY <1>2, <1>3, <1>4

LEMMA GapLooksTheSame ==
  ASSUME NEW t \in Seq(CandleType), NEW later \in Seq(CandleType), Prefix(t, later), NEW s,
         NEW leg \in 2 .. Len(t) - 2
  PROVE  RAID!GapLo(later, s, leg) = RAID!GapLo(t, s, leg) /\ RAID!GapHi(later, s, leg) = RAID!GapHi(t, s, leg)
<1> PICK n \in Nat : n = Len(t)
  BY CandlesAre
<1>1. leg - 1 \in 1 .. n /\ leg + 1 \in 1 .. n
  OBVIOUS
<1>2. later[leg - 1] = t[leg - 1] /\ later[leg + 1] = t[leg + 1]
  BY <1>1 DEF Prefix
<1> QED
  BY <1>2 DEF RAID!GapLo, RAID!GapHi

LEMMA TouchIs ==
  ASSUME NEW t \in Seq(CandleType), NEW s, NEW leg \in 2 .. Len(t) - 2, NEW j \in RAID!Touch(t, s, leg)
  PROVE  j \in 1 .. Len(t) /\ RAID!Touch(t, s, leg) = {j}
<1> PICK n \in Nat : n = Len(t)
  BY CandlesAre
<1> DEFINE d == RAID!DirOf(s)
           A == {x \in leg + 2 .. RAID!Smaller(n, leg + 13) :
                   RAID!Lo(d, t[x]) <= RAID!GapHi(t, s, leg) /\ RAID!Hi(d, t[x]) >= RAID!GapLo(t, s, leg)}
<1>1. RAID!Touch(t, s, leg) = {x \in A : \A y \in A : x <= y}
  BY DEF RAID!Touch, RAID!Earliest
<1>2. \A x \in A : x \in 1 .. n
  BY DEF RAID!Smaller
<1> HIDE DEF A
<1>3. \A x \in RAID!Touch(t, s, leg) : x = j
  BY <1>1, <1>2
<1> QED
  BY <1>1, <1>2, <1>3

LEMMA TouchStays ==
  ASSUME NEW t \in Seq(CandleType), NEW later \in Seq(CandleType), Prefix(t, later), NEW s,
         NEW leg \in 2 .. Len(t) - 2, RAID!Touch(t, s, leg) # {}
  PROVE  RAID!Touch(later, s, leg) = RAID!Touch(t, s, leg)
<1> PICK n \in Nat : n = Len(t)
  BY CandlesAre
<1>1. Len(later) = n + 1 /\ (\A j \in 1 .. n : later[j] = t[j]) /\ leg \in 2 .. n - 2
  BY DEF Prefix
<1> DEFINE d == RAID!DirOf(s)
           lo == RAID!GapLo(t, s, leg)
           hi == RAID!GapHi(t, s, leg)
           Does(x, j) == RAID!Lo(d, x[j]) <= hi /\ RAID!Hi(d, x[j]) >= lo
           R(m) == leg + 2 .. RAID!Smaller(m, leg + 13)
           A == {x \in R(n) : Does(t, x)}
           B == {x \in R(n + 1) : Does(later, x)}
<1>2. RAID!Touch(t, s, leg) = {x \in A : \A y \in A : x <= y}
  BY DEF RAID!Touch, RAID!Earliest
<1>3. RAID!Touch(later, s, leg) = {x \in B : \A y \in B : x <= y}
  <2>1. RAID!GapLo(later, s, leg) = lo /\ RAID!GapHi(later, s, leg) = hi
    BY GapLooksTheSame
  <2> QED
    BY <1>1, <2>1 DEF RAID!Touch, RAID!Earliest
<1>4. R(n) \subseteq 1 .. n /\ R(n) \subseteq R(n + 1) /\ R(n + 1) \subseteq R(n) \cup {n + 1}
  BY <1>1 DEF RAID!Smaller
<1>5. \A j \in 1 .. n : Does(later, j) <=> Does(t, j)
  BY <1>1
<1> HIDE DEF R, Does
<1>6. A \subseteq 1 .. n /\ A \subseteq B /\ B \subseteq A \cup {n + 1}
  BY <1>4, <1>5
<1> HIDE DEF A, B
<1>7. A # {}
  BY <1>2
<1> QED
  BY <1>2, <1>3, <1>6, <1>7, FoundStays

\* One pool is the target of an entry.
LEMMA TargetIsOne ==
  ASSUME NEW d \in Directions, NEW entry2
  PROVE  /\ \A x \in RAID!Targets(d, entry2) : x \in Int /\ x > entry2
         /\ \A x, y \in RAID!Targets(d, entry2) : x = y
<1> DEFINE q == RaidContext.pools
           Mid2(p) == RAID!PoolLo(d, q[p]) + RAID!PoolHi(d, q[p])
           beyond == {p \in DOMAIN q : q[p].side = d /\ Mid2(p) > entry2}
           Before(p, r) == \/ q[p].priority > q[r].priority
                           \/ q[p].priority = q[r].priority /\ Mid2(p) < Mid2(r)
                           \/ q[p].priority = q[r].priority /\ Mid2(p) = Mid2(r) /\ p < r
           best == {x \in beyond : \A y \in beyond \ {x} : Before(x, y)}
<1>1. RAID!Targets(d, entry2) = {Mid2(p) : p \in best}
  BY DEF RAID!Targets
<1>2. \A p \in DOMAIN q : Mid2(p) \in Int /\ q[p].priority \in Int /\ p \in Int
  <2>1. \A p \in DOMAIN q : p \in Int
    <3>1. q \in Seq([side : Directions, lo : Int, hi : Int, priority : Int, at : Nat, quality : Int])
      BY ContextAssumption
    <3>2. DOMAIN q = 1 .. Len(q) /\ Len(q) \in Nat
      BY <3>1
    <3> HIDE DEF q
    <3> QED
      BY <3>2
  <2> QED
    BY <2>1, PoolsAre DEF PoolFields, RAID!PoolLo, RAID!PoolHi, Directions
<1> HIDE DEF Mid2, q
<1>3. ASSUME NEW x \in best, NEW y \in best, x # y PROVE FALSE
  <2>1. Before(x, y) /\ Before(y, x) /\ x \in DOMAIN q /\ y \in DOMAIN q
    BY <1>3
  <2> QED
    BY <1>2, <2>1
<1>4. \A p \in best : Mid2(p) \in Int /\ Mid2(p) > entry2
  BY <1>2
<1> HIDE DEF best
<1> QED
  BY <1>1, <1>3, <1>4

\* The plans of a leg and a retest
PlansOf(t, s, leg, j) ==
  {[leg |-> leg, entry2 |-> RAID!Entry2(t, s, leg, j), reacts |-> RAID!Reacts(t, s, leg, j), target2 |-> target2,
    stop |-> RAID!Smaller(RAID!Lo(RAID!DirOf(s), t[s.at]), RAID!GapLo(t, s, leg)) - RaidContext.sweepBuffer] :
      target2 \in RAID!Targets(RAID!DirOf(s), RAID!Entry2(t, s, leg, j))}

Holds(t, s, leg, j) == RAID!Cl(RAID!DirOf(s), t[j]) >= RAID!GapLo(t, s, leg)

LEMMA PlanIs ==
  ASSUME NEW t, NEW s
  PROVE  RAID!Plan(t, s)
           = UNION {UNION {PlansOf(t, s, leg, j) : j \in {x \in RAID!Touch(t, s, leg) : Holds(t, s, leg, x)}} :
                      leg \in RAID!Leg(t, s)}
BY DEF RAID!Plan, PlansOf, Holds

LEMMA PlanIsOne ==
  ASSUME NEW t \in Seq(CandleType), NEW s, s.at \in 1 .. Len(t), RAID!DirOf(s) \in Directions, NEW p \in RAID!Plan(t, s)
  PROVE  \E leg \in RAID!Leg(t, s) : \E j \in RAID!Touch(t, s, leg) :
           Holds(t, s, leg, j) /\ RAID!Plan(t, s) = PlansOf(t, s, leg, j) /\ PlansOf(t, s, leg, j) = {p}
<1>1. PICK leg \in RAID!Leg(t, s) : \E j \in RAID!Touch(t, s, leg) : Holds(t, s, leg, j) /\ p \in PlansOf(t, s, leg, j)
  BY PlanIs
<1>2. PICK j \in RAID!Touch(t, s, leg) : Holds(t, s, leg, j) /\ p \in PlansOf(t, s, leg, j)
  BY <1>1
<1>3. RAID!Leg(t, s) = {leg} /\ leg \in 2 .. Len(t) - 2
  BY LegIs
<1>4. RAID!Touch(t, s, leg) = {j}
  BY <1>3, TouchIs
<1>5. RAID!Plan(t, s) = PlansOf(t, s, leg, j)
  <2>1. {x \in RAID!Touch(t, s, leg) : Holds(t, s, leg, x)} = {j}
    BY <1>2, <1>4
  <2>2. RAID!Plan(t, s) = UNION {UNION {PlansOf(t, s, leg, i) : i \in {j}}}
    BY <1>3, <2>1, PlanIs
  <2> QED
    BY <2>2
<1>6. PlansOf(t, s, leg, j) = {p}
  <2>1. \A x, y \in RAID!Targets(RAID!DirOf(s), RAID!Entry2(t, s, leg, j)) : x = y
    BY TargetIsOne
  <2> QED
    BY <1>2, <2>1 DEF PlansOf
<1> QED
  BY <1>2, <1>5, <1>6

LEMMA PlanStays ==
  ASSUME NEW t \in Seq(CandleType), NEW later \in Seq(CandleType), Prefix(t, later), NEW s, s.at \in 1 .. Len(t),
         RAID!DirOf(s) \in Directions, NEW p \in RAID!Plan(t, s), RAID!Leg(later, s) = RAID!Leg(t, s)
  PROVE  RAID!Plan(later, s) = {p}
<1>1. PICK leg \in RAID!Leg(t, s) : \E j \in RAID!Touch(t, s, leg) :
        Holds(t, s, leg, j) /\ RAID!Plan(t, s) = PlansOf(t, s, leg, j) /\ PlansOf(t, s, leg, j) = {p}
  BY PlanIsOne
<1>2. PICK j \in RAID!Touch(t, s, leg) : Holds(t, s, leg, j) /\ PlansOf(t, s, leg, j) = {p}
  BY <1>1
<1>3. leg \in 2 .. Len(t) - 2 /\ RAID!Leg(later, s) = {leg}
  BY LegIs
<1>4. RAID!Touch(t, s, leg) = {j} /\ j \in 1 .. Len(t)
  BY <1>3, TouchIs
<1>5. RAID!Touch(later, s, leg) = {j}
  <2>1. RAID!Touch(t, s, leg) # {}
    BY <1>4
  <2>2. RAID!Touch(later, s, leg) = RAID!Touch(t, s, leg)
    BY <1>3, <2>1, TouchStays
  <2> QED
    BY <1>4, <2>2
<1>6. RAID!GapLo(later, s, leg) = RAID!GapLo(t, s, leg) /\ RAID!GapHi(later, s, leg) = RAID!GapHi(t, s, leg)
  BY <1>3, GapLooksTheSame
<1>7. later[j] = t[j] /\ later[s.at] = t[s.at]
  BY <1>4 DEF Prefix
<1>8. RAID!Entry2(later, s, leg, j) = RAID!Entry2(t, s, leg, j)
      /\ (RAID!Reacts(later, s, leg, j) = RAID!Reacts(t, s, leg, j))
  BY <1>6, <1>7 DEF RAID!Entry2, RAID!Reacts, RAID!Middle2
<1>9. PlansOf(later, s, leg, j) = {p} /\ Holds(later, s, leg, j)
  BY <1>2, <1>6, <1>7, <1>8 DEF PlansOf, Holds
<1>10. {x \in RAID!Touch(later, s, leg) : Holds(later, s, leg, x)} = {j}
  BY <1>5, <1>9
<1>11. RAID!Plan(later, s) = UNION {UNION {PlansOf(later, s, leg, i) : i \in {j}}}
  <2>1. RAID!Plan(later, s)
          = UNION {UNION {PlansOf(later, s, l, i) : i \in {x \in RAID!Touch(later, s, l) : Holds(later, s, l, x)}} :
                     l \in RAID!Leg(later, s)}
    BY PlanIs
  <2> QED
    BY <1>3, <1>10, <2>1
<1> QED
  BY <1>9, <1>11

\* What the score of a plan that may be traded is at least
LEMMA DividedIs ==
  /\ \A x \in Int, m \in Nat \ {0} : x \div m \in Int
  /\ \A x \in Int, m \in Nat \ {0} : m <= x => (55 * x) \div m >= 55
  /\ \A r \in Int : r >= 100 => r \div 4 >= 25
OBVIOUS

LEMMA PlanNumbers ==
  ASSUME NEW t \in Seq(CandleType), NEW s, s.at \in 1 .. Len(t), RAID!DirOf(s) \in Directions, NEW p \in RAID!Plan(t, s)
  PROVE  /\ RAID!Rr(p) \in Int
         /\ p.leg \in RAID!Leg(t, s)
<1>1. PICK leg \in RAID!Leg(t, s) : \E j \in RAID!Touch(t, s, leg) :
        Holds(t, s, leg, j) /\ RAID!Plan(t, s) = PlansOf(t, s, leg, j) /\ PlansOf(t, s, leg, j) = {p}
  BY PlanIsOne
<1>2. PICK j \in RAID!Touch(t, s, leg) : Holds(t, s, leg, j) /\ PlansOf(t, s, leg, j) = {p}
  BY <1>1
<1> DEFINE d == RAID!DirOf(s)
           entry2 == RAID!Entry2(t, s, leg, j)
           stop == RAID!Smaller(RAID!Lo(d, t[s.at]), RAID!GapLo(t, s, leg)) - RaidContext.sweepBuffer
<1>3. PICK target2 \in RAID!Targets(d, entry2) :
        p = [leg |-> leg, entry2 |-> entry2, reacts |-> RAID!Reacts(t, s, leg, j), target2 |-> target2, stop |-> stop]
  <2>1. p \in PlansOf(t, s, leg, j)
    BY <1>2
  <2> QED
    BY <2>1 DEF PlansOf
<1>4. leg \in 2 .. Len(t) - 2 /\ j \in 1 .. Len(t)
  BY LegIs, TouchIs
<1>5. leg - 1 \in 1 .. Len(t) /\ leg + 1 \in 1 .. Len(t)
  <2> PICK n \in Nat : n = Len(t)
    BY CandlesAre
  <2> QED
    BY <1>4
<1>6. /\ RAID!GapLo(t, s, leg) \in Int /\ RAID!GapHi(t, s, leg) \in Int
      /\ RAID!Cl(d, t[j]) \in Int /\ RAID!Lo(d, t[s.at]) \in Int
  BY <1>4, <1>5, CandlesAre, RaidAxisIs DEF RAID!GapLo, RAID!GapHi
<1>7. entry2 \in Int
  BY <1>6 DEF RAID!Entry2, RAID!Middle2
<1>8. stop \in Int
  <2>1. RaidContext.sweepBuffer \in Nat
    BY ContextAssumption
  <2> DEFINE b == RaidContext.sweepBuffer
             x == RAID!Lo(d, t[s.at])
             y == RAID!GapLo(t, s, leg)
  <2>2. b \in Int /\ x \in Int /\ y \in Int
    BY <1>6, <2>1
  <2> HIDE DEF b, x, y
  <2>3. RAID!Smaller(x, y) - b \in Int
    BY <2>2 DEF RAID!Smaller
  <2> QED
    BY <2>3 DEF b, x, y
<1>9. target2 \in Int
  BY TargetIsOne
<1> HIDE DEF entry2, stop
<1>10. RAID!Rr(p) = RAID!RrOf(entry2, stop, target2)
  BY <1>3 DEF RAID!Rr
<1>11. RAID!RrOf(entry2, stop, target2) \in Int
  <2>1. CASE entry2 > 2 * stop /\ target2 > entry2
    <3>1. entry2 - 2 * stop \in Nat \ {0} /\ 100 * (target2 - entry2) \in Int
      BY <1>7, <1>8, <1>9, <2>1
    <3>2. (100 * (target2 - entry2)) \div (entry2 - 2 * stop) \in Int
      BY <3>1, DividedIs
    <3> QED
      BY <2>1, <3>2 DEF RAID!RrOf
  <2>2. CASE ~(entry2 > 2 * stop /\ target2 > entry2)
    BY <2>2 DEF RAID!RrOf
  <2> QED
    BY <2>1, <2>2
<1> QED
  BY <1>3, <1>10, <1>11

LEMMA PlanIsValid ==
  ASSUME NEW t \in Seq(CandleType), NEW s, s.at \in 1 .. Len(t), RAID!DirOf(s) \in Directions, NEW p \in RAID!Plan(t, s),
         p.reacts, RAID!Rr(p) >= 100
  PROVE  p \in RAID!Valid(t, s)
<1>1. RAID!Rr(p) \in Int /\ p.leg \in RAID!Leg(t, s)
  BY PlanNumbers
<1>2. p.leg \in 1 .. Len(t) /\ RAID!Displaces(t, RAID!DirOf(s), t[p.leg])
  <2> PICK n \in Nat : n = Len(t)
    BY CandlesAre
  <2>1. p.leg \in 2 .. n - 2 /\ RAID!Displaces(t, RAID!DirOf(s), t[p.leg])
    BY <1>1, LegIs
  <2> QED
    BY <2>1
<1> DEFINE size == RAID!Size(t[p.leg])
           atr == RAID!Atr(t, RAID!Period)
           unit == RAID!Larger(1, atr)
           moved == (55 * size) \div unit
           reward == RAID!Rr(p) \div 4
<1>3. size \in Int
  <2>1. CandleFields(t[p.leg])
    BY <1>2, CandlesAre
  <2> QED
    BY <2>1 DEF CandleFields, RAID!Size
<1>4. size > 0 /\ size >= atr
  BY <1>2 DEF RAID!Displaces, RAID!BodyAtLeast
<1>5. atr \in Int
  <2>1. OBR!AtrIn(1, t, 14) \in Nat
    <3>1. \A parts \in Nat, m \in Nat \ {0} : OBR!AtrIn(parts, t, m) \in Nat
      BY AtrIsWhole
    <3>2. 1 \in Nat /\ 14 \in Nat \ {0}
      OBVIOUS
    <3> QED
      BY <3>1, <3>2
  <2>2. RAID!AtrIn(1, t, 14) = OBR!AtrIn(1, t, 14)
    BY DEF RAID!AtrIn, OBR!AtrIn, RAID!MapThenSumSet, RAID!MapThenFoldSet, OBR!MapThenSumSet, OBR!MapThenFoldSet,
           RAID!Cardinality, OBR!Cardinality, RAID!TrueRange, OBR!TrueRange, RAID!Larger, OBR!Larger, RAID!Size,
           OBR!Size, RAID!Abs, OBR!Abs
  <2> QED
    BY <2>1, <2>2 DEF RAID!Atr, RAID!Period
<1>6. reward \in Int /\ reward >= 25
  <2>1. \A r \in Int : r >= 100 => r \div 4 \in Int /\ r \div 4 >= 25
    OBVIOUS
  <2> QED
    BY <1>1, <2>1
<1> HIDE DEF size, atr, reward
<1>7. unit \in Nat \ {0} /\ unit <= size
  BY <1>3, <1>4, <1>5 DEF RAID!Larger
<1> HIDE DEF unit
<1>8. moved \in Int /\ moved >= 55
  <2>1. 55 * size \in Int
    BY <1>3
  <2> QED
    BY <1>3, <1>7, <2>1, DividedIs
<1> HIDE DEF moved
<1> DEFINE a1 == IF RAID!Strong(t, s) THEN 220 ELSE 180
           a2 == RAID!Smaller(200, 80 + moved)
           a3 == RAID!If(p.reacts, 120)
           a4 == RAID!If(RAID!Rr(p) >= 100, RAID!Smaller(80, reward))
           a5 == IF RaidContext.bias = 0 THEN 0 ELSE IF RaidContext.bias = RAID!DirOf(s) THEN 70 ELSE -120
<1>9. RAID!Score(t, s, p) = RAID!Clamp(150 + a1 + a2 + 140 + a3 + 100 + a4 + a5, 0, 1000)
  BY DEF RAID!Score, moved, reward, unit, size, atr
<1>10. a1 \in Int /\ a1 >= 180 /\ a2 \in Int /\ a2 >= 135 /\ a5 \in Int /\ a5 >= -120
  BY <1>8 DEF RAID!Smaller
<1>11. a3 = 120 /\ a4 \in Int /\ a4 >= 25
  BY <1>6 DEF RAID!If, RAID!Smaller
<1> HIDE DEF a1, a2, a3, a4, a5
<1>12. RAID!Score(t, s, p) >= 700
  BY <1>9, <1>10, <1>11 DEF RAID!Clamp, RAID!Larger, RAID!Smaller
<1> QED
  BY <1>12 DEF RAID!Valid

LEMMA BulletsGoOn ==
  ASSUME NEW t \in Seq(CandleType), NEW later \in Seq(CandleType), Prefix(t, later)
  PROVE  RAID!BulletsFollowTheirLeg(t, later)
<1> SUFFICES ASSUME NEW s \in RAID!Sweeps(t), NEW p \in RAID!Plan(t, s)
             PROVE  /\ RAID!Leg(later, s) = RAID!Leg(t, s) => RAID!Plan(later, s) = {p}
                    /\ p.reacts /\ RAID!Rr(p) >= 100 => p \in RAID!Valid(t, s)
  BY DEF RAID!BulletsFollowTheirLeg
<1>1. s.at \in 1 .. Len(t) /\ RAID!DirOf(s) \in Directions
  BY BulletSweepIs
<1> QED
  BY <1>1, PlanStays, PlanIsValid

-------------------------------------------------------------------------------
(* judas_swing.py, amd_model.py, asian_range_liquidity.py *)

\* What left a range: where, on which side, and what it was
Ranged(t, c) ==
  c.at \in 1 .. Len(t) /\ c.side \in Directions /\ c.kind \in {"reclaimed", "accepted", "unclear"}

LEMMA RangedAre ==
  ASSUME NEW t \in Seq(CandleType), NEW pct, NEW c \in RNG!Candidates(t, pct)
  PROVE  /\ Ranged(t, c) /\ c = [side |-> c.side, at |-> c.at, kind |-> RNG!Kind(c.side, t[c.at], pct)]
         /\ c.at \in RangeContext.session.end + 1 .. Len(t)
<1> PICK n \in Nat : n = Len(t)
  BY CandlesAre
<1>1. PICK x \in Directions \X (RangeContext.session.end + 1 .. n) :
        c = [side |-> x[1], at |-> x[2], kind |-> RNG!Kind(x[1], t[x[2]], pct)]
  BY DEF RNG!Candidates, RNG!Directions, Directions
<1>2. x[1] \in Directions /\ x[2] \in RangeContext.session.end + 1 .. n
  BY <1>1
<1>3. RangeContext.session.end \in Nat
  BY ContextAssumption
<1>4. x[2] \in 1 .. n
  BY <1>2, <1>3
<1>5. c.kind # "inside"
  BY DEF RNG!Candidates
<1>6. c.kind \in {"reclaimed", "accepted", "unclear"}
  BY <1>1, <1>5 DEF RNG!Kind
<1> QED
  BY <1>1, <1>2, <1>4, <1>6 DEF Ranged

LEMMA RangedStay ==
  ASSUME NEW t \in Seq(CandleType), NEW later \in Seq(CandleType), Prefix(t, later), NEW pct
  PROVE  /\ \A c \in RNG!Candidates(t, pct) : c \in RNG!Candidates(later, pct)
         /\ \A c \in RNG!Candidates(later, pct) : c \in RNG!Candidates(t, pct) \/ c.at = Len(t) + 1
<1> PICK n \in Nat : n = Len(t)
  BY CandlesAre
<1>1. Len(later) = n + 1 /\ \A j \in 1 .. n : later[j] = t[j]
  BY DEF Prefix
<1> DEFINE end == RangeContext.session.end
           Of(x, at, side) == [side |-> side, at |-> at, kind |-> RNG!Kind(side, x[at], pct)]
<1>2. end \in Nat
  BY ContextAssumption
<1> HIDE DEF end
<1>3. \A x : \A at \in end + 1 .. Len(x), side \in Directions :
        Of(x, at, side).kind # "inside" => Of(x, at, side) \in RNG!Candidates(x, pct)
  <2> SUFFICES ASSUME NEW x, NEW at \in end + 1 .. Len(x), NEW side \in Directions, Of(x, at, side).kind # "inside"
               PROVE  Of(x, at, side) \in RNG!Candidates(x, pct)
    OBVIOUS
  <2> DEFINE p == <<side, at>>
  <2>1. p \in RNG!Directions \X (RangeContext.session.end + 1 .. Len(x))
    BY DEF RNG!Directions, Directions, end
  <2>2. Of(x, at, side) = [side |-> p[1], at |-> p[2], kind |-> RNG!Kind(p[1], x[p[2]], pct)]
    OBVIOUS
  <2> HIDE DEF p, Of
  <2> QED
    BY <2>1, <2>2 DEF RNG!Candidates
<1>4. ASSUME NEW c \in RNG!Candidates(t, pct) PROVE c \in RNG!Candidates(later, pct)
  <2>1. Ranged(t, c) /\ c = Of(t, c.at, c.side) /\ c.at \in end + 1 .. n
    BY RangedAre DEF end
  <2>2. later[c.at] = t[c.at] /\ c.at \in end + 1 .. Len(later)
    BY <1>1, <1>2, <2>1
  <2>3. c = Of(later, c.at, c.side)
    BY <2>1, <2>2
  <2>4. c.kind # "inside"
    BY <2>1 DEF Ranged
  <2> HIDE DEF Of
  <2> QED
    BY <1>3, <2>1, <2>2, <2>3, <2>4 DEF Ranged
<1>5. ASSUME NEW c \in RNG!Candidates(later, pct), c.at # n + 1 PROVE c \in RNG!Candidates(t, pct)
  <2>1. Ranged(later, c) /\ c = Of(later, c.at, c.side) /\ c.at \in end + 1 .. n + 1
    BY <1>1, RangedAre DEF end
  <2>2. c.at \in 1 .. n /\ c.at \in end + 1 .. n
    BY <1>2, <1>5, <2>1
  <2>3. c = Of(t, c.at, c.side)
    BY <1>1, <2>1, <2>2
  <2>4. c.kind # "inside"
    BY <2>1 DEF Ranged
  <2> HIDE DEF Of
  <2> QED
    BY <1>3, <2>1, <2>2, <2>3, <2>4 DEF Ranged
<1> QED
  BY <1>4, <1>5

\* What follows a candidate stays, where it was found.
LEMMA RangeShiftStays ==
  ASSUME NEW t \in Seq(CandleType), NEW later \in Seq(CandleType), Prefix(t, later), NEW c, c.at \in 1 .. Len(t),
         RNG!Shift(t, c) # {}
  PROVE  RNG!Shift(later, c) = RNG!Shift(t, c)
<1> PICK n \in Nat : n = Len(t)
  BY CandlesAre
<1>1. Len(later) = n + 1 /\ (\A j \in 1 .. n : later[j] = t[j]) /\ c.at \in 1 .. n
  BY DEF Prefix
<1> DEFINE d == RNG!Dir(c)
           LevelOf(x) == RNG!Larger(RNG!Hi(d, x[c.at + 1]), RNG!Hi(d, x[c.at + 2]))
           A == {j \in c.at + 3 .. n : RNG!Cl(d, t[j]) > LevelOf(t)}
           B == {j \in c.at + 3 .. n + 1 : RNG!Cl(d, later[j]) > LevelOf(later)}
<1>2. RNG!Shift(t, c) = {i \in A : \A j \in A : i <= j} /\ RNG!Shift(later, c) = {i \in B : \A j \in B : i <= j}
  BY <1>1 DEF RNG!Shift, RNG!Earliest
<1>3. A # {}
  <2> HIDE DEF A
  <2> QED
    BY <1>2
<1>4. c.at + 1 \in 1 .. n /\ c.at + 2 \in 1 .. n
  <2>1. PICK j \in c.at + 3 .. n : TRUE
    BY <1>3
  <2> QED
    BY <1>1, <2>1
<1>5. LevelOf(later) = LevelOf(t)
  BY <1>1, <1>4
<1> DEFINE level == LevelOf(t)
<1>6. A = {j \in c.at + 3 .. n : RNG!Cl(d, t[j]) > level} /\ B = {j \in c.at + 3 .. n + 1 : RNG!Cl(d, later[j]) > level}
  BY <1>5
<1> HIDE DEF A, B, level
<1>7. A \subseteq 1 .. n /\ A \subseteq B /\ B \subseteq A \cup {n + 1}
  BY <1>1, <1>6
<1> QED
  BY <1>2, <1>3, <1>7, FoundStays

LEMMA RangeGapStays ==
  ASSUME NEW t \in Seq(CandleType), NEW later \in Seq(CandleType), Prefix(t, later), NEW c, c.at \in 1 .. Len(t),
         RNG!Gap(t, c) # {}
  PROVE  RNG!Gap(later, c) = RNG!Gap(t, c) /\ RNG!Zone(later, c) = RNG!Zone(t, c) /\ RNG!Zone(t, c) # {}
<1> PICK n \in Nat : n = Len(t)
  BY CandlesAre
<1>1. Len(later) = n + 1 /\ (\A j \in 1 .. n : later[j] = t[j]) /\ c.at \in 1 .. n
  BY DEF Prefix
<1> DEFINE d == RNG!Dir(c)
           Leaves(x, j) == RNG!Hi(d, x[j - 2]) < RNG!Lo(d, x[j])
           A == {j \in c.at + 3 .. n : Leaves(t, j)}
           B == {j \in c.at + 3 .. n + 1 : Leaves(later, j)}
<1>2. RNG!Gap(t, c) = {i \in A : \A j \in A : i <= j} /\ RNG!Gap(later, c) = {i \in B : \A j \in B : i <= j}
  BY <1>1 DEF RNG!Gap, RNG!Earliest
<1>3. \A j \in c.at + 3 .. n : j - 2 \in 1 .. n /\ j \in 1 .. n
  BY <1>1
<1>4. \A j \in c.at + 3 .. n : later[j - 2] = t[j - 2] /\ later[j] = t[j]
  BY <1>1, <1>3
<1>5. \A j \in c.at + 3 .. n : Leaves(later, j) <=> Leaves(t, j)
  BY <1>4
<1> HIDE DEF Leaves
<1>6. A \subseteq c.at + 3 .. n /\ A \subseteq 1 .. n /\ A \subseteq B /\ B \subseteq A \cup {n + 1}
  BY <1>1, <1>5
<1> HIDE DEF A, B
<1>7. RNG!Gap(later, c) = RNG!Gap(t, c)
  <2>1. A # {}
    BY <1>2
  <2> QED
    BY <1>2, <1>6, <2>1, FoundStays
<1>8. \A x : RNG!Gap(x, c) # {} =>
        RNG!Zone(x, c) = {[fvg |-> TRUE, lo |-> RNG!Hi(d, x[j - 2]), hi |-> RNG!Lo(d, x[j])] : j \in RNG!Gap(x, c)}
  BY DEF RNG!Zone
<1>9. \A j \in RNG!Gap(t, c) : later[j - 2] = t[j - 2] /\ later[j] = t[j]
  BY <1>2, <1>4, <1>6
<1> HIDE DEF d
<1> DEFINE G == RNG!Gap(t, c)
           In(x, j) == [fvg |-> TRUE, lo |-> RNG!Hi(d, x[j - 2]), hi |-> RNG!Lo(d, x[j])]
<1>10. RNG!Zone(later, c) = RNG!Zone(t, c) /\ RNG!Zone(t, c) # {}
  <2>1. RNG!Zone(t, c) = {In(t, j) : j \in G} /\ RNG!Zone(later, c) = {In(later, j) : j \in G}
    BY <1>7, <1>8
  <2>2. \A j \in G : In(later, j) = In(t, j)
    BY <1>9
  <2>3. G # {}
    OBVIOUS
  <2> HIDE DEF G, In
  <2> QED
    BY <2>1, <2>2, <2>3
<1> QED
  BY <1>7, <1>10

LEMMA RangeZoneStays ==
  ASSUME NEW t \in Seq(CandleType), NEW later \in Seq(CandleType), Prefix(t, later), NEW c, c.at \in 1 .. Len(t),
         RNG!Zone(t, c) # {}
  PROVE  RNG!Zone(later, c) # {}
<1> PICK n \in Nat : n = Len(t)
  BY CandlesAre
<1>1. Len(later) = n + 1 /\ (\A j \in 1 .. n : later[j] = t[j]) /\ c.at \in 1 .. n
  BY DEF Prefix
<1> DEFINE d == RNG!Dir(c)
<1>2. CASE RNG!Gap(t, c) # {}
  BY <1>2, RangeGapStays
<1>3. CASE RNG!Gap(later, c) # {}
  BY <1>3 DEF RNG!Zone
<1>4. CASE RNG!Gap(t, c) = {} /\ RNG!Gap(later, c) = {}
  <2>1. RNG!Against4(t, c) # {}
    BY <1>4 DEF RNG!Zone
  <2>2. RNG!Against4(t, c) \subseteq RNG!Against4(later, c)
    BY <1>1 DEF RNG!Against4, RNG!Smaller
  <2>3. RNG!Against4(later, c) \subseteq 0 .. n + 1 /\ n + 1 \in Nat
    BY <1>1 DEF RNG!Against4, RNG!Smaller
  <2> DEFINE S == RNG!Against4(later, c)
  <2>4. S # {}
    BY <2>1, <2>2
  <2>5. RNG!Max(S) \in S
    <3>1. OBR!Max(S) \in S
      BY <2>3, <2>4, LastIsIn
    <3> HIDE DEF S
    <3> QED
      BY <3>1 DEF OBR!Max, RNG!Max
  <2> QED
    BY <1>4, <2>5 DEF RNG!Zone
<1> QED
  BY <1>2, <1>3, <1>4

LEMMA FullGrows ==
  ASSUME NEW t \in Seq(CandleType), NEW later \in Seq(CandleType), Prefix(t, later), NEW c, c.at \in 1 .. Len(t),
         NEW m \in Nat
  PROVE  RNG!Full(t, c, m) \subseteq RNG!Full(later, c, m)
<1> PICK n \in Nat : n = Len(t)
  BY CandlesAre
<1>1. Len(later) = n + 1 /\ (\A j \in 1 .. n : later[j] = t[j]) /\ c.at \in 1 .. n
  BY DEF Prefix
<1> DEFINE R(l) == c.at + 1 .. RNG!Smaller(l, c.at + m)
<1>2. R(n) \subseteq 1 .. n /\ R(n) \subseteq R(n + 1)
  BY <1>1 DEF RNG!Smaller
<1>3. \A j \in R(n) : later[j] = t[j] /\ j \in R(n + 1)
  BY <1>1, <1>2
<1> HIDE DEF R
<1> QED
  BY <1>1, <1>3 DEF RNG!Full, R

\* A score under its caps
Capped(sum, caps) == RNG!Clamp(sum, 0, RNG!Min({1000} \cup caps))
Halves(caps) == caps \subseteq {500, 600}
InScale(score) == score \in 0 .. 1000

LEMMA CappedIs ==
  ASSUME NEW sum \in Int, NEW caps, Halves(caps)
  PROVE  /\ InScale(Capped(sum, caps))
         /\ caps # {} => Capped(sum, caps) <= 600
         /\ caps = {} /\ sum >= 700 => Capped(sum, caps) >= 700
<1> DEFINE S == {1000} \cup caps
<1>1. S # {} /\ S \subseteq Nat
  BY DEF Halves
<1>9. \A x \in S : x = 1000 \/ x = 500 \/ x = 600
  BY DEF Halves
<1> HIDE DEF S
<1>2. RNG!Min(S) \in S /\ \A y \in S : RNG!Min(S) <= y
  <2>1. OBR!Min(S) \in S /\ \A y \in S : OBR!Min(S) <= y
    BY <1>1, FirstIsIn
  <2> QED
    BY <2>1 DEF OBR!Min, RNG!Min
<1> DEFINE cap == RNG!Min(S)
<1> HIDE DEF cap
<1>3. cap \in {1000, 500, 600}
  BY <1>9, <1>2 DEF cap
<1>4. caps # {} => cap <= 600
  <2>1. ASSUME NEW y \in caps PROVE cap <= 600
    <3>1. cap <= y /\ y \in {500, 600}
      BY <1>2 DEF S, cap, Halves
    <3> QED
      BY <1>3, <3>1
  <2> QED
    BY <2>1
<1>5. caps = {} => cap = 1000
  BY <1>2 DEF S, cap
<1>6. RNG!Clamp(sum, 0, cap) \in 0 .. 1000 /\ RNG!Clamp(sum, 0, cap) <= cap
  BY <1>3 DEF RNG!Clamp, RNG!Larger, RNG!Smaller
<1>7. caps # {} => RNG!Clamp(sum, 0, cap) <= 600
  BY <1>3, <1>4, <1>6
<1>8. caps = {} /\ sum >= 700 => RNG!Clamp(sum, 0, cap) >= 700
  BY <1>5 DEF RNG!Clamp, RNG!Larger, RNG!Smaller
<1> QED
  BY <1>6, <1>7, <1>8 DEF cap, S, Capped, InScale

\* What a Judas swing that may be traded rests on, and an AMD model; the scores say no less.
JudasFounded(t, c) ==
  RNG!JudasAccumulated(t) /\ RNG!Shift(t, c) # {} /\ RNG!Zone(t, c) # {} /\ RNG!Full(t, c, 6) # {}

AmdFounded(t, c) ==
  RNG!AmdAccumulated(t) /\ RNG!Shift(t, c) # {} /\ RNG!Gap(t, c) # {} /\ RNG!Full(t, c, 8) # {}

LEMMA JudasScoreIs ==
  ASSUME NEW t, NEW c, c.kind \in {"reclaimed", "accepted", "unclear"}
  PROVE  InScale(RNG!JudasScore(t, c))
         /\ (RNG!JudasScore(t, c) >= 700 <=> c.kind = "reclaimed" /\ JudasFounded(t, c))
<1> DEFINE acc == RNG!JudasAccumulated(t)
           full == RNG!Full(t, c, 6) # {}
           shifted == RNG!Shift(t, c) # {}
           zone == RNG!Zone(t, c) # {}
           a1 == RNG!If(acc, 150)
           a2 == RNG!If(shifted, 200)
           a3 == RNG!If(full, 50)
           a4 == RNG!If(RNG!JudasStrong(t, c), 50)
           a5 == RNG!If(zone, 100)
           a6 == RNG!FromBias(RNG!Dir(c))
           a7 == RNG!If(RangeContext.active, 50)
           sum == 200 + a1 + 150 + a2 + a3 + a4 + a5 + 75 + a6 + a7
           caps == {x \in {600} : ~acc \/ ~full \/ RNG!Zone(t, c) = {}} \cup {x \in {500} : ~shifted}
<1>1. c.kind = "reclaimed" => RNG!JudasScore(t, c) = Capped(sum, caps)
  BY DEF RNG!JudasScore, Capped
<1>2. /\ c.kind = "accepted" => RNG!JudasScore(t, c) = 240
      /\ c.kind = "unclear" => RNG!JudasScore(t, c) = 300
  BY DEF RNG!JudasScore
<1> DEFINE bad == ~acc \/ ~full \/ RNG!Zone(t, c) = {}
           bare == ~shifted
<1>3. caps \subseteq {500, 600} /\ (caps = {} <=> ~bad /\ ~bare)
  <2> HIDE DEF bad, bare
  <2>1. caps = {x \in {600} : bad} \cup {x \in {500} : bare}
    BY DEF bad, bare
  <2>2. (bad => 600 \in caps) /\ (bare => 500 \in caps) /\ (~bad /\ ~bare => caps = {})
    BY <2>1
  <2>3. \A x \in caps : x = 600 \/ x = 500
    BY <2>1
  <2> HIDE DEF caps
  <2> QED
    BY <2>2, <2>3
<1>11. ~bad /\ ~bare <=> acc /\ full /\ zone /\ shifted
  OBVIOUS
<1> HIDE DEF bad, bare
<1>4. /\ a1 \in {0, 150} /\ a2 \in {0, 200} /\ a3 \in {0, 50} /\ a4 \in {0, 50} /\ a5 \in {0, 100} /\ a7 \in {0, 50}
      /\ (acc => a1 = 150) /\ (shifted => a2 = 200) /\ (full => a3 = 50) /\ (zone => a5 = 100)
  BY DEF RNG!If
<1>5. a6 \in {-100, 0, 75}
  BY DEF RNG!FromBias
<1> HIDE DEF a1, a2, a3, a4, a5, a6, a7, acc, full, shifted, zone
<1>6. sum \in Int /\ (acc /\ full /\ zone /\ shifted => sum >= 700)
  BY <1>4, <1>5
<1> HIDE DEF sum, caps
<1>12. sum \in Int /\ Halves(caps)
  BY <1>3, <1>6 DEF Halves
<1>7. /\ InScale(Capped(sum, caps))
      /\ caps # {} => Capped(sum, caps) <= 600
      /\ caps = {} /\ sum >= 700 => Capped(sum, caps) >= 700
  BY <1>12, CappedIs
<1>8. JudasFounded(t, c) <=> acc /\ full /\ zone /\ shifted
  BY DEF JudasFounded, acc, full, zone, shifted
<1>9. CASE c.kind = "reclaimed"
  <2> DEFINE score == Capped(sum, caps)
  <2>1. /\ RNG!JudasScore(t, c) = score /\ score \in 0 .. 1000 /\ (caps # {} => score <= 600)
        /\ (caps = {} /\ sum >= 700 => score >= 700)
    BY <1>1, <1>7, <1>9 DEF InScale
  <2> HIDE DEF score
  <2> QED
    BY <1>3, <1>6, <1>8, <1>9, <1>11, <2>1 DEF InScale
<1>10. CASE c.kind # "reclaimed"
  BY <1>2, <1>10 DEF InScale
<1> QED
  BY <1>9, <1>10

LEMMA AmdScoreIs ==
  ASSUME NEW t, NEW c, c.kind \in {"reclaimed", "accepted", "unclear"}
  PROVE  InScale(RNG!AmdScore(t, c))
         /\ (RNG!AmdScore(t, c) >= 700 <=> c.kind = "reclaimed" /\ AmdFounded(t, c))
<1> DEFINE d == RNG!Dir(c)
           acc == RNG!AmdAccumulated(t)
           full == RNG!Full(t, c, 8) # {}
           shifted == RNG!Shift(t, c) # {}
           gap == RNG!Gap(t, c) # {}
           strong == full /\ (shifted \/ \E j \in RNG!Widest(t, c, 8) :
                                           10 * RNG!Size(t[j]) >= 12 * RNG!Atr(t, RNG!AtrPeriod))
           a1 == RNG!If(acc, 200)
           a2 == RNG!If(shifted, 200)
           a3 == RNG!If(full, 50)
           a4 == RNG!If(strong, 50)
           a5 == RNG!If(gap, 100)
           a6 == RNG!If(RNG!Reached(t, c, RNG!Midpoint2(d)), 50)
           a7 == RNG!If(RNG!Reached(t, c, 2 * RNG!Edge(d)), 50)
           a8 == RNG!FromBias(d)
           a9 == RNG!If(RangeContext.active, 50)
           sum == 100 + a1 + 150 + a2 + a3 + a4 + a5 + a6 + a7 + 50 + a8 + a9
           caps == {x \in {600} : ~acc \/ ~full \/ RNG!Gap(t, c) = {}} \cup {x \in {500} : ~shifted}
<1>1. c.kind = "reclaimed" => RNG!AmdScore(t, c) = Capped(sum, caps)
  BY DEF RNG!AmdScore, Capped
<1>2. /\ c.kind = "accepted" => RNG!AmdScore(t, c) = 260
      /\ c.kind = "unclear" => RNG!AmdScore(t, c) = 300
  BY DEF RNG!AmdScore
<1> DEFINE bad == ~acc \/ ~full \/ RNG!Gap(t, c) = {}
           bare == ~shifted
<1>3. caps \subseteq {500, 600} /\ (caps = {} <=> ~bad /\ ~bare)
  <2> HIDE DEF bad, bare
  <2>1. caps = {x \in {600} : bad} \cup {x \in {500} : bare}
    BY DEF bad, bare
  <2>2. (bad => 600 \in caps) /\ (bare => 500 \in caps) /\ (~bad /\ ~bare => caps = {})
    BY <2>1
  <2>3. \A x \in caps : x = 600 \/ x = 500
    BY <2>1
  <2> HIDE DEF caps
  <2> QED
    BY <2>2, <2>3
<1>11. ~bad /\ ~bare <=> acc /\ full /\ gap /\ shifted
  OBVIOUS
<1> HIDE DEF bad, bare
<1>4. /\ a1 \in {0, 200} /\ a2 \in {0, 200} /\ a3 \in {0, 50} /\ a4 \in {0, 50} /\ a5 \in {0, 100} /\ a9 \in {0, 50}
      /\ a6 \in {0, 50} /\ a7 \in {0, 50}
      /\ (acc => a1 = 200) /\ (shifted => a2 = 200) /\ (full => a3 = 50) /\ (full /\ shifted => a4 = 50)
      /\ (gap => a5 = 100)
  BY DEF RNG!If
<1>5. a8 \in {-100, 0, 75}
  BY DEF RNG!FromBias
<1> HIDE DEF a1, a2, a3, a4, a5, a6, a7, a8, a9, acc, full, shifted, gap
<1>6. sum \in Int /\ (acc /\ full /\ gap /\ shifted => sum >= 700)
  BY <1>4, <1>5
<1> HIDE DEF sum, caps
<1>12. sum \in Int /\ Halves(caps)
  BY <1>3, <1>6 DEF Halves
<1>7. /\ InScale(Capped(sum, caps))
      /\ caps # {} => Capped(sum, caps) <= 600
      /\ caps = {} /\ sum >= 700 => Capped(sum, caps) >= 700
  BY <1>12, CappedIs
<1>8. AmdFounded(t, c) <=> acc /\ full /\ gap /\ shifted
  BY DEF AmdFounded, acc, full, gap, shifted
<1>9. CASE c.kind = "reclaimed"
  <2> DEFINE score == Capped(sum, caps)
  <2>1. /\ RNG!AmdScore(t, c) = score /\ score \in 0 .. 1000 /\ (caps # {} => score <= 600)
        /\ (caps = {} /\ sum >= 700 => score >= 700)
    BY <1>1, <1>7, <1>9 DEF InScale
  <2> HIDE DEF score
  <2> QED
    BY <1>3, <1>6, <1>8, <1>9, <1>11, <2>1 DEF InScale
<1>10. CASE c.kind # "reclaimed"
  BY <1>2, <1>10 DEF InScale
<1> QED
  BY <1>9, <1>10

LEMMA AllowedByFounding ==
  ASSUME NEW t \in Seq(CandleType), NEW c, Ranged(t, c)
  PROVE  /\ RNG!JudasAllowed(t, c) <=> RNG!JudasScore(t, c) >= 700
         /\ RNG!AmdDetected(t, c) <=> RNG!AmdScore(t, c) >= 700
         /\ InScale(RNG!JudasScore(t, c)) /\ InScale(RNG!AmdScore(t, c))
<1>1. c.kind \in {"reclaimed", "accepted", "unclear"}
  BY DEF Ranged
<1>2. /\ InScale(RNG!JudasScore(t, c)) /\ (RNG!JudasScore(t, c) >= 700 <=> c.kind = "reclaimed" /\ JudasFounded(t, c))
      /\ InScale(RNG!AmdScore(t, c)) /\ (RNG!AmdScore(t, c) >= 700 <=> c.kind = "reclaimed" /\ AmdFounded(t, c))
  BY <1>1, JudasScoreIs, AmdScoreIs
<1>3. RNG!JudasAllowed(t, c) <=> RNG!JudasScore(t, c) >= 700
  <2>1. RNG!JudasAllowed(t, c) => RNG!JudasScore(t, c) >= 700
    BY DEF RNG!JudasAllowed
  <2>2. ASSUME RNG!JudasScore(t, c) >= 700 PROVE RNG!JudasAllowed(t, c)
    <3>1. c.kind = "reclaimed" /\ JudasFounded(t, c)
      BY <1>2, <2>2
    <3> QED
      BY <2>2, <3>1 DEF JudasFounded, RNG!JudasAllowed
  <2> QED
    BY <2>1, <2>2
<1>4. RNG!AmdDetected(t, c) <=> RNG!AmdScore(t, c) >= 700
  <2>1. RNG!AmdDetected(t, c) => RNG!AmdScore(t, c) >= 700
    BY DEF RNG!AmdDetected
  <2>2. ASSUME RNG!AmdScore(t, c) >= 700 PROVE RNG!AmdDetected(t, c)
    <3>1. c.kind = "reclaimed" /\ AmdFounded(t, c)
      BY <1>2, <2>2
    <3> QED
      BY <2>2, <3>1 DEF AmdFounded, RNG!AmdDetected
  <2> QED
    BY <2>1, <2>2
<1> QED
  BY <1>2, <1>3, <1>4

LEMMA RangesGoOn ==
  ASSUME NEW t \in Seq(CandleType), NEW later \in Seq(CandleType), Prefix(t, later)
  PROVE  RNG!WithdrawnByAtrOnly(t, later)
<1> SUFFICES ASSUME NEW c \in RNG!Candidates(t, 0)
             PROVE  /\ c \in RNG!Candidates(later, 0)
                    /\ RNG!JudasAllowed(t, c) => (RNG!JudasAllowed(later, c) <=> RNG!JudasAccumulated(later))
                    /\ RNG!AmdDetected(t, c) => (RNG!AmdDetected(later, c) <=> RNG!AmdAccumulated(later))
  BY DEF RNG!WithdrawnByAtrOnly
<1>1. c \in RNG!Candidates(later, 0)
  BY RangedStay
<1>2. Ranged(t, c) /\ Ranged(later, c)
  BY <1>1, RangedAre
<1>3. c.at \in 1 .. Len(t) /\ c.kind \in {"reclaimed", "accepted", "unclear"}
  BY <1>2 DEF Ranged
<1>4. /\ RNG!Shift(t, c) # {} => RNG!Shift(later, c) # {}
      /\ RNG!Gap(t, c) # {} => RNG!Gap(later, c) # {}
      /\ RNG!Zone(t, c) # {} => RNG!Zone(later, c) # {}
      /\ \A m \in Nat : RNG!Full(t, c, m) # {} => RNG!Full(later, c, m) # {}
  <2>1. \A m \in Nat : RNG!Full(t, c, m) \subseteq RNG!Full(later, c, m)
    BY <1>3, FullGrows
  <2> QED
    BY <1>3, <2>1, RangeShiftStays, RangeGapStays, RangeZoneStays
<1>5. 6 \in Nat /\ 8 \in Nat
  OBVIOUS
<1>6. ASSUME RNG!JudasAllowed(t, c) PROVE RNG!JudasAllowed(later, c) <=> RNG!JudasAccumulated(later)
  <2>1. c.kind = "reclaimed" /\ JudasFounded(t, c)
    BY <1>2, <1>3, <1>6, AllowedByFounding, JudasScoreIs
  <2>2. JudasFounded(later, c) <=> RNG!JudasAccumulated(later)
    BY <1>4, <1>5, <2>1 DEF JudasFounded
  <2> QED
    BY <1>2, <1>3, <2>1, <2>2, AllowedByFounding, JudasScoreIs
<1>7. ASSUME RNG!AmdDetected(t, c) PROVE RNG!AmdDetected(later, c) <=> RNG!AmdAccumulated(later)
  <2>1. c.kind = "reclaimed" /\ AmdFounded(t, c)
    BY <1>2, <1>3, <1>7, AllowedByFounding, AmdScoreIs
  <2>2. AmdFounded(later, c) <=> RNG!AmdAccumulated(later)
    BY <1>4, <1>5, <2>1 DEF AmdFounded
  <2> QED
    BY <1>2, <1>3, <2>1, <2>2, AllowedByFounding, AmdScoreIs
<1> QED
  BY <1>1, <1>6, <1>7

LEMMA FirstRaidGoesOn ==
  ASSUME NEW t \in Seq(CandleType), NEW later \in Seq(CandleType), Prefix(t, later)
  PROVE  RNG!FirstRaidDecides(t, later)
<1> PICK n \in Nat : n = Len(t)
  BY CandlesAre
<1> SUFFICES ASSUME NEW c \in RNG!AsianEvent(t)
             PROVE  /\ RNG!AsianEvent(later) = {c}
                    /\ RNG!AsianAllowed(t, c) => RNG!AsianAllowed(later, c) /\ RNG!Zone(later, c) = RNG!Zone(t, c)
  BY DEF RNG!FirstRaidDecides
<1> DEFINE was == RNG!Candidates(t, 65)
           is == RNG!Candidates(later, 65)
           Before(x, y) == x.at < y.at \/ (x.at = y.at /\ x.side > y.side)
<1>1. c \in was /\ \A x \in was \ {c} : Before(c, x)
  BY DEF RNG!AsianEvent
<1>2. Ranged(t, c) /\ c.at \in 1 .. n
  BY <1>1, RangedAre DEF Ranged
<1>3. c \in is /\ \A x \in is : Ranged(later, x) /\ (x \in was \/ x.at = n + 1)
  BY <1>1, RangedStay, RangedAre
<1> HIDE DEF was, is
<1>4. \A x \in is \ {c} : Before(c, x)
  BY <1>1, <1>2, <1>3
<1>5. RNG!AsianEvent(later) = {x \in is : \A y \in is \ {x} : Before(x, y)}
  BY DEF RNG!AsianEvent, is
<1>6. ASSUME NEW x \in is, x # c PROVE ~ Before(x, c)
  <2>1. Before(c, x) /\ Ranged(later, x) /\ Ranged(later, c)
    BY <1>3, <1>4, <1>6
  <2>2. Len(later) \in Nat
    BY CandlesAre
  <2> QED
    BY <2>1, <2>2 DEF Ranged, Directions
<1>7. RNG!AsianEvent(later) = {c}
  <2> HIDE DEF Before
  <2> QED
    BY <1>3, <1>4, <1>5, <1>6
<1>8. RNG!AsianAllowed(t, c) => RNG!AsianAllowed(later, c) /\ RNG!Zone(later, c) = RNG!Zone(t, c)
  BY <1>2, RangeShiftStays, RangeGapStays DEF RNG!AsianAllowed
<1> QED
  BY <1>7, <1>8

\* Among candidates that have a score there is a best one, and it has no lower a score than any.
BestOf(C, f) == RNG!Best({<<c, f[c]>> : c \in C})

Graded(C, f, n) ==
  /\ \A c \in C : c.at \in 1 .. n /\ c.side \in Directions /\ f[c] \in 0 .. TopScore
  /\ \A c, x \in C : c.at = x.at /\ c.side = x.side => c = x

LEMMA BestIs ==
  ASSUME NEW n \in Nat, NEW C, C # {}, NEW f, Graded(C, f, n)
  PROVE  \E b \in C : b \in BestOf(C, f) /\ \A c \in C : f[c] <= f[b]
<1>12. /\ \A c \in C : c.at \in 1 .. n /\ c.side \in Directions /\ f[c] \in 0 .. TopScore
       /\ \A c, x \in C : c.at = x.at /\ c.side = x.side => c = x
  BY DEF Graded
<1>1. PICK top \in {f[c] : c \in C} : \A y \in {f[c] : c \in C} : y <= top
  <2> DEFINE S == {f[c] : c \in C}
  <2>1. S # {} /\ S \subseteq 0 .. TopScore /\ TopScore \in Nat
    BY <1>12 DEF TopScore
  <2> HIDE DEF S
  <2>2. S # {} /\ \E m \in Nat : S \subseteq 0 .. m
    BY <2>1
  <2>3. \E m \in S : \A x \in S : x <= m
    BY <2>2, Greatest
  <2> QED
    BY <2>3 DEF S
<1> DEFINE T == {c \in C : f[c] = top}
           ats == {c.at : c \in T}
<1>2. T # {} /\ \A c \in C : f[c] <= top
  BY <1>1
<1>3. ats # {} /\ ats \subseteq Nat
  BY <1>2, <1>12
<1> HIDE DEF ats
<1>4. PICK first \in ats : \A a \in ats : first <= a
  BY <1>3, FirstIsIn
<1> DEFINE E == {c \in T : c.at = first}
<1>5. E # {} /\ (\A c \in T : first <= c.at) /\ first \in Nat
  BY <1>3, <1>4 DEF ats
<1>6. PICK b \in E : \A x \in E : b.side <= x.side
  <2>1. CASE \E c \in E : c.side = -1
    <3>1. PICK c \in E : c.side = -1
      BY <2>1
    <3>2. \A x \in E : c.side <= x.side
      BY <1>12, <3>1 DEF Directions
    <3> QED
      BY <3>2
  <2>2. CASE ~ \E c \in E : c.side = -1
    <3>1. \A x \in E : x.side = 1
      BY <1>12, <2>2 DEF Directions
    <3> QED
      BY <1>5, <3>1
  <2> QED
    BY <2>1, <2>2
<1>7. b \in C /\ f[b] = top /\ b.at = first
  OBVIOUS
<1>8. ASSUME NEW x \in C, x # b
      PROVE  f[b] > f[x] \/ (f[b] = f[x] /\ b.at < x.at) \/ (f[b] = f[x] /\ b.at = x.at /\ b.side < x.side)
  <2>1. CASE f[x] # top
    <3>1. f[x] \in Int /\ f[b] \in Int /\ f[x] <= f[b] /\ f[x] # f[b]
      BY <1>2, <1>7, <1>12, <2>1
    <3>2. f[b] > f[x]
      <4>1. \A u \in Int, v \in Int : u <= v /\ u # v => v > u
        OBVIOUS
      <4> QED
        BY <3>1, <4>1
    <3> QED
      BY <3>2
  <2>2. CASE f[x] = top /\ x.at # first
    <3>1. first <= x.at /\ x.at \in Int /\ first \in Int
      BY <1>5, <1>12, <2>2
    <3> QED
      BY <1>7, <2>2, <3>1
  <2>3. CASE f[x] = top /\ x.at = first
    <3>1. b.side <= x.side /\ b.side # x.side /\ b.side \in Int /\ x.side \in Int
      BY <1>6, <1>7, <1>8, <1>12, <2>3 DEF Directions
    <3> QED
      BY <1>7, <2>3, <3>1
  <2> QED
    BY <2>1, <2>2, <2>3
<1> DEFINE scored == {<<c, f[c]>> : c \in C}
           p == <<b, f[b]>>
<1>9. p \in scored /\ p[1] = b
  BY <1>7
<1> HIDE DEF E, T
<1>10. \A o \in scored \ {p} : \/ p[2] > o[2]
                               \/ p[2] = o[2] /\ p[1].at < o[1].at
                               \/ p[2] = o[2] /\ p[1].at = o[1].at /\ p[1].side < o[1].side
  <2> SUFFICES ASSUME NEW x \in C, x # b
               PROVE  \/ f[b] > f[x] \/ (f[b] = f[x] /\ b.at < x.at)
                      \/ (f[b] = f[x] /\ b.at = x.at /\ b.side < x.side)
    BY <1>7
  <2> QED
    BY <1>8
<1> HIDE DEF scored, p
<1>11. b \in RNG!Best(scored)
  BY <1>9, <1>10 DEF RNG!Best
<1> QED
  BY <1>2, <1>7, <1>11 DEF scored, BestOf

LEMMA TradeableGoesFirst ==
  ASSUME NEW t \in Seq(CandleType)
  PROVE  RNG!TradeableIsAnswered(t)
<1> PICK n \in Nat : n = Len(t)
  BY CandlesAre
<1> DEFINE C == RNG!Candidates(t, 0)
           J == [c \in C |-> RNG!JudasScore(t, c)]
           A == [c \in C |-> RNG!AmdScore(t, c)]
<1>1. \A c \in C : Ranged(t, c) /\ c = [side |-> c.side, at |-> c.at, kind |-> RNG!Kind(c.side, t[c.at], 0)]
  BY RangedAre
<1>2. \A c, x \in C : c.at = x.at /\ c.side = x.side => c = x
  BY <1>1
<1>3. \A c \in C : c.at \in 1 .. n /\ c.side \in Directions
  BY <1>1 DEF Ranged
<1>4. \A c \in C : /\ InScale(J[c]) /\ InScale(A[c])
                   /\ (RNG!JudasAllowed(t, c) <=> J[c] >= 700) /\ (RNG!AmdDetected(t, c) <=> A[c] >= 700)
  BY <1>1, AllowedByFounding
<1>5. {<<c, RNG!JudasScore(t, c)>> : c \in C} = {<<c, J[c]>> : c \in C}
      /\ {<<c, RNG!AmdScore(t, c)>> : c \in C} = {<<c, A[c]>> : c \in C}
  OBVIOUS
<1>6. RNG!JudasBest(t) = BestOf(C, J) /\ RNG!AmdBest(t) = BestOf(C, A)
  BY <1>5 DEF RNG!JudasBest, RNG!AmdBest, BestOf
<1> HIDE DEF C, J, A
<1>7. \A g : BestOf(C, g) \subseteq C
  BY DEF RNG!Best, BestOf
<1>8. (\E c \in C : RNG!JudasAllowed(t, c)) => \E c \in RNG!JudasBest(t) : RNG!JudasAllowed(t, c)
  <2> SUFFICES ASSUME NEW c \in C, RNG!JudasAllowed(t, c) PROVE \E x \in RNG!JudasBest(t) : RNG!JudasAllowed(t, x)
    OBVIOUS
  <2>1. C # {} /\ Graded(C, J, n)
    BY <1>2, <1>3, <1>4 DEF Graded, TopScore, InScale
  <2>2. PICK b \in C : b \in BestOf(C, J) /\ \A x \in C : J[x] <= J[b]
    BY <2>1, BestIs
  <2>3. J[c] >= 700 /\ J[c] <= J[b]
    BY <1>4, <2>2
  <2>3a. InScale(J[c]) /\ InScale(J[b])
    BY <1>4, <2>2
  <2>4. J[b] >= 700
    <3>1. \A u \in Int, v \in Int : u >= 700 /\ u <= v => v >= 700
      OBVIOUS
    <3>2. \A u : InScale(u) => u \in Int
      BY DEF InScale
    <3> QED
      BY <2>3, <2>3a, <3>1, <3>2
  <2> QED
    BY <1>4, <1>6, <2>2, <2>4
<1>9. (\E c \in C : RNG!AmdDetected(t, c)) => \E c \in RNG!AmdBest(t) : RNG!AmdDetected(t, c)
  <2> SUFFICES ASSUME NEW c \in C, RNG!AmdDetected(t, c) PROVE \E x \in RNG!AmdBest(t) : RNG!AmdDetected(t, x)
    OBVIOUS
  <2>1. C # {} /\ Graded(C, A, n)
    BY <1>2, <1>3, <1>4 DEF Graded, TopScore, InScale
  <2>2. PICK b \in C : b \in BestOf(C, A) /\ \A x \in C : A[x] <= A[b]
    BY <2>1, BestIs
  <2>3. A[c] >= 700 /\ A[c] <= A[b]
    BY <1>4, <2>2
  <2>3a. InScale(A[c]) /\ InScale(A[b])
    BY <1>4, <2>2
  <2>4. A[b] >= 700
    <3>1. \A u \in Int, v \in Int : u >= 700 /\ u <= v => v >= 700
      OBVIOUS
    <3>2. \A u : InScale(u) => u \in Int
      BY DEF InScale
    <3> QED
      BY <2>3, <2>3a, <3>1, <3>2
  <2> QED
    BY <1>4, <1>6, <2>2, <2>4
<1>10. RNG!JudasBest(t) \subseteq C /\ RNG!AmdBest(t) \subseteq C
  BY <1>6, <1>7
<1>11. /\ (\E c \in C : RNG!JudasAllowed(t, c)) <=> (\E c \in RNG!JudasBest(t) : RNG!JudasAllowed(t, c))
       /\ (\E c \in C : RNG!AmdDetected(t, c)) <=> (\E c \in RNG!AmdBest(t) : RNG!AmdDetected(t, c))
  BY <1>8, <1>9, <1>10
<1> QED
  BY <1>11 DEF RNG!TradeableIsAnswered, C

-------------------------------------------------------------------------------
(* london_open_raid.py, new_york_open_raid.py *)

\* _filter_london_window, _filter_ny_window, candle by candle
InSession(window, after, i) ==
  LET minute == SessionContext.start + (i - 1) * SessionContext.step
  IN  minute > after /\ SR!Inside(window, minute % 1440)

FilteredUpTo(f, t, window, after) ==
  /\ f[0] = <<>> /\ f[Len(t)] = SR!Filtered(t, window, after)
  /\ \A i \in 1 .. Len(t) :
       f[i] = IF InSession(window, after, i) THEN Append(f[i - 1], t[i]) ELSE f[i - 1]

LEMMA FilteredOneByOne ==
  ASSUME NEW t, Len(t) \in Nat, NEW window, NEW after
  PROVE  \E f : FilteredUpTo(f, t, window, after)
<1> DEFINE n == Len(t)
           Next1(x, i) == IF InSession(window, after, i) THEN Append(x, t[i]) ELSE x
           Good(f, m) == f = [i \in 0 .. m |-> IF i = 0 THEN <<>> ELSE Next1(f[i - 1], i)]
           T == {m \in 0 .. n : \E f : Good(f, m)}
           upTo == CHOOSE f : Good(f, n)
<1> HIDE DEF Next1
<1>1. 0 \in T
  <2>1. Good([i \in 0 .. 0 |-> <<>>], 0)
    OBVIOUS
  <2>2. \E f : Good(f, 0)
    <3> HIDE DEF Good
    <3> QED
      BY <2>1
  <2> QED
    BY <2>2
<1>2. ASSUME NEW m \in 0 .. n - 1, m \in T PROVE m + 1 \in T
  <2>1. PICK f : Good(f, m)
    BY <1>2
  <2> DEFINE g == [i \in 0 .. m + 1 |-> IF i = m + 1 THEN Next1(f[m], i) ELSE f[i]]
  <2>2. \A i \in 0 .. m : g[i] = f[i]
    OBVIOUS
  <2>3. ASSUME NEW i \in 0 .. m + 1
        PROVE  g[i] = IF i = 0 THEN <<>> ELSE Next1(g[i - 1], i)
    <3>1. CASE i = m + 1
      <4>1. i # 0 /\ i - 1 = m /\ m \in 0 .. m
        BY <3>1
      <4>2. g[i] = Next1(f[m], i)
        BY <3>1
      <4> QED
        BY <2>2, <4>1, <4>2
    <3>2. CASE i \in 0 .. m
      <4>1. f[i] = IF i = 0 THEN <<>> ELSE Next1(f[i - 1], i)
        BY <2>1, <3>2
      <4>2. i # 0 => i - 1 \in 0 .. m
        BY <3>2
      <4> HIDE DEF g
      <4> QED
        BY <2>2, <3>2, <4>1, <4>2
    <3> QED
      BY <3>1, <3>2
  <2>4. Good(g, m + 1)
    <3>1. g = [i \in 0 .. m + 1 |-> g[i]]
      OBVIOUS
    <3> HIDE DEF g
    <3> QED
      BY <2>3, <3>1
  <2>5. \E f1 : Good(f1, m + 1)
    <3> HIDE DEF Good, g
    <3> QED
      BY <2>4
  <2> QED
    BY <2>5
<1>3. n \in T
  <2> HIDE DEF T
  <2> QED
    BY <1>1, <1>2, CountingUp, n \in 0 .. n
<1>4. Good(upTo, n)
  BY <1>3
<1>5. SR!Filtered(t, window, after) = upTo[n]
  BY DEF SR!Filtered, Next1, InSession
<1>6. \A i \in 0 .. n : upTo[i] = IF i = 0 THEN <<>> ELSE Next1(upTo[i - 1], i)
  BY <1>4
<1> HIDE DEF upTo
<1>7. 0 \in 0 .. n /\ \A i \in 1 .. n : i \in 0 .. n /\ i # 0
  OBVIOUS
<1> QED
  BY <1>5, <1>6, <1>7 DEF FilteredUpTo, Next1

\* The candles of a window only grow, by the last one or by none.
Grown(w, later) == later = w \/ Prefix(w, later)

LEMMA WindowGrows ==
  ASSUME NEW t \in Seq(CandleType), NEW later \in Seq(CandleType), Prefix(t, later), NEW window, NEW after
  PROVE  /\ SR!Filtered(t, window, after) \in Seq(CandleType)
         /\ SR!Filtered(later, window, after) \in Seq(CandleType)
         /\ Grown(SR!Filtered(t, window, after), SR!Filtered(later, window, after))
<1> PICK n \in Nat : n = Len(t)
  BY CandlesAre
<1>1. Len(later) = n + 1 /\ \A i \in 1 .. n : later[i] = t[i]
  BY DEF Prefix
<1>2. \A i \in 1 .. n + 1 : later[i] \in CandleType
  BY <1>1, ItemsAre
<1>3. PICK f : FilteredUpTo(f, t, window, after)
  BY FilteredOneByOne
<1>4. PICK g : FilteredUpTo(g, later, window, after)
  <2>1. Len(later) \in Nat
    BY <1>1
  <2> QED
    BY <2>1, FilteredOneByOne
<1> DEFINE In(i) == InSession(window, after, i)
<1>5. /\ f[0] = <<>> /\ f[n] = SR!Filtered(t, window, after)
      /\ \A i \in 1 .. n : f[i] = IF In(i) THEN Append(f[i - 1], t[i]) ELSE f[i - 1]
  BY <1>3 DEF FilteredUpTo
<1>6. /\ g[0] = <<>> /\ g[n + 1] = SR!Filtered(later, window, after)
      /\ \A i \in 1 .. n + 1 : g[i] = IF In(i) THEN Append(g[i - 1], later[i]) ELSE g[i - 1]
  BY <1>1, <1>4 DEF FilteredUpTo
<1> HIDE DEF In
<1> DEFINE T == {m \in 0 .. n : g[m] = f[m] /\ f[m] \in Seq(CandleType)}
<1>7. 0 \in T
  <2>1. g[0] = <<>> /\ f[0] = <<>>
    BY <1>5, <1>6
  <2>2. g[0] = f[0] /\ f[0] \in Seq(CandleType)
    BY <2>1
  <2> QED
    BY <2>2
<1>8. ASSUME NEW m \in 0 .. n - 1, m \in T PROVE m + 1 \in T
  <2>1. m + 1 \in 1 .. n /\ m + 1 \in 1 .. n + 1 /\ (m + 1) - 1 = m /\ m + 1 \in 0 .. n
    OBVIOUS
  <2>2. f[m] = g[m] /\ f[m] \in Seq(CandleType)
    BY <1>8
  <2>3. t[m + 1] \in CandleType /\ later[m + 1] = t[m + 1]
    BY <1>1, <1>2, <2>1
  <2>4. f[m + 1] = IF In(m + 1) THEN Append(f[m], t[m + 1]) ELSE f[m]
    BY <1>5, <2>1
  <2>5. g[m + 1] = IF In(m + 1) THEN Append(g[m], later[m + 1]) ELSE g[m]
    BY <1>6, <2>1
  <2>6. g[m + 1] = f[m + 1]
    BY <2>2, <2>3, <2>4, <2>5
  <2>7. f[m + 1] \in Seq(CandleType)
    BY <2>2, <2>3, <2>4
  <2> QED
    BY <2>1, <2>6, <2>7
<1>9. n \in T
  <2> HIDE DEF T
  <2> QED
    BY <1>7, <1>8, CountingUp, n \in 0 .. n
<1>10. g[n] = f[n] /\ f[n] \in Seq(CandleType)
  BY <1>9
<1>11. g[n + 1] = IF In(n + 1) THEN Append(g[n], later[n + 1]) ELSE g[n]
  <2>1. n + 1 \in 1 .. n + 1 /\ (n + 1) - 1 = n
    OBVIOUS
  <2> QED
    BY <1>6, <2>1
<1>12. later[n + 1] \in CandleType
  BY <1>2
<1>13. Prefix(f[n], Append(f[n], later[n + 1]))
  BY <1>10, <1>12, AsBefore
<1>14. g[n + 1] \in Seq(CandleType)
  BY <1>10, <1>11, <1>12
<1> QED
  BY <1>5, <1>6, <1>10, <1>11, <1>13, <1>14 DEF Grown

\* A shift and a gap after a candle of a window stay, and so does the entry in the gap.
LEMMA SessionShiftStays ==
  ASSUME NEW w \in Seq(CandleType), NEW later, Prefix(w, later), NEW d, NEW i \in 1 .. Len(w), SR!Shift(w, i, d) # {}
  PROVE  SR!Shift(later, i, d) = SR!Shift(w, i, d)
<1> PICK n \in Nat : n = Len(w)
  BY CandlesAre
<1>1. Len(later) = n + 1 /\ \A j \in 1 .. n : later[j] = w[j]
  BY DEF Prefix
<1> DEFINE F == SR!Follow(w, i)
           G == SR!Follow(later, i)
           A == {j \in F : SR!Cl(d, w[j]) > SR!Hi(d, w[i]) + SessionContext.breakBuffer}
           B == {j \in G : SR!Cl(d, later[j]) > SR!Hi(d, later[i]) + SessionContext.breakBuffer}
<1>2. F \subseteq 1 .. n /\ F \subseteq G /\ G \subseteq F \cup {n + 1}
  BY <1>1 DEF SR!Follow, SR!Smaller
<1> HIDE DEF F, G
<1>3. A \subseteq 1 .. n /\ A \subseteq B /\ B \subseteq A \cup {n + 1}
  BY <1>1, <1>2
<1>4. /\ SR!Shift(w, i, d) = {x \in A : \A j \in A : x <= j}
      /\ SR!Shift(later, i, d) = {x \in B : \A j \in B : x <= j}
  BY DEF SR!Shift, SR!Earliest, F, G
<1> HIDE DEF A, B
<1>5. A # {}
  BY <1>4
<1> QED
  BY <1>3, <1>4, <1>5, FoundStays

LEMMA SessionGapStays ==
  ASSUME NEW w \in Seq(CandleType), NEW later, Prefix(w, later), NEW d, NEW i \in 1 .. Len(w), SR!Gap(w, i, d) # {}
  PROVE  SR!Gap(later, i, d) = SR!Gap(w, i, d) /\ SR!Zone(later, i, d) = SR!Zone(w, i, d)
<1> PICK n \in Nat : n = Len(w)
  BY CandlesAre
<1>1. Len(later) = n + 1 /\ \A j \in 1 .. n : later[j] = w[j]
  BY DEF Prefix
<1> DEFINE F == i + 2 .. SR!Smaller(Len(w), i + 7)
           G == i + 2 .. SR!Smaller(Len(later), i + 7)
           A == {j \in F : SR!Hi(d, w[j - 2]) < SR!Lo(d, w[j])}
           B == {j \in G : SR!Hi(d, later[j - 2]) < SR!Lo(d, later[j])}
<1>2. F \subseteq 1 .. n /\ F \subseteq G /\ G \subseteq F \cup {n + 1} /\ \A j \in F : j - 2 \in 1 .. n
  BY <1>1 DEF SR!Smaller
<1> HIDE DEF F, G
<1>2a. \A j \in F : later[j] = w[j] /\ later[j - 2] = w[j - 2]
  BY <1>1, <1>2
<1>3. A \subseteq F /\ A \subseteq 1 .. n /\ A \subseteq B /\ B \subseteq A \cup {n + 1}
  BY <1>2, <1>2a
<1>4. /\ SR!Gap(w, i, d) = {x \in A : \A j \in A : x <= j}
      /\ SR!Gap(later, i, d) = {x \in B : \A j \in B : x <= j}
  BY DEF SR!Gap, SR!Earliest, F, G
<1> HIDE DEF A, B
<1>5. A # {}
  BY <1>4
<1>6. SR!Gap(later, i, d) = SR!Gap(w, i, d) /\ SR!Gap(w, i, d) \subseteq F
  BY <1>3, <1>4, <1>5, FoundStays
<1> DEFINE Entry(x) == {[fvg |-> TRUE, mid2 |-> SR!Hi(d, x[j - 2]) + SR!Lo(d, x[j])] : j \in SR!Gap(w, i, d)}
<1>7. Entry(later) = Entry(w)
  BY <1>2a, <1>6
<1>8. SR!Zone(w, i, d) = Entry(w)
  BY DEF SR!Zone
<1>9. SR!Zone(later, i, d) = Entry(later)
  BY <1>6 DEF SR!Zone
<1> QED
  BY <1>6, <1>7, <1>8, <1>9

LEMMA SettledStays ==
  ASSUME NEW w \in Seq(CandleType), NEW later, Grown(w, later), NEW d, NEW i \in 1 .. Len(w)
  PROVE  SR!Settled(w, later, d, i)
<1>1. CASE later = w
  BY <1>1 DEF SR!Settled
<1>2. CASE Prefix(w, later)
  BY <1>2, SessionShiftStays, SessionGapStays DEF SR!Settled
<1> QED
  BY <1>1, <1>2 DEF Grown

LEMMA GrownHas ==
  ASSUME NEW w \in Seq(CandleType), NEW later \in Seq(CandleType), Grown(w, later)
  PROVE  DOMAIN w = 1 .. Len(w) /\ \A i \in DOMAIN w : i \in DOMAIN later /\ later[i] = w[i]
<1> PICK n \in Nat : n = Len(w)
  BY CandlesAre
<1>1. DOMAIN w = 1 .. n /\ DOMAIN later = 1 .. Len(later)
  OBVIOUS
<1>2. CASE later = w
  BY <1>1, <1>2
<1>3. CASE Prefix(w, later)
  BY <1>1, <1>3 DEF Prefix
<1> QED
  BY <1>1, <1>2, <1>3 DEF Grown

LEMMA SessionsGoOn ==
  ASSUME NEW t \in Seq(CandleType), NEW later \in Seq(CandleType), Prefix(t, later)
  PROVE  SR!RaidsStay(t, later)
<1> DEFINE w == SR!InLondon(t)
           x == SR!InLondon(later)
           v == SR!InNewYork(t)
           y == SR!InNewYork(later)
<1>1. w \in Seq(CandleType) /\ x \in Seq(CandleType) /\ Grown(w, x)
  BY WindowGrows DEF SR!InLondon
<1>2. v \in Seq(CandleType) /\ y \in Seq(CandleType) /\ Grown(v, y)
  BY WindowGrows DEF SR!InNewYork
<1> HIDE DEF w, x, v, y
<1>3. DOMAIN w = 1 .. Len(w) /\ \A i \in DOMAIN w : i \in DOMAIN x /\ x[i] = w[i]
  BY <1>1, GrownHas
<1>4. DOMAIN v = 1 .. Len(v) /\ \A i \in DOMAIN v : i \in DOMAIN y /\ y[i] = v[i]
  BY <1>2, GrownHas
<1> DEFINE LondonAt(z, s, i) == [side |-> s, at |-> i, kind |-> SR!Kind(s, z[i], SR!AsianEdge(s)),
                                 dir |-> SR!DirOf(SR!Kind(s, z[i], SR!AsianEdge(s)), s)]
           NewYorkAt(z, m, i) ==
             [side |-> SessionContext.levels[m].side, level |-> m, at |-> i,
              kind |-> SR!Kind(SessionContext.levels[m].side, z[i], SR!Edge(m)),
              dir |-> SR!DirOf(SR!Kind(SessionContext.levels[m].side, z[i], SR!Edge(m)), SessionContext.levels[m].side)]
<1>5. ASSUME NEW r \in SR!LondonRaids(t) PROVE r \in SR!LondonRaids(later) /\ r.at \in DOMAIN w
  <2>1. ~(SessionContext.asian.quality < SessionContext.minAsian)
    BY DEF SR!LondonRaids
  <2>2. PICK p \in SR!Directions \X DOMAIN w : r = LondonAt(w, p[1], p[2]) /\ r.kind # "none"
    BY <2>1 DEF SR!LondonRaids, w
  <2>3. p[2] \in DOMAIN w /\ p \in SR!Directions \X DOMAIN x /\ x[p[2]] = w[p[2]]
    BY <1>3
  <2>4. r = LondonAt(x, p[1], p[2]) /\ r.at = p[2]
    BY <2>2, <2>3
  <2>5. r \in SR!LondonRaids(later)
    BY <2>1, <2>2, <2>3, <2>4 DEF SR!LondonRaids, x
  <2> QED
    BY <2>3, <2>4, <2>5
<1>6. ASSUME NEW r \in SR!NewYorkRaids(t) PROVE r \in SR!NewYorkRaids(later) /\ r.at \in DOMAIN v
  <2>1. ~(SessionContext.news = "blackout")
    BY DEF SR!NewYorkRaids
  <2>2. PICK p \in (DOMAIN SessionContext.levels) \X DOMAIN v :
          /\ r = NewYorkAt(v, p[1], p[2]) /\ r.kind \notin {"none", "near"}
          /\ r.kind = "continuation" => ~SR!Blocked(v[r.at], r.level)
    BY <2>1 DEF SR!NewYorkRaids, v
  <2>3. p[2] \in DOMAIN v /\ p \in (DOMAIN SessionContext.levels) \X DOMAIN y /\ y[p[2]] = v[p[2]]
    BY <1>4
  <2>4. r = NewYorkAt(y, p[1], p[2]) /\ r.at = p[2] /\ y[r.at] = v[r.at]
    BY <2>2, <2>3
  <2>5. r \in SR!NewYorkRaids(later)
    BY <2>1, <2>2, <2>3, <2>4 DEF SR!NewYorkRaids, y
  <2> QED
    BY <2>3, <2>4, <2>5
<1>7. \A r \in SR!LondonRaids(t) : SR!Settled(w, x, r.dir, r.at)
  BY <1>1, <1>3, <1>5, SettledStays
<1>8. \A r \in SR!NewYorkRaids(t) : SR!Settled(v, y, r.dir, r.at)
  BY <1>2, <1>4, <1>6, SettledStays
<1> QED
  BY <1>5, <1>6, <1>7, <1>8 DEF SR!RaidsStay, w, x, v, y

\* The middle of an entry zone is a number.
LEMMA ZoneIsWhole ==
  ASSUME NEW w \in Seq(CandleType), NEW d \in Directions, NEW i \in 1 .. Len(w), NEW z \in SR!Zone(w, i, d)
  PROVE  z.mid2 \in Int
<1> PICK n \in Nat : n = Len(w)
  BY CandlesAre
<1>1. \A j \in 1 .. n : SR!Hi(d, w[j]) \in Int /\ SR!Lo(d, w[j]) \in Int
  BY CandlesAre DEF CandleFields, SR!Hi, SR!Lo
<1> DEFINE against == {j \in i + 1 .. SR!Smaller(Len(w), i + 5) : SR!Against(d, w[j])}
<1>2. against \subseteq 1 .. n
  BY DEF SR!Smaller
<1>3. SR!Gap(w, i, d) \subseteq i + 2 .. n
  BY DEF SR!Gap, SR!Earliest, SR!Smaller
<1>4. CASE \E j \in SR!Gap(w, i, d) : z = [fvg |-> TRUE, mid2 |-> SR!Hi(d, w[j - 2]) + SR!Lo(d, w[j])]
  <2>1. PICK j \in SR!Gap(w, i, d) : z = [fvg |-> TRUE, mid2 |-> SR!Hi(d, w[j - 2]) + SR!Lo(d, w[j])]
    BY <1>4
  <2>2. j \in 1 .. n /\ j - 2 \in 1 .. n
    BY <1>3
  <2> QED
    BY <1>1, <2>1, <2>2
<1>5. CASE \E j \in against : z = [fvg |-> FALSE, mid2 |-> SR!Lo(d, w[j]) + SR!Hi(d, w[j])]
  BY <1>1, <1>2, <1>5
<1> QED
  BY <1>4, <1>5 DEF SR!Zone

LEMMA WindowIsTape ==
  ASSUME NEW t \in Seq(CandleType), NEW window, NEW after
  PROVE  SR!Filtered(t, window, after) \in Seq(CandleType)
<1> DEFINE k == [o |-> 0, h |-> 0, l |-> 0, c |-> 0]
<1>1. k \in CandleType
  BY DEF CandleType
<1> HIDE DEF k
<1>2. Prefix(t, Append(t, k)) /\ Append(t, k) \in Seq(CandleType)
  BY <1>1, AsBefore
<1> QED
  BY <1>2, WindowGrows

LEMMA FadesOnly ==
  ASSUME NEW t \in Seq(CandleType)
  PROVE  SR!LondonFadesOnly(t)
<1> SUFFICES ASSUME NEW r \in SR!LondonValid(t), r.kind = "continuation"
             PROVE  SR!Hi(r.side, SR!InLondon(t)[r.at]) < SR!AsianEdge(r.side) + SessionContext.stopBuffer
  BY DEF SR!LondonFadesOnly
<1> DEFINE w == SR!InLondon(t)
<1>1. w \in Seq(CandleType)
  BY WindowIsTape DEF SR!InLondon
<1> HIDE DEF w
<1>2. r \in SR!LondonRaids(t)
  BY DEF SR!LondonValid, SR!LondonBest, SR!First
<1>3. r.side \in Directions /\ r.at \in 1 .. Len(w) /\ r.dir = r.side
  <2>1. PICK p \in SR!Directions \X DOMAIN w :
          r = [side |-> p[1], at |-> p[2], kind |-> SR!Kind(p[1], w[p[2]], SR!AsianEdge(p[1])),
               dir |-> SR!DirOf(SR!Kind(p[1], w[p[2]], SR!AsianEdge(p[1])), p[1])]
    BY <1>2 DEF SR!LondonRaids, w
  <2>2. DOMAIN w = 1 .. Len(w)
    BY <1>1
  <2>3. r.side = p[1] /\ r.at = p[2] /\ r.kind = SR!Kind(p[1], w[p[2]], SR!AsianEdge(p[1]))
          /\ r.dir = SR!DirOf(SR!Kind(p[1], w[p[2]], SR!AsianEdge(p[1])), p[1])
    BY <2>1
  <2>4. r.dir = p[1]
    BY <2>3 DEF SR!DirOf
  <2> QED
    BY <2>2, <2>3, <2>4 DEF SR!Directions, Directions
<1>4. PICK z \in SR!LondonZone(t, r) : SR!LondonRr(t, r, z) >= SessionContext.minRr
  BY DEF SR!LondonValid, SR!LondonStands
<1>5. z \in SR!Zone(w, r.at, r.dir)
  BY DEF SR!LondonZone, w
<1>6. z.mid2 \in Int
  BY <1>1, <1>3, <1>5, ZoneIsWhole
<1> DEFINE h == SR!Hi(r.side, w[r.at])
           e == SR!AsianEdge(r.side)
           stop == h - SessionContext.stopBuffer
<1>7. h \in Int
  BY <1>1, <1>3, CandlesAre DEF CandleFields, SR!Hi
<1>8. e \in Int /\ SessionContext.stopBuffer \in Int /\ SessionContext.minRr \in Nat \ {0}
  BY ContextAssumption DEF SR!AsianEdge
<1>9. SR!LondonRr(t, r, z) = SR!Rr(z.mid2, stop, e)
  BY <1>3 DEF SR!LondonRr, SR!Stop, w
<1> HIDE DEF h, e
<1>10. ~(z.mid2 <= 2 * stop) /\ ~(2 * e <= z.mid2)
  <2>1. SR!Rr(z.mid2, stop, e) # 0
    BY <1>4, <1>8, <1>9
  <2> HIDE DEF stop
  <2> QED
    BY <2>1 DEF SR!Rr
<1>11. h < e + SessionContext.stopBuffer
  BY <1>6, <1>7, <1>8, <1>10
<1> QED
  BY <1>11 DEF h, e, w

-------------------------------------------------------------------------------
(* What was given is not taken back *)

\* The candles of the tape are those of the scripts.
FormedTape == \A i \in 1 .. Len(tape) : Formed(tape[i])

LEMMA TapeIsFormed == TapeSpec => []FormedTape
<1>1. TapeInit => FormedTape
  BY DEF TapeInit, FormedTape
<1>2. TapeInv /\ FormedTape /\ [TapeNext]_tapeVars => FormedTape'
  <2> SUFFICES ASSUME TapeInv, FormedTape, CandleCloses PROVE FormedTape'
    BY DEF TapeNext, tapeVars, FormedTape
  <2>1. PICK n \in Nat : n = Len(tape)
    BY DEF TapeInv
  <2>2. script \in DOMAIN Scripts /\ Scripts[script] \in Seq(SUBSET CandleType) /\ tape \in Seq(CandleType)
    BY StructureAssumption DEF TapeInv
  <2>3. n + 1 \in DOMAIN Scripts[script] /\ Scripts[script][n + 1] \subseteq CandleType
    BY <2>1, <2>2 DEF CandleCloses
  <2>4. PICK k \in Scripts[script][n + 1] : tape' = Append(tape, k)
    BY <2>1 DEF CandleCloses
  <2>5. Formed(k) /\ k \in CandleType
    BY <2>2, <2>3, CandleAssumption
  <2>6. Len(tape') = n + 1 /\ tape'[n + 1] = k /\ \A i \in 1 .. n : tape'[i] = tape[i]
    BY <2>1, <2>2, <2>4, <2>5
  <2>7. \A i \in 1 .. n + 1 : Formed(tape'[i])
    <3>1. \A i \in 1 .. n + 1 : i = n + 1 \/ i \in 1 .. n
      OBVIOUS
    <3> QED
      BY <2>1, <2>5, <2>6, <3>1 DEF FormedTape
  <2> QED
    BY <2>6, <2>7 DEF FormedTape
<1> QED
  BY <1>1, <1>2, TapeHolds, PTL DEF TapeSpec

\* docs/ict_smc_break_of_structure.md:16-17, docs/ict_smc_market_structure_shift.md:30-31 and the
\* detectors of zones and raids: over swings, levels and events that do not change, a candle that
\* closes takes back nothing of what was given, but for what a grown ATR withdraws from a range; on
\* whatever tape and in whatever context.  Swings of fewer than two right bars would not do: the
\* strength of a swing counts two candles on either side (_chop_penalty).
THEOREM StructureIsForGood ==
  ASSUME RightBars >= 2
  PROVE  TapeSpec => StructureIsNotRepainted
<1>1. TapeInv /\ FormedTape /\ [TapeNext]_tapeVars => [NothingIsTakenBack]_tape
  <2> SUFFICES ASSUME TapeInv, FormedTape, CandleCloses PROVE NothingIsTakenBack
    BY DEF TapeNext, tapeVars
  <2>1. tape \in Seq(CandleType)
    BY DEF TapeInv
  <2>2. PICK k \in CandleType : tape' = Append(tape, k)
    BY NextCandle
  <2>3. tape' \in Seq(CandleType) /\ Prefix(tape, tape')
    BY <2>1, <2>2, AsBefore
  <2>4. BOS!Kept(tape, Confirmed(tape), tape', Confirmed(tape')) /\ MSS!Kept(tape, Confirmed(tape), tape', Confirmed(tape'))
    <3>1. SameSwings(Confirmed(tape), Confirmed(Append(tape, k)), Len(tape))
      BY <2>1, ConfirmedStays
    <3> QED
      BY <2>1, <2>2, <3>1, BreaksStay, ShiftsStay
  <2>5. GAP!GapsStay(tape, tape') /\ GAP!AllowedUntilThrough(tape, tape')
    BY <2>1, <2>3, GapsGoOn, AllowedGoOn
  <2>6. BLK!BlocksStay(tape, tape') /\ BLK!BreakersComeFromFailures(tape)
    BY <2>1, <2>3, BlocksGoOn, BreakersComeLate DEF FormedTape
  <2>7. SR!RaidsStay(tape, tape') /\ SR!LondonFadesOnly(tape)
    BY <2>1, <2>3, SessionsGoOn, FadesOnly
  <2>8. RNG!WithdrawnByAtrOnly(tape, tape') /\ RNG!FirstRaidDecides(tape, tape') /\ RNG!TradeableIsAnswered(tape)
    BY <2>1, <2>3, RangesGoOn, FirstRaidGoesOn, TradeableGoesFirst
  <2>9. RAID!HuntsStay(tape, tape') /\ RAID!BulletsFollowTheirLeg(tape, tape') /\ RAID!PoolSweepsOnlyGrow(tape, tape')
    BY <2>1, <2>3, HuntsGoOn, BulletsGoOn, PoolSweepsGoOn DEF FormedTape
  <2> QED
    BY <2>4, <2>5, <2>6, <2>7, <2>8, <2>9 DEF NothingIsTakenBack
<1> QED
  BY <1>1, TapeHolds, TapeIsFormed, PTL DEF TapeSpec, StructureIsNotRepainted

-------------------------------------------------------------------------------
(* What the strategies share *)

\* The waits, one by one.
LEMMA WaitsAre ==
  /\ Plans.sweep.retestExpiry \in Nat /\ Plans.window.retestExpiry \in Nat /\ Plans.window.fvgWait \in Nat
  /\ Plans.session.session \in Nat /\ Plans.session.reclaimWait \in Nat /\ Plans.session.mssWait \in Nat
  /\ Plans.session.displacementWait \in Nat /\ Plans.session.retestExpiry \in Nat /\ Plans.killzone.mssWait \in Nat
  /\ Plans.killzone.entryWait \in Nat /\ Plans.killzone.retestWait \in Nat /\ Plans.previousDay.maxReclaim \in Nat
  /\ Plans.previousDay.mssWait \in Nat /\ Plans.previousDay.entryWait \in Nat /\ Plans.accumulation.quiet \in Nat
  /\ Plans.accumulation.maxReclaim \in Nat /\ Plans.accumulation.shiftWait \in Nat /\ Plans.breaker.displacementWait \in Nat
  /\ Plans.breaker.retestWait \in Nat /\ Plans.breaker.reactionWait \in Nat /\ Plans.zone.mssWait \in Nat
  /\ Plans.zone.displacementWait \in Nat /\ Plans.zone.entryScan \in Nat /\ Plans.news.mssWait \in Nat
  /\ Plans.continuation.retracementWait \in Nat
  /\ Plans.news.news \in Nat \ {0} /\ Plans.breaker.acceptanceWait \in Nat \ {0}
BY WaitsAssumption

\* What is found first in a tape is found first in a longer one, too.
LEMMA LeastStays ==
  ASSUME NEW n \in Nat, NEW A, NEW B, A \subseteq 1 .. n, A \subseteq B, B \subseteq A \cup {n + 1}, A # {}
  PROVE  Min(B) = Min(A) /\ Min(A) \in A
<1>1. Min(A) \in A /\ \A y \in A : Min(A) <= y
  <2>1. A \subseteq Nat
    OBVIOUS
  <2>2. OBR!Min(A) = Min(A)
    BY DEF OBR!Min, Min
  <2> QED
    BY <2>1, <2>2, FirstIsIn
<1>2. Min(B) \in B /\ \A y \in B : Min(B) <= y
  <2>0. n + 1 \in Nat /\ 1 .. n \subseteq Nat
    OBVIOUS
  <2>1. B \subseteq Nat /\ B # {}
    BY <2>0
  <2>2. OBR!Min(B) = Min(B)
    BY DEF OBR!Min, Min
  <2> QED
    BY <2>1, <2>2, FirstIsIn
<1>3. Min(A) \in 1 .. n /\ Min(A) \in B /\ Min(B) \in A \cup {n + 1}
  BY <1>1, <1>2
<1>4. Min(B) <= Min(A)
  BY <1>2, <1>3
<1>5. Min(B) # n + 1
  BY <1>3, <1>4
<1>6. Min(A) <= Min(B)
  BY <1>1, <1>3, <1>5
<1>7. Min(A) \in Int /\ Min(B) \in Int
  <2>1. Min(B) \in 1 .. n /\ Min(A) \in 1 .. n
    BY <1>3, <1>5
  <2> QED
    BY <2>1
<1>8. \A a, b \in Int : a <= b /\ b <= a => a = b
  OBVIOUS
<1>9. Min(B) = Min(A)
  BY <1>4, <1>6, <1>7, <1>8
<1> QED
  BY <1>1, <1>9

\* The sizes of the same candles have the same sum.
SumOfSizes(t, S) ==
  LET SizeAt(j) == Size(t[j])
  IN  MapThenSumSet(SizeAt, S)

LEMMA SizesStay ==
  ASSUME NEW S, NEW t, NEW later, \A j \in S : later[j] = t[j]
  PROVE  SumOfSizes(later, S) = SumOfSizes(t, S)
<1> DEFINE One(s) == CHOOSE x \in s : TRUE
           Sums(f, u) == f = [s \in SUBSET S |-> IF s = {} THEN 0 ELSE Size(u[One(s)]) + f[s \ {One(s)}]]
<1>1. SumOfSizes(t, S) = (CHOOSE f : Sums(f, t))[S] /\ SumOfSizes(later, S) = (CHOOSE f : Sums(f, later))[S]
  BY DEF SumOfSizes, MapThenSumSet, MapThenFoldSet
<1>2. ASSUME NEW f PROVE Sums(f, t) <=> Sums(f, later)
  <2>1. \A s \in SUBSET S : s # {} => One(s) \in S
    OBVIOUS
  <2>2. \A s \in SUBSET S : s # {} => later[One(s)] = t[One(s)]
    BY <2>1
  <2> HIDE DEF One
  <2> QED
    BY <2>2
<1> HIDE DEF Sums
<1>3. (CHOOSE f : Sums(f, t)) = (CHOOSE f : Sums(f, later))
  BY <1>2
<1> QED
  BY <1>1, <1>3

\* The mean range up to a candle is the same one candle later.
LEMMA MeanStays ==
  ASSUME NEW t \in Seq(CandleType), NEW later, Prefix(t, later), NEW i \in 1 .. Len(t), NEW n \in Int
  PROVE  MeanRange(later, i, n) = MeanRange(t, i, n)
<1> DEFINE last == Larger(1, i - n + 1) .. i
<1>0. Len(t) \in Nat
  OBVIOUS
<1>1. \A j \in last : later[j] = t[j]
  BY <1>0 DEF Prefix, Larger
<1>2. SumOfSizes(later, last) = SumOfSizes(t, last)
  BY <1>1, SizesStay
<1> HIDE DEF last
<1>3. \A u : MeanRange(u, i, n) = SumOfSizes(u, last) \div Cardinality(last)
  BY DEF MeanRange, SumOfSizes, last
<1> QED
  BY <1>2, <1>3

\* The strategies measure it with one and the same sum.
LEMMA SameMeans ==
  /\ \A t, i, n : PDR!MeanRange(t, i, n) = MeanRange(t, i, n)
  /\ \A t, i, n : AMD!MeanRange(t, i, n) = MeanRange(t, i, n)
  /\ \A t, i, n : KZS!MeanRange(t, i, n) = MeanRange(t, i, n)
<1>1. \A t, i, n : PDR!MeanRange(t, i, n) = MeanRange(t, i, n)
  BY DEF MeanRange, PDR!MeanRange, MapThenSumSet, MapThenFoldSet, PDR!MapThenSumSet, PDR!MapThenFoldSet,
    Size, PDR!Size, Larger, PDR!Larger, Cardinality, PDR!Cardinality
<1>2. \A t, i, n : AMD!MeanRange(t, i, n) = MeanRange(t, i, n)
  BY DEF MeanRange, AMD!MeanRange, MapThenSumSet, MapThenFoldSet, AMD!MapThenSumSet, AMD!MapThenFoldSet,
    Size, AMD!Size, Larger, AMD!Larger, Cardinality, AMD!Cardinality
<1>3. \A t, i, n : KZS!MeanRange(t, i, n) = MeanRange(t, i, n)
  BY DEF MeanRange, KZS!MeanRange, MapThenSumSet, MapThenFoldSet, KZS!MapThenSumSet, KZS!MapThenFoldSet,
    Size, KZS!Size, Larger, KZS!Larger, Cardinality, KZS!Cardinality
<1> QED
  BY <1>1, <1>2, <1>3

\* The mean range is a whole number, too.
LEMMA MeanIsWhole ==
  ASSUME NEW t \in Seq(CandleType), NEW i \in 1 .. Len(t), NEW m \in Nat \ {0}
  PROVE  MeanRange(t, i, m) \in Int
<1> PICK n \in Nat : n = Len(t)
  BY CandlesAre
<1> DEFINE S == Larger(1, i - m + 1) .. i
           v == [j \in S |-> Size(t[j])]
           iter == CHOOSE f : SumOf(f, S, v)
<1>1. PICK a \in 1 .. i : a = Larger(1, i - m + 1)
  <2> HIDE DEF S, v, iter
  <2>1. Larger(1, i - m + 1) \in 1 .. i
    BY DEF Larger
  <2> QED
    BY <2>1
<1>2. S \subseteq 1 .. n /\ IsFiniteSet(S) /\ Cardinality(S) \in Nat \ {0}
  <2>1. S = a .. i /\ a \in Int /\ i \in 1 .. n /\ a >= 1 /\ ~(a > i)
    BY <1>1
  <2> HIDE DEF S
  <2>2. IsFiniteSet(a .. i) /\ Cardinality(a .. i) = i - a + 1
    BY <2>1, FS_Interval
  <2>3. i - a + 1 \in Nat \ {0}
    BY <2>1
  <2> QED
    BY <2>1, <2>2, <2>3
<1>3. MeanRange(t, i, m) = iter[S] \div Cardinality(S)
  <2> DEFINE One(s) == CHOOSE x \in s : TRUE
             Sums(f) == f = [s \in SUBSET S |-> IF s = {} THEN 0 ELSE Size(t[One(s)]) + f[s \ {One(s)}]]
  <2>1. MeanRange(t, i, m) = (CHOOSE f : Sums(f))[S] \div Cardinality(S)
    BY DEF MeanRange, MapThenSumSet, MapThenFoldSet
  <2>2. ASSUME NEW f PROVE Sums(f) <=> SumOf(f, S, v)
    <3>1. \A s \in SUBSET S : s # {} => Size(t[One(s)]) = v[One(s)]
      <4>1. \A s \in SUBSET S : s # {} => One(s) \in S
        OBVIOUS
      <4> HIDE DEF S, One
      <4> QED
        BY <4>1
    <3> HIDE DEF v, S
    <3> QED
      BY <3>1 DEF SumOf
  <2> HIDE DEF Sums
  <2> QED
    BY <2>1, <2>2
<1>4. iter[S] \in Int
  <2>1. \A j \in 1 .. n : Size(t[j]) \in Int
    BY CandlesAre DEF CandleFields, Size
  <2>2. \A j \in S : v[j] \in Int
    BY <1>2, <2>1
  <2> HIDE DEF S, v
  <2> QED
    BY <1>2, <2>2, SumIsWhole
<1> HIDE DEF S, iter
<1> QED
  BY <1>2, <1>3, <1>4

\* The candles of a window that has not run out grow by the new one at most.
LEMMA FoundWindow ==
  ASSUME NEW n \in Nat, NEW a \in Nat \ {0}, NEW w \in Int
  PROVE  /\ a .. Smaller(n, w) \subseteq 1 .. n
         /\ a .. Smaller(n, w) \subseteq a .. Smaller(n + 1, w)
         /\ a .. Smaller(n + 1, w) \subseteq (a .. Smaller(n, w)) \cup {n + 1}
<1>1. CASE n + 1 <= w
  BY <1>1 DEF Smaller
<1>2. CASE w <= n
  BY <1>2 DEF Smaller
<1> QED
  BY <1>1, <1>2

\* What is found first among some candles is found first when one more has closed.
LEMMA SameFirst ==
  ASSUME NEW n \in Nat, NEW A, NEW B, A \subseteq 1 .. n, A \subseteq B, B \subseteq A \cup {n + 1},
         NEW i \in A, \A y \in A : i <= y, NEW j \in B, \A y \in B : j <= y
  PROVE  j = i
<1>1. i \in 1 .. n /\ i \in B
  OBVIOUS
<1>2. j <= i
  BY <1>1
<1>3. j # n + 1
  BY <1>1, <1>2
<1>4. j \in A /\ j \in 1 .. n
  BY <1>3
<1>5. i <= j
  BY <1>4
<1> QED
  BY <1>1, <1>2, <1>4, <1>5

-------------------------------------------------------------------------------
(* sweep_mss_fvg_entry.py *)

\* What an entry of sweep_mss_fvg.py rests on: its gap, and the first touch of it.
LEMMA SweepPlanIs ==
  ASSUME NEW t, NEW s \in SMF!Signal(t)
  PROVE  /\ s.gap \in 3 .. Len(t) /\ SMF!Touches(t, s.dir, s.gap) # {}
         /\ s.at = SMF!Min(SMF!Touches(t, s.dir, s.gap))
         /\ s.entry2 = SMF!GapLo(t, s.dir, s.gap) + SMF!GapHi(t, s.dir, s.gap)
<1>1. PICK e : s = SMF!Outcome(t, e) /\ s # [status |-> "waiting"] /\ s.status # "rejected"
  BY DEF SMF!Signal
<1> DEFINE d == e.dir
           shift == CHOOSE m \in SMF!Shift(t, e) : TRUE
           disp == SMF!Min(SMF!Displacements(t, d, shift.at))
           gap == CHOOSE i \in SMF!Selected(t, d, shift.at, disp) : TRUE
           at == CHOOSE i \in SMF!Retest(t, d, gap) : TRUE
           entry2 == SMF!GapLo(t, d, gap) + SMF!GapHi(t, d, gap)
           stop == SMF!StopOf(t, e)
           plan == [status |-> "valid", dir |-> d, sweep |-> e, shift |-> shift, disp |-> disp, gap |-> gap, at |-> at,
                    entry2 |-> entry2, stop |-> stop, target |-> SMF!Min(SMF!Targets(d, entry2, stop))]
<1>2. s # [status |-> "rejected"]
  BY <1>1
<1>3. SMF!Selected(t, d, shift.at, disp) # {} /\ SMF!Retest(t, d, gap) # {} /\ s = plan
  BY <1>1, <1>2 DEF SMF!Outcome, SMF!Rejected
<1>4. s.dir = d /\ s.gap = gap /\ s.at = at /\ s.entry2 = entry2
  BY <1>3
<1>5. gap \in SMF!Selected(t, d, shift.at, disp)
  BY <1>3
<1> HIDE DEF disp, gap, shift
<1>6. gap \in 3 .. Len(t)
  BY <1>5 DEF SMF!Selected, SMF!Gaps
<1>7. SMF!Touches(t, d, gap) # {} /\ at = SMF!Min(SMF!Touches(t, d, gap))
  BY <1>3 DEF SMF!Retest
<1> QED
  BY <1>4, <1>6, <1>7

\* The first touch of a gap stays, and the entry with it.
LEMMA SweepEntryStays ==
  ASSUME NEW t \in Seq(CandleType), NEW later, Prefix(t, later)
  PROVE  SMF!EntryStays(t, later)
<1> SUFFICES ASSUME NEW s \in SMF!Signal(t), NEW x \in SMF!Signal(later), x.dir = s.dir, x.gap = s.gap
             PROVE  x.at = s.at /\ x.entry2 = s.entry2
  BY DEF SMF!EntryStays
<1> PICK n \in Nat : n = Len(t)
  BY CandlesAre
<1> PICK d : d = s.dir
  OBVIOUS
<1> PICK gap : gap = s.gap
  OBVIOUS
<1>1. Len(later) = n + 1 /\ (\A j \in 1 .. n : later[j] = t[j]) /\ Plans.sweep.retestExpiry \in Int
  <2>1. Plans.sweep.retestExpiry \in Nat
    BY WaitsAre
  <2> QED
    BY <2>1 DEF Prefix
<1> DEFINE A == SMF!Touches(t, d, gap)
           B == SMF!Touches(later, d, gap)
<1>2. /\ gap \in 3 .. n /\ A # {} /\ s.at = SMF!Min(A) /\ s.entry2 = SMF!GapLo(t, d, gap) + SMF!GapHi(t, d, gap)
      /\ x.at = SMF!Min(B) /\ x.entry2 = SMF!GapLo(later, d, gap) + SMF!GapHi(later, d, gap)
  BY SweepPlanIs
<1>3. later[gap] = t[gap] /\ later[gap - 2] = t[gap - 2]
  BY <1>1, <1>2
<1>4. SMF!GapLo(later, d, gap) = SMF!GapLo(t, d, gap) /\ SMF!GapHi(later, d, gap) = SMF!GapHi(t, d, gap)
  BY <1>3 DEF SMF!GapLo, SMF!GapHi
<1>5. A \subseteq 1 .. n /\ A \subseteq B /\ B \subseteq A \cup {n + 1}
  <2> DEFINE R(m) == gap + 1 .. SMF!Smaller(m, gap + Plans.sweep.retestExpiry)
             Does(u, i) == SMF!Lo(d, u[i]) <= SMF!GapHi(t, d, gap) /\ SMF!Hi(d, u[i]) >= SMF!GapLo(t, d, gap)
  <2>1. R(n) \subseteq 1 .. n /\ R(n) \subseteq R(n + 1) /\ R(n + 1) \subseteq R(n) \cup {n + 1}
    BY <1>1, <1>2 DEF SMF!Smaller
  <2>2. A = {i \in R(n) : Does(t, i)} /\ B = {i \in R(n + 1) : Does(later, i)}
    BY <1>1, <1>4 DEF SMF!Touches
  <2>3. \A i \in 1 .. n : Does(later, i) <=> Does(t, i)
    BY <1>1
  <2> HIDE DEF R, Does, A, B
  <2> QED
    BY <2>1, <2>2, <2>3
<1> HIDE DEF A, B
<1>6. Min(B) = Min(A)
  BY <1>2, <1>5, LeastStays
<1> QED
  BY <1>2, <1>4, <1>6 DEF SMF!Min, Min

-------------------------------------------------------------------------------
(* silver_bullet.py, as the strategy has it *)

\* What an entry of the Silver Bullet strategy rests on: its gap, and the first touch of it.
LEMMA WindowPlanIs ==
  ASSUME NEW t \in Seq(CandleType), NEW s \in SVB!Signal(t)
  PROVE  /\ s.gap \in 3 .. Len(t) /\ SVB!Retest(t, s.dir, s.gap) # {}
         /\ s.at = SVB!The(SVB!Retest(t, s.dir, s.gap))
         /\ s.entry2 = SVB!GapLo(t, s.dir, s.gap) + SVB!GapHi(t, s.dir, s.gap)
<1> PICK n \in Nat : n = Len(t)
  BY CandlesAre
<1>0. DOMAIN t = 1 .. n
  OBVIOUS
<1> DEFINE sweep == SVB!The(SVB!Sweep(t))
           gap == SVB!The(SVB!Gap(t, sweep))
<1>1. /\ SVB!Sweep(t) # {} /\ SVB!Gap(t, sweep) # {} /\ SVB!Retest(t, sweep.dir, gap) # {}
      /\ s.dir = sweep.dir /\ s.gap = gap /\ s.at = SVB!The(SVB!Retest(t, sweep.dir, gap))
      /\ s.entry2 = SVB!GapLo(t, sweep.dir, gap) + SVB!GapHi(t, sweep.dir, gap)
  BY DEF SVB!Signal
<1>2. sweep \in SVB!Sweep(t) /\ gap \in SVB!Gap(t, sweep)
  <2>1. \A S : S # {} => SVB!The(S) \in S
    BY DEF SVB!The
  <2> QED
    BY <1>1, <2>1
<1> HIDE DEF sweep, gap
<1>3. sweep.at \in 1 .. n
  BY <1>0, <1>2 DEF SVB!Sweep, SVB!Sweeps
<1>4. gap \in sweep.at + 1 .. SVB!Smaller(n, sweep.at + Plans.window.fvgWait) /\ gap > 2
  BY <1>2 DEF SVB!Gap, SVB!Earliest, SVB!LeavesGap
<1>5. gap \in 3 .. n
  <2>1. Plans.window.fvgWait \in Nat
    BY WaitsAre
  <2> QED
    BY <1>3, <1>4, <2>1 DEF SVB!Smaller
<1> QED
  BY <1>1, <1>5

\* The first touch stays, and the entry with it.
LEMMA WindowEntryStays ==
  ASSUME NEW t \in Seq(CandleType), NEW later \in Seq(CandleType), Prefix(t, later)
  PROVE  SVB!EntryStays(t, later)
<1> SUFFICES ASSUME NEW s \in SVB!Signal(t), NEW x \in SVB!Signal(later), x.sweep = s.sweep, x.gap = s.gap
             PROVE  x.at = s.at /\ x.entry2 = s.entry2
  BY DEF SVB!EntryStays
<1> PICK n \in Nat : n = Len(t)
  BY CandlesAre
<1> PICK d : d = s.dir
  OBVIOUS
<1> PICK gap : gap = s.gap
  OBVIOUS
<1>0. x.dir = d
  <2>1. s.dir = s.sweep.dir /\ x.dir = x.sweep.dir
    BY DEF SVB!Signal
  <2> QED
    BY <2>1
<1>1. Len(later) = n + 1 /\ (\A j \in 1 .. n : later[j] = t[j]) /\ Plans.window.retestExpiry \in Int
  <2>1. Plans.window.retestExpiry \in Nat
    BY WaitsAre
  <2> QED
    BY <2>1 DEF Prefix
<1>2. /\ gap \in 3 .. n /\ SVB!Retest(t, d, gap) # {} /\ s.at = SVB!The(SVB!Retest(t, d, gap))
      /\ s.entry2 = SVB!GapLo(t, d, gap) + SVB!GapHi(t, d, gap)
      /\ x.at = SVB!The(SVB!Retest(later, d, gap))
      /\ x.entry2 = SVB!GapLo(later, d, gap) + SVB!GapHi(later, d, gap)
  BY <1>0, WindowPlanIs
<1>3. later[gap] = t[gap] /\ later[gap - 2] = t[gap - 2]
  BY <1>1, <1>2
<1>4. SVB!GapLo(later, d, gap) = SVB!GapLo(t, d, gap) /\ SVB!GapHi(later, d, gap) = SVB!GapHi(t, d, gap)
  BY <1>3 DEF SVB!GapLo, SVB!GapHi
<1> DEFINE R(m) == gap + 1 .. SVB!Smaller(m, gap + Plans.window.retestExpiry)
           Does(u, i) == SVB!Lo(d, u[i]) <= SVB!GapHi(t, d, gap) /\ SVB!Hi(d, u[i]) >= SVB!GapLo(t, d, gap)
           A == {i \in R(n) : Does(t, i)}
           B == {i \in R(n + 1) : Does(later, i)}
<1>5. A \subseteq 1 .. n /\ A \subseteq B /\ B \subseteq A \cup {n + 1}
  <2>1. R(n) \subseteq 1 .. n /\ R(n) \subseteq R(n + 1) /\ R(n + 1) \subseteq R(n) \cup {n + 1}
    BY <1>1, <1>2 DEF SVB!Smaller
  <2>2. \A i \in 1 .. n : Does(later, i) <=> Does(t, i)
    BY <1>1
  <2> HIDE DEF R, Does
  <2> QED
    BY <2>1, <2>2
<1>6. /\ SVB!Retest(t, d, gap) = {i \in A : \A j \in A : i <= j}
      /\ SVB!Retest(later, d, gap) = {i \in B : \A j \in B : i <= j}
  BY <1>1, <1>4 DEF SVB!Retest, SVB!Earliest
<1> HIDE DEF A, B
<1>7. A # {}
  BY <1>2, <1>6
<1>8. SVB!Retest(later, d, gap) = SVB!Retest(t, d, gap)
  BY <1>5, <1>6, <1>7, FoundStays
<1> QED
  BY <1>2, <1>4, <1>8

-------------------------------------------------------------------------------
(* judas_swing.py, as the strategy has it *)

\* What an entry of the Judas swing strategy rests on: its gap, and the first touch of it.
LEMMA SessionPlanIs ==
  ASSUME NEW t \in Seq(CandleType), NEW s \in JDS!Signal(t)
  PROVE  /\ s.dir = s.sweep.dir
         /\ s.gap \in 3 .. Len(t) /\ JDS!Retest(t, s.dir, s.gap) # {}
         /\ s.at = JDS!The(JDS!Retest(t, s.dir, s.gap))
         /\ s.entry2 = JDS!GapLo(t, s.dir, s.gap) + JDS!GapHi(t, s.dir, s.gap)
<1> PICK n \in Nat : n = Len(t)
  BY CandlesAre
<1> DEFINE sweep == JDS!The(JDS!Manipulation(t))
           d == sweep.dir
           reclaim == JDS!The(JDS!Reclaim(t, sweep))
           shift == JDS!The(JDS!Shift(t, d, reclaim))
           disp == JDS!The(JDS!Displacement(t, d, shift.at))
           gap == JDS!The(JDS!Gap(t, d, disp))
<1>1. /\ JDS!Manipulation(t) # {} /\ JDS!Reclaim(t, sweep) # {} /\ JDS!Shift(t, d, reclaim) # {}
      /\ JDS!Displacement(t, d, shift.at) # {} /\ JDS!Gap(t, d, disp) # {} /\ JDS!Retest(t, d, gap) # {}
      /\ s.dir = d /\ s.sweep = sweep /\ s.gap = gap /\ s.at = JDS!The(JDS!Retest(t, d, gap))
      /\ s.entry2 = JDS!GapLo(t, d, gap) + JDS!GapHi(t, d, gap)
  BY DEF JDS!Signal
<1>2. /\ sweep \in JDS!Manipulation(t) /\ reclaim \in JDS!Reclaim(t, sweep) /\ shift \in JDS!Shift(t, d, reclaim)
      /\ disp \in JDS!Displacement(t, d, shift.at) /\ gap \in JDS!Gap(t, d, disp)
  <2>1. \A S : S # {} => JDS!The(S) \in S
    BY DEF JDS!The
  <2> HIDE DEF sweep, reclaim, shift, disp, gap
  <2> QED
    BY <1>1, <2>1 DEF sweep, reclaim, shift, disp, gap
<1> HIDE DEF sweep, reclaim, shift, disp, gap
<1>0. /\ Plans.session.session \in Nat /\ Plans.session.reclaimWait \in Nat /\ Plans.session.mssWait \in Nat
      /\ Plans.session.displacementWait \in Nat /\ Plans.session.retestExpiry \in Nat
  BY WaitsAre
<1>3. sweep.at \in 1 .. n
  BY <1>0, <1>2 DEF JDS!Manipulation, JDS!Earliest
<1>4. reclaim \in 1 .. n
  BY <1>0, <1>2, <1>3 DEF JDS!Reclaim, JDS!Earliest, JDS!Smaller
<1>5. shift.at \in 1 .. n
  <2>1. PICK w : /\ w.at \in reclaim .. reclaim + Plans.session.mssWait /\ JDS!Breaking(t, d, reclaim, w) # {}
                 /\ shift = [at |-> JDS!Min(JDS!Breaking(t, d, reclaim, w)), level |-> w.price]
    BY <1>2 DEF JDS!Shift
  <2>2. JDS!Breaking(t, d, reclaim, w) \subseteq 1 .. n
    BY <1>0, <1>4, <2>1 DEF JDS!Breaking, JDS!Smaller
  <2>3. Min(JDS!Breaking(t, d, reclaim, w)) \in JDS!Breaking(t, d, reclaim, w)
    <3>1. JDS!Breaking(t, d, reclaim, w) \subseteq JDS!Breaking(t, d, reclaim, w) \cup {n + 1}
      OBVIOUS
    <3> QED
      BY <2>1, <2>2, <3>1, LeastStays
  <2> QED
    BY <2>1, <2>2, <2>3 DEF JDS!Min, Min
<1>6. disp \in 1 .. n
  BY <1>0, <1>2, <1>5 DEF JDS!Displacement, JDS!Earliest, JDS!Smaller
<1>7. gap \in 3 .. n
  BY <1>0, <1>2, <1>6 DEF JDS!Gap, JDS!Earliest, JDS!Smaller, JDS!Larger, JDS!MaxAfter
<1> QED
  BY <1>1, <1>7

\* The first touch stays, and the entry with it.
LEMMA SessionEntryStays ==
  ASSUME NEW t \in Seq(CandleType), NEW later \in Seq(CandleType), Prefix(t, later)
  PROVE  JDS!EntryStays(t, later)
<1> SUFFICES ASSUME NEW s \in JDS!Signal(t), NEW x \in JDS!Signal(later), x.sweep = s.sweep, x.gap = s.gap
             PROVE  x.at = s.at /\ x.entry2 = s.entry2
  BY DEF JDS!EntryStays
<1> PICK n \in Nat : n = Len(t)
  BY CandlesAre
<1> PICK d : d = s.dir
  OBVIOUS
<1> PICK gap : gap = s.gap
  OBVIOUS
<1>1. Len(later) = n + 1 /\ (\A j \in 1 .. n : later[j] = t[j]) /\ Plans.session.retestExpiry \in Int
  <2>1. Plans.session.retestExpiry \in Nat
    BY WaitsAre
  <2> QED
    BY <2>1 DEF Prefix
<1>2. /\ gap \in 3 .. n /\ JDS!Retest(t, d, gap) # {} /\ s.at = JDS!The(JDS!Retest(t, d, gap))
      /\ s.entry2 = JDS!GapLo(t, d, gap) + JDS!GapHi(t, d, gap)
      /\ x.at = JDS!The(JDS!Retest(later, d, gap))
      /\ x.entry2 = JDS!GapLo(later, d, gap) + JDS!GapHi(later, d, gap)
  BY SessionPlanIs
<1>3. later[gap] = t[gap] /\ later[gap - 2] = t[gap - 2]
  BY <1>1, <1>2
<1>4. JDS!GapLo(later, d, gap) = JDS!GapLo(t, d, gap) /\ JDS!GapHi(later, d, gap) = JDS!GapHi(t, d, gap)
  BY <1>3 DEF JDS!GapLo, JDS!GapHi
<1> DEFINE R(m) == gap + 1 .. JDS!Smaller(m, gap + Plans.session.retestExpiry)
           Does(u, i) == JDS!Lo(d, u[i]) <= JDS!GapHi(t, d, gap) /\ JDS!Hi(d, u[i]) >= JDS!GapLo(t, d, gap)
           A == {i \in R(n) : Does(t, i)}
           B == {i \in R(n + 1) : Does(later, i)}
<1>5. A \subseteq 1 .. n /\ A \subseteq B /\ B \subseteq A \cup {n + 1}
  <2>1. R(n) \subseteq 1 .. n /\ R(n) \subseteq R(n + 1) /\ R(n + 1) \subseteq R(n) \cup {n + 1}
    BY <1>1, <1>2 DEF JDS!Smaller
  <2>2. \A i \in 1 .. n : Does(later, i) <=> Does(t, i)
    BY <1>1
  <2> HIDE DEF R, Does
  <2> QED
    BY <2>1, <2>2
<1>6. /\ JDS!Retest(t, d, gap) = {i \in A : \A j \in A : i <= j}
      /\ JDS!Retest(later, d, gap) = {i \in B : \A j \in B : i <= j}
  BY <1>1, <1>4 DEF JDS!Retest, JDS!Earliest
<1> HIDE DEF A, B
<1>7. A # {}
  BY <1>2, <1>6
<1>8. JDS!Retest(later, d, gap) = JDS!Retest(t, d, gap)
  BY <1>5, <1>6, <1>7, FoundStays
<1> QED
  BY <1>2, <1>4, <1>8

-------------------------------------------------------------------------------
(* news_liquidity_sweep.py *)

\* The confirmation of a news sweep is the first of the candles that could give it.
LEMMA ConfirmationStays ==
  ASSUME NEW t \in Seq(CandleType), NEW later \in Seq(CandleType), Prefix(t, later), NEW d, NEW pool,
         NLS!Confirmation(t, d, pool) # {}
  PROVE  /\ NLS!Confirmation(later, d, pool) = NLS!Confirmation(t, d, pool)
         /\ NLS!The(NLS!Confirmation(t, d, pool)) \in 1 .. Len(t)
<1> PICK n \in Nat : n = Len(t)
  BY CandlesAre
<1>1. /\ Len(later) = n + 1 /\ (\A j \in 1 .. n : later[j] = t[j]) /\ NLS!FirstStable \in Nat \ {0}
  <2>1. Plans.news.news \in Nat \ {0} /\ Plans.news.mssWait \in Nat
    BY WaitsAre
  <2> QED
    BY <2>1 DEF Prefix, NLS!FirstStable, NLS!MinCandles
<1> DEFINE Does(u, i) == NLS!Cl(d, u[i]) > NLS!PoolLo(d, pool)
           A == {i \in NLS!FirstStable .. n : Does(t, i)}
           B == {i \in NLS!FirstStable .. n + 1 : Does(later, i)}
<1>2. A \subseteq 1 .. n /\ A \subseteq B /\ B \subseteq A \cup {n + 1}
  BY <1>1
<1>3. /\ NLS!Confirmation(t, d, pool) = {i \in A : \A j \in A : i <= j}
      /\ NLS!Confirmation(later, d, pool) = {i \in B : \A j \in B : i <= j}
  BY <1>1 DEF NLS!Confirmation, NLS!Earliest
<1> HIDE DEF A, B
<1>4. A # {}
  BY <1>3
<1>5. NLS!Confirmation(later, d, pool) = NLS!Confirmation(t, d, pool)
  BY <1>2, <1>3, <1>4, FoundStays
<1>6. NLS!The(NLS!Confirmation(t, d, pool)) \in NLS!Confirmation(t, d, pool)
  BY DEF NLS!The
<1>7. NLS!The(NLS!Confirmation(t, d, pool)) \in 1 .. n
  BY <1>2, <1>3, <1>6
<1> QED
  BY <1>5, <1>7

\* A news entry rests on the confirmation of its sweep and the shift after it.
LEMMA NewsPlanIs ==
  ASSUME NEW t, NEW s \in NLS!Signal(t)
  PROVE  /\ NLS!Confirmation(t, s.sweep.dir, Plans.news.pools[s.sweep.pool]) # {}
         /\ s.confirmed = NLS!ConfirmedAt(t, s.sweep)
         /\ NLS!Shift(t, s.sweep) # {} /\ s.at = NLS!The(NLS!Shift(t, s.sweep))
         /\ s.entry2 = s.sweep.dir * NLS!Entry2(t, s.at)
<1> DEFINE sweep == NLS!The(NLS!Sweep(t))
<1>1. /\ NLS!Sweep(t) # {} /\ s.sweep = sweep /\ s.confirmed = NLS!ConfirmedAt(t, sweep)
      /\ NLS!Shift(t, sweep) # {} /\ s.at = NLS!The(NLS!Shift(t, sweep))
      /\ s.entry2 = sweep.dir * NLS!Entry2(t, s.at)
  BY DEF NLS!Signal
<1>2. sweep \in NLS!Sweep(t)
  BY <1>1 DEF NLS!The
<1> HIDE DEF sweep
<1>3. sweep \in NLS!Swept(t)
  BY <1>2 DEF NLS!Sweep
<1> QED
  BY <1>1, <1>3 DEF NLS!Swept

\* Both stay, so the entry of one sweep does too.
LEMMA NewsEntryStays ==
  ASSUME NEW t \in Seq(CandleType), NEW later \in Seq(CandleType), Prefix(t, later)
  PROVE  NLS!EntryStays(t, later)
<1> SUFFICES ASSUME NEW s \in NLS!Signal(t), NEW x \in NLS!Signal(later), x.sweep = s.sweep
             PROVE  x.confirmed = s.confirmed /\ x.at = s.at /\ x.entry2 = s.entry2
  BY DEF NLS!EntryStays
<1> PICK n \in Nat : n = Len(t)
  BY CandlesAre
<1> PICK e : e = s.sweep
  OBVIOUS
<1> PICK d : d = e.dir
  OBVIOUS
<1> PICK from : from = NLS!ConfirmedAt(t, e)
  OBVIOUS
<1>1. Len(later) = n + 1 /\ (\A j \in 1 .. n : later[j] = t[j]) /\ Plans.news.mssWait \in Nat
  BY WaitsAre DEF Prefix
<1>2. /\ NLS!Confirmation(t, d, Plans.news.pools[e.pool]) # {}
      /\ s.confirmed = from /\ NLS!Shift(t, e) # {} /\ s.at = NLS!The(NLS!Shift(t, e))
      /\ s.entry2 = d * NLS!Entry2(t, s.at) /\ x.confirmed = NLS!ConfirmedAt(later, e)
      /\ x.at = NLS!The(NLS!Shift(later, e)) /\ x.entry2 = d * NLS!Entry2(later, x.at)
  BY NewsPlanIs
<1>3. NLS!ConfirmedAt(later, e) = from /\ from \in 1 .. n
  BY <1>2, ConfirmationStays DEF NLS!ConfirmedAt
<1>4. NLS!Level(later, e) = NLS!Level(t, e)
  <2> DEFINE I == NLS!Larger(1, from - 5) .. from
  <2>1. \A i \in I : later[i] = t[i]
    BY <1>1, <1>3 DEF NLS!Larger
  <2>2. {NLS!Hi(d, later[i]) : i \in I} = {NLS!Hi(d, t[i]) : i \in I}
    BY <2>1
  <2>3. ASSUME NEW u, NLS!ConfirmedAt(u, e) = from PROVE NLS!Level(u, e) = NLS!Max({NLS!Hi(d, u[i]) : i \in I})
    BY <2>3 DEF NLS!Level
  <2> HIDE DEF I
  <2> QED
    BY <1>3, <2>2, <2>3
<1> DEFINE R(m) == from .. NLS!Smaller(m, from + Plans.news.mssWait)
           Does(u, i) == NLS!Cl(d, u[i]) > NLS!Level(t, e)
           A == {i \in R(n) : Does(t, i)}
           B == {i \in R(n + 1) : Does(later, i)}
<1>5. A \subseteq 1 .. n /\ A \subseteq B /\ B \subseteq A \cup {n + 1}
  <2>1. R(n) \subseteq 1 .. n /\ R(n) \subseteq R(n + 1) /\ R(n + 1) \subseteq R(n) \cup {n + 1}
    BY <1>1, <1>3 DEF NLS!Smaller
  <2>2. \A i \in 1 .. n : Does(later, i) <=> Does(t, i)
    BY <1>1
  <2> HIDE DEF R, Does
  <2> QED
    BY <2>1, <2>2
<1>6. /\ NLS!Shift(t, e) = {i \in A : \A j \in A : i <= j}
      /\ NLS!Shift(later, e) = {i \in B : \A j \in B : i <= j}
  BY <1>1, <1>3, <1>4 DEF NLS!Shift, NLS!Earliest
<1> HIDE DEF A, B
<1>7. A # {}
  BY <1>2, <1>6
<1>8. NLS!Shift(later, e) = NLS!Shift(t, e)
  BY <1>5, <1>6, <1>7, FoundStays
<1>9. s.at \in 1 .. n
  <2>1. s.at \in NLS!Shift(t, e)
    BY <1>2 DEF NLS!The
  <2> QED
    BY <1>5, <1>6, <2>1
<1>10. NLS!Entry2(later, s.at) = NLS!Entry2(t, s.at)
  BY <1>1, <1>9 DEF NLS!Entry2
<1> QED
  BY <1>2, <1>3, <1>8, <1>10

-------------------------------------------------------------------------------
(* killzone_scalping.py *)

\* A scalp rests on the shift after its sweep, on a zone and on the first return to it.
LEMMA KillzonePlanIs ==
  ASSUME NEW t \in Seq(CandleType), NEW s \in KZS!Signal(t)
  PROVE  /\ s.dir = s.sweep.dir /\ s.sweep.at \in 1 .. Len(t)
         /\ KZS!Shift(t, s.dir, s.sweep.at) # {} /\ s.shift = KZS!The(KZS!Shift(t, s.dir, s.sweep.at))
         /\ s.stop = KZS!Lo(s.dir, t[s.sweep.at]) - Plans.killzone.stopBuffer
         /\ s.zone \in KZS!Zone(t, s.dir, s.shift)
         /\ KZS!Retest(t, s.dir, s.zone) # {} /\ s.at = KZS!The(KZS!Retest(t, s.dir, s.zone))
         /\ s.mid2 = s.zone.lo + s.zone.hi
<1> DEFINE sweep == KZS!The(KZS!Sweep(t))
           d == sweep.dir
           shift == KZS!The(KZS!Shift(t, d, sweep.at))
           zone == KZS!The(KZS!Zone(t, d, shift))
<1>1. /\ KZS!Sweep(t) # {} /\ KZS!Shift(t, d, sweep.at) # {} /\ KZS!Zone(t, d, shift) # {}
      /\ KZS!Retest(t, d, zone) # {}
      /\ s.dir = d /\ s.sweep = sweep /\ s.shift = shift /\ s.zone = zone /\ s.at = KZS!The(KZS!Retest(t, d, zone))
      /\ s.mid2 = zone.lo + zone.hi /\ s.stop = KZS!Lo(d, t[sweep.at]) - Plans.killzone.stopBuffer
  BY DEF KZS!Signal
<1>2. sweep \in KZS!Sweep(t) /\ zone \in KZS!Zone(t, d, shift)
  <2>1. \A S : S # {} => KZS!The(S) \in S
    BY DEF KZS!The
  <2> HIDE DEF sweep, shift, zone
  <2> QED
    BY <1>1, <2>1 DEF sweep, zone
<1> HIDE DEF sweep, shift, zone
<1>3. sweep.at \in DOMAIN t
  BY <1>2 DEF KZS!Sweep, KZS!Sweeps
<1>4. sweep.at \in 1 .. Len(t)
  BY <1>3
<1>5. d = sweep.dir
  OBVIOUS
<1> HIDE DEF d
<1>6. s.dir = d /\ s.sweep.at = sweep.at /\ s.sweep.dir = d /\ s.shift = shift /\ s.zone = zone
  BY <1>1, <1>5
<1>7. /\ s.dir = s.sweep.dir /\ s.sweep.at \in 1 .. Len(t)
      /\ KZS!Shift(t, s.dir, s.sweep.at) # {} /\ s.shift = KZS!The(KZS!Shift(t, s.dir, s.sweep.at))
  BY <1>1, <1>4, <1>6 DEF shift
<1>8. s.zone \in KZS!Zone(t, s.dir, s.shift)
  BY <1>2, <1>6
<1> QED
  BY <1>1, <1>6, <1>7, <1>8

\* The shift is the first of its window.
LEMMA KillzoneShiftStays ==
  ASSUME NEW t \in Seq(CandleType), NEW later \in Seq(CandleType), Prefix(t, later), NEW d, NEW sweep \in 1 .. Len(t),
         KZS!Shift(t, d, sweep) # {}
  PROVE  /\ KZS!Shift(later, d, sweep) = KZS!Shift(t, d, sweep)
         /\ KZS!Shift(t, d, sweep) \subseteq 1 .. Len(t)
<1> PICK n \in Nat : n = Len(t)
  BY CandlesAre
<1>1. Len(later) = n + 1 /\ (\A j \in 1 .. n : later[j] = t[j]) /\ Plans.killzone.mssWait \in Nat /\ sweep \in 1 .. n
  BY WaitsAre DEF Prefix
<1>2. KZS!MeanRange(later, sweep, KZS!AtrPeriod) = KZS!MeanRange(t, sweep, KZS!AtrPeriod)
  <2>1. KZS!AtrPeriod \in Int
    BY DEF KZS!AtrPeriod
  <2> QED
    BY <2>1, MeanStays, SameMeans
<1>3. KZS!Level(later, d, sweep) = KZS!Level(t, d, sweep)
  <2> DEFINE I == KZS!Larger(1, sweep - KZS!Lookback) .. sweep - 1
  <2>1. \A i \in I : later[i] = t[i]
    BY <1>1 DEF KZS!Larger, KZS!Lookback
  <2>2. {KZS!Hi(d, later[i]) : i \in I} = {KZS!Hi(d, t[i]) : i \in I}
    BY <2>1
  <2> QED
    BY <2>2 DEF KZS!Level
<1> DEFINE R(m) == sweep + 1 .. KZS!Smaller(m, sweep + Plans.killzone.mssWait)
           Does(u, i) == /\ sweep > 1 /\ KZS!Cl(d, u[i]) > KZS!Level(t, d, sweep)
                         /\ KZS!BodyAtLeast(u[i], 55)
                         /\ 10 * KZS!Size(u[i]) >= 8 * KZS!MeanRange(t, sweep, KZS!AtrPeriod)
           A == {i \in R(n) : Does(t, i)}
           B == {i \in R(n + 1) : Does(later, i)}
<1>4. A \subseteq 1 .. n /\ A \subseteq B /\ B \subseteq A \cup {n + 1}
  <2>1. R(n) \subseteq 1 .. n /\ R(n) \subseteq R(n + 1) /\ R(n + 1) \subseteq R(n) \cup {n + 1}
    BY <1>1 DEF KZS!Smaller
  <2>2. \A i \in 1 .. n : Does(later, i) <=> Does(t, i)
    BY <1>1
  <2> HIDE DEF R, Does
  <2> QED
    BY <2>1, <2>2
<1>5. /\ KZS!Shift(t, d, sweep) = {i \in A : \A j \in A : i <= j}
      /\ KZS!Shift(later, d, sweep) = {i \in B : \A j \in B : i <= j}
  BY <1>1, <1>2, <1>3 DEF KZS!Shift, KZS!Earliest
<1> HIDE DEF A, B
<1>6. A # {}
  BY <1>5
<1>7. KZS!Shift(later, d, sweep) = KZS!Shift(t, d, sweep)
  BY <1>4, <1>5, <1>6, FoundStays
<1> QED
  BY <1>4, <1>5, <1>7

\* So is the return to the zone.
LEMMA KillzoneRetestStays ==
  ASSUME NEW t \in Seq(CandleType), NEW later \in Seq(CandleType), Prefix(t, later), NEW d, NEW z, z.at \in 1 .. Len(t),
         KZS!Retest(t, d, z) # {}
  PROVE  KZS!Retest(later, d, z) = KZS!Retest(t, d, z)
<1> PICK n \in Nat : n = Len(t)
  BY CandlesAre
<1>1. Len(later) = n + 1 /\ (\A j \in 1 .. n : later[j] = t[j]) /\ Plans.killzone.retestWait \in Nat /\ z.at \in 1 .. n
  BY WaitsAre DEF Prefix
<1> DEFINE R(m) == z.at + 1 .. KZS!Smaller(m, z.at + Plans.killzone.retestWait)
           Does(u, i) == KZS!Lo(d, u[i]) <= z.hi /\ KZS!Hi(d, u[i]) >= z.lo
           A == {i \in R(n) : Does(t, i)}
           B == {i \in R(n + 1) : Does(later, i)}
<1>4. A \subseteq 1 .. n /\ A \subseteq B /\ B \subseteq A \cup {n + 1}
  <2>1. R(n) \subseteq 1 .. n /\ R(n) \subseteq R(n + 1) /\ R(n + 1) \subseteq R(n) \cup {n + 1}
    BY <1>1 DEF KZS!Smaller
  <2>2. \A i \in 1 .. n : Does(later, i) <=> Does(t, i)
    BY <1>1
  <2> HIDE DEF R, Does
  <2> QED
    BY <2>1, <2>2
<1>5. /\ KZS!Retest(t, d, z) = {i \in A : \A j \in A : i <= j}
      /\ KZS!Retest(later, d, z) = {i \in B : \A j \in B : i <= j}
  BY <1>1 DEF KZS!Retest, KZS!Earliest
<1> HIDE DEF A, B
<1>6. A # {}
  BY <1>5
<1> QED
  BY <1>4, <1>5, <1>6, FoundStays

\* The plan of a sweep keeps its shift, its stop and, for one zone, its entry.
LEMMA KillzonePlanStays ==
  ASSUME NEW t \in Seq(CandleType), NEW later \in Seq(CandleType), Prefix(t, later)
  PROVE  KZS!PlanStays(t, later)
<1> SUFFICES ASSUME NEW s \in KZS!Signal(t), NEW x \in KZS!Signal(later), x.sweep = s.sweep
             PROVE  /\ x.shift = s.shift /\ x.stop = s.stop
                    /\ x.zone = s.zone => x.at = s.at /\ x.mid2 = s.mid2
  BY DEF KZS!PlanStays
<1> PICK n \in Nat : n = Len(t)
  BY CandlesAre
<1> PICK d : d = s.dir
  OBVIOUS
<1> PICK sweep : sweep = s.sweep.at
  OBVIOUS
<1>1. \A j \in 1 .. n : later[j] = t[j]
  BY DEF Prefix
<1>2. /\ x.dir = d /\ sweep \in 1 .. n
      /\ KZS!Shift(t, d, sweep) # {} /\ s.shift = KZS!The(KZS!Shift(t, d, sweep))
      /\ x.shift = KZS!The(KZS!Shift(later, d, sweep))
      /\ s.stop = KZS!Lo(d, t[sweep]) - Plans.killzone.stopBuffer
      /\ x.stop = KZS!Lo(d, later[sweep]) - Plans.killzone.stopBuffer
      /\ s.zone \in KZS!Zone(t, d, s.shift) /\ KZS!Retest(t, d, s.zone) # {}
      /\ s.at = KZS!The(KZS!Retest(t, d, s.zone)) /\ s.mid2 = s.zone.lo + s.zone.hi
      /\ x.at = KZS!The(KZS!Retest(later, d, x.zone)) /\ x.mid2 = x.zone.lo + x.zone.hi
  BY KillzonePlanIs
<1>3. x.shift = s.shift /\ s.shift \in 1 .. n
  <2>1. KZS!Shift(later, d, sweep) = KZS!Shift(t, d, sweep) /\ KZS!Shift(t, d, sweep) \subseteq 1 .. n
    BY <1>2, KillzoneShiftStays
  <2>2. s.shift \in KZS!Shift(t, d, sweep)
    BY <1>2 DEF KZS!The
  <2> QED
    BY <1>2, <2>1, <2>2
<1>4. x.stop = s.stop
  BY <1>1, <1>2
<1>5. s.zone.at \in 1 .. n
  <2>1. Plans.killzone.entryWait \in Nat
    BY WaitsAre
  <2>2. CASE s.zone \in KZS!Gaps(t, d, s.shift)
    <3>1. PICK i \in KZS!Larger(3, s.shift - 1) .. KZS!Smaller(n, s.shift + Plans.killzone.entryWait) :
            s.zone = [kind |-> "fvg", at |-> i, lo |-> KZS!Hi(d, t[i - 2]), hi |-> KZS!Lo(d, t[i])]
      BY <2>2 DEF KZS!Gaps
    <3> QED
      BY <1>3, <2>1, <3>1 DEF KZS!Larger, KZS!Smaller
  <2>3. CASE s.zone \in KZS!Blocks(t, d, s.shift)
    <3>1. PICK i \in KZS!Larger(1, s.shift - 4) .. s.shift :
            s.zone = [kind |-> "block", at |-> i, lo |-> KZS!Lo(d, t[i]), hi |-> KZS!Hi(d, t[i])]
      BY <2>3 DEF KZS!Blocks
    <3> QED
      BY <1>3, <3>1 DEF KZS!Larger
  <2> QED
    BY <1>2, <2>2, <2>3 DEF KZS!Zone
<1>6. ASSUME x.zone = s.zone PROVE x.at = s.at /\ x.mid2 = s.mid2
  BY <1>2, <1>5, <1>6, KillzoneRetestStays
<1> QED
  BY <1>3, <1>4, <1>6

-------------------------------------------------------------------------------
(* fvg_continuation.py *)

\* The mean range up to a candle is the same one candle later.
LEMMA RangeStays ==
  ASSUME NEW t \in Seq(CandleType), NEW later, Prefix(t, later), NEW i \in 1 .. Len(t)
  PROVE  FVC!RangeAt(later, i) = FVC!RangeAt(t, i) /\ BRK!RangeAt(later, i) = BRK!RangeAt(t, i)
<1> DEFINE last == Larger(1, i - 13) .. i
<1>0. Len(t) \in Nat
  OBVIOUS
<1>1. \A j \in last : later[j] = t[j]
  BY <1>0 DEF Prefix, Larger
<1>2. SumOfSizes(later, last) = SumOfSizes(t, last)
  BY <1>1, SizesStay
<1>3. FVC!Larger(1, i - 13) .. i = last /\ BRK!Larger(1, i - 13) .. i = last
  BY DEF FVC!Larger, BRK!Larger, Larger
<1>4. /\ \A u : FVC!RangeAt(u, i) = FVC!Larger(1, SumOfSizes(u, last) \div Cardinality(last))
      /\ \A u : BRK!RangeAt(u, i) = BRK!Larger(1, SumOfSizes(u, last) \div Cardinality(last))
  <2> HIDE DEF last
  <2> QED
    BY <1>3 DEF FVC!RangeAt, BRK!RangeAt, SumOfSizes, MapThenSumSet, MapThenFoldSet,
                FVC!MapThenSumSet, FVC!MapThenFoldSet, BRK!MapThenSumSet, BRK!MapThenFoldSet,
                Size, FVC!Size, BRK!Size, Cardinality, FVC!Cardinality, BRK!Cardinality
<1> HIDE DEF last
<1> QED
  BY <1>2, <1>4

\* A continuation rests on its gap and the first return to it.
LEMMA ContinuationPlanIs ==
  ASSUME NEW t, NEW s \in FVC!Signal(t)
  PROVE  /\ s.plan.gap \in 3 .. Len(t) /\ s.plan.touch \in FVC!Return(t, s.plan.gap)
         /\ s.entry2 = FVC!Entry2(t, s.plan.gap, s.plan.touch)
         /\ s.stop = FVC!StopOf(t, s.plan.gap)
         /\ s.target = FVC!Min(FVC!Targets(s.entry2))
<1> DEFINE all == UNION {FVC!PlansOf(t, b) : b \in FVC!Breaks(t)}
           At(p) == FVC!Min(IF FVC!Reactions(t, p.touch) = {} THEN {p.touch} ELSE FVC!Reactions(t, p.touch))
<1>0. PICK p \in all :
        s = [plan |-> p, entry2 |-> FVC!Entry2(t, p.gap, p.touch), stop |-> FVC!StopOf(t, p.gap),
             target |-> FVC!Min(FVC!Targets(FVC!Entry2(t, p.gap, p.touch))), at |-> At(p),
             reacted |-> FVC!Reactions(t, p.touch) # {}]
  BY DEF FVC!Signal
<1>1. /\ s.plan = p /\ s.entry2 = FVC!Entry2(t, p.gap, p.touch) /\ s.stop = FVC!StopOf(t, p.gap)
        /\ s.target = FVC!Min(FVC!Targets(FVC!Entry2(t, p.gap, p.touch)))
  BY <1>0
<1>2. p.gap \in FVC!Gaps(t) /\ p.touch \in FVC!Return(t, p.gap)
  BY DEF FVC!PlansOf
<1> QED
  BY <1>1, <1>2 DEF FVC!Gaps

\* A gap has one first return, the same one candle later.
LEMMA ReturnStays ==
  ASSUME NEW t \in Seq(CandleType), NEW later \in Seq(CandleType), Prefix(t, later), NEW g \in 3 .. Len(t),
         NEW touch \in FVC!Return(t, g), NEW touched \in FVC!Return(later, g)
  PROVE  touched = touch /\ touch \in 1 .. Len(t)
<1> PICK n \in Nat : n = Len(t)
  BY CandlesAre
<1>1. /\ Len(later) = n + 1 /\ (\A j \in 1 .. n : later[j] = t[j]) /\ Plans.continuation.retracementWait \in Nat
      /\ g \in 3 .. n
  BY WaitsAre DEF Prefix
<1>2. FVC!GapLo(later, g) = FVC!GapLo(t, g) /\ FVC!GapHi(later, g) = FVC!GapHi(t, g)
  BY <1>1 DEF FVC!GapLo, FVC!GapHi
<1> DEFINE bias == Plans.continuation.bias
           R(m) == g + 1 .. FVC!Smaller(m, g + Plans.continuation.retracementWait)
           Does(u, i) == FVC!Cl(bias, u[i]) < FVC!GapLo(t, g) \/ FVC!Lo(bias, u[i]) <= FVC!GapHi(t, g)
           A == {i \in R(n) : Does(t, i)}
           B == {i \in R(n + 1) : Does(later, i)}
<1>3. A \subseteq 1 .. n /\ A \subseteq B /\ B \subseteq A \cup {n + 1}
  <2>1. R(n) \subseteq 1 .. n /\ R(n) \subseteq R(n + 1) /\ R(n + 1) \subseteq R(n) \cup {n + 1}
    BY <1>1 DEF FVC!Smaller
  <2>2. \A i \in 1 .. n : Does(later, i) <=> Does(t, i)
    BY <1>1
  <2> HIDE DEF R, Does
  <2> QED
    BY <2>1, <2>2
<1>4. A # {} /\ touch = FVC!Min(A) /\ touched = FVC!Min(B)
  BY <1>1, <1>2 DEF FVC!Return
<1> HIDE DEF A, B
<1>5. Min(B) = Min(A) /\ Min(A) \in A
  BY <1>3, <1>4, LeastStays
<1> QED
  BY <1>3, <1>4, <1>5 DEF FVC!Min, Min

\* The entry, the stop and the target of a gap stay.
LEMMA ContinuationPlanStays ==
  ASSUME NEW t \in Seq(CandleType), NEW later \in Seq(CandleType), Prefix(t, later)
  PROVE  FVC!PlanStays(t, later)
<1> SUFFICES ASSUME NEW s \in FVC!Signal(t), NEW x \in FVC!Signal(later), x.plan.gap = s.plan.gap
             PROVE  x.entry2 = s.entry2 /\ x.stop = s.stop /\ x.target = s.target
  BY DEF FVC!PlanStays
<1> PICK n \in Nat : n = Len(t)
  BY CandlesAre
<1> PICK g : g = s.plan.gap
  OBVIOUS
<1> PICK touch : touch = s.plan.touch
  OBVIOUS
<1>1. \A j \in 1 .. n : later[j] = t[j]
  BY DEF Prefix
<1>2. /\ g \in 3 .. n /\ touch \in FVC!Return(t, g) /\ s.entry2 = FVC!Entry2(t, g, touch)
      /\ s.stop = FVC!StopOf(t, g) /\ s.target = FVC!Min(FVC!Targets(s.entry2))
  BY ContinuationPlanIs
<1>3. /\ x.plan.touch \in FVC!Return(later, g) /\ x.entry2 = FVC!Entry2(later, g, x.plan.touch)
      /\ x.stop = FVC!StopOf(later, g) /\ x.target = FVC!Min(FVC!Targets(x.entry2))
  BY ContinuationPlanIs
<1>4. x.plan.touch = touch /\ touch \in 1 .. n
  BY <1>2, <1>3, ReturnStays
<1>5. FVC!GapLo(later, g) = FVC!GapLo(t, g) /\ FVC!GapHi(later, g) = FVC!GapHi(t, g)
  BY <1>1, <1>2 DEF FVC!GapLo, FVC!GapHi
<1>6. x.entry2 = s.entry2
  BY <1>1, <1>2, <1>3, <1>4, <1>5 DEF FVC!Entry2
<1>7. FVC!StopOf(later, g) = FVC!StopOf(t, g)
  <2> DEFINE I == FVC!Larger(1, g - 6) .. g
  <2>1. \A i \in I : later[i] = t[i]
    BY <1>1, <1>2 DEF FVC!Larger
  <2>2. {FVC!Lo(Plans.continuation.bias, later[i]) : i \in I} = {FVC!Lo(Plans.continuation.bias, t[i]) : i \in I}
    BY <2>1
  <2>3. FVC!RangeAt(later, g) = FVC!RangeAt(t, g)
    BY <1>2, RangeStays
  <2> QED
    BY <2>2, <2>3 DEF FVC!StopOf
<1> QED
  BY <1>2, <1>3, <1>6, <1>7

-------------------------------------------------------------------------------
(* pdh_pdl_raid.py *)

\* The raid of a previous day, step by step: the reclaim, the shift, the zone, the return to it.
LEMMA RaidPlanIs ==
  ASSUME NEW t \in Seq(CandleType), NEW s \in PDR!Signal(t)
  PROVE  /\ s.dir = s.raid.dir /\ s.raid.at \in 1 .. Len(t)
         /\ s.reclaim \in PDR!Reclaimed(t, s.raid)
         /\ s.shift \in PDR!Shift(t, s.raid, s.reclaim)
         /\ s.zone = PDR!The(PDR!Zone(t, s.dir, s.shift))
         /\ s.at \in PDR!Retest(t, s.dir, s.shift, s.zone)
         /\ s.entry = PDR!Cl(s.dir, t[s.at])
<1> DEFINE raid == PDR!The(PDR!Raid(t))
           d == raid.dir
           reclaim == PDR!The(PDR!Reclaimed(t, raid))
           shift == PDR!The(PDR!Shift(t, raid, reclaim))
           zone == PDR!The(PDR!Zone(t, d, shift))
           at == PDR!The(PDR!Retest(t, d, shift, zone))
<1>1. /\ PDR!Raid(t) # {} /\ PDR!Reclaimed(t, raid) # {} /\ PDR!Shift(t, raid, reclaim) # {}
      /\ PDR!Retest(t, d, shift, zone) # {}
      /\ s.dir = d /\ s.raid = raid /\ s.reclaim = reclaim /\ s.shift = shift /\ s.zone = zone /\ s.at = at
      /\ s.entry = PDR!Cl(d, t[at])
  BY DEF PDR!Signal
<1>2. \A S : S # {} => PDR!The(S) \in S
  BY DEF PDR!The
<1>3. raid \in PDR!Raid(t) /\ d = raid.dir
  BY <1>1, <1>2
<1> HIDE DEF raid, d
<1>4. reclaim \in PDR!Reclaimed(t, raid)
  BY <1>1, <1>2
<1> HIDE DEF reclaim
<1>5. shift \in PDR!Shift(t, raid, reclaim)
  BY <1>1, <1>2
<1> HIDE DEF shift
<1>6. zone = PDR!The(PDR!Zone(t, d, shift))
  OBVIOUS
<1> HIDE DEF zone
<1>7. at \in PDR!Retest(t, d, shift, zone)
  BY <1>1, <1>2
<1> HIDE DEF at
<1>8. raid.at \in DOMAIN t
  BY <1>3 DEF PDR!Raid, PDR!Raids
<1>9. raid.at \in 1 .. Len(t)
  BY <1>8
<1> QED
  BY <1>1, <1>3, <1>4, <1>5, <1>6, <1>7, <1>9

\* The reclaim is the first close back inside.
LEMMA RaidReclaimStays ==
  ASSUME NEW t \in Seq(CandleType), NEW later \in Seq(CandleType), Prefix(t, later), NEW r, r.at \in 1 .. Len(t),
         NEW i \in PDR!Reclaimed(t, r), NEW j \in PDR!Reclaimed(later, r)
  PROVE  j = i /\ i \in 1 .. Len(t)
<1> PICK n \in Nat : n = Len(t)
  BY CandlesAre
<1>1. /\ Len(later) = n + 1 /\ (\A m \in 1 .. n : later[m] = t[m]) /\ Plans.previousDay.maxReclaim \in Nat
      /\ r.at \in 1 .. n
  BY WaitsAre DEF Prefix
<1> DEFINE R(m) == r.at .. PDR!Smaller(m, r.at + Plans.previousDay.maxReclaim)
           Does(u, m) == PDR!Cl(r.dir, u[m]) > PDR!Raided(r.dir)
           A == {m \in R(n) : Does(t, m)}
           B == {m \in R(n + 1) : Does(later, m)}
<1>2. A \subseteq 1 .. n /\ A \subseteq B /\ B \subseteq A \cup {n + 1}
  <2>1. R(n) \subseteq 1 .. n /\ R(n) \subseteq R(n + 1) /\ R(n + 1) \subseteq R(n) \cup {n + 1}
    BY <1>1 DEF PDR!Smaller
  <2>2. \A m \in 1 .. n : Does(later, m) <=> Does(t, m)
    BY <1>1
  <2> HIDE DEF R, Does
  <2> QED
    BY <2>1, <2>2
<1>3. i \in A /\ (\A y \in A : i <= y) /\ j \in B /\ \A y \in B : j <= y
  BY <1>1 DEF PDR!Reclaimed
<1> HIDE DEF A, B
<1>4. j = i
  BY <1>2, <1>3, SameFirst
<1> QED
  BY <1>2, <1>3, <1>4

\* The shift is the first displacement beyond all since the raid.
LEMMA RaidShiftStays ==
  ASSUME NEW t \in Seq(CandleType), NEW later \in Seq(CandleType), Prefix(t, later), NEW r, r.at \in 1 .. Len(t),
         NEW reclaim \in 1 .. Len(t), NEW i \in PDR!Shift(t, r, reclaim), NEW j \in PDR!Shift(later, r, reclaim)
  PROVE  j = i /\ i \in 1 .. Len(t)
<1> PICK n \in Nat : n = Len(t)
  BY CandlesAre
<1>1. /\ Len(later) = n + 1 /\ (\A m \in 1 .. n : later[m] = t[m]) /\ Plans.previousDay.mssWait \in Nat
      /\ r.at \in 1 .. n /\ reclaim \in 1 .. n
  BY WaitsAre DEF Prefix
<1> DEFINE d == r.dir
           Before(u, m) == PDR!Max({PDR!Hi(d, u[k]) : k \in r.at .. m - 1})
           R(m) == reclaim + 1 .. PDR!Smaller(m, reclaim + 1 + Plans.previousDay.mssWait)
           Does(u, m) == PDR!Cl(d, u[m]) > Before(u, m) /\ PDR!Displaces(u, d, m)
           A == {m \in R(n) : Does(t, m)}
           B == {m \in R(n + 1) : Does(later, m)}
<1>2. ASSUME NEW m \in 1 .. n PROVE Does(later, m) <=> Does(t, m)
  <2>1. {PDR!Hi(d, later[k]) : k \in r.at .. m - 1} = {PDR!Hi(d, t[k]) : k \in r.at .. m - 1}
    <3>1. \A k \in r.at .. m - 1 : later[k] = t[k]
      BY <1>1
    <3> QED
      BY <3>1
  <2>2. PDR!MeanRange(later, m, PDR!AtrPeriod) = PDR!MeanRange(t, m, PDR!AtrPeriod)
    <3>1. PDR!AtrPeriod \in Int
      BY DEF PDR!AtrPeriod
    <3> QED
      BY <3>1, MeanStays, SameMeans
  <2>3. later[m] = t[m]
    BY <1>1
  <2> QED
    BY <2>1, <2>2, <2>3 DEF PDR!Displaces
<1>3. A \subseteq 1 .. n /\ A \subseteq B /\ B \subseteq A \cup {n + 1}
  <2>1. R(n) \subseteq 1 .. n /\ R(n) \subseteq R(n + 1) /\ R(n + 1) \subseteq R(n) \cup {n + 1}
    <3>1. reclaim + 1 \in Nat \ {0} /\ reclaim + 1 + Plans.previousDay.mssWait \in Int
      BY <1>1
    <3>2. \A x, y : PDR!Smaller(x, y) = Smaller(x, y)
      BY DEF PDR!Smaller, Smaller
    <3> QED
      BY <3>1, <3>2, FoundWindow
  <2> HIDE DEF R, Does
  <2> QED
    BY <1>2, <2>1
<1>4. i \in A /\ (\A y \in A : i <= y) /\ j \in B /\ \A y \in B : j <= y
  BY <1>1 DEF PDR!Shift
<1> HIDE DEF A, B
<1>5. j = i
  BY <1>3, <1>4, SameFirst
<1> QED
  BY <1>3, <1>4, <1>5

\* The zone is made of candles up to the shift.
LEMMA RaidZoneStays ==
  ASSUME NEW t \in Seq(CandleType), NEW later \in Seq(CandleType), Prefix(t, later), NEW d, NEW i \in 1 .. Len(t)
  PROVE  PDR!Zone(later, d, i) = PDR!Zone(t, d, i)
<1> PICK n \in Nat : n = Len(t)
  BY CandlesAre
<1>1. (\A m \in 1 .. n : later[m] = t[m]) /\ i \in 1 .. n
  BY DEF Prefix
<1> DEFINE I == PDR!Larger(1, i - 6) .. i - 1
           Opposite(u) == {j \in I : PDR!Against(d, u[j])}
<1>2. I \subseteq 1 .. n
  BY <1>1 DEF PDR!Larger
<1>3. Opposite(later) = Opposite(t)
  <2> HIDE DEF I
  <2> QED
    BY <1>1, <1>2
<1>4. Opposite(t) # {} => later[PDR!Max(Opposite(t))] = t[PDR!Max(Opposite(t))]
  <2>1. Opposite(t) \subseteq 0 .. n
    <3>1. Opposite(t) \subseteq I
      OBVIOUS
    <3>2. 1 .. n \subseteq 0 .. n
      BY <1>1
    <3> HIDE DEF Opposite, I
    <3> QED
      BY <1>2, <3>1, <3>2
  <2> HIDE DEF Opposite
  <2>2. Opposite(t) # {} => OBR!Max(Opposite(t)) \in Opposite(t)
    BY <2>1, LastIsIn
  <2>3. PDR!Max(Opposite(t)) = OBR!Max(Opposite(t))
    BY DEF PDR!Max, OBR!Max
  <2>4. Opposite(t) \subseteq 1 .. n
    <3> HIDE DEF I
    <3> QED
      BY <1>2 DEF Opposite
  <2> QED
    BY <1>1, <2>2, <2>3, <2>4
<1>5. later[i] = t[i] /\ (i >= 3 => later[i - 2] = t[i - 2])
  BY <1>1
<1> DEFINE ZoneOf(u) ==
             IF i >= 3 /\ PDR!Hi(d, u[i - 2]) < PDR!Lo(d, u[i])
             THEN {[lo |-> PDR!Hi(d, u[i - 2]), hi |-> PDR!Lo(d, u[i]), quality |-> 850]}
             ELSE IF Opposite(u) = {} THEN {}
             ELSE {[lo |-> PDR!Lo(d, u[PDR!Max(Opposite(u))]), hi |-> PDR!Hi(d, u[PDR!Max(Opposite(u))]), quality |-> 780]}
<1>6. \A u : PDR!Zone(u, d, i) = {z \in ZoneOf(u) : z.lo < z.hi /\ z.hi - z.lo <= Plans.previousDay.maxWidth}
  BY DEF PDR!Zone
<1>7. ZoneOf(later) = ZoneOf(t)
  <2> PICK G : G = Opposite(t)
    OBVIOUS
  <2>1. Opposite(later) = G /\ (G # {} => later[PDR!Max(G)] = t[PDR!Max(G)])
    BY <1>3, <1>4
  <2>2. Opposite(t) = G
    OBVIOUS
  <2> HIDE DEF Opposite
  <2>3. CASE i >= 3 /\ PDR!Hi(d, t[i - 2]) < PDR!Lo(d, t[i])
    BY <1>5, <2>3
  <2>4. CASE ~(i >= 3 /\ PDR!Hi(d, t[i - 2]) < PDR!Lo(d, t[i])) /\ G = {}
    BY <1>5, <2>1, <2>2, <2>4
  <2>5. CASE ~(i >= 3 /\ PDR!Hi(d, t[i - 2]) < PDR!Lo(d, t[i])) /\ G # {}
    <3> DEFINE m == PDR!Max(G)
    <3>1. later[m] = t[m]
      BY <2>1, <2>5
    <3>2. ZoneOf(t) = {[lo |-> PDR!Lo(d, t[m]), hi |-> PDR!Hi(d, t[m]), quality |-> 780]}
      BY <2>2, <2>5
    <3>3. ~(i >= 3 /\ PDR!Hi(d, later[i - 2]) < PDR!Lo(d, later[i]))
      BY <1>5, <2>5
    <3>4. ZoneOf(later) = {[lo |-> PDR!Lo(d, later[m]), hi |-> PDR!Hi(d, later[m]), quality |-> 780]}
      BY <2>1, <2>5, <3>3
    <3> HIDE DEF ZoneOf, m
    <3> QED
      BY <3>1, <3>2, <3>4
  <2> QED
    BY <2>3, <2>4, <2>5
<1> HIDE DEF ZoneOf
<1> QED
  BY <1>6, <1>7

\* The return is the first touch of the zone.
LEMMA RaidRetestStays ==
  ASSUME NEW t \in Seq(CandleType), NEW later \in Seq(CandleType), Prefix(t, later), NEW d, NEW i \in 1 .. Len(t),
         NEW z, NEW a \in PDR!Retest(t, d, i, z), NEW b \in PDR!Retest(later, d, i, z)
  PROVE  b = a /\ a \in 1 .. Len(t)
<1> PICK n \in Nat : n = Len(t)
  BY CandlesAre
<1>1. /\ Len(later) = n + 1 /\ (\A m \in 1 .. n : later[m] = t[m]) /\ Plans.previousDay.entryWait \in Nat
      /\ i \in 1 .. n
  BY WaitsAre DEF Prefix
<1> DEFINE R(m) == i + 1 .. PDR!Smaller(m, i + 1 + Plans.previousDay.entryWait)
           Does(u, m) == PDR!Lo(d, u[m]) <= z.hi /\ PDR!Hi(d, u[m]) >= z.lo
           A == {m \in R(n) : Does(t, m)}
           B == {m \in R(n + 1) : Does(later, m)}
<1>2. A \subseteq 1 .. n /\ A \subseteq B /\ B \subseteq A \cup {n + 1}
  <2>1. R(n) \subseteq 1 .. n /\ R(n) \subseteq R(n + 1) /\ R(n + 1) \subseteq R(n) \cup {n + 1}
    BY <1>1 DEF PDR!Smaller
  <2>2. \A m \in 1 .. n : Does(later, m) <=> Does(t, m)
    BY <1>1
  <2> HIDE DEF R, Does
  <2> QED
    BY <2>1, <2>2
<1>3. a \in A /\ (\A y \in A : a <= y) /\ b \in B /\ \A y \in B : b <= y
  BY <1>1 DEF PDR!Retest
<1> HIDE DEF A, B
<1>4. b = a
  BY <1>2, <1>3, SameFirst
<1> QED
  BY <1>2, <1>3, <1>4

\* A raid has one entry for good.
LEMMA RaidEntryStays ==
  ASSUME NEW t \in Seq(CandleType), NEW later \in Seq(CandleType), Prefix(t, later)
  PROVE  PDR!EntryStays(t, later)
<1> SUFFICES ASSUME NEW s \in PDR!Signal(t), NEW x \in PDR!Signal(later), x.raid = s.raid
             PROVE  x.at = s.at /\ x.entry = s.entry /\ x.zone = s.zone
  BY DEF PDR!EntryStays
<1> PICK r : r = s.raid
  OBVIOUS
<1> PICK d : d = r.dir
  OBVIOUS
<1>1. /\ s.dir = d /\ r.at \in 1 .. Len(t) /\ s.reclaim \in PDR!Reclaimed(t, r)
      /\ s.shift \in PDR!Shift(t, r, s.reclaim) /\ s.zone = PDR!The(PDR!Zone(t, d, s.shift))
      /\ s.at \in PDR!Retest(t, d, s.shift, s.zone) /\ s.entry = PDR!Cl(d, t[s.at])
  BY RaidPlanIs
<1>2. /\ x.dir = d /\ x.reclaim \in PDR!Reclaimed(later, r)
      /\ x.shift \in PDR!Shift(later, r, x.reclaim) /\ x.zone = PDR!The(PDR!Zone(later, d, x.shift))
      /\ x.at \in PDR!Retest(later, d, x.shift, x.zone) /\ x.entry = PDR!Cl(d, later[x.at])
  BY RaidPlanIs
<1>3. x.reclaim = s.reclaim /\ s.reclaim \in 1 .. Len(t)
  BY <1>1, <1>2, RaidReclaimStays
<1>4. x.shift = s.shift /\ s.shift \in 1 .. Len(t)
  BY <1>1, <1>2, <1>3, RaidShiftStays
<1>5. x.zone = s.zone
  BY <1>1, <1>2, <1>4, RaidZoneStays
<1>6. x.at = s.at /\ s.at \in 1 .. Len(t)
  BY <1>1, <1>2, <1>4, <1>5, RaidRetestStays
<1>7. later[s.at] = t[s.at]
  BY <1>6 DEF Prefix
<1> QED
  BY <1>1, <1>2, <1>5, <1>6, <1>7

-------------------------------------------------------------------------------
(* power_of_three_amd.py *)

\* A manipulation comes after the quiet candles and was reclaimed.
LEMMA TrapIs ==
  ASSUME NEW t \in Seq(CandleType), NEW w \in AMD!Manipulation(t)
  PROVE  /\ w.at \in Plans.accumulation.quiet + 1 .. Len(t) /\ w.at \in 1 .. Len(t)
         /\ AMD!Reclaims(t, w) # {}
<1>1. w \in AMD!Trapping(t)
  BY DEF AMD!Manipulation
<1>2. w \in AMD!Sweeps(t) /\ AMD!Reclaims(t, w) # {}
  BY <1>1 DEF AMD!Trapping
<1>3. w.at \in Plans.accumulation.quiet + 1 .. Len(t)
  BY <1>2 DEF AMD!Sweeps
<1>4. Len(t) \in Nat /\ Plans.accumulation.quiet \in Nat
  BY WaitsAre
<1> QED
  BY <1>2, <1>3, <1>4

\* The edge of the range is that of the quiet candles.
LEMMA RangeEdgeStays ==
  ASSUME NEW t \in Seq(CandleType), NEW later \in Seq(CandleType), Prefix(t, later),
         Plans.accumulation.quiet <= Len(t), NEW d
  PROVE  AMD!RangeEdge(d, later) = AMD!RangeEdge(d, t)
<1>1. \A i \in 1 .. Plans.accumulation.quiet : later[i] = t[i]
  <2>1. Plans.accumulation.quiet \in Nat
    BY WaitsAre
  <2> QED
    BY <2>1 DEF Prefix
<1>2. /\ {later[i].h : i \in 1 .. Plans.accumulation.quiet} = {t[i].h : i \in 1 .. Plans.accumulation.quiet}
      /\ {later[i].l : i \in 1 .. Plans.accumulation.quiet} = {t[i].l : i \in 1 .. Plans.accumulation.quiet}
  BY <1>1
<1>3. AMD!RangeHi(later) = AMD!RangeHi(t) /\ AMD!RangeLo(later) = AMD!RangeLo(t)
  BY <1>2 DEF AMD!RangeHi, AMD!RangeLo
<1> QED
  BY <1>3 DEF AMD!RangeEdge

\* The reclaim of a manipulation is the first close back inside, for good.
LEMMA TrapReclaimStays ==
  ASSUME NEW t \in Seq(CandleType), NEW later \in Seq(CandleType), Prefix(t, later), NEW w \in AMD!Manipulation(t)
  PROVE  AMD!Reclaim(later, w) = AMD!Reclaim(t, w) /\ AMD!Reclaim(t, w) \in 1 .. Len(t)
<1> PICK n \in Nat : n = Len(t)
  BY CandlesAre
<1>1. /\ w.at \in Plans.accumulation.quiet + 1 .. n /\ w.at \in 1 .. n /\ AMD!Reclaims(t, w) # {}
      /\ Plans.accumulation.maxReclaim \in Nat /\ Plans.accumulation.quiet \in Nat
  BY TrapIs, WaitsAre
<1>2. /\ Len(later) = n + 1 /\ (\A m \in 1 .. n : later[m] = t[m])
      /\ AMD!RangeEdge(w.dir, later) = AMD!RangeEdge(w.dir, t)
  BY <1>1, RangeEdgeStays DEF Prefix
<1> DEFINE R(m) == w.at .. AMD!Smaller(m, w.at + Plans.accumulation.maxReclaim)
           Does(u, m) == AMD!Cl(w.dir, u[m]) > AMD!RangeEdge(w.dir, u)
           A == {m \in R(n) : Does(t, m)}
           B == {m \in R(n + 1) : Does(later, m)}
<1>3. A \subseteq 1 .. n /\ A \subseteq B /\ B \subseteq A \cup {n + 1}
  <2>1. R(n) \subseteq 1 .. n /\ R(n) \subseteq R(n + 1) /\ R(n + 1) \subseteq R(n) \cup {n + 1}
    <3>1. w.at \in Nat \ {0} /\ w.at + Plans.accumulation.maxReclaim \in Int
      BY <1>1
    <3>2. \A x, y : AMD!Smaller(x, y) = Smaller(x, y)
      BY DEF AMD!Smaller, Smaller
    <3> QED
      BY <3>1, <3>2, FoundWindow
  <2>2. \A m \in 1 .. n : Does(later, m) <=> Does(t, m)
    BY <1>2
  <2> HIDE DEF R, Does
  <2> QED
    BY <2>1, <2>2
<1>4. AMD!Reclaims(t, w) = A /\ AMD!Reclaims(later, w) = B
  BY <1>2 DEF AMD!Reclaims
<1> HIDE DEF A, B
<1>5. Min(B) = Min(A) /\ Min(A) \in A
  BY <1>1, <1>3, <1>4, LeastStays
<1>6. AMD!Min(A) = Min(A) /\ AMD!Min(B) = Min(B)
  BY DEF AMD!Min, Min
<1> QED
  BY <1>3, <1>4, <1>5, <1>6 DEF AMD!Reclaim

\* The distribution is the first displacement beyond all since the manipulation.
LEMMA DistributionStays ==
  ASSUME NEW t \in Seq(CandleType), NEW later \in Seq(CandleType), Prefix(t, later), NEW w \in AMD!Manipulation(t),
         NEW i \in AMD!Distribution(t, w), NEW j \in AMD!Distribution(later, w)
  PROVE  j = i /\ i \in 1 .. Len(t)
<1> PICK n \in Nat : n = Len(t)
  BY CandlesAre
<1> DEFINE d == w.dir
           reclaim == AMD!Reclaim(t, w)
<1>1. /\ Len(later) = n + 1 /\ (\A m \in 1 .. n : later[m] = t[m]) /\ Plans.accumulation.shiftWait \in Nat
      /\ AMD!Reclaim(later, w) = reclaim /\ reclaim \in 1 .. n /\ w.at \in 1 .. n
  BY WaitsAre, TrapReclaimStays, TrapIs DEF Prefix
<1> HIDE DEF reclaim
<1> DEFINE Before(u, m) == AMD!Max({AMD!Hi(d, u[k]) : k \in w.at .. m - 1})
           R(m) == reclaim + 1 .. AMD!Smaller(m, reclaim + 1 + Plans.accumulation.shiftWait)
           Does(u, m) == AMD!Cl(d, u[m]) > Before(u, m) /\ AMD!Displaces(u, d, m)
           A == {m \in R(n) : Does(t, m)}
           B == {m \in R(n + 1) : Does(later, m)}
<1>2. ASSUME NEW m \in 1 .. n PROVE Does(later, m) <=> Does(t, m)
  <2>1. {AMD!Hi(d, later[k]) : k \in w.at .. m - 1} = {AMD!Hi(d, t[k]) : k \in w.at .. m - 1}
    <3>1. \A k \in w.at .. m - 1 : later[k] = t[k]
      BY <1>1
    <3> QED
      BY <3>1
  <2>2. AMD!MeanRange(later, m, AMD!AtrPeriod) = AMD!MeanRange(t, m, AMD!AtrPeriod)
    <3>1. AMD!AtrPeriod \in Int
      BY DEF AMD!AtrPeriod
    <3> QED
      BY <3>1, MeanStays, SameMeans
  <2>3. later[m] = t[m]
    BY <1>1
  <2> QED
    BY <2>1, <2>2, <2>3 DEF AMD!Displaces
<1>3. A \subseteq 1 .. n /\ A \subseteq B /\ B \subseteq A \cup {n + 1}
  <2>1. R(n) \subseteq 1 .. n /\ R(n) \subseteq R(n + 1) /\ R(n + 1) \subseteq R(n) \cup {n + 1}
    <3>1. reclaim + 1 \in Nat \ {0} /\ reclaim + 1 + Plans.accumulation.shiftWait \in Int
      BY <1>1
    <3>2. \A x, y : AMD!Smaller(x, y) = Smaller(x, y)
      BY DEF AMD!Smaller, Smaller
    <3> QED
      BY <3>1, <3>2, FoundWindow
  <2> HIDE DEF R, Does
  <2> QED
    BY <1>2, <2>1
<1>4. i \in A /\ (\A y \in A : i <= y) /\ j \in B /\ \A y \in B : j <= y
  <2>1. AMD!Distribution(t, w) = {y \in A : \A z \in A : y <= z}
    BY <1>1 DEF AMD!Distribution, reclaim
  <2>2. AMD!Distribution(later, w) = {y \in B : \A z \in B : y <= z}
    BY <1>1 DEF AMD!Distribution
  <2> HIDE DEF A, B
  <2> QED
    BY <2>1, <2>2
<1> HIDE DEF A, B
<1>5. j = i
  BY <1>3, <1>4, SameFirst
<1> QED
  BY <1>3, <1>4, <1>5

\* An entry is the close of the distribution.
LEMMA AccumulationPlanIs ==
  ASSUME NEW t, NEW s \in AMD!Signal(t)
  PROVE  /\ s.sweep \in AMD!Manipulation(t) /\ s.at \in AMD!Distribution(t, s.sweep)
         /\ s.entry = AMD!Cl(s.sweep.dir, t[s.at])
<1> DEFINE sweep == AMD!The(AMD!Manipulation(t))
           at == AMD!The(AMD!Distribution(t, sweep))
<1>1. /\ AMD!Manipulation(t) # {} /\ AMD!Distribution(t, sweep) # {}
      /\ s.sweep = sweep /\ s.at = at /\ s.entry = AMD!Cl(sweep.dir, t[at])
  BY DEF AMD!Signal
<1>2. \A S : S # {} => AMD!The(S) \in S
  BY DEF AMD!The
<1>3. sweep \in AMD!Manipulation(t)
  BY <1>1, <1>2
<1> HIDE DEF sweep
<1>4. at \in AMD!Distribution(t, sweep)
  BY <1>1, <1>2
<1> HIDE DEF at
<1> QED
  BY <1>1, <1>3, <1>4

\* It stays; and the exception of a candle that reclaims is over with the next one.
LEMMA AccumulationEntryStays ==
  ASSUME NEW t \in Seq(CandleType), NEW later \in Seq(CandleType), Prefix(t, later)
  PROVE  AMD!EntryStays(t, later)
<1>1. ASSUME NEW s \in AMD!Signal(t), NEW x \in AMD!Signal(later), x.sweep = s.sweep
      PROVE  x.at = s.at /\ x.entry = s.entry
  <2> PICK w : w = s.sweep
    OBVIOUS
  <2>1. w \in AMD!Manipulation(t) /\ s.at \in AMD!Distribution(t, w) /\ s.entry = AMD!Cl(w.dir, t[s.at])
    BY AccumulationPlanIs
  <2>2. x.at \in AMD!Distribution(later, w) /\ x.entry = AMD!Cl(w.dir, later[x.at])
    BY <1>1, AccumulationPlanIs
  <2>3. x.at = s.at /\ s.at \in 1 .. Len(t)
    BY <2>1, <2>2, DistributionStays
  <2>4. later[s.at] = t[s.at]
    BY <2>3 DEF Prefix
  <2> QED
    BY <2>1, <2>2, <2>3, <2>4
<1>2. ASSUME AMD!Manipulation(later) = AMD!Manipulation(t), AMD!Raises(later)
      PROVE  FALSE
  <2>1. PICK w \in AMD!Manipulation(t) : AMD!Reclaim(later, w) = Len(later)
    BY <1>2 DEF AMD!Raises
  <2>2. AMD!Reclaim(later, w) \in 1 .. Len(t)
    BY TrapReclaimStays
  <2>3. Len(later) = Len(t) + 1 /\ Len(t) \in Nat
    BY DEF Prefix
  <2> QED
    BY <2>1, <2>2, <2>3
<1> QED
  BY <1>1, <1>2 DEF AMD!EntryStays

-------------------------------------------------------------------------------
(* breaker_block.py *)

\* The least and the smaller of the instance are those of this module.
LEMMA SameLeast ==
  /\ \A S : BRK!Min(S) = Min(S)
  /\ \A x, y : BRK!Smaller(x, y) = Smaller(x, y)
BY DEF BRK!Min, Min, BRK!Smaller, Smaller

\* A trade on a breaker rests on its block, the failure, the retest and the reaction.
LEMMA BreakerPlanIs ==
  ASSUME NEW t \in Seq(CandleType), NEW s \in BRK!Signal(t)
  PROVE  /\ s.dir \in Directions /\ s.block \in BRK!Blocks(t, -s.dir)
         /\ BRK!Failures(t, s.dir, s.block) # {} /\ s.failed = Min(BRK!Failures(t, s.dir, s.block))
         /\ s.retest \in BRK!Retest(t, s.dir, s.block, BRK!Accepted(t, s.dir, s.block, s.failed))
         /\ BRK!Reactions(t, s.dir, s.block, s.retest) # {}
         /\ s.at = Min(BRK!Reactions(t, s.dir, s.block, s.retest)) /\ s.entry = BRK!Cl(s.dir, t[s.at])
<1>0. PICK d \in Directions : \E o \in BRK!Blocks(t, -d) : s \in BRK!PlanOf(t, d, o)
  <2> DEFINE all == UNION {BRK!PlanOf(t, x[1], x[2]) : x \in UNION {{e} \X BRK!Blocks(t, -e) : e \in Directions}}
  <2>1. s \in all
    BY DEF BRK!Signal, BRK!Directions, Directions
  <2>2. PICK e \in Directions : \E x \in {e} \X BRK!Blocks(t, -e) : s \in BRK!PlanOf(t, x[1], x[2])
    BY <2>1
  <2>3. PICK x \in {e} \X BRK!Blocks(t, -e) : s \in BRK!PlanOf(t, x[1], x[2])
    BY <2>2
  <2>4. x[1] = e /\ x[2] \in BRK!Blocks(t, -e)
    BY <2>3
  <2> QED
    BY <2>3, <2>4
<1>1. PICK o \in BRK!Blocks(t, -d) : s \in BRK!PlanOf(t, d, o)
  BY <1>0
<1> DEFINE failed == BRK!Min(BRK!Failures(t, d, o))
           retests == BRK!Retest(t, d, o, BRK!Accepted(t, d, o, failed))
           rt == CHOOSE i \in retests : TRUE
           at == BRK!Min(BRK!Reactions(t, d, o, rt))
<1>2. /\ BRK!Failures(t, d, o) # {} /\ retests # {} /\ BRK!Reactions(t, d, o, rt) # {}
      /\ s.dir = d /\ s.block = o /\ s.failed = failed /\ s.retest = rt /\ s.at = at /\ s.entry = BRK!Cl(d, t[at])
  <2> DEFINE plan == [dir |-> d, block |-> o, failed |-> failed, retest |-> rt, at |-> at, entry |-> BRK!Cl(d, t[at]),
                      stop |-> BRK!StopOf(t, d, o), target |-> BRK!Min(BRK!Targets(d, BRK!Cl(d, t[at])))]
  <2>1. s = plan /\ BRK!Failures(t, d, o) # {} /\ retests # {} /\ BRK!Reactions(t, d, o, rt) # {}
    BY <1>1, Zenon DEF BRK!PlanOf
  <2> HIDE DEF failed, retests, rt, at
  <2> QED
    BY <2>1
<1>3. rt \in retests
  BY <1>2
<1>4. failed = Min(BRK!Failures(t, d, o)) /\ at = Min(BRK!Reactions(t, d, o, rt))
  BY SameLeast
<1> HIDE DEF rt, at, failed
<1> QED
  BY <1>1, <1>2, <1>3, <1>4

\* A block is its source, the first displacement after it and the first close beyond a swing.
LEMMA BlockIs ==
  ASSUME NEW t \in Seq(CandleType), NEW b, NEW o \in BRK!Blocks(t, b)
  PROVE  /\ o.source \in 1 .. Len(t) /\ o.disp \in 1 .. Len(t) /\ o.from \in 1 .. Len(t)
         /\ o = [source |-> o.source, disp |-> o.disp, from |-> o.from]
         /\ BRK!Against(b, t[o.source])
         /\ BRK!Displacements(t, b, o.source) # {} /\ o.disp = Min(BRK!Displacements(t, b, o.source))
         /\ BRK!BreaksOf(t, b, o.source, o.disp) # {} /\ o.from = Min(BRK!BreaksOf(t, b, o.source, o.disp))
<1>1. o \in [source : {i \in DOMAIN t : BRK!Against(b, t[i])}, disp : DOMAIN t, from : DOMAIN t]
  BY DEF BRK!Blocks
<1>2. /\ BRK!Displacements(t, b, o.source) # {} /\ o.disp = BRK!Min(BRK!Displacements(t, b, o.source))
      /\ BRK!BreaksOf(t, b, o.source, o.disp) # {} /\ o.from = BRK!Min(BRK!BreaksOf(t, b, o.source, o.disp))
  BY DEF BRK!Blocks
<1>3. DOMAIN t = 1 .. Len(t)
  OBVIOUS
<1> QED
  BY <1>1, <1>2, <1>3, SameLeast

\* FoundWindow, for the windows of the instance.
LEMMA BreakerWindow ==
  ASSUME NEW n \in Nat, NEW a \in Nat \ {0}, NEW w \in Int
  PROVE  /\ a .. BRK!Smaller(n, w) \subseteq 1 .. n
         /\ a .. BRK!Smaller(n, w) \subseteq a .. BRK!Smaller(n + 1, w)
         /\ a .. BRK!Smaller(n + 1, w) \subseteq (a .. BRK!Smaller(n, w)) \cup {n + 1}
BY FoundWindow, SameLeast

\* The displacement of a block is the first of its window.
LEMMA BlockDisplacementStays ==
  ASSUME NEW t \in Seq(CandleType), NEW later \in Seq(CandleType), Prefix(t, later), NEW b, NEW source \in 1 .. Len(t),
         BRK!Displacements(t, b, source) # {}
  PROVE  /\ Min(BRK!Displacements(later, b, source)) = Min(BRK!Displacements(t, b, source))
         /\ Min(BRK!Displacements(t, b, source)) \in source + 1 .. Len(t)
<1> PICK n \in Nat : n = Len(t)
  BY CandlesAre
<1>1. /\ Len(later) = n + 1 /\ (\A m \in 1 .. n : later[m] = t[m]) /\ Plans.breaker.displacementWait \in Nat
      /\ source \in 1 .. n
  BY WaitsAre DEF Prefix
<1> DEFINE R(m) == source + 1 .. BRK!Smaller(m, source + Plans.breaker.displacementWait)
           Does(u, m) == BRK!With(b, u[m]) /\ BRK!Strong(u, m) /\ BRK!ClosesAtLeast(b, u[m], 62)
           A == {m \in R(n) : Does(t, m)}
           B == {m \in R(n + 1) : Does(later, m)}
<1>2. A \subseteq 1 .. n /\ A \subseteq B /\ B \subseteq A \cup {n + 1}
  <2>1. R(n) \subseteq 1 .. n /\ R(n) \subseteq R(n + 1) /\ R(n + 1) \subseteq R(n) \cup {n + 1}
    <3>1. source + 1 \in Nat \ {0} /\ source + Plans.breaker.displacementWait \in Int
      BY <1>1
    <3> QED
      BY <3>1, BreakerWindow
  <2>2. \A m \in 1 .. n : Does(later, m) <=> Does(t, m)
    <3> TAKE m \in 1 .. n
    <3>1. BRK!RangeAt(later, m) = BRK!RangeAt(t, m) /\ later[m] = t[m]
      BY <1>1, RangeStays
    <3> QED
      BY <3>1 DEF BRK!Strong
  <2> HIDE DEF R, Does
  <2> QED
    BY <2>1, <2>2
<1>3. BRK!Displacements(t, b, source) = A /\ BRK!Displacements(later, b, source) = B
  BY <1>1 DEF BRK!Displacements
<1>4. \A m \in A : m \in R(n)
  OBVIOUS
<1> HIDE DEF A, B
<1>5. Min(B) = Min(A) /\ Min(A) \in A
  BY <1>2, <1>3, LeastStays
<1>6. Min(A) \in R(n) /\ Min(A) \in 1 .. n
  BY <1>2, <1>4, <1>5
<1>7. Min(A) \in source + 1 .. n
  BY <1>1, <1>6
<1> QED
  BY <1>3, <1>5, <1>7

\* The swing it breaks was there: one that the new candle confirms is later than the source.
LEMMA BlockBreaksStay ==
  ASSUME NEW t \in Seq(CandleType), NEW later \in Seq(CandleType), Prefix(t, later), NEW b, NEW source \in 1 .. Len(t),
         NEW disp \in source + 1 .. Len(t)
  PROVE  BRK!BreaksOf(later, b, source, disp) = BRK!BreaksOf(t, b, source, disp)
<1> PICK n \in Nat : n = Len(t)
  BY CandlesAre
<1>1. /\ Len(later) = n + 1 /\ (\A m \in 1 .. n : later[m] = t[m]) /\ source \in 1 .. n - 1 /\ disp \in source + 1 .. n
  BY DEF Prefix
<1> DEFINE levels(u) == {s \in BRK!SwingLevels(Plans.breaker.swings, b, u) : s.at <= source}
<1>2. levels(later) = levels(t)
  <2>1. CASE Plans.breaker.swings # {}
    BY <2>1 DEF BRK!SwingLevels
  <2>2. CASE Plans.breaker.swings = {}
    <3> DEFINE I(u) == {i \in BRK!SwingsOf(b, u) : i <= source}
    <3>1. I(later) = I(t) /\ I(t) \subseteq 1 .. n
      <4>1. \A i \in 2 .. n - 1 : later[i] = t[i] /\ later[i - 1] = t[i - 1] /\ later[i + 1] = t[i + 1]
        BY <1>1
      <4>2. \A i \in 2 .. n : i <= source => i \in 2 .. n - 1
        BY <1>1
      <4>3. \A i \in 2 .. n - 1 : i \in 2 .. n
        OBVIOUS
      <4>4. /\ BRK!SwingsOf(b, t)
                 = {i \in 2 .. n - 1 : BRK!Hi(b, t[i]) > BRK!Hi(b, t[i - 1]) /\ BRK!Hi(b, t[i]) > BRK!Hi(b, t[i + 1])}
            /\ BRK!SwingsOf(b, later)
                 = {i \in 2 .. n : /\ BRK!Hi(b, later[i]) > BRK!Hi(b, later[i - 1])
                                   /\ BRK!Hi(b, later[i]) > BRK!Hi(b, later[i + 1])}
        BY <1>1 DEF BRK!SwingsOf
      <4>5. I(later) = I(t)
        BY <4>1, <4>2, <4>3, <4>4
      <4>6. I(t) \subseteq 1 .. n
        BY <4>4
      <4> QED
        BY <4>5, <4>6
    <3>2. \A u : levels(u) = {[at |-> i, price |-> BRK!Hi(b, u[i])] : i \in I(u)}
      BY <2>2 DEF BRK!SwingLevels
    <3>3. \A i \in I(t) : later[i] = t[i]
      BY <1>1, <3>1
    <3> HIDE DEF I, levels
    <3> QED
      BY <3>1, <3>2, <3>3
  <2> QED
    BY <2>1, <2>2
<1> DEFINE level(u) == CHOOSE s \in levels(u) : \A x \in levels(u) : x.at <= s.at
<1>3. level(later) = level(t)
  <2> HIDE DEF levels
  <2> QED
    BY <1>2
<1>4. \A u : BRK!BreaksOf(u, b, source, disp) =
               IF levels(u) = {} THEN {} ELSE {i \in source + 1 .. disp : BRK!Cl(b, u[i]) > level(u).price}
  BY DEF BRK!BreaksOf
<1>5. \A i \in source + 1 .. disp : later[i] = t[i]
  BY <1>1
<1> HIDE DEF levels, level
<1> QED
  BY <1>2, <1>3, <1>4, <1>5

\* A block has one source, and its displacement and its break stay.
LEMMA BlockStays ==
  ASSUME NEW t \in Seq(CandleType), NEW later \in Seq(CandleType), Prefix(t, later), NEW b,
         NEW o \in BRK!Blocks(t, b), NEW p \in BRK!Blocks(later, b), p.source = o.source
  PROVE  p = o
<1>1. /\ o.source \in 1 .. Len(t) /\ BRK!Displacements(t, b, o.source) # {}
      /\ o.disp = Min(BRK!Displacements(t, b, o.source)) /\ o.from = Min(BRK!BreaksOf(t, b, o.source, o.disp))
      /\ o = [source |-> o.source, disp |-> o.disp, from |-> o.from]
  BY BlockIs
<1>2. /\ p.disp = Min(BRK!Displacements(later, b, o.source))
      /\ p.from = Min(BRK!BreaksOf(later, b, o.source, p.disp))
      /\ p = [source |-> p.source, disp |-> p.disp, from |-> p.from]
  BY BlockIs
<1>3. p.disp = o.disp /\ o.disp \in o.source + 1 .. Len(t)
  BY <1>1, <1>2, BlockDisplacementStays
<1>4. p.from = o.from
  BY <1>1, <1>2, <1>3, BlockBreaksStay
<1> QED
  BY <1>1, <1>2, <1>3, <1>4

\* A block fails with the first close through it.
LEMMA BlockFailureStays ==
  ASSUME NEW t \in Seq(CandleType), NEW later \in Seq(CandleType), Prefix(t, later), NEW d, NEW o,
         o.source \in 1 .. Len(t), o.from \in 1 .. Len(t), BRK!Failures(t, d, o) # {}
  PROVE  /\ Min(BRK!Failures(later, d, o)) = Min(BRK!Failures(t, d, o))
         /\ Min(BRK!Failures(t, d, o)) \in BRK!Failures(t, d, o)
         /\ Min(BRK!Failures(t, d, o)) \in 1 .. Len(t)
<1> PICK n \in Nat : n = Len(t)
  BY CandlesAre
<1>1. /\ Len(later) = n + 1 /\ (\A m \in 1 .. n : later[m] = t[m]) /\ o.source \in 1 .. n /\ o.from \in 1 .. n
  BY DEF Prefix
<1> DEFINE Does(u, m) == BRK!Cl(d, u[m]) > BRK!ZoneHi(u, d, o)
           A == {m \in o.from + 1 .. n : Does(t, m)}
           B == {m \in o.from + 1 .. n + 1 : Does(later, m)}
<1>2. A \subseteq 1 .. n /\ A \subseteq B /\ B \subseteq A \cup {n + 1}
  <2>1. /\ o.from + 1 .. n \subseteq 1 .. n /\ o.from + 1 .. n \subseteq o.from + 1 .. n + 1
        /\ o.from + 1 .. n + 1 \subseteq (o.from + 1 .. n) \cup {n + 1}
    BY <1>1
  <2>2. \A m \in 1 .. n : Does(later, m) <=> Does(t, m)
    BY <1>1 DEF BRK!ZoneHi
  <2> HIDE DEF Does
  <2> QED
    BY <2>1, <2>2
<1>3. BRK!Failures(t, d, o) = A /\ BRK!Failures(later, d, o) = B
  BY <1>1 DEF BRK!Failures
<1> HIDE DEF A, B
<1>4. Min(B) = Min(A) /\ Min(A) \in A
  BY <1>2, <1>3, LeastStays
<1> QED
  BY <1>2, <1>3, <1>4

\* Once a retest came after it, the run of closes beyond the block is over and grows no more.
LEMMA AcceptanceStays ==
  ASSUME NEW t \in Seq(CandleType), NEW later \in Seq(CandleType), Prefix(t, later), NEW d, NEW o,
         o.source \in 1 .. Len(t), o.from \in 1 .. Len(t), NEW failed \in BRK!Failures(t, d, o), failed \in 1 .. Len(t),
         BRK!Retest(t, d, o, BRK!Accepted(t, d, o, failed)) # {}
  PROVE  /\ BRK!Accepted(later, d, o, failed) = BRK!Accepted(t, d, o, failed)
         /\ BRK!Accepted(t, d, o, failed) \in 1 .. Len(t)
<1> PICK n \in Nat : n = Len(t)
  BY CandlesAre
<1> PICK w : w = Plans.breaker.acceptanceWait
  OBVIOUS
<1>1. /\ Len(later) = n + 1 /\ (\A m \in 1 .. n : later[m] = t[m]) /\ w \in Nat \ {0}
      /\ o.source \in 1 .. n /\ failed \in 1 .. n
  BY WaitsAre DEF Prefix
<1> DEFINE R(m) == failed .. BRK!Smaller(m, failed + w - 1)
           Beyond(u, m) == BRK!Cl(d, u[m]) > BRK!ZoneHi(u, d, o)
           A == {i \in R(n) : \A j \in failed .. i : Beyond(t, j)}
           B == {i \in R(n + 1) : \A j \in failed .. i : Beyond(later, j)}
<1>2. R(n) \subseteq 1 .. n /\ R(n) \subseteq R(n + 1) /\ R(n + 1) \subseteq R(n) \cup {n + 1}
  <2>1. failed \in Nat \ {0} /\ failed + w - 1 \in Int
    BY <1>1
  <2> QED
    BY <2>1, BreakerWindow
<1>3. \A m \in 1 .. n : Beyond(later, m) <=> Beyond(t, m)
  BY <1>1 DEF BRK!ZoneHi
<1>4. \A i \in 1 .. n : \A j \in failed .. i : j \in 1 .. n
  BY <1>1
<1>5. A \subseteq 1 .. n /\ A \subseteq B /\ B \subseteq A \cup {n + 1}
  <2> HIDE DEF R, Beyond
  <2> QED
    BY <1>2, <1>3, <1>4
<1>6. n + 1 \in B => n \in A
  <2> SUFFICES ASSUME n + 1 \in B PROVE n \in A
    OBVIOUS
  <2>1. n + 1 \in R(n + 1) /\ \A j \in failed .. n + 1 : Beyond(later, j)
    OBVIOUS
  <2>2. n \in R(n)
    BY <1>1, <2>1 DEF BRK!Smaller
  <2>3. \A j \in failed .. n : j \in failed .. n + 1 /\ j \in 1 .. n
    BY <1>1
  <2> HIDE DEF R, Beyond
  <2> QED
    BY <1>3, <2>1, <2>2, <2>3
<1>7. failed \in A
  <2>1. failed \in R(n) /\ \A j \in failed .. failed : j = failed
    BY <1>1 DEF BRK!Smaller
  <2>2. Beyond(t, failed)
    BY DEF BRK!Failures
  <2> HIDE DEF R, Beyond
  <2> QED
    BY <2>1, <2>2
<1>8. BRK!Accepted(t, d, o, failed) = BRK!Max(A) /\ BRK!Accepted(later, d, o, failed) = BRK!Max(B)
  BY <1>1 DEF BRK!Accepted
<1> HIDE DEF A, B
<1>9. BRK!Max(A) \in A /\ \A x \in A : x <= BRK!Max(A)
  <2>1. A \subseteq 0 .. n
    <3>1. 1 .. n \subseteq 0 .. n
      OBVIOUS
    <3> QED
      BY <1>5, <3>1
  <2>2. \E m \in A : \A x \in A : x <= m
    BY <1>7, <2>1, Greatest
  <2>3. A \subseteq Int
    BY <2>1
  <2>4. \E m \in A : \A x \in A : m >= x
    BY <2>2, <2>3
  <2> QED
    BY <2>3, <2>4 DEF BRK!Max
<1>10. BRK!Max(A) < n
  <2>1. PICK i : i \in BRK!Max(A) + 1 .. BRK!Smaller(n, BRK!Max(A) + 1 + Plans.breaker.retestWait)
    BY <1>8 DEF BRK!Retest
  <2>2. BRK!Max(A) \in 1 .. n /\ Plans.breaker.retestWait \in Nat
    BY <1>5, <1>9, WaitsAre
  <2> HIDE DEF A
  <2> QED
    BY <2>1, <2>2 DEF BRK!Smaller
<1>11. n + 1 \notin B
  <2>1. BRK!Max(A) \in 1 .. n
    BY <1>5, <1>9
  <2> QED
    BY <1>6, <1>9, <1>10, <2>1
<1>12. B = A
  BY <1>5, <1>11
<1> QED
  BY <1>5, <1>8, <1>9, <1>12

\* The retest is the first candle that decides.
LEMMA BreakerRetestStays ==
  ASSUME NEW t \in Seq(CandleType), NEW later \in Seq(CandleType), Prefix(t, later), NEW d, NEW o,
         o.source \in 1 .. Len(t), NEW accepted \in 1 .. Len(t),
         NEW a \in BRK!Retest(t, d, o, accepted), NEW b \in BRK!Retest(later, d, o, accepted)
  PROVE  b = a /\ a \in 1 .. Len(t)
<1> PICK n \in Nat : n = Len(t)
  BY CandlesAre
<1>1. /\ Len(later) = n + 1 /\ (\A m \in 1 .. n : later[m] = t[m]) /\ Plans.breaker.retestWait \in Nat
      /\ o.source \in 1 .. n /\ accepted \in 1 .. n
  BY WaitsAre DEF Prefix
<1> DEFINE R(m) == accepted + 1 .. BRK!Smaller(m, accepted + 1 + Plans.breaker.retestWait)
           Does(u, m) == \/ BRK!Cl(d, u[m]) < BRK!ZoneLo(u, d, o)
                         \/ BRK!Lo(d, u[m]) <= BRK!ZoneHi(u, d, o) /\ BRK!Hi(d, u[m]) >= BRK!ZoneLo(u, d, o)
           A == {m \in R(n) : Does(t, m)}
           B == {m \in R(n + 1) : Does(later, m)}
<1>2. A \subseteq 1 .. n /\ A \subseteq B /\ B \subseteq A \cup {n + 1}
  <2>1. R(n) \subseteq 1 .. n /\ R(n) \subseteq R(n + 1) /\ R(n + 1) \subseteq R(n) \cup {n + 1}
    <3>1. accepted + 1 \in Nat \ {0} /\ accepted + 1 + Plans.breaker.retestWait \in Int
      BY <1>1
    <3> QED
      BY <3>1, BreakerWindow
  <2>2. \A m \in 1 .. n : Does(later, m) <=> Does(t, m)
    BY <1>1 DEF BRK!ZoneLo, BRK!ZoneHi
  <2> HIDE DEF R, Does
  <2> QED
    BY <2>1, <2>2
<1>3. A # {} /\ a = BRK!Min(A)
  BY DEF BRK!Retest
<1>4. b = BRK!Min(B)
  BY <1>1 DEF BRK!Retest
<1> HIDE DEF A, B
<1>5. Min(B) = Min(A) /\ Min(A) \in A
  BY <1>2, <1>3, LeastStays
<1> QED
  BY <1>2, <1>3, <1>4, <1>5, SameLeast

\* The reaction is the first of its window.
LEMMA ReactionStays ==
  ASSUME NEW t \in Seq(CandleType), NEW later \in Seq(CandleType), Prefix(t, later), NEW d, NEW o,
         o.source \in 1 .. Len(t), NEW retest \in 1 .. Len(t), BRK!Reactions(t, d, o, retest) # {}
  PROVE  /\ Min(BRK!Reactions(later, d, o, retest)) = Min(BRK!Reactions(t, d, o, retest))
         /\ Min(BRK!Reactions(t, d, o, retest)) \in 1 .. Len(t)
<1> PICK n \in Nat : n = Len(t)
  BY CandlesAre
<1>1. /\ Len(later) = n + 1 /\ (\A m \in 1 .. n : later[m] = t[m]) /\ Plans.breaker.reactionWait \in Nat
      /\ o.source \in 1 .. n /\ retest \in 1 .. n
  BY WaitsAre DEF Prefix
<1> DEFINE R(m) == retest .. BRK!Smaller(m, retest + Plans.breaker.reactionWait)
           Does(u, m) == BRK!With(d, u[m]) /\ 2 * BRK!Cl(d, u[m]) > BRK!Mean2(u, d, o)
           A == {m \in R(n) : Does(t, m)}
           B == {m \in R(n + 1) : Does(later, m)}
<1>2. A \subseteq 1 .. n /\ A \subseteq B /\ B \subseteq A \cup {n + 1}
  <2>1. R(n) \subseteq 1 .. n /\ R(n) \subseteq R(n + 1) /\ R(n + 1) \subseteq R(n) \cup {n + 1}
    <3>1. retest \in Nat \ {0} /\ retest + Plans.breaker.reactionWait \in Int
      BY <1>1
    <3> QED
      BY <3>1, BreakerWindow
  <2>2. \A m \in 1 .. n : Does(later, m) <=> Does(t, m)
    BY <1>1 DEF BRK!ZoneLo, BRK!ZoneHi, BRK!Mean2
  <2> HIDE DEF R, Does
  <2> QED
    BY <2>1, <2>2
<1>3. BRK!Reactions(t, d, o, retest) = A /\ BRK!Reactions(later, d, o, retest) = B
  BY <1>1 DEF BRK!Reactions
<1> HIDE DEF A, B
<1>4. Min(B) = Min(A) /\ Min(A) \in A
  BY <1>2, <1>3, LeastStays
<1> QED
  BY <1>2, <1>3, <1>4

\* So a source, whose block has one direction, has one entry for good.
LEMMA BreakerTradeStays ==
  ASSUME NEW t \in Seq(CandleType), NEW later \in Seq(CandleType), Prefix(t, later)
  PROVE  BRK!EntryStays(t, later)
<1> SUFFICES ASSUME NEW s \in BRK!Signal(t), NEW x \in BRK!Signal(later), x.block.source = s.block.source
             PROVE  x.at = s.at /\ x.entry = s.entry
  BY DEF BRK!EntryStays
<1> PICK d : d = s.dir
  OBVIOUS
<1> PICK o : o = s.block
  OBVIOUS
<1>1. /\ d \in Directions /\ o \in BRK!Blocks(t, -d) /\ BRK!Failures(t, d, o) # {}
      /\ s.failed = Min(BRK!Failures(t, d, o))
      /\ s.retest \in BRK!Retest(t, d, o, BRK!Accepted(t, d, o, s.failed))
      /\ BRK!Reactions(t, d, o, s.retest) # {}
      /\ s.at = Min(BRK!Reactions(t, d, o, s.retest)) /\ s.entry = BRK!Cl(d, t[s.at])
  BY BreakerPlanIs
<1>2. /\ o.source \in 1 .. Len(t) /\ o.from \in 1 .. Len(t) /\ BRK!Against(-d, t[o.source])
  BY <1>1, BlockIs
<1>3. later[o.source] = t[o.source] /\ CandleFields(t[o.source])
  BY <1>2, CandlesAre DEF Prefix
<1>4. x.dir \in Directions /\ x.block \in BRK!Blocks(later, -x.dir) /\ BRK!Against(-x.dir, t[o.source])
  <2>1. x.dir \in Directions /\ x.block \in BRK!Blocks(later, -x.dir)
    BY BreakerPlanIs
  <2>2. BRK!Against(-x.dir, later[x.block.source])
    BY <2>1, BlockIs
  <2> QED
    BY <1>3, <2>1, <2>2
<1>5. x.dir = d
  BY <1>1, <1>2, <1>3, <1>4 DEF Directions, CandleFields, BRK!Against, BRK!Cl, BRK!Op
<1>6. x.block = o
  BY <1>1, <1>4, <1>5, BlockStays
<1>7. /\ x.failed = Min(BRK!Failures(later, d, o))
      /\ x.retest \in BRK!Retest(later, d, o, BRK!Accepted(later, d, o, x.failed))
      /\ x.at = Min(BRK!Reactions(later, d, o, x.retest)) /\ x.entry = BRK!Cl(d, later[x.at])
  BY <1>5, <1>6, BreakerPlanIs
<1>8. x.failed = s.failed /\ s.failed \in BRK!Failures(t, d, o) /\ s.failed \in 1 .. Len(t)
  BY <1>1, <1>2, <1>7, BlockFailureStays
<1>9. /\ BRK!Accepted(later, d, o, s.failed) = BRK!Accepted(t, d, o, s.failed)
      /\ BRK!Accepted(t, d, o, s.failed) \in 1 .. Len(t)
  <2>1. BRK!Retest(t, d, o, BRK!Accepted(t, d, o, s.failed)) # {}
    BY <1>1
  <2> QED
    BY <1>2, <1>8, <2>1, AcceptanceStays
<1>10. x.retest = s.retest /\ s.retest \in 1 .. Len(t)
  BY <1>1, <1>2, <1>7, <1>8, <1>9, BreakerRetestStays
<1>11. x.at = s.at /\ s.at \in 1 .. Len(t)
  BY <1>1, <1>2, <1>7, <1>10, ReactionStays
<1>12. later[s.at] = t[s.at]
  BY <1>11 DEF Prefix
<1> QED
  BY <1>1, <1>7, <1>11, <1>12

-------------------------------------------------------------------------------
(* htf_poi_ltf_confirmation.py *)

\* The least and the smaller of the instance are those of this module.
LEMMA ZoneWindow ==
  /\ \A S : HPL!Min(S) = Min(S)
  /\ \A x, y : HPL!Smaller(x, y) = Smaller(x, y) /\ HPL!Larger(x, y) = Larger(x, y)
BY DEF HPL!Min, Min, HPL!Smaller, Smaller, HPL!Larger, Larger

\* The mean range of the strategy is a whole number.
LEMMA ZoneMeanIsWhole == ASSUME NEW t \in Seq(CandleType), t # <<>> PROVE HPL!AtrOf(t) \in Int
<1>1. HPL!AtrOf(t) = MeanRange(t, Len(t), 5)
  BY DEF HPL!AtrOf, HPL!AtrPeriod, MeanRange, HPL!MeanRange, MapThenSumSet, MapThenFoldSet, HPL!MapThenSumSet,
    HPL!MapThenFoldSet, Size, HPL!Size, Larger, HPL!Larger, Cardinality, HPL!Cardinality
<1>2. Len(t) \in 1 .. Len(t)
  BY CandlesAre
<1> QED
  BY <1>1, <1>2, MeanIsWhole

\* A sweep has one quality, a whole number: the order of the sweeps is total, the best is one.
LEMMA SweepQualityIsWhole ==
  ASSUME NEW t \in Seq(CandleType), NEW poi, poi.dir \in Directions, NEW e \in HPL!Sweeps(t, poi)
  PROVE  HPL!SweepQuality(t, poi.dir, e) \in Int /\ e.at \in 1 .. Len(t) /\ e.pool \in Nat
<1> PICK d \in Directions : d = poi.dir
  OBVIOUS
<1>1. e \in [pool : DOMAIN Plans.zone.pools, at : DOMAIN t]
  BY DEF HPL!Sweeps
<1>2. e.at \in 1 .. Len(t) /\ e.pool \in 1 .. Len(Plans.zone.pools)
  <2>1. DOMAIN t = 1 .. Len(t)
    OBVIOUS
  <2>2. DOMAIN Plans.zone.pools = 1 .. Len(Plans.zone.pools)
    BY PlansAssumption
  <2> QED
    BY <1>1, <2>1, <2>2
<1>3. CandleFields(t[e.at]) /\ t # <<>>
  BY <1>2, CandlesAre
<1>4. Plans.zone.pools[e.pool] \in [side : Directions, lo : Int, hi : Int]
  BY <1>2, PlansAssumption, ItemsAre
<1> DEFINE depth == HPL!PoolLo(d, Plans.zone.pools[e.pool]) - HPL!Lo(d, t[e.at])
<1>5. depth \in Int
  <2>1. HPL!Lo(d, t[e.at]) \in Int
    BY <1>3 DEF HPL!Lo, CandleFields
  <2>2. HPL!PoolLo(d, Plans.zone.pools[e.pool]) \in Int
    BY <1>4 DEF HPL!PoolLo
  <2> QED
    BY <2>1, <2>2
<1>6. HPL!Larger(1, HPL!AtrOf(t)) \in Nat \ {0} /\ HPL!Larger(1, HPL!Size(t[e.at])) \in Nat \ {0}
      /\ HPL!Body(t[e.at]) \in Int
  <2>1. HPL!Size(t[e.at]) \in Int
    BY <1>3 DEF HPL!Size, CandleFields
  <2>2. HPL!AtrOf(t) \in Int
    BY <1>3, ZoneMeanIsWhole
  <2>3. \A x \in Int : HPL!Larger(1, x) \in Nat \ {0}
    BY DEF HPL!Larger
  <2>4. HPL!Body(t[e.at]) \in Int
    BY <1>3 DEF HPL!Body, HPL!Abs, CandleFields
  <2> QED
    BY <2>1, <2>2, <2>3, <2>4
<1> PICK a \in Nat \ {0} : a = HPL!Larger(1, HPL!AtrOf(t))
  BY <1>6
<1> PICK b \in Nat \ {0} : b = HPL!Larger(1, HPL!Size(t[e.at]))
  BY <1>6
<1> PICK c \in Int : c = HPL!Body(t[e.at])
  BY <1>6
<1>7. HPL!SweepQuality(t, d, e) = HPL!Clamp(680 + HPL!Smaller(200, (100 * depth) \div a) + (100 * c) \div b, 0, 1000)
  BY DEF HPL!SweepQuality
<1> HIDE DEF depth
<1>8. 100 * depth \in Int /\ 100 * c \in Int
  BY <1>5
<1>9. \A x \in Int, y \in Nat \ {0} : x \div y \in Int
  OBVIOUS
<1>10. \A x, y \in Int : HPL!Clamp(680 + HPL!Smaller(200, x) + y, 0, 1000) \in Int
  BY DEF HPL!Clamp, HPL!Larger, HPL!Smaller
<1>11. (100 * depth) \div a \in Int /\ (100 * c) \div b \in Int
  BY <1>8, <1>9
<1>12. e.pool \in Nat
  <2>1. Len(Plans.zone.pools) \in Nat
    BY PlansAssumption
  <2> QED
    BY <1>2, <2>1
<1>13. HPL!SweepQuality(t, d, e) \in Int
  BY <1>7, <1>10, <1>11
<1> QED
  BY <1>2, <1>12, <1>13

\* ... so there is one best sweep at most,
LEMMA OneSweep ==
  ASSUME NEW t \in Seq(CandleType), NEW poi, poi.dir \in Directions,
         NEW e \in HPL!Sweep(t, poi), NEW y \in HPL!Sweep(t, poi)
  PROVE  e = y /\ e.at \in 1 .. Len(t)
<1> DEFINE Q(w) == HPL!SweepQuality(t, poi.dir, w)
<1>1. e \in HPL!Sweeps(t, poi) /\ y \in HPL!Sweeps(t, poi)
  BY DEF HPL!Sweep
<1>2. Q(e) \in Int /\ e.at \in 1 .. Len(t) /\ e.pool \in Nat /\ Q(y) \in Int /\ y.at \in 1 .. Len(t) /\ y.pool \in Nat
  BY <1>1, SweepQualityIsWhole
<1>3. e # y => /\ Q(e) > Q(y) \/ (Q(e) = Q(y) /\ e.at > y.at) \/ (Q(e) = Q(y) /\ e.at = y.at /\ e.pool < y.pool)
               /\ Q(y) > Q(e) \/ (Q(y) = Q(e) /\ y.at > e.at) \/ (Q(y) = Q(e) /\ y.at = e.at /\ y.pool < e.pool)
  BY <1>1 DEF HPL!Sweep
<1>4. Len(t) \in Nat
  OBVIOUS
<1> HIDE DEF Q
<1> QED
  BY <1>2, <1>3, <1>4

\* one shift after it, as two swings of a side are of two candles,
LEMMA OneShift ==
  ASSUME NEW t \in Seq(CandleType), NEW d, NEW sweep \in Nat,
         NEW i \in HPL!Shift(t, d, sweep), NEW j \in HPL!Shift(t, d, sweep)
  PROVE  i = j /\ i \in 1 .. Len(t)
<1> DEFINE levels == HPL!SwingLevels(Plans.zone.swings, d, t)
           broken == {s \in levels : s.at \in sweep + 1 .. sweep + Plans.zone.mssWait /\ HPL!Breaking(t, d, sweep, s) # {}}
           first == {x \in broken : \A y \in broken : x.at <= y.at}
<1>1. HPL!Shift(t, d, sweep) = {HPL!Min(HPL!Breaking(t, d, sweep, s)) : s \in first}
  BY DEF HPL!Shift
<1>2. \A x, y \in levels : x.at = y.at => x = y
  <2>1. CASE Plans.zone.swings = {}
    BY <2>1 DEF HPL!SwingLevels
  <2>2. CASE Plans.zone.swings # {}
    <3>1. levels = {[at |-> s.at, price |-> d * s.price] : s \in {x \in Plans.zone.swings : x.kind = d}}
      BY <2>2 DEF HPL!SwingLevels
    <3> HIDE DEF levels
    <3> QED
      BY <3>1, PlansAssumption
  <2> QED
    BY <2>1, <2>2
<1> HIDE DEF levels
<1>3. \A x \in broken : x \in levels /\ x.at \in Nat /\ HPL!Breaking(t, d, sweep, x) # {}
  <2>1. Plans.zone.mssWait \in Nat
    BY WaitsAre
  <2> QED
    BY <2>1
<1>4. \A x, y \in first : x = y
  <2> HIDE DEF broken
  <2>1. \A x, y \in first : x \in broken /\ y \in broken /\ x.at <= y.at /\ y.at <= x.at
    OBVIOUS
  <2>2. \A x, y \in first : x.at = y.at
    BY <1>3, <2>1
  <2> QED
    BY <1>2, <1>3, <2>1, <2>2
<1>5. ASSUME NEW x \in first PROVE HPL!Min(HPL!Breaking(t, d, sweep, x)) \in 1 .. Len(t)
  <2>1. x \in broken
    OBVIOUS
  <2> DEFINE S == HPL!Breaking(t, d, sweep, x)
  <2>2. S # {} /\ S \subseteq 1 .. Len(t)
    <3>1. x.at \in Nat /\ S # {}
      BY <1>3, <2>1
    <3>2. S \subseteq x.at + 1 .. HPL!Smaller(Len(t), sweep + Plans.zone.mssWait)
      BY DEF HPL!Breaking
    <3>3. x.at + 1 .. HPL!Smaller(Len(t), sweep + Plans.zone.mssWait) \subseteq 1 .. Len(t)
      <4>1. x.at + 1 \in Nat \ {0} /\ sweep + Plans.zone.mssWait \in Int /\ Len(t) \in Nat
        <5>1. Plans.zone.mssWait \in Nat
          BY WaitsAre
        <5> QED
          BY <3>1, <5>1
      <4> QED
        BY <4>1, FoundWindow, ZoneWindow
    <3> QED
      BY <3>1, <3>2, <3>3
  <2> HIDE DEF S
  <2>3. OBR!Min(S) \in S
    <3>1. S \subseteq Nat
      BY <2>2
    <3> QED
      BY <2>2, <3>1, FirstIsIn
  <2>4. HPL!Min(S) = OBR!Min(S)
    BY DEF HPL!Min, OBR!Min
  <2> QED
    BY <2>2, <2>3, <2>4 DEF S
<1> HIDE DEF first
<1> QED
  BY <1>1, <1>4, <1>5

\* and one displacement.
LEMMA OneDisplacement ==
  ASSUME NEW t \in Seq(CandleType), NEW d, NEW from \in 1 .. Len(t),
         NEW i \in HPL!Displacement(t, d, from), NEW j \in HPL!Displacement(t, d, from)
  PROVE  i = j /\ i \in 1 .. Len(t)
<1>1. from .. HPL!Smaller(Len(t), from + Plans.zone.displacementWait) \subseteq 1 .. Len(t)
  <2>1. from \in Nat \ {0} /\ from + Plans.zone.displacementWait \in Int /\ Len(t) \in Nat
    <3>1. Plans.zone.displacementWait \in Nat
      BY WaitsAre
    <3> QED
      BY <3>1
  <2> QED
    BY <2>1, FoundWindow, ZoneWindow
<1>2. i \in 1 .. Len(t) /\ j \in 1 .. Len(t) /\ i <= j /\ j <= i
  BY <1>1 DEF HPL!Displacement, HPL!Earliest
<1> QED
  BY <1>2

\* What a zone has come to starts from one sweep, one shift and one displacement.
LEMMA SetupIs ==
  ASSUME NEW t \in Seq(CandleType), NEW s \in HPL!Signal(t)
  PROVE  /\ s.poi.dir \in Directions
         /\ s.entry = UNION {HPL!Entry(t, s.poi, i) : i \in s.disp} /\ s.entry # {}
         /\ s.retest = UNION {HPL!Retest(t, s.poi.dir, z) : z \in s.entry}
         /\ s.disp \subseteq 1 .. Len(t) /\ \A i, j \in s.disp : i = j
<1>1. PICK poi \in HPL!Pois : s = HPL!Setup(t, poi) /\ HPL!Tradeable(t, s)
  BY DEF HPL!Signal
<1>2. poi.dir \in Directions
  <2>1. PICK d \in Directions : poi \in HPL!HtfGaps(d) \cup HPL!HtfDepartures(d)
    BY DEF HPL!Pois, HPL!Directions, Directions
  <2>2. poi.dir = d
    BY <2>1 DEF HPL!HtfGaps, HPL!HtfDepartures
  <2> QED
    BY <2>2
<1> DEFINE sweep == HPL!Sweep(t, poi)
           shift == UNION {HPL!Shift(t, poi.dir, e.at) : e \in sweep}
           disp == UNION {HPL!Displacement(t, poi.dir, i) : i \in shift}
           entry == UNION {HPL!Entry(t, poi, i) : i \in disp}
<1>3. /\ s.poi = poi /\ s.disp = disp /\ s.entry = entry
      /\ s.retest = UNION {HPL!Retest(t, poi.dir, z) : z \in entry}
      /\ s.target = UNION {HPL!Target(poi.dir, z.lo + z.hi) : z \in entry}
  BY <1>1, Zenon DEF HPL!Setup
<1>4. s.target # {}
  BY <1>1 DEF HPL!Tradeable
<1>5. \A i, j \in shift : i = j /\ i \in 1 .. Len(t)
  <2> TAKE i, j \in shift
  <2>1. PICK e \in sweep : i \in HPL!Shift(t, poi.dir, e.at)
    OBVIOUS
  <2>2. PICK y \in sweep : j \in HPL!Shift(t, poi.dir, y.at)
    OBVIOUS
  <2>3. e = y /\ e.at \in 1 .. Len(t)
    BY <1>2, OneSweep
  <2>4. e.at \in Nat
    BY <2>3
  <2> QED
    BY <2>1, <2>2, <2>3, <2>4, OneShift
<1> HIDE DEF shift
<1>6. \A i, j \in disp : i = j /\ i \in 1 .. Len(t)
  <2> TAKE i, j \in disp
  <2>1. PICK a \in shift : i \in HPL!Displacement(t, poi.dir, a)
    OBVIOUS
  <2>2. PICK b \in shift : j \in HPL!Displacement(t, poi.dir, b)
    OBVIOUS
  <2>3. a = b /\ a \in 1 .. Len(t)
    BY <1>5
  <2> QED
    BY <2>1, <2>2, <2>3, OneDisplacement
<1> HIDE DEF disp, entry
<1>7. s.entry # {}
  BY <1>3, <1>4
<1> QED
  BY <1>2, <1>3, <1>6, <1>7 DEF entry

\* The zones to enter from are still there one candle later.
LEMMA EntryZonesStay ==
  ASSUME NEW t \in Seq(CandleType), NEW later \in Seq(CandleType), Prefix(t, later), NEW d, NEW disp \in 1 .. Len(t)
  PROVE  /\ HPL!EntryZones(t, d, disp) \subseteq HPL!EntryZones(later, d, disp)
         /\ \A z \in HPL!EntryZones(t, d, disp) : z.at \in 1 .. Len(t)
<1> PICK n \in Nat : n = Len(t)
  BY CandlesAre
<1>1. /\ Len(later) = n + 1 /\ (\A m \in 1 .. n : later[m] = t[m]) /\ Plans.zone.entryScan \in Nat /\ disp \in 1 .. n
  BY WaitsAre DEF Prefix
<1> DEFINE R(m) == HPL!Larger(3, disp) .. HPL!Smaller(m, disp + Plans.zone.entryScan)
           Gaps(u, m) == {i \in R(m) : HPL!Hi(d, u[i - 2]) < HPL!Lo(d, u[i])}
           Block(u) == {i \in 1 .. disp - 1 : HPL!Against(d, u[i]) /\ \A j \in i + 1 .. disp - 1 : ~HPL!Against(d, u[j])}
           GapZones(u, m) == {[kind |-> "fvg", at |-> i, lo |-> HPL!Hi(d, u[i - 2]), hi |-> HPL!Lo(d, u[i])] : i \in Gaps(u, m)}
           BlockZones(u) == {[kind |-> "block", at |-> i, lo |-> HPL!Lo(d, u[i]), hi |-> HPL!Hi(d, u[i])] : i \in Block(u)}
<1>2. /\ HPL!EntryZones(t, d, disp) = {z \in GapZones(t, n) \cup BlockZones(t) : z.hi - z.lo \in 1 .. Plans.zone.maxEntryWidth}
      /\ HPL!EntryZones(later, d, disp)
           = {z \in GapZones(later, n + 1) \cup BlockZones(later) : z.hi - z.lo \in 1 .. Plans.zone.maxEntryWidth}
  BY <1>1 DEF HPL!EntryZones
<1>3. R(n) \subseteq 3 .. n /\ R(n) \subseteq R(n + 1)
  <2>1. HPL!Larger(3, disp) \in Nat \ {0} /\ HPL!Larger(3, disp) >= 3 /\ disp + Plans.zone.entryScan \in Int
    BY <1>1 DEF HPL!Larger
  <2>2. R(n) \subseteq 1 .. n /\ R(n) \subseteq R(n + 1)
    BY <2>1, FoundWindow, ZoneWindow
  <2>3. \A m \in R(n) : m >= 3
    BY <2>1
  <2> HIDE DEF R
  <2> QED
    BY <2>2, <2>3
<1> HIDE DEF R
<1>4. \A i \in 3 .. n : later[i] = t[i] /\ later[i - 2] = t[i - 2] /\ i \in 1 .. n
  BY <1>1
<1>5. Gaps(t, n) \subseteq Gaps(later, n + 1) /\ Gaps(t, n) \subseteq 3 .. n
  BY <1>3, <1>4
<1>6. Block(later) = Block(t) /\ Block(t) \subseteq 1 .. n
  <2>1. \A i \in 1 .. disp - 1 : i \in 1 .. n /\ later[i] = t[i] /\ \A j \in i + 1 .. disp - 1 : later[j] = t[j]
    BY <1>1
  <2> QED
    BY <2>1
<1> HIDE DEF Gaps, Block
<1>7. GapZones(t, n) \subseteq GapZones(later, n + 1)
  BY <1>4, <1>5
<1>8. BlockZones(later) = BlockZones(t)
  BY <1>1, <1>6
<1>9. \A z \in GapZones(t, n) \cup BlockZones(t) : z.at \in 1 .. n
  BY <1>4, <1>5, <1>6
<1> HIDE DEF GapZones, BlockZones
<1> QED
  BY <1>2, <1>7, <1>8, <1>9

\* The retest of one is the first touch.
LEMMA ZoneRetestStays ==
  ASSUME NEW t \in Seq(CandleType), NEW later \in Seq(CandleType), Prefix(t, later), NEW d, NEW z, z.at \in 1 .. Len(t),
         HPL!Retest(t, d, z) # {}
  PROVE  HPL!Retest(later, d, z) = HPL!Retest(t, d, z) /\ HPL!Retest(t, d, z) \subseteq 1 .. Len(t)
<1> PICK n \in Nat : n = Len(t)
  BY CandlesAre
<1>1. Len(later) = n + 1 /\ (\A m \in 1 .. n : later[m] = t[m]) /\ z.at \in 1 .. n
  BY DEF Prefix
<1> DEFINE A == {i \in z.at + 1 .. n : HPL!Touches(d, t[i], z)}
           B == {i \in z.at + 1 .. n + 1 : HPL!Touches(d, later[i], z)}
<1>2. A \subseteq 1 .. n /\ A \subseteq B /\ B \subseteq A \cup {n + 1}
  <2>1. /\ z.at + 1 .. n \subseteq 1 .. n /\ z.at + 1 .. n \subseteq z.at + 1 .. n + 1
        /\ z.at + 1 .. n + 1 \subseteq (z.at + 1 .. n) \cup {n + 1}
    BY <1>1
  <2> QED
    BY <1>1, <2>1
<1>3. /\ HPL!Retest(t, d, z) = {i \in A : \A j \in A : i <= j}
      /\ HPL!Retest(later, d, z) = {i \in B : \A j \in B : i <= j}
  BY <1>1 DEF HPL!Retest, HPL!Earliest
<1> HIDE DEF A, B
<1>4. A # {}
  BY <1>3
<1> QED
  BY <1>2, <1>3, <1>4, FoundStays

\* A zone only gains: its retest and the reaction stay.
LEMMA EntryQualityGrows ==
  ASSUME NEW t \in Seq(CandleType), NEW later \in Seq(CandleType), Prefix(t, later), NEW poi, NEW z, z.at \in 1 .. Len(t)
  PROVE  HPL!EntryQuality(later, poi, z) >= HPL!EntryQuality(t, poi, z)
<1> DEFINE a == z.lo <= poi.hi /\ z.hi >= poi.lo
           b(u) == HPL!Retest(u, poi.dir, z) # {}
           c(u) == HPL!Reacts(u, poi.dir, z)
<1>1. \A u : HPL!EntryQuality(u, poi, z) = 700 + HPL!If(a, 100) + HPL!If(b(u), 80) + HPL!If(c(u), 70)
  BY DEF HPL!EntryQuality
<1>2. b(t) => b(later)
  BY ZoneRetestStays
<1>3. c(t) => c(later)
  <2> SUFFICES ASSUME c(t) PROVE c(later)
    OBVIOUS
  <2>1. PICK i \in HPL!Retest(t, poi.dir, z) : 2 * HPL!Cl(poi.dir, t[i]) > z.lo + z.hi
    BY DEF HPL!Reacts
  <2>2. HPL!Retest(later, poi.dir, z) = HPL!Retest(t, poi.dir, z) /\ i \in 1 .. Len(t)
    BY ZoneRetestStays
  <2>3. later[i] = t[i]
    BY <2>2 DEF Prefix
  <2> QED
    BY <2>1, <2>2, <2>3 DEF HPL!Reacts
<1> HIDE DEF a, b, c
<1>4. \A p : HPL!If(p, 100) \in Int /\ HPL!If(p, 80) \in {0, 80} /\ HPL!If(p, 70) \in {0, 70}
  BY DEF HPL!If
<1>5. HPL!If(b(later), 80) >= HPL!If(b(t), 80) /\ HPL!If(c(later), 70) >= HPL!If(c(t), 70)
  BY <1>2, <1>3 DEF HPL!If
<1> PICK p \in Int : p = HPL!If(a, 100)
  BY <1>4
<1> QED
  BY <1>1, <1>4, <1>5

\* A quality is a whole number.
LEMMA QualityIsWhole == \A u, poi, z : HPL!EntryQuality(u, poi, z) \in Int
<1>1. \A p : HPL!If(p, 100) \in Int /\ HPL!If(p, 80) \in Int /\ HPL!If(p, 70) \in Int
  BY DEF HPL!If
<1> QED
  BY <1>1 DEF HPL!EntryQuality

\* The best zone is at least as good as the one it replaces was.
LEMMA ZoneEntryOnlyImproves ==
  ASSUME NEW t \in Seq(CandleType), NEW later \in Seq(CandleType), Prefix(t, later)
  PROVE  HPL!EntryOnlyImproves(t, later)
<1> SUFFICES ASSUME NEW s \in HPL!Signal(t), NEW x \in HPL!Signal(later), x.poi = s.poi, x.disp = s.disp
             PROVE  /\ HPL!EntryQuality(later, x.poi, HPL!The(x.entry)) >= HPL!EntryQuality(t, s.poi, HPL!The(s.entry))
                    /\ x.entry = s.entry => s.retest \subseteq x.retest
  BY DEF HPL!EntryOnlyImproves
<1> PICK poi : poi = s.poi
  OBVIOUS
<1>1. /\ s.entry = UNION {HPL!Entry(t, poi, i) : i \in s.disp} /\ s.entry # {}
      /\ s.retest = UNION {HPL!Retest(t, poi.dir, z) : z \in s.entry}
      /\ s.disp \subseteq 1 .. Len(t) /\ \A i, j \in s.disp : i = j
  BY SetupIs
<1>2. /\ x.entry = UNION {HPL!Entry(later, poi, i) : i \in s.disp} /\ x.entry # {}
      /\ x.retest = UNION {HPL!Retest(later, poi.dir, z) : z \in x.entry}
  BY SetupIs
<1>3. PICK i \in s.disp : s.entry = HPL!Entry(t, poi, i) /\ x.entry = HPL!Entry(later, poi, i) /\ i \in 1 .. Len(t)
  BY <1>1, <1>2
<1>4. s.entry \subseteq HPL!EntryZones(t, poi.dir, i)
  BY <1>3 DEF HPL!Entry
<1>5. ASSUME NEW z \in s.entry PROVE z.at \in 1 .. Len(t) /\ z \in HPL!EntryZones(later, poi.dir, i)
  BY <1>3, <1>4, EntryZonesStay
<1> DEFINE z == HPL!The(s.entry)
           y == HPL!The(x.entry)
           Q(u, v) == HPL!EntryQuality(u, poi, v)
<1>6. z \in s.entry /\ y \in x.entry
  BY <1>1, <1>2 DEF HPL!The
<1> HIDE DEF z, y
<1>7. Q(later, y) >= Q(later, z)
  <2>1. y # z => Q(later, y) > Q(later, z) \/ Q(later, y) = Q(later, z)
    BY <1>3, <1>5, <1>6 DEF HPL!Entry
  <2>2. Q(later, y) \in Int /\ Q(later, z) \in Int
    BY QualityIsWhole
  <2> HIDE DEF Q
  <2> QED
    BY <2>1, <2>2
<1>8. Q(later, z) >= Q(t, z)
  BY <1>5, <1>6, EntryQualityGrows
<1>9. Q(later, y) >= Q(t, z)
  <2>1. Q(later, y) \in Int /\ Q(later, z) \in Int /\ Q(t, z) \in Int
    BY QualityIsWhole
  <2> HIDE DEF Q
  <2> QED
    BY <1>7, <1>8, <2>1
<1>10. ASSUME x.entry = s.entry PROVE s.retest \subseteq x.retest
  <2>1. \A v \in s.entry : HPL!Retest(t, poi.dir, v) \subseteq HPL!Retest(later, poi.dir, v)
    BY <1>5, ZoneRetestStays
  <2>2. x.retest = UNION {HPL!Retest(later, poi.dir, v) : v \in s.entry}
    BY <1>2, <1>10
  <2>3. s.retest = UNION {HPL!Retest(t, poi.dir, v) : v \in s.entry}
    BY <1>1
  <2> QED
    BY <2>1, <2>2, <2>3
<1> QED
  BY <1>9, <1>10 DEF z, y

-------------------------------------------------------------------------------
(* liquidity_to_liquidity.py *)

\* The image of a finite set is finite.
LEMMA ImageIsFinite ==
  ASSUME NEW S, IsFiniteSet(S), NEW f, NEW T, T \subseteq {f[x] : x \in S}
  PROVE  IsFiniteSet(T)
<1> DEFINE g == [x \in S |-> f[x]]
           image == {f[x] : x \in S}
<1>1. g \in Surjection(S, image)
  BY DEF Surjection
<1>2. IsFiniteSet(image)
  BY <1>1, FS_Surjection
<1> QED
  BY <1>2, FS_Subset

\* Some whole numbers, finitely many, have a least and a greatest one.
LEMMA FiniteHasEnds ==
  ASSUME NEW S, IsFiniteSet(S), S # {}, S \subseteq Int
  PROVE  (\E m \in S : \A x \in S : m <= x) /\ (\E m \in S : \A x \in S : x <= m)
<1>1. PICK n \in Nat : ExistsSurjection(1 .. n, S)
  BY FS_NatSurjection
<1>2. PICK f \in Surjection(1 .. n, S) : TRUE
  BY <1>1 DEF ExistsSurjection
<1>3. (\A i \in 1 .. n : f[i] \in S) /\ (\A x \in S : \E i \in 1 .. n : f[i] = x) /\ 1 .. n # {}
  BY <1>2 DEF Surjection
<1>4. \A i \in 1 .. n : f[i] \in Int
  BY <1>3
<1>5. PICK i \in 1 .. n : \A j \in 1 .. n : f[i] <= f[j]
  BY <1>3, <1>4, LeastOf
<1> DEFINE g == [j \in 1 .. n |-> -f[j]]
<1>6. \A j \in 1 .. n : g[j] \in Int /\ g[j] = -f[j]
  BY <1>4
<1> HIDE DEF g
<1>7. PICK k \in 1 .. n : \A j \in 1 .. n : g[k] <= g[j]
  BY <1>3, <1>6, LeastOf
<1>8. \A j \in 1 .. n : f[j] <= f[k]
  BY <1>4, <1>6, <1>7
<1> QED
  BY <1>3, <1>5, <1>8

Side(t, d) ==
  {[side |-> d, at |-> i, price2 |-> 2 * d * LTL!Hi(d, t[i]), tall2 |-> 0, quality |-> 650, equal |-> FALSE] :
     i \in LTL!SwingsOf(d, t)}
EqualOf(x) ==
  [side |-> x[1].side, at |-> x[2].at, price2 |-> (x[1].price2 + x[2].price2) \div 2,
   tall2 |-> 2 * Plans.path.equalTolerance, quality |-> 750, equal |-> TRUE]
PlaceOf(p) == 4 * p.at - p.side
Beside(among, p, q) ==
  PlaceOf(p) < PlaceOf(q) /\ \A x \in among : PlaceOf(x) <= PlaceOf(p) \/ PlaceOf(x) >= PlaceOf(q)
Levels(among) ==
  {x \in among \X among : /\ Beside(among, x[1], x[2]) /\ x[1].side = x[2].side
                          /\ LTL!Abs(x[1].price2 - x[2].price2) <= 2 * Plans.path.equalTolerance}

\* The pools of the swings by their side, and the equal ones as pairs of neighbours.
LEMMA PoolsAreSides ==
  /\ \A t : LTL!SwingPools(t) = Side(t, 1) \cup Side(t, -1)
  /\ \A t : LTL!EqualPools(t) = {EqualOf(x) : x \in Levels(LTL!SwingPools(t))}
<1>1. ASSUME NEW t PROVE LTL!SwingPools(t) = Side(t, 1) \cup Side(t, -1)
  BY DEF LTL!SwingPools, Side, LTL!Directions
<1>2. ASSUME NEW t PROVE LTL!EqualPools(t) = {EqualOf(x) : x \in Levels(LTL!SwingPools(t))}
  BY DEF LTL!EqualPools, EqualOf, Levels, Beside, PlaceOf
<1> QED
  BY <1>1, <1>2

\* A pool of a swing is what its candle and its side make it.
LEMMA SwingPoolsAre ==
  ASSUME NEW t \in Seq(CandleType), NEW p \in LTL!SwingPools(t)
  PROVE  /\ p.side \in Directions /\ p.at \in 2 .. Len(t) - 1 /\ ~p.equal /\ p.price2 \in Int
         /\ p = [side |-> p.side, at |-> p.at, price2 |-> 2 * p.side * LTL!Hi(p.side, t[p.at]), tall2 |-> 0,
                 quality |-> 650, equal |-> FALSE]
<1>1. PICK d \in Directions : p \in Side(t, d)
  BY PoolsAreSides DEF Directions
<1>2. PICK i \in LTL!SwingsOf(d, t) :
        p = [side |-> d, at |-> i, price2 |-> 2 * d * LTL!Hi(d, t[i]), tall2 |-> 0, quality |-> 650, equal |-> FALSE]
  BY <1>1 DEF Side
<1>3. i \in 2 .. Len(t) - 1
  BY DEF LTL!SwingsOf
<1>4. i \in 1 .. Len(t)
  BY <1>3
<1>5. LTL!Hi(d, t[i]) \in Int
  BY <1>4, CandlesAre DEF CandleFields, LTL!Hi
<1> PICK h \in Int : h = LTL!Hi(d, t[i])
  BY <1>5
<1>6. 2 * d * h \in Int
  BY DEF Directions
<1> QED
  BY <1>2, <1>3, <1>6

\* A new candle confirms a swing of the one before, and no other.
LEMMA SwingPoolsGrow ==
  ASSUME NEW t \in Seq(CandleType), NEW later \in Seq(CandleType), Prefix(t, later)
  PROVE  /\ LTL!SwingPools(t) \subseteq LTL!SwingPools(later)
         /\ \A p \in LTL!SwingPools(later) : p \notin LTL!SwingPools(t) => p.at = Len(t)
<1> PICK n \in Nat : n = Len(t)
  BY CandlesAre
<1>1. Len(later) = n + 1 /\ (\A m \in 1 .. n : later[m] = t[m])
  BY DEF Prefix
<1>2. ASSUME NEW d
      PROVE  /\ Side(t, d) \subseteq Side(later, d)
             /\ \A p \in Side(later, d) : p \in Side(t, d) \/ p.at = n
  <2> DEFINE Swing(u, i) == LTL!Hi(d, u[i]) > LTL!Hi(d, u[i - 1]) /\ LTL!Hi(d, u[i]) > LTL!Hi(d, u[i + 1])
             PoolAt(u, i) == [side |-> d, at |-> i, price2 |-> 2 * d * LTL!Hi(d, u[i]), tall2 |-> 0, quality |-> 650,
                              equal |-> FALSE]
  <2>1. \A i \in 2 .. n - 1 : later[i] = t[i] /\ later[i - 1] = t[i - 1] /\ later[i + 1] = t[i + 1]
    BY <1>1
  <2>2. /\ LTL!SwingsOf(d, t) = {i \in 2 .. n - 1 : Swing(t, i)}
        /\ LTL!SwingsOf(d, later) = {i \in 2 .. n : Swing(later, i)}
    BY <1>1 DEF LTL!SwingsOf
  <2>3. \A i \in 2 .. n - 1 : (Swing(later, i) <=> Swing(t, i)) /\ PoolAt(later, i) = PoolAt(t, i)
    BY <2>1
  <2>4. \A i \in 2 .. n : i \in 2 .. n - 1 \/ i = n
    OBVIOUS
  <2>5. 2 .. n - 1 \subseteq 2 .. n
    OBVIOUS
  <2>6. \A u : Side(u, d) = {PoolAt(u, i) : i \in LTL!SwingsOf(d, u)}
    BY DEF Side
  <2>7. \A u, i : PoolAt(u, i).at = i
    OBVIOUS
  <2> HIDE DEF Swing, PoolAt
  <2> QED
    BY <2>2, <2>3, <2>4, <2>5, <2>6, <2>7
<1>3. Side(t, 1) \subseteq Side(later, 1) /\ Side(t, -1) \subseteq Side(later, -1)
  BY <1>2
<1>4. \A p \in Side(later, 1) \cup Side(later, -1) : p \in Side(t, 1) \cup Side(t, -1) \/ p.at = n
  BY <1>2
<1> QED
  BY <1>3, <1>4, PoolsAreSides

\* Neighbours stay neighbours: a new swing comes after both.
LEMMA EqualPoolsGrow ==
  ASSUME NEW t \in Seq(CandleType), NEW later \in Seq(CandleType), Prefix(t, later)
  PROVE  LTL!EqualPools(t) \subseteq LTL!EqualPools(later)
<1> PICK n \in Nat : n = Len(t)
  BY CandlesAre
<1> PICK old : old = LTL!SwingPools(t)
  OBVIOUS
<1> PICK new : new = LTL!SwingPools(later)
  OBVIOUS
<1>1. old \subseteq new /\ \A p \in new : p \notin old => p.at = n
  BY SwingPoolsGrow
<1>2. /\ \A p \in old : p.side \in {1, -1} /\ p.at \in Int /\ p.at <= n - 1
      /\ \A p \in new : p.side \in {1, -1} /\ p.at \in Int
  <2>1. \A p \in old : p.side \in Directions /\ p.at \in 2 .. n - 1
    BY SwingPoolsAre
  <2>2. \A p \in new : p.side \in Directions /\ p.at \in 2 .. Len(later) - 1
    BY SwingPoolsAre
  <2> QED
    BY <2>1, <2>2 DEF Directions
<1>3. \A p \in old, q \in old : Beside(old, p, q) => Beside(new, p, q)
  <2> SUFFICES ASSUME NEW p \in old, NEW q \in old, Beside(old, p, q), NEW x \in new
               PROVE  PlaceOf(x) <= PlaceOf(p) \/ PlaceOf(x) >= PlaceOf(q)
    BY DEF Beside
  <2>1. CASE x \in old
    BY <2>1 DEF Beside
  <2>2. CASE x \notin old
    <3>1. x.at = n /\ x.side \in {1, -1} /\ q.side \in {1, -1} /\ q.at \in Int /\ q.at <= n - 1
      BY <1>1, <1>2, <2>2
    <3> QED
      BY <3>1 DEF PlaceOf
  <2> QED
    BY <2>1, <2>2
<1>4. Levels(old) \subseteq Levels(new)
  BY <1>1, <1>3 DEF Levels
<1> QED
  BY <1>4, PoolsAreSides

\* So a pool stays in the list.
LEMMA PoolsGrow ==
  ASSUME NEW t \in Seq(CandleType), NEW later \in Seq(CandleType), Prefix(t, later)
  PROVE  LTL!PoolsOf(t) \subseteq LTL!PoolsOf(later)
<1>1. LTL!SwingPools(t) \subseteq LTL!SwingPools(later) /\ LTL!EqualPools(t) \subseteq LTL!EqualPools(later)
  BY SwingPoolsGrow, EqualPoolsGrow
<1>2. Len(later) = Len(t) + 1 /\ Len(t) \in Nat
  BY DEF Prefix
<1>3. ~(Len(t) < LTL!MinCandles) => ~(Len(later) < LTL!MinCandles)
  BY <1>2 DEF LTL!MinCandles
<1> QED
  BY <1>1, <1>3 DEF LTL!PoolsOf

\* The prices of the pools are whole numbers, finitely many.
LEMMA PricesAreFinite ==
  ASSUME NEW t \in Seq(CandleType)
  PROVE  IsFiniteSet({p.price2 : p \in LTL!PoolsOf(t)}) /\ \A p \in LTL!PoolsOf(t) : p.price2 \in Int
<1> PICK n \in Nat : n = Len(t)
  BY CandlesAre
<1>1. ASSUME NEW d PROVE IsFiniteSet(Side(t, d))
  <2>1. IsFiniteSet(LTL!SwingsOf(d, t))
    <3>1. LTL!SwingsOf(d, t) \in SUBSET (2 .. n - 1)
      BY DEF LTL!SwingsOf
    <3>2. IsFiniteSet(2 .. n - 1)
      BY FS_Interval
    <3> QED
      BY <3>1, <3>2, FS_Subset
  <2> DEFINE PoolAt(i) == [side |-> d, at |-> i, price2 |-> 2 * d * LTL!Hi(d, t[i]), tall2 |-> 0, quality |-> 650,
                           equal |-> FALSE]
             f == [i \in LTL!SwingsOf(d, t) |-> PoolAt(i)]
  <2>2. Side(t, d) = {PoolAt(i) : i \in LTL!SwingsOf(d, t)}
    BY DEF Side
  <2>3. \A i \in LTL!SwingsOf(d, t) : f[i] = PoolAt(i)
    OBVIOUS
  <2> HIDE DEF f, PoolAt
  <2>4. Side(t, d) = {f[i] : i \in LTL!SwingsOf(d, t)}
    BY <2>2, <2>3
  <2> QED
    BY <2>1, <2>4, ImageIsFinite
<1> PICK swings : swings = LTL!SwingPools(t)
  OBVIOUS
<1>2. IsFiniteSet(swings)
  BY <1>1, PoolsAreSides, FS_Union
<1>3. IsFiniteSet(LTL!EqualPools(t))
  <2>1. IsFiniteSet(swings \X swings)
    BY <1>2, FS_Product
  <2>2. Levels(swings) \in SUBSET (swings \X swings)
    BY DEF Levels
  <2>3. IsFiniteSet(Levels(swings))
    BY <2>1, <2>2, FS_Subset
  <2> DEFINE f == [x \in Levels(swings) |-> EqualOf(x)]
  <2>4. LTL!EqualPools(t) = {f[x] : x \in Levels(swings)}
    <3>1. \A x \in Levels(swings) : f[x] = EqualOf(x)
      OBVIOUS
    <3> HIDE DEF f
    <3> QED
      BY <3>1, PoolsAreSides
  <2> HIDE DEF f
  <2> QED
    BY <2>3, <2>4, ImageIsFinite
<1>4. IsFiniteSet(LTL!PoolsOf(t))
  <2>1. IsFiniteSet(LTL!SwingPools(t) \cup LTL!EqualPools(t))
    BY <1>2, <1>3, FS_Union
  <2>2. CASE Len(t) < LTL!MinCandles
    BY <2>2, FS_EmptySet DEF LTL!PoolsOf
  <2>3. CASE ~(Len(t) < LTL!MinCandles)
    BY <2>1, <2>3 DEF LTL!PoolsOf
  <2> QED
    BY <2>2, <2>3
<1> DEFINE price == [p \in LTL!PoolsOf(t) |-> p.price2]
<1>5. {p.price2 : p \in LTL!PoolsOf(t)} = {price[p] : p \in LTL!PoolsOf(t)}
  OBVIOUS
<1> HIDE DEF price
<1>6. IsFiniteSet({p.price2 : p \in LTL!PoolsOf(t)})
  <2> PICK P : P = LTL!PoolsOf(t)
    OBVIOUS
  <2> DEFINE T == {p.price2 : p \in LTL!PoolsOf(t)}
  <2>1. IsFiniteSet(P) /\ T \subseteq {price[p] : p \in P}
    BY <1>4, <1>5
  <2> HIDE DEF T
  <2>2. IsFiniteSet(T)
    BY <2>1, ImageIsFinite
  <2> QED
    BY <2>2 DEF T
<1>7. \A p \in swings : p.price2 \in Int
  BY SwingPoolsAre
<1>8. \A p \in LTL!EqualPools(t) : p.price2 \in Int
  <2> TAKE p \in LTL!EqualPools(t)
  <2>1. PICK x \in Levels(swings) : p = EqualOf(x)
    BY PoolsAreSides
  <2>2. x[1].price2 \in Int /\ x[2].price2 \in Int
    BY <1>7 DEF Levels
  <2>3. (x[1].price2 + x[2].price2) \div 2 \in Int
    BY <2>2
  <2> QED
    BY <2>1, <2>3 DEF EqualOf
<1> QED
  BY <1>6, <1>7, <1>8 DEF LTL!PoolsOf

\* A pool within the range of some pools is within that of more of them.
LEMMA InsideStays ==
  ASSUME NEW t \in Seq(CandleType), NEW later \in Seq(CandleType), Prefix(t, later),
         NEW p \in LTL!PoolsOf(t), ~LTL!External(LTL!PoolsOf(t), p)
  PROVE  ~LTL!External(LTL!PoolsOf(later), p)
<1> DEFINE old == {x.price2 : x \in LTL!PoolsOf(t)}
           new == {x.price2 : x \in LTL!PoolsOf(later)}
<1>1. p.price2 \in old /\ old \subseteq new
  BY PoolsGrow
<1>2. IsFiniteSet(old) /\ old \subseteq Int /\ IsFiniteSet(new) /\ new \subseteq Int
  BY PricesAreFinite
<1>3. \A P : LTL!External(P, p) <=>
               \/ p.price2 <= LTL!Min({x.price2 : x \in P}) + 2 * Plans.path.boundary
               \/ p.price2 >= LTL!Max({x.price2 : x \in P}) - 2 * Plans.path.boundary
  BY DEF LTL!External
<1>4. /\ LTL!External(LTL!PoolsOf(t), p) <=> \/ p.price2 <= LTL!Min(old) + 2 * Plans.path.boundary
                                              \/ p.price2 >= LTL!Max(old) - 2 * Plans.path.boundary
      /\ LTL!External(LTL!PoolsOf(later), p) <=> \/ p.price2 <= LTL!Min(new) + 2 * Plans.path.boundary
                                                  \/ p.price2 >= LTL!Max(new) - 2 * Plans.path.boundary
  BY <1>3
<1> HIDE DEF old, new
<1>5. ASSUME NEW S, IsFiniteSet(S), S \subseteq Int, S # {}
      PROVE  /\ LTL!Min(S) \in S /\ \A x \in S : LTL!Min(S) <= x
             /\ LTL!Max(S) \in S /\ \A x \in S : LTL!Max(S) >= x
  <2>1. \E m \in S : \A x \in S : m <= x
    BY <1>5, FiniteHasEnds
  <2>2. \E m \in S : \A x \in S : m >= x
    <3>1. PICK m \in S : \A x \in S : x <= m
      BY <1>5, FiniteHasEnds
    <3>2. \A x \in S : m >= x
      BY <1>5, <3>1
    <3> QED
      BY <3>2
  <2> QED
    BY <2>1, <2>2 DEF LTL!Min, LTL!Max
<1>6. /\ LTL!Min(old) \in old /\ LTL!Max(old) \in old
      /\ LTL!Min(new) \in new /\ LTL!Max(new) \in new
      /\ \A x \in new : LTL!Min(new) <= x /\ LTL!Max(new) >= x
  BY <1>1, <1>2, <1>5
<1>7. /\ LTL!Min(new) <= LTL!Min(old) /\ LTL!Max(new) >= LTL!Max(old)
      /\ LTL!Min(old) \in Int /\ LTL!Max(old) \in Int /\ LTL!Min(new) \in Int /\ LTL!Max(new) \in Int
      /\ p.price2 \in Int
  BY <1>1, <1>2, <1>6
<1> PICK b \in Int : b = Plans.path.boundary
  BY PlansAssumption
<1>8. ASSUME NEW x \in Int, NEW lo \in Int, NEW hi \in Int, NEW below \in Int, NEW above \in Int,
             below <= lo, above >= hi, x <= below + 2 * b \/ x >= above - 2 * b
      PROVE  x <= lo + 2 * b \/ x >= hi - 2 * b
  <2> DEFINE c == 2 * b
  <2>1. c \in Int
    OBVIOUS
  <2>2. x <= below + c \/ x >= above - c
    BY <1>8
  <2> HIDE DEF c
  <2>3. x <= lo + c \/ x >= hi - c
    BY <1>8, <2>1, <2>2
  <2> QED
    BY <2>3 DEF c
<1>9. ~(p.price2 <= LTL!Min(old) + 2 * b \/ p.price2 >= LTL!Max(old) - 2 * b)
  BY <1>4
<1>10. ~(p.price2 <= LTL!Min(new) + 2 * b \/ p.price2 >= LTL!Max(new) - 2 * b)
  BY <1>7, <1>8, <1>9
<1> QED
  BY <1>4, <1>10

\* One pool is of the candle and the side that the event names.
LEMMA StartPoolIsOne ==
  ASSUME NEW t \in Seq(CandleType), NEW p \in LTL!StartPool(LTL!PoolsOf(t)), NEW q \in LTL!StartPool(LTL!PoolsOf(t))
  PROVE  p = q
<1>1. \A x \in LTL!EqualPools(t) : x.equal
  BY PoolsAreSides DEF EqualOf
<1>2. p \in LTL!SwingPools(t) /\ q \in LTL!SwingPools(t) /\ p.at = q.at /\ p.side = q.side
  BY <1>1 DEF LTL!StartPool, LTL!PoolsOf
<1>3. /\ p = [side |-> p.side, at |-> p.at, price2 |-> 2 * p.side * LTL!Hi(p.side, t[p.at]), tall2 |-> 0,
             quality |-> 650, equal |-> FALSE]
      /\ q = [side |-> q.side, at |-> q.at, price2 |-> 2 * q.side * LTL!Hi(q.side, t[q.at]), tall2 |-> 0,
             quality |-> 650, equal |-> FALSE]
  BY <1>2, SwingPoolsAre
<1> QED
  BY <1>2, <1>3

\* The start stays, and what is inside the range stays inside.
LEMMA PathIsPartialForGood ==
  ASSUME NEW t \in Seq(CandleType), NEW later \in Seq(CandleType), Prefix(t, later)
  PROVE  LTL!PartialForGood(t, later)
<1>1. LTL!StartPool(LTL!PoolsOf(t)) \subseteq LTL!StartPool(LTL!PoolsOf(later))
  BY PoolsGrow DEF LTL!StartPool
<1>2. \A u : \A s \in LTL!Signal(u) : /\ s.start \in LTL!StartPool(LTL!PoolsOf(u))
                                      /\ s.target \in LTL!PoolsOf(u)
                                      /\ s.final = LTL!External(LTL!PoolsOf(u), s.target)
  <2> TAKE u
  <2> TAKE s \in LTL!Signal(u)
  <2>1. PICK start \in LTL!StartPool(LTL!PoolsOf(u)), target \in LTL!BestTarget(LTL!PoolsOf(u), -Plans.path.taken.side) :
          s = [dir |-> -start.side, start |-> start, target |-> target, final |-> LTL!External(LTL!PoolsOf(u), target)]
    BY DEF LTL!Signal
  <2>2. target \in LTL!PoolsOf(u)
    BY DEF LTL!BestTarget
  <2> QED
    BY <2>1, <2>2
<1>3. ASSUME NEW s \in LTL!Signal(t), NEW x \in LTL!Signal(later)
      PROVE  x.start = s.start /\ (x.target = s.target /\ ~s.final => ~x.final)
  <2>1. x.start = s.start
    BY <1>1, <1>2, StartPoolIsOne
  <2>2. ASSUME x.target = s.target, ~s.final PROVE ~x.final
    <3>1. s.target \in LTL!PoolsOf(t) /\ ~LTL!External(LTL!PoolsOf(t), s.target)
      BY <1>2, <2>2
    <3>2. ~LTL!External(LTL!PoolsOf(later), s.target)
      BY <3>1, InsideStays
    <3> QED
      BY <1>2, <2>2, <3>2
  <2> QED
    BY <2>1, <2>2
<1>4. LTL!Raises(later) => LTL!Raises(t)
  BY <1>1 DEF LTL!Raises
<1> QED
  BY <1>3, <1>4 DEF LTL!PartialForGood

-------------------------------------------------------------------------------
(* The strategies, called again with every candle *)

\* One candle later every strategy keeps what it has given.
LEMMA EntriesGoOn ==
  ASSUME NEW t \in Seq(CandleType), NEW later \in Seq(CandleType), Prefix(t, later)
  PROVE  /\ SMF!EntryStays(t, later) /\ FVC!PlanStays(t, later) /\ BRK!EntryStays(t, later)
         /\ PDR!EntryStays(t, later) /\ AMD!EntryStays(t, later) /\ JDS!EntryStays(t, later)
         /\ SVB!EntryStays(t, later) /\ NLS!EntryStays(t, later) /\ HPL!EntryOnlyImproves(t, later)
         /\ KZS!PlanStays(t, later) /\ LTL!PartialForGood(t, later)
<1>1. SMF!EntryStays(t, later) /\ FVC!PlanStays(t, later) /\ BRK!EntryStays(t, later)
  BY SweepEntryStays, ContinuationPlanStays, BreakerTradeStays
<1>2. PDR!EntryStays(t, later) /\ AMD!EntryStays(t, later) /\ JDS!EntryStays(t, later)
  BY RaidEntryStays, AccumulationEntryStays, SessionEntryStays
<1>3. SVB!EntryStays(t, later) /\ NLS!EntryStays(t, later) /\ HPL!EntryOnlyImproves(t, later)
  BY WindowEntryStays, NewsEntryStays, ZoneEntryOnlyImproves
<1>4. KZS!PlanStays(t, later) /\ LTL!PartialForGood(t, later)
  BY KillzonePlanStays, PathIsPartialForGood
<1> QED
  BY <1>1, <1>2, <1>3, <1>4

\* src/strategy/ict_smc_strategies: the strategies are called again with the whole list on every
\* candle.  Whatever their configuration, context and candles, the entry given for a setup stays
\* where it is; that of a zone gives way only to one that is no worse, a target inside the range of
\* the pools never becomes the final one, and a path that has had a start never raises again.
THEOREM EntriesAreForGood == TapeSpec => EntriesStay
<1>1. TapeInv /\ [TapeNext]_tapeVars => [EntriesAreKept]_tape
  <2> SUFFICES ASSUME TapeInv, CandleCloses PROVE EntriesAreKept
    BY DEF TapeNext, tapeVars
  <2>1. tape \in Seq(CandleType)
    BY DEF TapeInv
  <2>2. PICK k \in CandleType : tape' = Append(tape, k)
    BY NextCandle
  <2>3. tape' \in Seq(CandleType) /\ Prefix(tape, tape')
    BY <2>1, <2>2, AsBefore
  <2> QED
    BY <2>1, <2>3, EntriesGoOn DEF EntriesAreKept
<1> QED
  BY <1>1, TapeHolds, PTL DEF TapeSpec, EntriesStay
===============================================================================
