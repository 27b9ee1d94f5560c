------------------------------ MODULE TradeRunner_proofs ------------------------------
(***************************************************************************)
(* Theorems about the live trading path, for every set of runners, every   *)
(* bound and every behaviour of the world the constants allow.             *)
(***************************************************************************)
EXTENDS TradeRunner, SequenceTheorems, FiniteSetTheorems, TLAPS

\* StopFor yields a price, and a later milestone never a lower one: the stop of
\* max(0, m - 1) R - 0.15 R grows with m (trailed_stop_loss in the code).
LEMMA StopForType ==
  ASSUME NEW m \in Int
  PROVE  StopFor(m) \in Int
BY TrailAssumption DEF StopFor, Larger

LEMMA StopForMonotone ==
  ASSUME NEW m \in Int, NEW n \in Int, m <= n
  PROVE  StopFor(m) <= StopFor(n)
<1> DEFINE a == Larger(0, m - 1)
           b == Larger(0, n - 1)
<1>1. a \in Nat /\ b \in Nat /\ a <= b
  BY DEF Larger
<1>2. a * RiskUnits <= b * RiskUnits
  <2>1. ASSUME NEW x \in Nat, NEW y \in Nat, NEW k \in Nat, x <= y
        PROVE  x * k <= y * k
    BY <2>1
  <2> QED
    BY <1>1, <2>1, TrailAssumption
<1>3. a * RiskUnits \in Int /\ b * RiskUnits \in Int
  BY <1>1, TrailAssumption
<1> QED
  BY <1>2, <1>3, TrailAssumption DEF StopFor

\* The last milestone is at least the first.
LEMMA MaximumMilestoneType ==
  ASSUME NEW tp \in Nat
  PROVE  MaximumMilestone(tp) \in Nat \ {0}
<1>1. tp \div RiskUnits \in Int
  BY TrailAssumption
<1> QED
  BY <1>1, TrailAssumption DEF MaximumMilestone, Smaller, Larger

LEMMA ConfirmedByType ==
  ASSUME NEW close \in Int, NEW tp \in Nat
  PROVE  ConfirmedBy(close, tp) \in Int
<1>1. (close - ConfirmBuffer) \div RiskUnits \in Int
  BY TrailAssumption
<1> QED
  BY <1>1, MaximumMilestoneType DEF ConfirmedBy, Smaller

LEMMA EvaluateTrailType ==
  ASSUME NEW close \in Int, NEW tp \in Nat, NEW sl \in Int, NEW last \in Nat
  PROVE  LET d == EvaluateTrail(close, tp, sl, last)
         IN  /\ d.modify \in BOOLEAN
             /\ d.stop \in Int
             /\ d.confirmed \in Nat
             /\ d.confirmed >= last
<1>1. ConfirmedBy(close, tp) \in Int
  BY ConfirmedByType
<1>2. StopFor(ConfirmedBy(close, tp)) \in Int
  BY <1>1, StopForType
<1> QED
  BY <1>1, <1>2, TrailAssumption DEF EvaluateTrail, Improves

\* A decision to move the stop proposes the stop of the milestone it confirms, and
\* that stop is better than the current one.
LEMMA EvaluateTrailModify ==
  ASSUME NEW close \in Int, NEW tp \in Nat, NEW sl \in Int, NEW last \in Nat,
         EvaluateTrail(close, tp, sl, last).modify
  PROVE  LET d == EvaluateTrail(close, tp, sl, last)
         IN  /\ d.stop > sl
             /\ d.stop = StopFor(d.confirmed)
             /\ d.confirmed > last
<1>1. ConfirmedBy(close, tp) \in Int
  BY ConfirmedByType
<1> QED
  BY <1>1 DEF EvaluateTrail, Improves

\* The stop a completed candle can propose lies strictly below that candle's close:
\* the market order that closes the position is never triggered by the update.
THEOREM StopBehindClose ==
  ASSUME NEW close \in Int, NEW tp \in Nat, NEW sl \in Int, NEW last \in Nat,
         EvaluateTrail(close, tp, sl, last).modify
  PROVE  EvaluateTrail(close, tp, sl, last).stop < close
<1> DEFINE q == (close - ConfirmBuffer) \div RiskUnits
           c == ConfirmedBy(close, tp)
<1>1. q \in Int /\ q * RiskUnits <= close - ConfirmBuffer
  BY TrailAssumption
<1>2. c \in Int /\ c <= q
  BY <1>1, MaximumMilestoneType DEF ConfirmedBy, Smaller
<1>3. EvaluateTrail(close, tp, sl, last).stop = StopFor(c) /\ c >= 1
  BY <1>2 DEF EvaluateTrail
<1>4. StopFor(c) = (c - 1) * RiskUnits - TrailBuffer
  BY <1>2, <1>3 DEF StopFor, Larger
<1>5. (c - 1) * RiskUnits <= q * RiskUnits - RiskUnits
  <2>1. ASSUME NEW x \in Nat, NEW y \in Nat, NEW k \in Nat, x + 1 <= y
        PROVE  x * k <= y * k - k
    BY <2>1
  <2> QED
    BY <1>1, <1>2, <1>3, <2>1, TrailAssumption
<1>6. (c - 1) * RiskUnits \in Int /\ q * RiskUnits \in Int
  BY <1>1, <1>2, TrailAssumption
<1> HIDE DEF q, c
<1> QED
  BY <1>1, <1>3, <1>4, <1>5, <1>6, TrailAssumption

-------------------------------------------------------------------------------

-----------------------------------------------------------------------------
(***************************************************************************)
(* Type correctness.                                                       *)
(***************************************************************************)
LEMMA DataTypes ==
  /\ NoPlan \in Plan
  /\ NoPosition \in Position
  /\ \A t \in Nat : Opened(t) \in Position
  /\ InitialStop \in Int
BY TrailAssumption DEF NoPlan, Plan, NoPosition, Position, Opened, InitialStop

\* The part of TypeOK that only runners change.
LocalsOK ==
  /\ pc \in [Runners -> PCs]
  /\ mode \in [Runners -> SUBSET {"execute", "manage"}]
  /\ plan \in [Runners -> Plan]
  /\ blocked \in [Runners -> BOOLEAN]
  /\ submitted \in [Runners -> BOOLEAN]
  /\ setup \in [Runners -> Nat]
  /\ snap \in [Runners -> Position]
  /\ observed \in [Runners -> Nat]
  /\ batch \in [Runners -> Seq(Closes)]

LEMMA GoneType ==
  ASSUME LocalsOK, NEW r \in Runners, Gone(r)
  PROVE  LocalsOK'
BY DataTypes DEF LocalsOK, Gone, PCs

\* What EvaluateTrail is given in the loop, and what it returns there.
LEMMA DecisionType ==
  ASSUME TypeOK, NEW r \in Runners, batch[r] # <<>>
  PROVE  /\ Decision(r).modify \in BOOLEAN
         /\ Decision(r).stop \in Int
         /\ Decision(r).confirmed \in Nat
         /\ Tail(batch[r]) \in Seq(Closes)
         /\ snap[r] \in Position
         /\ [snap[r] EXCEPT !.sl = Decision(r).stop] \in Position
         /\ [plan[r] EXCEPT !.milestone = Decision(r).confirmed] \in Plan
<1>0. batch[r] \in Seq(Closes)
  BY DEF TypeOK
<1>1. Head(batch[r]) \in Int /\ Tail(batch[r]) \in Seq(Closes)
  BY <1>0, HeadTailProperties, RunnerAssumption
<1>2. snap[r].sl \in Int /\ observed[r] \in Nat
  BY DEF TypeOK, Position
<1>3. /\ Decision(r).modify \in BOOLEAN
      /\ Decision(r).stop \in Int
      /\ Decision(r).confirmed \in Nat
  BY <1>1, <1>2, EvaluateTrailType, RunnerAssumption DEF Decision
<1>4. snap[r] \in Position /\ plan[r] \in Plan /\ batch[r] \in Seq(Closes)
  BY DEF TypeOK
<1>5. [snap[r] EXCEPT !.sl = Decision(r).stop] \in Position
  BY <1>3, <1>4 DEF Position
<1>6. [plan[r] EXCEPT !.milestone = Decision(r).confirmed] \in Plan
  BY <1>3, <1>4 DEF Plan
<1> QED
  BY <1>1, <1>3, <1>4, <1>5, <1>6

\* Every variable keeps its type: in particular a record is loaded only when it is
\* one (load raises otherwise), and milestones stay natural numbers.
THEOREM TypeCorrect == Spec => []TypeOK
<1>1. Init => TypeOK
  BY DataTypes DEF Init, TypeOK, PCs
<1>2. TypeOK /\ [Next]_vars => TypeOK'
  <2> SUFFICES ASSUME TypeOK, [Next]_vars
               PROVE  TypeOK'
    OBVIOUS
  <2> USE DEF Goto, broker, locals, trading, trailing
  <2>1. ASSUME NEW r \in Runners, Start(r)
        PROVE  TypeOK'
    BY <2>1, RunnerAssumption DEF Start, TypeOK, PCs
  <2>2. ASSUME NEW r \in Runners, StartFails(r)
        PROVE  TypeOK'
    BY <2>2 DEF StartFails, TypeOK, vars
  <2>3. ASSUME NEW r \in Runners, Reconcile(r)
        PROVE  TypeOK'
    <3>1. UNCHANGED <<broker, file, crashes>>
      BY <2>3 DEF Reconcile
    <3>2. LocalsOK'
      <4>1. CASE Gone(r)
        BY <4>1, GoneType DEF TypeOK, LocalsOK
      <4>2. CASE ~Gone(r)
        <5>1. /\ pc' \in {[pc EXCEPT ![r] = "loop"], [pc EXCEPT ![r] = "clear"]}
              /\ plan' \in {plan, [plan EXCEPT ![r] = plan[r]], [plan EXCEPT ![r] = NoPlan]}
              /\ blocked' \in {blocked, [blocked EXCEPT ![r] = TRUE]}
              /\ UNCHANGED <<mode, submitted, setup, trailing>>
          BY <4>2, <2>3 DEF Reconcile
        <5>2. pc' \in [Runners -> PCs]
          BY <5>1 DEF TypeOK, PCs
        <5>3. plan' \in [Runners -> Plan]
          <6>1. plan \in [Runners -> Plan] /\ NoPlan \in Plan
            BY DataTypes DEF TypeOK
          <6> QED
            BY <5>1, <6>1
        <5>4. blocked' \in [Runners -> BOOLEAN]
          BY <5>1 DEF TypeOK
        <5> QED
          BY <5>1, <5>2, <5>3, <5>4 DEF TypeOK, LocalsOK
      <4> QED
        BY <4>1, <4>2
    <3> QED
      BY <3>1, <3>2 DEF TypeOK, LocalsOK
  <2>4. ASSUME NEW r \in Runners, ClearPlan(r)
        PROVE  TypeOK'
    BY <2>4, DataTypes DEF ClearPlan, TypeOK, PCs
  <2>5. ASSUME NEW r \in Runners, Exit(r)
        PROVE  TypeOK'
    BY <2>5, GoneType DEF Exit, TypeOK, LocalsOK
  <2>6. ASSUME NEW r \in Runners, Manage(r)
        PROVE  TypeOK'
    <3>1. PICK seen \in Seen, candles \in Batches :
            LET mine == {p \in seen : p.ticket = plan[r].ticket} IN
            \/ /\ mine = {}
               /\ pc' = [pc EXCEPT ![r] = "clear"]
               /\ UNCHANGED trailing
            \/ /\ pc' = [pc EXCEPT ![r] = "trail"]
               /\ \E p \in mine : snap' = [snap EXCEPT ![r] = p]
               /\ observed' = [observed EXCEPT ![r] = plan[r].milestone]
               /\ batch' = [batch EXCEPT ![r] = candles]
      BY <2>6 DEF Manage
    <3>2. seen \subseteq Position
      BY <3>1 DEF Seen, TypeOK
    <3>3. candles \in Seq(Closes)
      BY <3>1, RunnerAssumption DEF Batches
    <3>4. plan[r].milestone \in Nat
      BY DEF TypeOK, Plan
    <3>5. snap' \in [Runners -> Position]
      BY <3>1, <3>2 DEF TypeOK
    <3>6. batch' \in [Runners -> Seq(Closes)]
      BY <3>1, <3>3 DEF TypeOK
    <3>7. observed' \in [Runners -> Nat] /\ pc' \in [Runners -> PCs]
      BY <3>1, <3>4 DEF TypeOK, PCs
    <3>8. UNCHANGED <<broker, file, mode, plan, trading, crashes>>
      BY <2>6 DEF Manage
    <3> QED
      BY <3>5, <3>6, <3>7, <3>8 DEF TypeOK
  <2>7. ASSUME NEW r \in Runners, PassCandle(r)
        PROVE  TypeOK'
    BY <2>7, DecisionType DEF PassCandle, TypeOK
  <2>8. ASSUME NEW r \in Runners, ModifyStop(r)
        PROVE  TypeOK'
    <3> DEFINE moved == [snap[r] EXCEPT !.sl = Decision(r).stop]
               live  == Holding(snap[r].ticket)
    <3>1. moved \in Position
      BY <2>8, DecisionType DEF ModifyStop
    <3>2. /\ positions' = positions \/ positions' = (positions \ live) \cup {moved}
          /\ updates' \in {updates, updates \cup {moved}}
          /\ deferred' \in {deferred, deferred \cup {moved.ticket}}
          /\ \/ /\ plan' = [plan EXCEPT ![r].milestone = Decision(r).confirmed]
                /\ snap' = [snap EXCEPT ![r] = moved]
                /\ pc' = [pc EXCEPT ![r] = "save"]
             \/ UNCHANGED <<plan, snap, pc>>
          /\ observed' = [observed EXCEPT ![r] = Decision(r).confirmed]
          /\ batch' = [batch EXCEPT ![r] = Tail(@)]
          /\ UNCHANGED <<inflight, nextTicket, file, mode, trading, crashes>>
      BY <2>8 DEF ModifyStop
    <3> HIDE DEF moved, live
    <3>3. positions' \subseteq Position /\ updates' \subseteq Position
      BY <3>1, <3>2 DEF TypeOK
    <3>10. deferred' \subseteq Nat
      BY <3>1, <3>2 DEF TypeOK, Position
    <3>4. /\ Decision(r).confirmed \in Nat /\ Tail(batch[r]) \in Seq(Closes)
          /\ [plan[r] EXCEPT !.milestone = Decision(r).confirmed] \in Plan
      BY <2>8, DecisionType DEF ModifyStop
    <3>5. plan' \in [Runners -> Plan]
      <4>1. plan \in [Runners -> Plan]
        BY DEF TypeOK
      <4>2. \/ plan' = plan
            \/ plan' = [plan EXCEPT ![r] = [plan[r] EXCEPT !.milestone = Decision(r).confirmed]]
        BY <3>2, <4>1
      <4> QED
        BY <3>4, <4>1, <4>2
    <3>6. snap' \in [Runners -> Position]
      <4>1. snap \in [Runners -> Position]
        BY DEF TypeOK
      <4>2. snap' \in {snap, [snap EXCEPT ![r] = moved]}
        BY <3>2
      <4> QED
        BY <3>1, <4>1, <4>2
    <3>9. pc' \in [Runners -> PCs]
      <4>1. pc' \in {pc, [pc EXCEPT ![r] = "save"]}
        BY <3>2
      <4> QED
        BY <4>1 DEF TypeOK, PCs
    <3>7. observed' \in [Runners -> Nat]
      BY <3>2, <3>4 DEF TypeOK
    <3>8. batch' \in [Runners -> Seq(Closes)]
      <4>1. batch \in [Runners -> Seq(Closes)]
        BY DEF TypeOK
      <4>2. batch' = [batch EXCEPT ![r] = Tail(batch[r])]
        BY <3>2, <4>1
      <4> QED
        BY <3>4, <4>1, <4>2, Zenon
    <3> QED
      BY <3>2, <3>3, <3>5, <3>6, <3>7, <3>8, <3>9, <3>10 DEF TypeOK
  <2>9. ASSUME NEW r \in Runners, EndOfBatch(r)
        PROVE  TypeOK'
    BY <2>9, DataTypes DEF EndOfBatch, TypeOK, PCs
  <2>10. ASSUME NEW r \in Runners, BeginSave(r)
         PROVE  TypeOK'
    BY <2>10 DEF BeginSave, TypeOK, PCs
  <2>11. ASSUME NEW r \in Runners, EndSave(r)
         PROVE  TypeOK'
    <3>1. CASE Gone(r)
      BY <2>11, <3>1, GoneType DEF EndSave, TypeOK, LocalsOK
    <3>2. CASE ~Gone(r)
      BY <2>11, <3>2 DEF EndSave, TypeOK, PCs
    <3> QED
      BY <3>1, <3>2
  <2>12. ASSUME NEW r \in Runners, Candidate(r)
         PROVE  TypeOK'
    <3>1. CASE Gone(r)
      BY <2>12, <3>1, GoneType DEF Candidate, TypeOK, LocalsOK
    <3>2. CASE ~Gone(r)
      BY <2>12, <3>2 DEF Candidate, TypeOK, PCs
    <3> QED
      BY <3>1, <3>2
  <2>13. ASSUME NEW r \in Runners, Guard(r)
         PROVE  TypeOK'
    <3>1. CASE Gone(r)
      BY <2>13, <3>1, GoneType DEF Guard, TypeOK, LocalsOK
    <3>2. CASE ~Gone(r)
      BY <2>13, <3>2 DEF Guard, TypeOK, PCs
    <3> QED
      BY <3>1, <3>2
  <2>14. ASSUME NEW r \in Runners, Send(r)
         PROVE  TypeOK'
    <3>1. /\ positions' \in {positions, positions \cup {Opened(nextTicket)}}
          /\ inflight' \in {inflight, inflight \cup {nextTicket}}
          /\ nextTicket' \in {nextTicket, nextTicket + 1}
          /\ UNCHANGED <<updates, deferred, file, crashes>>
      BY <2>14 DEF Send
    <3>2. LocalsOK'
      <4>1. CASE Gone(r)
        BY <4>1, GoneType DEF TypeOK, LocalsOK
      <4>2. CASE ~Gone(r)
        <5>1. /\ pc' = [pc EXCEPT ![r] = "filled"]
              /\ submitted' = [submitted EXCEPT ![r] = TRUE]
              /\ setup' = [setup EXCEPT ![r] = nextTicket]
              /\ UNCHANGED <<mode, plan, blocked, trailing>>
          BY <2>14, <4>2 DEF Send
        <5> QED
          BY <5>1 DEF TypeOK, LocalsOK, PCs
      <4> QED
        BY <4>1, <4>2
    <3> QED
      BY <3>1, <3>2, DataTypes DEF TypeOK, LocalsOK
  <2>15. ASSUME NEW r \in Runners, AfterFill(r)
         PROVE  TypeOK'
    <3>1. CASE Gone(r)
      BY <2>15, <3>1, GoneType DEF AfterFill, TypeOK, LocalsOK
    <3>2. CASE ~Gone(r)
      <4>1. PICK seen \in Seen :
              \/ \E p \in seen :
                   /\ seen = {p}
                   /\ plan' = [plan EXCEPT ![r] =
                                 [ticket |-> p.ticket, frame |-> setup[r], milestone |-> 0]]
                   /\ pc' = [pc EXCEPT ![r] = "save"]
                   /\ UNCHANGED <<mode, trading, trailing>>
              \/ pc' = [pc EXCEPT ![r] = "loop"] /\ UNCHANGED locals
        BY <2>15, <3>2 DEF AfterFill
      <4>2. UNCHANGED <<broker, file, crashes>>
        BY <2>15 DEF AfterFill
      <4>3. seen \subseteq Position /\ setup[r] \in Nat
        BY <4>1 DEF Seen, TypeOK
      <4>4. \A p \in seen : [ticket |-> p.ticket, frame |-> setup[r], milestone |-> 0] \in Plan
        BY <4>3 DEF Plan, Position
      <4>5. pc' \in [Runners -> PCs]
        BY <4>1 DEF TypeOK, PCs
      <4>7. plan' \in [Runners -> Plan]
        <5>1. plan \in [Runners -> Plan]
          BY DEF TypeOK
        <5>2. plan' = plan \/ \E pl \in Plan : plan' = [plan EXCEPT ![r] = pl]
          BY <4>1, <4>4
        <5> QED
          BY <5>1, <5>2
      <4>6. UNCHANGED <<mode, blocked, submitted, setup, snap, observed, batch>>
        BY <4>1
      <4> QED
        BY <4>2, <4>5, <4>6, <4>7 DEF TypeOK
    <3> QED
      BY <3>1, <3>2
  <2>16. ASSUME NEW r \in Runners, Crash(r)
         PROVE  TypeOK'
    <3>1. LocalsOK /\ crashes + 1 \in Nat
      BY DEF TypeOK, LocalsOK
    <3>2. LocalsOK'
      BY <2>16, <3>1, GoneType DEF Crash
    <3> QED
      BY <2>16, <3>1, <3>2 DEF Crash, TypeOK, LocalsOK
  <2>17. ASSUME World
         PROVE  TypeOK'
    <3>1. CASE BrokerCloses
      BY <3>1 DEF BrokerCloses, TypeOK
    <3>2. CASE BrokerExecutes
      BY <3>2, DataTypes DEF BrokerExecutes, TypeOK
    <3>3. CASE ManualOpen
      <4>1. [Opened(nextTicket) EXCEPT !.frame = 0] \in Position
        BY DataTypes DEF TypeOK, Position
      <4>2. nextTicket + 1 \in Nat \ {0}
        BY DEF TypeOK
      <4> QED
        BY <3>3, <4>1, <4>2 DEF ManualOpen, TypeOK
    <3>4. CASE ManualTarget
      <4>1. \A p \in positions : [p EXCEPT !.frame = 0] \in Position
        BY DEF TypeOK, Position
      <4> QED
        BY <3>4, <4>1 DEF ManualTarget, TypeOK
    <3>5. CASE ManualStop
      <4>1. positions \subseteq Position
        BY DEF TypeOK
      <4>2. \A p \in positions, s \in ManualStops : [p EXCEPT !.sl = s] \in Position
        BY <4>1, RunnerAssumption DEF Position
      <4>3. positions' \subseteq Position
        BY <3>5, <4>1, <4>2 DEF ManualStop
      <4> QED
        BY <3>5, <4>3 DEF ManualStop, TypeOK
    <3>6. CASE BrokerUpdates
      BY <3>6 DEF BrokerUpdates, TypeOK
    <3> QED
      BY <2>17, <3>1, <3>2, <3>3, <3>4, <3>5, <3>6 DEF World
  <2>18. CASE UNCHANGED vars
    BY <2>18 DEF TypeOK, vars
  <2> QED
    BY <2>1, <2>2, <2>3, <2>4, <2>5, <2>6, <2>7, <2>8, <2>9, <2>10, <2>11, <2>12,
       <2>13, <2>14, <2>15, <2>16, <2>17, <2>18 DEF Next, RunnerStep
<1> QED
  BY <1>1, <1>2, PTL DEF Spec

-----------------------------------------------------------------------------
(***************************************************************************)
(* One position.  SinglePosition is not inductive: the order of a runner   *)
(* that has passed its checks must still find the account flat (FlatAhead),*)
(* and nothing may be under way at the broker.                             *)
(***************************************************************************)
FlatAhead(r) == pc[r] \in {"guard", "send"} => positions = {}

SingleInv(r) ==
  /\ SinglePosition
  /\ inflight = {}
  /\ FlatAhead(r)

LEMMA SingleStep ==
  ASSUME NEW me, Runners = {me},
         ManualTrading = FALSE, QueryMayFail = FALSE, LateExecution = FALSE,
         TypeOK, SingleInv(me), [Next]_vars
  PROVE  SingleInv(me)'
<1> me \in Runners
  OBVIOUS
<1> USE DEF Goto
<1>1. ASSUME UNCHANGED broker, pc'[me] \notin {"guard", "send"}
      PROVE  SingleInv(me)'
  BY <1>1 DEF SingleInv, SinglePosition, FlatAhead, broker
<1>2. ASSUME Gone(me)
      PROVE  pc'[me] \notin {"guard", "send"}
  BY <1>2 DEF Gone, TypeOK
<1>3. CASE \/ Start(me) \/ ClearPlan(me) \/ Exit(me) \/ EndOfBatch(me) \/ BeginSave(me)
           \/ Crash(me)
  BY <1>1, <1>2, <1>3 DEF Start, ClearPlan, Exit, EndOfBatch, BeginSave, Crash, TypeOK
<1>4. CASE Reconcile(me)
  BY <1>1, <1>2, <1>4 DEF Reconcile, TypeOK
<1>5. CASE Manage(me)
  BY <1>1, <1>5 DEF Manage, TypeOK
<1>6. CASE PassCandle(me)
  BY <1>1, <1>6 DEF PassCandle
<1>7. CASE ModifyStop(me)
  <2> DEFINE moved == [snap[me] EXCEPT !.sl = Decision(me).stop]
             live  == Holding(snap[me].ticket)
  <2>1. /\ \/ positions' = positions
           \/ live # {} /\ positions' = (positions \ live) \cup {moved}
        /\ pc' \in {pc, [pc EXCEPT ![me] = "save"]}
        /\ pc[me] = "trail"
        /\ UNCHANGED inflight
    BY <1>7 DEF ModifyStop
  <2> HIDE DEF moved
  <2>2. live # {} => positions \ live = {}
    BY DEF SingleInv, SinglePosition, Holding
  <2>3. pc'[me] \notin {"guard", "send"}
    BY <2>1 DEF TypeOK
  <2> QED
    BY <2>1, <2>2, <2>3 DEF SingleInv, SinglePosition, FlatAhead
<1>8. CASE EndSave(me)
  BY <1>1, <1>2, <1>8 DEF EndSave, TypeOK
<1>9. CASE Candidate(me) \/ Guard(me)
  <2>1. UNCHANGED broker /\ (Gone(me) \/ {} \in Seen)
    BY <1>9 DEF Candidate, Guard
  <2>2. {} \in Seen => positions = {}
    BY DEF Seen
  <2> QED
    BY <1>1, <1>2, <2>1, <2>2 DEF SingleInv, SinglePosition, FlatAhead, broker
<1>10. CASE Send(me)
  <2>1. positions = {}
    BY <1>10 DEF Send, SingleInv, FlatAhead
  <2>2. /\ positions' \in {positions, positions \cup {Opened(nextTicket)}}
        /\ UNCHANGED inflight
        /\ Gone(me) \/ pc' = [pc EXCEPT ![me] = "filled"]
    BY <1>10 DEF Send
  <2>3. pc'[me] \notin {"guard", "send"}
    BY <1>2, <2>2 DEF TypeOK
  <2> QED
    BY <2>1, <2>2, <2>3 DEF SingleInv, SinglePosition, FlatAhead
<1>11. CASE AfterFill(me)
  BY <1>1, <1>2, <1>11 DEF AfterFill, TypeOK
<1>12. CASE BrokerCloses
  BY <1>12 DEF BrokerCloses, SingleInv, SinglePosition, FlatAhead
<1>13. CASE BrokerExecutes \/ ManualOpen \/ ManualTarget
  BY <1>13 DEF BrokerExecutes, ManualOpen, ManualTarget, SingleInv
<1>14. CASE ManualStop
  BY <1>14 DEF ManualStop, SingleInv, SinglePosition, FlatAhead
<1>15. CASE StartFails(me) \/ UNCHANGED vars
  BY <1>15 DEF StartFails, vars, broker, SingleInv, SinglePosition, FlatAhead
<1>16. CASE BrokerUpdates
  <2>1. PICK u \in updates :
          \/ positions' = positions
          \/ /\ Holding(u.ticket) # {}
             /\ positions' = (positions \ Holding(u.ticket)) \cup {u}
    BY <1>16 DEF BrokerUpdates
  <2>2. Holding(u.ticket) # {} => positions \ Holding(u.ticket) = {}
    BY DEF SingleInv, SinglePosition, Holding
  <2>3. UNCHANGED <<inflight, pc>>
    BY <1>16 DEF BrokerUpdates
  <2> QED
    BY <2>1, <2>2, <2>3 DEF SingleInv, SinglePosition, FlatAhead, Holding
<1> QED
  BY <1>3, <1>4, <1>5, <1>6, <1>7, <1>8, <1>9, <1>10, <1>11, <1>12, <1>13, <1>14, <1>15, <1>16
     DEF Next, RunnerStep, World

\* One runner, stopped, crashed and restarted at any point, with any permissions it
\* is started with, never holds two Gold positions, provided that orders execute
\* before they are answered, queries succeed and nobody trades by hand (the
\* single-trade limit of synchronize_positions and route_revalidated_order_submission).
THEOREM AccountHoldsOnePosition ==
  ASSUME NEW me, Runners = {me},
         ManualTrading = FALSE, QueryMayFail = FALSE, LateExecution = FALSE
  PROVE  Spec => []SinglePosition
<1>1. Init => SingleInv(me)
  BY DEF Init, SingleInv, SinglePosition, FlatAhead
<1>2. TypeOK /\ SingleInv(me) /\ [Next]_vars => SingleInv(me)'
  BY SingleStep
<1>3. SingleInv(me) => SinglePosition
  BY DEF SingleInv
<1> QED
  BY <1>1, <1>2, <1>3, TypeCorrect, PTL DEF Spec

-----------------------------------------------------------------------------
(***************************************************************************)
(* The stop, as one runner alone moves it.                                 *)
(*                                                                         *)
(* The runner compares a new stop with a snapshot that may be older than   *)
(* the broker's: an update the terminal applied and did not confirm leaves *)
(* the snapshot behind.  What saves it is the milestone it remembers: what *)
(* the broker has beyond the snapshot is at most the stop of a milestone   *)
(* already observed (SnapCovers), and the next one proposed is later.      *)
(* A position with an update that was put off is out of reach of this, and *)
(* is excepted.  Everything below follows tickets, which are handed out    *)
(* once (TicketsOK).                                                       *)
(***************************************************************************)

\* No position will be opened under this ticket any more.
Settled(t) == t < nextTicket /\ t \notin inflight

TicketsOK ==
  /\ \A p \in positions : p.ticket > 0 /\ Settled(p.ticket)
  /\ \A p, q \in positions : p.ticket = q.ticket => p = q
  /\ \A t \in inflight : 0 < t /\ t < nextTicket
  /\ \A u \in updates : u.ticket \in deferred

KnownSettled(r) == Settled(snap[r].ticket) /\ Settled(plan[r].ticket) /\ Settled(file.ticket)

SnapCovers(r) ==
  \A p \in positions :
    p.ticket = snap[r].ticket /\ p.ticket \notin deferred =>
      p.sl <= snap[r].sl \/ (observed[r] >= 1 /\ p.sl <= StopFor(observed[r]))

\* Candles wait only while the plan that started the evaluation is in force.
SnapIsPlan(r) ==
  batch[r] # <<>> => /\ pc[r] \in {"trail", "save", "saving"}
                     /\ snap[r].ticket = plan[r].ticket

Secured(pl) ==
  \A p \in positions :
    p.ticket = pl.ticket /\ pl.milestone > 0 /\ p.ticket \notin deferred
    => p.sl >= StopFor(pl.milestone)

TrailInv(r) ==
  /\ TicketsOK
  /\ KnownSettled(r)
  /\ SnapCovers(r)
  /\ SnapIsPlan(r)
  /\ Secured(plan[r])
  /\ Secured(file)

\* No position gives up a part of its stop in this step.
NoRetreat ==
  \A p \in positions, q \in positions' :
    p.ticket = q.ticket /\ p.ticket \notin deferred => q.sl >= p.sl

-----------------------------------------------------------------------------
(***************************************************************************)
(* Steps that leave the broker alone.                                      *)
(***************************************************************************)
LEMMA Numbers ==
  ASSUME TypeOK, NEW r \in Runners
  PROVE  /\ nextTicket \in Nat \ {0}
         /\ plan[r] \in Plan /\ plan[r].ticket \in Nat /\ plan[r].milestone \in Nat
         /\ snap[r] \in Position /\ snap[r].ticket \in Nat /\ snap[r].sl \in Int
         /\ observed[r] \in Nat
         /\ file.ticket \in Int /\ file.milestone \in Nat
         /\ \A p \in positions : p.ticket \in Nat /\ p.sl \in Int
<1>1. nextTicket \in Nat \ {0} /\ observed[r] \in Nat
  BY DEF TypeOK
<1>2. plan[r] \in Plan /\ snap[r] \in Position /\ positions \subseteq Position
  BY DEF TypeOK
<1>3. file \in Plan \cup {Torn}
  BY DEF TypeOK
<1>4. file.ticket \in Int /\ file.milestone \in Nat
  BY <1>3 DEF Plan, Torn
<1> QED
  BY <1>1, <1>2, <1>4 DEF Plan, Position

LEMMA BrokerUnchanged ==
  ASSUME TypeOK, TicketsOK, UNCHANGED broker
  PROVE  TicketsOK' /\ NoRetreat
<1>1. \A p \in positions : p.sl \in Int
  BY DEF TypeOK, Position
<1> QED
  BY <1>1 DEF TicketsOK, Settled, NoRetreat, broker

LEMMA NothingSettled ==
  ASSUME TypeOK, TicketsOK
  PROVE  Settled(0) /\ Settled(-1)
BY DEF TypeOK, TicketsOK, Settled

\* A process that ends forgets what it knew; the record and the broker remain.
LEMMA GoneKeeps ==
  ASSUME TypeOK, NEW r \in Runners, TrailInv(r), Gone(r), UNCHANGED <<broker, file>>
  PROVE  TrailInv(r)' /\ NoRetreat
<1>1. /\ snap'[r] = NoPosition /\ plan'[r] = NoPlan
      /\ batch'[r] = <<>> /\ observed'[r] = 0
  BY DEF Gone, TypeOK
<1>2. TicketsOK' /\ NoRetreat
  BY BrokerUnchanged DEF TrailInv
<1>3. KnownSettled(r)'
  BY <1>1, NothingSettled DEF TrailInv, KnownSettled, Settled, broker, NoPosition, NoPlan
<1>4. SnapCovers(r)'
  BY <1>1 DEF TrailInv, TicketsOK, SnapCovers, NoPosition, broker
<1>5. SnapIsPlan(r)' /\ Secured(plan[r])' /\ Secured(file)'
  BY <1>1 DEF TrailInv, SnapIsPlan, Secured, NoPlan, broker
<1> QED
  BY <1>2, <1>3, <1>4, <1>5 DEF TrailInv

\* Only the place in the program, the permissions and the entry state change.
LEMMA TrailUnchanged ==
  ASSUME TypeOK, NEW r \in Runners, TrailInv(r),
         UNCHANGED <<broker, file, plan, trailing>>,
         batch[r] = <<>> \/ pc'[r] \in {"trail", "save", "saving"}
  PROVE  TrailInv(r)' /\ NoRetreat
<1>1. TicketsOK' /\ NoRetreat
  BY BrokerUnchanged DEF TrailInv
<1>2. KnownSettled(r)' /\ SnapCovers(r)' /\ SnapIsPlan(r)' /\ Secured(plan[r])' /\ Secured(file)'
  BY DEF TrailInv, KnownSettled, Settled, SnapCovers, SnapIsPlan, Secured, broker, trailing
<1> QED
  BY <1>1, <1>2 DEF TrailInv

\* The plan in memory or the record becomes one whose ticket is known and whose
\* milestone is secured.
LEMMA PlanReplaced ==
  ASSUME TypeOK, NEW r \in Runners, TrailInv(r),
         UNCHANGED <<broker, trailing>>, batch[r] = <<>> \/ UNCHANGED plan,
         batch[r] = <<>> \/ pc'[r] \in {"trail", "save", "saving"},
         Settled(plan'[r].ticket), Settled(file'.ticket),
         Secured(plan'[r]), Secured(file')
  PROVE  TrailInv(r)' /\ NoRetreat
<1>1. TicketsOK' /\ NoRetreat
  BY BrokerUnchanged DEF TrailInv
<1>2. KnownSettled(r)'
  BY DEF TrailInv, KnownSettled, Settled, broker, trailing
<1>3. SnapCovers(r)' /\ SnapIsPlan(r)'
  BY DEF TrailInv, SnapCovers, SnapIsPlan, broker, trailing
<1>4. Secured(plan[r])' /\ Secured(file)'
  BY DEF Secured, broker
<1> QED
  BY <1>1, <1>2, <1>3, <1>4 DEF TrailInv

-----------------------------------------------------------------------------
(***************************************************************************)
(* The step that moves a stop.                                             *)
(***************************************************************************)
LEMMA ModifyKeeps ==
  ASSUME TypeOK, NEW r \in Runners, TrailInv(r), ModifyStop(r)
  PROVE  TrailInv(r)' /\ NoRetreat
<1> DEFINE d     == Decision(r)
           moved == [snap[r] EXCEPT !.sl = d.stop]
           live  == Holding(snap[r].ticket)
<1>1. batch[r] # <<>> /\ d.modify /\ pc[r] = "trail"
  BY DEF ModifyStop
<1>2. /\ d.stop > snap[r].sl
      /\ d.stop = StopFor(d.confirmed)
      /\ d.confirmed > observed[r]
  <2>1. Head(batch[r]) \in Int
    <3>1. batch[r] \in Seq(Closes)
      BY DEF TypeOK
    <3> QED
      BY <1>1, <3>1, HeadTailProperties, RunnerAssumption
  <2>2. /\ EvaluateTrail(Head(batch[r]), Target, snap[r].sl, observed[r]).modify
        /\ snap[r].sl \in Int /\ observed[r] \in Nat /\ Target \in Nat
    BY <1>1, Numbers, RunnerAssumption DEF Decision
  <2> QED
    BY <2>1, <2>2, EvaluateTrailModify DEF Decision
<1>3. d.stop \in Int /\ d.confirmed \in Nat /\ observed[r] \in Nat /\ snap[r].sl \in Int
  BY <1>1, DecisionType, Numbers
<1>4. moved.ticket = snap[r].ticket /\ moved.sl = d.stop
  BY Numbers DEF Position
<1>5. snap[r].ticket = plan[r].ticket
  BY <1>1 DEF TrailInv, SnapIsPlan
<1>6. /\ \/ positions' = positions
         \/ live # {} /\ positions' = (positions \ live) \cup {moved}
      /\ \/ UNCHANGED <<updates, deferred>>
         \/ updates' = updates \cup {moved} /\ deferred' = deferred \cup {moved.ticket}
      /\ observed' = [observed EXCEPT ![r] = d.confirmed]
      /\ batch' = [batch EXCEPT ![r] = Tail(@)]
      /\ UNCHANGED <<inflight, nextTicket, file, mode, trading, crashes>>
      /\ \/ /\ plan' = [plan EXCEPT ![r].milestone = d.confirmed]
            /\ snap' = [snap EXCEPT ![r] = moved]
            /\ pc' = [pc EXCEPT ![r] = "save"]
            /\ \/ live # {} /\ positions' = (positions \ live) \cup {moved}
               \/ moved.ticket \in deferred'
         \/ UNCHANGED <<plan, snap, pc>>
  BY DEF ModifyStop
<1> HIDE DEF d, moved
<1>7. ASSUME NEW p \in positions, p.ticket = snap[r].ticket, p.ticket \notin deferred
      PROVE  p.sl <= d.stop
  <2>1. p.sl \in Int
    BY Numbers
  <2>2. CASE p.sl <= snap[r].sl
    BY <1>2, <1>3, <2>1, <2>2
  <2>3. CASE observed[r] >= 1 /\ p.sl <= StopFor(observed[r])
    <3>1. StopFor(observed[r]) <= StopFor(d.confirmed)
      BY <1>2, <1>3, StopForMonotone
    <3>2. StopFor(observed[r]) \in Int
      BY <1>3, StopForType
    <3> QED
      BY <1>2, <1>3, <2>1, <2>3, <3>1, <3>2
  <2> QED
    BY <1>7, <2>2, <2>3 DEF TrailInv, SnapCovers
<1>8. NoRetreat
  <2> SUFFICES ASSUME NEW p \in positions, NEW q \in positions', p.ticket = q.ticket,
                      p.ticket \notin deferred
               PROVE  q.sl >= p.sl
    BY DEF NoRetreat
  <2>1. CASE q \in positions
    <3>1. p = q
      BY <2>1 DEF TrailInv, TicketsOK
    <3> QED
      BY <3>1, Numbers
  <2>2. CASE q = moved
    BY <1>3, <1>4, <1>7, <2>2, Numbers
  <2> QED
    BY <1>6, <2>1, <2>2
<1>9. TicketsOK'
  <2>1. ASSUME live # {}
        PROVE  snap[r].ticket > 0 /\ Settled(snap[r].ticket)
    BY <2>1 DEF Holding, TrailInv, TicketsOK
  <2>2. \A p \in positions' : p \in positions \/ (live # {} /\ p = moved)
    BY <1>6
  <2>3. \A p \in positions' : p.ticket > 0 /\ Settled(p.ticket)'
    BY <1>4, <1>6, <2>1, <2>2 DEF TrailInv, TicketsOK, Settled
  <2>4. \A p, q \in positions' : p.ticket = q.ticket => p = q
    BY <1>4, <1>6 DEF TrailInv, TicketsOK, Holding
  <2>5. \A u \in updates' : u.ticket \in deferred'
    BY <1>6 DEF TrailInv, TicketsOK
  <2> QED
    BY <1>6, <2>3, <2>4, <2>5 DEF TrailInv, TicketsOK
<1>10. snap'[r].ticket = snap[r].ticket /\ plan'[r].ticket = plan[r].ticket
  <2>1. plan \in [Runners -> Plan] /\ snap \in [Runners -> Position]
    BY DEF TypeOK
  <2>2. snap' = snap \/ snap' = [snap EXCEPT ![r] = moved]
    BY <1>6
  <2>3. plan' = plan \/ plan' = [plan EXCEPT ![r].milestone = d.confirmed]
    BY <1>6
  <2> QED
    BY <1>4, <2>1, <2>2, <2>3 DEF Plan
<1>11. KnownSettled(r)'
  BY <1>6, <1>10 DEF TrailInv, KnownSettled, Settled
<1>12. ASSUME NEW q \in positions', q.ticket = snap[r].ticket, q.ticket \notin deferred'
       PROVE  q.sl <= d.stop
  BY <1>3, <1>4, <1>6, <1>7, <1>12
<1>13. SnapCovers(r)'
  <2>1. observed'[r] = d.confirmed /\ d.confirmed >= 1
    BY <1>2, <1>3, <1>6 DEF TypeOK
  <2> QED
    BY <1>2, <1>10, <1>12, <2>1 DEF SnapCovers
<1>14. SnapIsPlan(r)'
  BY <1>1, <1>5, <1>6, <1>10 DEF TypeOK, SnapIsPlan
<1>15. ASSUME NEW pl, pl.milestone \in Nat, Secured(pl),
              NEW q \in positions', q.ticket = pl.ticket, pl.milestone > 0,
              q.ticket \notin deferred'
       PROVE  q.sl >= StopFor(pl.milestone)
  <2>1. StopFor(pl.milestone) \in Int
    BY <1>15, StopForType
  <2>2. CASE q \in positions
    BY <1>6, <1>15, <2>2 DEF Secured
  <2>3. CASE q = moved /\ live # {}
    <3>1. PICK p \in positions : p.ticket = snap[r].ticket
      BY <2>3 DEF Holding
    <3>2. p.sl \in Int /\ p.sl >= StopFor(pl.milestone) /\ p.sl <= d.stop
      BY <1>4, <1>6, <1>7, <1>15, <2>3, <3>1, Numbers DEF Secured
    <3> QED
      BY <1>3, <1>4, <2>1, <2>3, <3>2
  <2> QED
    BY <1>6, <2>2, <2>3
<1>16. Secured(file)'
  BY <1>6, <1>15, Numbers DEF TrailInv, Secured
<1>17. Secured(plan[r])'
  <2>1. CASE UNCHANGED plan
    BY <2>1, <1>15, Numbers DEF TrailInv, Secured
  <2>2. CASE /\ plan' = [plan EXCEPT ![r].milestone = d.confirmed]
             /\ positions' = (positions \ live) \cup {moved}
    <3>1. plan'[r].milestone = d.confirmed
      BY <2>2, Numbers DEF TypeOK, Plan
    <3>2. \A q \in positions' : q.ticket = snap[r].ticket => q = moved
      BY <2>2 DEF Holding
    <3>3. moved.sl >= StopFor(d.confirmed)
      BY <1>2, <1>3, <1>4
    <3> QED
      BY <1>5, <1>10, <3>1, <3>2, <3>3 DEF Secured
  <2>3. CASE moved.ticket \in deferred'
    BY <1>4, <1>5, <1>10, <2>3 DEF Secured
  <2> QED
    BY <1>6, <2>1, <2>2, <2>3
<1> QED
  BY <1>8, <1>9, <1>11, <1>13, <1>14, <1>16, <1>17 DEF TrailInv

-----------------------------------------------------------------------------
(***************************************************************************)
(* Steps that open, close or relabel positions, and move no stop but that  *)
(* of a position with an update that was put off.                          *)
(***************************************************************************)
LEMMA OtherPositionsKeep ==
  ASSUME TypeOK, NEW r \in Runners, TrailInv(r), TicketsOK', UNCHANGED file,
         \A t \in Int : Settled(t) => Settled(t)',
         UNCHANGED deferred,
         \A q \in positions' :
           \/ ~Settled(q.ticket) \/ q.ticket \in deferred
           \/ \E p \in positions : p.ticket = q.ticket /\ p.sl = q.sl,
         \/ /\ UNCHANGED <<plan, trailing>>
            /\ batch[r] = <<>> \/ UNCHANGED pc
         \/ Gone(r)
  PROVE  TrailInv(r)' /\ NoRetreat
<1>1. NoRetreat
  <2> SUFFICES ASSUME NEW p \in positions, NEW q \in positions', p.ticket = q.ticket,
                      p.ticket \notin deferred
               PROVE  q.sl >= p.sl
    BY DEF NoRetreat
  <2>1. Settled(q.ticket)
    BY DEF TrailInv, TicketsOK
  <2>2. PICK o \in positions : o.ticket = q.ticket /\ o.sl = q.sl
    BY <2>1
  <2>3. o = p
    BY <2>2 DEF TrailInv, TicketsOK
  <2> QED
    BY <2>2, <2>3, Numbers
<1>2. ASSUME NEW pl, Settled(pl.ticket), Secured(pl),
             NEW q \in positions', q.ticket = pl.ticket, pl.milestone > 0,
             q.ticket \notin deferred
      PROVE  q.sl >= StopFor(pl.milestone)
  BY <1>2 DEF Secured
<1>3. Secured(file)' /\ Settled(file.ticket)'
  BY <1>2, Numbers DEF TrailInv, KnownSettled, Secured
<1>4. CASE Gone(r)
  <2>1. /\ snap'[r] = NoPosition /\ plan'[r] = NoPlan
        /\ batch'[r] = <<>> /\ observed'[r] = 0
    BY <1>4 DEF Gone, TypeOK
  <2>2. Settled(0)'
    BY NothingSettled DEF TrailInv
  <2>3. KnownSettled(r)'
    BY <1>3, <2>1, <2>2 DEF KnownSettled, Settled, NoPosition, NoPlan
  <2>4. SnapCovers(r)'
    BY <2>1 DEF TicketsOK, SnapCovers, NoPosition
  <2>5. SnapIsPlan(r)' /\ Secured(plan[r])'
    BY <2>1 DEF SnapIsPlan, Secured, NoPlan
  <2> QED
    BY <1>1, <1>3, <2>3, <2>4, <2>5 DEF TrailInv
<1>5. CASE /\ UNCHANGED <<plan, trailing>>
           /\ batch[r] = <<>> \/ UNCHANGED pc
  <2>1. KnownSettled(r)'
    BY <1>3, <1>5, Numbers DEF TrailInv, KnownSettled, Settled, trailing
  <2>2. SnapCovers(r)'
    <3> SUFFICES ASSUME NEW q \in positions', q.ticket = snap[r].ticket,
                        q.ticket \notin deferred
                 PROVE  q.sl <= snap[r].sl \/ (observed[r] >= 1 /\ q.sl <= StopFor(observed[r]))
      BY <1>5 DEF SnapCovers, trailing
    <3>1. PICK p \in positions : p.ticket = q.ticket /\ p.sl = q.sl
      BY DEF TrailInv, KnownSettled
    <3> QED
      BY <3>1 DEF TrailInv, SnapCovers
  <2>3. SnapIsPlan(r)'
    BY <1>5 DEF TrailInv, SnapIsPlan, trailing
  <2>4. Secured(plan[r])'
    BY <1>2, <1>5 DEF TrailInv, KnownSettled, Secured
  <2> QED
    BY <1>1, <1>3, <2>1, <2>2, <2>3, <2>4 DEF TrailInv
<1> QED
  BY <1>4, <1>5

\* A ticket handed out is fresh: everything known keeps its meaning.
LEMMA FreshTicket ==
  ASSUME TypeOK, TicketsOK, NEW new, new.ticket = nextTicket,
         nextTicket' = nextTicket + 1, UNCHANGED <<updates, deferred>>,
         \/ positions' = positions \cup {new} /\ inflight' = inflight
         \/ positions' = positions /\ inflight' = inflight \cup {nextTicket}
  PROVE  TicketsOK' /\ \A t \in Int : Settled(t) => Settled(t)'
<1>1. nextTicket \in Nat \ {0} /\ inflight \subseteq Nat /\ nextTicket \notin inflight
  BY DEF TypeOK, TicketsOK
<1>2. \A p \in positions : p.ticket \in Nat /\ p.ticket # nextTicket
  BY <1>1 DEF TypeOK, Position, TicketsOK, Settled
<1>3. \A t \in Int : Settled(t) => Settled(t)'
  BY <1>1 DEF Settled
<1>4. \A p \in positions' : p.ticket > 0 /\ Settled(p.ticket)'
  BY <1>1, <1>2 DEF TicketsOK, Settled
<1>5. \A p, q \in positions' : p.ticket = q.ticket => p = q
  BY <1>2 DEF TicketsOK
<1>6. \A t \in inflight' : 0 < t /\ t < nextTicket'
  <2> SUFFICES ASSUME NEW t \in inflight'
               PROVE  0 < t /\ t < nextTicket + 1
    OBVIOUS
  <2>1. t \in inflight => t \in Nat /\ 0 < t /\ t < nextTicket
    BY <1>1 DEF TicketsOK
  <2>2. t \in inflight \/ t = nextTicket
    OBVIOUS
  <2> QED
    BY <1>1, <2>1, <2>2
<1>7. \A u \in updates' : u.ticket \in deferred'
  BY DEF TicketsOK
<1> QED
  BY <1>3, <1>4, <1>5, <1>6, <1>7 DEF TicketsOK

LEMMA SendKeeps ==
  ASSUME TypeOK, NEW r \in Runners, TrailInv(r), Send(r)
  PROVE  TrailInv(r)' /\ NoRetreat
<1>1. \E fate \in {"executed", "pending", "refused"} :
        /\ positions' = IF fate = "executed" THEN positions \cup {Opened(nextTicket)} ELSE positions
        /\ inflight' = IF fate = "pending" THEN inflight \cup {nextTicket} ELSE inflight
        /\ nextTicket' = IF fate = "refused" THEN nextTicket ELSE nextTicket + 1
  BY DEF Send
<1>2. UNCHANGED <<updates, deferred, file>> /\ (UNCHANGED <<plan, trailing>> \/ Gone(r))
  BY DEF Send
<1>3. batch[r] = <<>>
  BY DEF Send, TrailInv, SnapIsPlan
<1>4. Opened(nextTicket).ticket = nextTicket /\ ~Settled(nextTicket)
  BY Numbers DEF Opened, Settled
<1>5. TicketsOK' /\ \A t \in Int : Settled(t) => Settled(t)'
  <2>1. CASE UNCHANGED <<positions, inflight, nextTicket>>
    BY <1>2, <2>1 DEF TrailInv, TicketsOK, Settled
  <2>2. CASE /\ nextTicket' = nextTicket + 1
             /\ \/ positions' = positions \cup {Opened(nextTicket)} /\ inflight' = inflight
                \/ positions' = positions /\ inflight' = inflight \cup {nextTicket}
    BY <1>2, <1>4, <2>2, FreshTicket DEF TrailInv
  <2> QED
    BY <1>1, <2>1, <2>2
<1>6. \A q \in positions' :
        ~Settled(q.ticket) \/ \E p \in positions : p.ticket = q.ticket /\ p.sl = q.sl
  BY <1>1, <1>4
<1> QED
  BY <1>2, <1>3, <1>5, <1>6, OtherPositionsKeep

LEMMA WorldKeeps ==
  ASSUME ManualStops = {}, TypeOK, NEW r \in Runners, TrailInv(r), World
  PROVE  TrailInv(r)' /\ NoRetreat
<1>1. UNCHANGED <<deferred, file, pc, plan, trailing>>
  BY DEF World, BrokerCloses, BrokerExecutes, BrokerUpdates, ManualOpen, ManualTarget, ManualStop,
         locals, trailing
<1>2. /\ TicketsOK'
      /\ \A t \in Int : Settled(t) => Settled(t)'
      /\ \A q \in positions' :
           \/ ~Settled(q.ticket) \/ q.ticket \in deferred
           \/ \E p \in positions : p.ticket = q.ticket /\ p.sl = q.sl
  <2>1. CASE BrokerCloses
    BY <2>1 DEF BrokerCloses, TrailInv, TicketsOK, Settled
  <2>2. CASE BrokerExecutes
    <3>1. PICK t \in inflight :
            /\ inflight' = inflight \ {t}
            /\ positions' \in {positions, positions \cup {Opened(t)}}
            /\ UNCHANGED <<nextTicket, updates, deferred>>
      BY <2>2 DEF BrokerExecutes
    <3>2. Opened(t).ticket = t /\ ~Settled(t) /\ t > 0 /\ t < nextTicket
      BY DEF Opened, Settled, TrailInv, TicketsOK
    <3> QED
      BY <3>1, <3>2 DEF TrailInv, TicketsOK, Settled
  <2>3. CASE ManualOpen
    <3> DEFINE new == [Opened(nextTicket) EXCEPT !.frame = 0]
    <3>1. new.ticket = nextTicket /\ ~Settled(nextTicket)
      BY Numbers DEF Opened, Settled
    <3>2. /\ positions' = positions \cup {new} /\ nextTicket' = nextTicket + 1
          /\ UNCHANGED <<inflight, updates, deferred>>
      BY <2>3 DEF ManualOpen
    <3> HIDE DEF new
    <3> QED
      BY <3>1, <3>2, FreshTicket DEF TrailInv
  <2>4. CASE ManualTarget
    <3>1. PICK p \in positions : positions' = (positions \ {p}) \cup {[p EXCEPT !.frame = 0]}
      BY <2>4 DEF ManualTarget
    <3>2. [p EXCEPT !.frame = 0].ticket = p.ticket /\ [p EXCEPT !.frame = 0].sl = p.sl
      BY DEF TypeOK, Position
    <3>3. UNCHANGED <<inflight, nextTicket, updates, deferred>> /\ TicketsOK
      BY <2>4 DEF ManualTarget, TrailInv
    <3> DEFINE new == [p EXCEPT !.frame = 0]
    <3> HIDE DEF new
    <3>4. new.ticket = p.ticket /\ new.sl = p.sl /\ positions' = (positions \ {p}) \cup {new}
      BY <3>1, <3>2 DEF new
    <3>5. \A q, s \in positions' : q.ticket = s.ticket => q = s
      BY <3>3, <3>4 DEF TicketsOK
    <3>6. \A q \in positions' : q.ticket > 0 /\ Settled(q.ticket)
      BY <3>3, <3>4 DEF TicketsOK
    <3>7. TicketsOK'
      BY <3>3, <3>5, <3>6 DEF TicketsOK, Settled
    <3> QED
      BY <3>3, <3>4, <3>7 DEF Settled
  <2>5. CASE ManualStop
    BY <2>5 DEF ManualStop
  <2>6. CASE BrokerUpdates
    <3>1. PICK u \in updates :
            /\ updates' = updates \ {u}
            /\ \/ positions' = positions
               \/ /\ Holding(u.ticket) # {}
                  /\ positions' = (positions \ Holding(u.ticket)) \cup {u}
      BY <2>6 DEF BrokerUpdates
    <3>2. UNCHANGED <<inflight, nextTicket, deferred>> /\ TicketsOK
      BY <2>6 DEF BrokerUpdates, TrailInv
    <3>3. u.ticket \in deferred /\ \A x \in updates' : x.ticket \in deferred
      BY <3>1, <3>2 DEF TicketsOK
    <3>4. \A q \in positions' : q \in positions \/ (q = u /\ Holding(u.ticket) # {})
      BY <3>1
    <3>5. \A q \in positions' : q.ticket > 0 /\ Settled(q.ticket)
      BY <3>2, <3>4 DEF TicketsOK, Holding
    <3>6. \A q, x \in positions' : q.ticket = x.ticket => q = x
      BY <3>1, <3>2 DEF TicketsOK, Holding
    <3>7. TicketsOK'
      BY <3>2, <3>3, <3>5, <3>6 DEF TicketsOK, Settled
    <3>8. \A q \in positions' :
            \/ ~Settled(q.ticket) \/ q.ticket \in deferred
            \/ \E p \in positions : p.ticket = q.ticket /\ p.sl = q.sl
      BY <3>3, <3>4
    <3> QED
      BY <3>2, <3>7, <3>8 DEF Settled
  <2> QED
    BY <2>1, <2>2, <2>3, <2>4, <2>5, <2>6 DEF World
<1> QED
  BY <1>1, <1>2, OtherPositionsKeep

-----------------------------------------------------------------------------
(***************************************************************************)
(* The theorems.                                                           *)
(***************************************************************************)
LEMMA TrailInit ==
  ASSUME Init, NEW r \in Runners
  PROVE  TrailInv(r)
BY DEF Init, TrailInv, TicketsOK, KnownSettled, Settled, SnapCovers, SnapIsPlan, Secured,
       NoPosition, NoPlan

LEMMA TrailStep ==
  ASSUME NEW me, Runners = {me}, ManualStops = {}, TypeOK, TrailInv(me), [Next]_vars
  PROVE  TrailInv(me)' /\ NoRetreat
<1> me \in Runners
  OBVIOUS
<1> USE DEF Goto
<1>1. CASE Start(me)
  <2>1. plan'[me] = file /\ file' = file /\ batch[me] = <<>> /\ UNCHANGED <<broker, trailing>>
    BY <1>1 DEF Start, TypeOK, TrailInv, SnapIsPlan
  <2> QED
    BY <2>1, PlanReplaced DEF TrailInv, KnownSettled
<1>2. CASE StartFails(me)
  BY <1>2, TrailUnchanged DEF StartFails, vars, locals, trailing, TypeOK, TrailInv, SnapIsPlan
<1>3. CASE Reconcile(me)
  <2>1. CASE Gone(me)
    BY <1>3, <2>1, GoneKeeps DEF Reconcile
  <2>2. CASE ~Gone(me)
    <3>1. /\ plan'[me] \in {plan[me], NoPlan} /\ batch[me] = <<>>
          /\ UNCHANGED <<broker, file, trailing>>
      BY <1>3, <2>2 DEF Reconcile, TypeOK, locals, trailing, TrailInv, SnapIsPlan
    <3>2. Settled(plan'[me].ticket) /\ Secured(plan'[me])
      BY <3>1, NothingSettled DEF TrailInv, KnownSettled, NoPlan, Secured
    <3> QED
      BY <3>1, <3>2, PlanReplaced DEF TrailInv, KnownSettled
  <2> QED
    BY <2>1, <2>2
<1>4. CASE ClearPlan(me)
  <2>1. /\ plan'[me] = NoPlan /\ file' = NoPlan /\ batch[me] = <<>>
        /\ UNCHANGED <<broker, trailing>>
    BY <1>4 DEF ClearPlan, TypeOK, TrailInv, SnapIsPlan
  <2>2. Settled(NoPlan.ticket) /\ Secured(NoPlan)
    BY NothingSettled DEF TrailInv, NoPlan, Secured
  <2> QED
    BY <2>1, <2>2, PlanReplaced
<1>5. CASE Exit(me)
  BY <1>5, GoneKeeps DEF Exit
<1>6. CASE Manage(me)
  <2>1. batch[me] = <<>>
    BY <1>6 DEF Manage, TrailInv, SnapIsPlan
  <2>2. CASE UNCHANGED trailing
    BY <1>6, <2>1, <2>2, TrailUnchanged DEF Manage
  <2>3. CASE \E p \in positions :
               /\ p.ticket = plan[me].ticket
               /\ snap' = [snap EXCEPT ![me] = p]
               /\ pc' = [pc EXCEPT ![me] = "trail"]
    <3>1. PICK p \in positions : p.ticket = plan[me].ticket /\ snap'[me] = p
      BY <2>3 DEF TypeOK
    <3>2. pc'[me] = "trail" /\ UNCHANGED <<broker, file, plan>>
      BY <1>6, <2>3 DEF Manage, TypeOK
    <3>3. TicketsOK' /\ NoRetreat
      BY <3>2, BrokerUnchanged DEF TrailInv
    <3>4. SnapCovers(me)'
      BY <3>1, <3>2, Numbers DEF TrailInv, TicketsOK, SnapCovers, broker
    <3>5. KnownSettled(me)' /\ SnapIsPlan(me)' /\ Secured(plan[me])' /\ Secured(file)'
      BY <3>1, <3>2 DEF TrailInv, KnownSettled, Settled, SnapIsPlan, Secured, broker
    <3> QED
      BY <3>3, <3>4, <3>5 DEF TrailInv
  <2> QED
    BY <1>6, <2>2, <2>3 DEF Manage, Seen
<1>7. CASE PassCandle(me)
  <2>1. /\ observed'[me] \in Nat /\ observed'[me] >= observed[me]
        /\ batch[me] # <<>> /\ pc[me] = "trail"
        /\ UNCHANGED <<broker, file, pc, plan, snap>>
    <3>1. Head(batch[me]) \in Int
      <4>1. batch[me] \in Seq(Closes) /\ batch[me] # <<>>
        BY <1>7 DEF TypeOK, PassCandle
      <4> QED
        BY <4>1, HeadTailProperties, RunnerAssumption
    <3>2. Decision(me).confirmed \in Nat /\ Decision(me).confirmed >= observed[me]
      BY <3>1, Numbers, EvaluateTrailType, RunnerAssumption DEF Decision
    <3> QED
      BY <1>7, <3>2 DEF PassCandle, TypeOK
  <2>2. TicketsOK' /\ NoRetreat
    BY <2>1, BrokerUnchanged DEF TrailInv
  <2>3. SnapCovers(me)'
    <3>1. /\ StopFor(observed[me]) <= StopFor(observed'[me])
          /\ StopFor(observed[me]) \in Int /\ StopFor(observed'[me]) \in Int
          /\ observed[me] \in Nat
      <4>1. observed[me] \in Nat
        BY Numbers
      <4>2. observed[me] \in Int /\ observed'[me] \in Int
        BY <2>1, <4>1
      <4>3. StopFor(observed[me]) <= StopFor(observed'[me])
        BY <2>1, <4>2, StopForMonotone
      <4> QED
        BY <4>1, <4>2, <4>3, StopForType
    <3>2. \A p \in positions :
            p.ticket = snap[me].ticket /\ p.ticket \notin deferred =>
              p.sl <= snap[me].sl \/ (observed'[me] >= 1 /\ p.sl <= StopFor(observed'[me]))
      BY <2>1, <3>1, Numbers DEF TrailInv, SnapCovers
    <3> QED
      BY <2>1, <3>2 DEF SnapCovers, broker
  <2>4. KnownSettled(me)' /\ SnapIsPlan(me)' /\ Secured(plan[me])' /\ Secured(file)'
    BY <2>1 DEF TrailInv, KnownSettled, Settled, SnapIsPlan, Secured, broker
  <2> QED
    BY <2>2, <2>3, <2>4 DEF TrailInv
<1>8. CASE ModifyStop(me)
  BY <1>8, ModifyKeeps
<1>9. CASE EndOfBatch(me)
  <2>1. /\ snap'[me] = NoPosition /\ batch'[me] = <<>>
        /\ UNCHANGED <<broker, file, plan>>
    BY <1>9 DEF EndOfBatch, TypeOK
  <2>2. TicketsOK' /\ NoRetreat
    BY <2>1, BrokerUnchanged DEF TrailInv
  <2>3. KnownSettled(me)'
    BY <2>1, NothingSettled DEF TrailInv, KnownSettled, Settled, NoPosition, broker
  <2>4. SnapCovers(me)'
    BY <2>1 DEF TrailInv, TicketsOK, SnapCovers, NoPosition, broker
  <2>5. SnapIsPlan(me)' /\ Secured(plan[me])' /\ Secured(file)'
    BY <2>1 DEF TrailInv, SnapIsPlan, Secured, broker
  <2> QED
    BY <2>2, <2>3, <2>4, <2>5 DEF TrailInv
<1>10. CASE BeginSave(me)
  <2>1. file' = Torn /\ pc'[me] = "saving" /\ UNCHANGED <<broker, plan, trailing>>
    BY <1>10 DEF BeginSave, TypeOK, locals, trailing
  <2>2. Settled(Torn.ticket) /\ Secured(Torn)
    BY NothingSettled DEF TrailInv, Torn, Secured
  <2> QED
    BY <2>1, <2>2, PlanReplaced DEF TrailInv, KnownSettled
<1>11. CASE EndSave(me)
  <2>1. file' = plan[me] /\ UNCHANGED broker
    BY <1>11 DEF EndSave
  <2>2. CASE ~Gone(me)
    <3>1. pc'[me] = "trail" /\ UNCHANGED <<plan, trailing>>
      BY <1>11, <2>2 DEF EndSave, TypeOK, locals, trailing
    <3> QED
      BY <2>1, <3>1, PlanReplaced DEF TrailInv, KnownSettled
  <2>3. CASE Gone(me)
    <3>1. plan'[me] = NoPlan /\ batch'[me] = <<>> /\ snap'[me] = NoPosition
      BY <2>3 DEF Gone, TypeOK
    <3>2. TicketsOK' /\ NoRetreat
      BY <2>1, BrokerUnchanged DEF TrailInv
    <3>3. KnownSettled(me)'
      BY <2>1, <3>1, NothingSettled
         DEF TrailInv, KnownSettled, Settled, NoPlan, NoPosition, broker
    <3>4. SnapCovers(me)' /\ SnapIsPlan(me)'
      BY <2>1, <3>1 DEF TrailInv, TicketsOK, SnapCovers, SnapIsPlan, NoPosition, broker
    <3>5. Secured(plan[me])' /\ Secured(file)'
      BY <2>1, <3>1 DEF TrailInv, Secured, NoPlan, broker
    <3> QED
      BY <3>2, <3>3, <3>4, <3>5 DEF TrailInv
  <2> QED
    BY <2>2, <2>3
<1>12. CASE Candidate(me)
  <2>1. CASE Gone(me)
    BY <1>12, <2>1, GoneKeeps DEF Candidate
  <2>2. CASE ~Gone(me)
    BY <1>12, <2>2, TrailUnchanged DEF Candidate, locals, trailing, TrailInv, SnapIsPlan
  <2> QED
    BY <2>1, <2>2
<1>13. CASE Guard(me)
  <2>1. CASE Gone(me)
    BY <1>13, <2>1, GoneKeeps DEF Guard
  <2>2. CASE ~Gone(me)
    BY <1>13, <2>2, TrailUnchanged DEF Guard, locals, trailing, TrailInv, SnapIsPlan
  <2> QED
    BY <2>1, <2>2
<1>14. CASE Send(me)
  BY <1>14, SendKeeps
<1>15. CASE AfterFill(me)
  <2>1. CASE Gone(me)
    BY <1>15, <2>1, GoneKeeps DEF AfterFill
  <2>2. CASE UNCHANGED locals
    BY <1>15, <2>2, TrailUnchanged DEF AfterFill, locals, trailing, TrailInv, SnapIsPlan
  <2>3. CASE \E p \in positions :
               plan' = [plan EXCEPT ![me] =
                          [ticket |-> p.ticket, frame |-> setup[me], milestone |-> 0]]
    <3>1. PICK p \in positions :
            plan'[me] = [ticket |-> p.ticket, frame |-> setup[me], milestone |-> 0]
      BY <2>3 DEF TypeOK
    <3>2. Settled(plan'[me].ticket) /\ Secured(plan'[me])
      BY <3>1 DEF TrailInv, TicketsOK, Secured
    <3>3. batch[me] = <<>>
      BY <1>15 DEF AfterFill, TrailInv, SnapIsPlan
    <3>4. CASE UNCHANGED trailing
      BY <1>15, <3>2, <3>3, <3>4, PlanReplaced DEF AfterFill, TrailInv, KnownSettled
    <3>5. CASE Gone(me)
      BY <1>15, <3>5, GoneKeeps DEF AfterFill
    <3> QED
      BY <1>15, <3>4, <3>5 DEF AfterFill, locals, trailing
  <2> QED
    BY <1>15, <2>1, <2>2, <2>3 DEF AfterFill, Seen
<1>16. CASE Crash(me)
  BY <1>16, GoneKeeps DEF Crash
<1>17. CASE World
  BY <1>17, WorldKeeps
<1>18. CASE UNCHANGED vars
  BY <1>18, TrailUnchanged DEF vars, locals, trailing, TypeOK, TrailInv, SnapIsPlan
<1> QED
  BY <1>1, <1>2, <1>3, <1>4, <1>5, <1>6, <1>7, <1>8, <1>9, <1>10, <1>11, <1>12, <1>13,
     <1>14, <1>15, <1>16, <1>17, <1>18 DEF Next, RunnerStep

\* With one runner and nobody moving stops by hand, a stop once advanced is never
\* given back: whatever the terminal refuses, loses or answers None to, whatever
\* positions are opened besides, and wherever the runner crashes and restarts
\* (manage_protected_position with route_position_stop_update).  Updates may be put
\* off (PLACED); the position of one that was is the only one excepted, from that
\* answer on.
THEOREM StopRatchets ==
  ASSUME NEW me, Runners = {me}, ManualStops = {}
  PROVE  Spec => StopNeverRetreats
<1>1. Init => TrailInv(me)
  BY TrailInit
<1>2. TypeOK /\ TrailInv(me) /\ [Next]_vars => TrailInv(me)'
  BY TrailStep
<1>3. TypeOK /\ TrailInv(me) /\ [Next]_vars
        => [\A p \in positions, q \in positions' :
              p.ticket = q.ticket /\ p.ticket \notin deferred => q.sl >= p.sl]_vars
  BY TrailStep DEF NoRetreat
<1> QED
  BY <1>1, <1>2, <1>3, TypeCorrect, PTL DEF Spec, StopNeverRetreats

\* Under the same assumptions the record never claims a milestone that the broker's
\* stop does not secure, so that a restart never trails from too far ahead, except
\* for a position with an update that was put off: route_position_stop_update counts
\* PLACED as applied, and the milestone is saved before the stop moves, if it does.
THEOREM RecordIsSecured ==
  ASSUME NEW me, Runners = {me}, ManualStops = {}
  PROVE  Spec => []RecordNeverAhead
<1>1. Init => TrailInv(me)
  BY TrailInit
<1>2. TypeOK /\ TrailInv(me) /\ [Next]_vars => TrailInv(me)'
  BY TrailStep
<1>3. TrailInv(me) => RecordNeverAhead
  BY DEF TrailInv, Secured, RecordNeverAhead
<1> QED
  BY <1>1, <1>2, <1>3, TypeCorrect, PTL DEF Spec

-----------------------------------------------------------------------------
(***************************************************************************)
(* One order per run.  A run that was told of a fill has the flag up       *)
(* (entry_submitted_this_run), and a run on its way to the broker has it   *)
(* down (EntryInv).                                                        *)
(***************************************************************************)
EntryInv ==
  \A r \in Runners : /\ setup[r] # 0 => submitted[r]
                     /\ pc[r] \in {"guard", "send"} => ~submitted[r]

StepEntersOnce == \A r \in Runners : setup[r] # 0 /\ pc'[r] # "off" => setup'[r] = setup[r]

\* However many runners there are and whatever the broker, the terminal and a person
\* at it do, a run that was told of a fill never has a second order filled
\* (entry_submitted_this_run in the loop of --execute-one-demo).
THEOREM RunEntersOnce == Spec => OneEntryPerRun
<1>1. Init => EntryInv
  BY DEF Init, EntryInv
<1>2. TypeOK /\ EntryInv /\ [Next]_vars => EntryInv' /\ StepEntersOnce
  <2> SUFFICES ASSUME TypeOK, EntryInv, [Next]_vars
               PROVE  EntryInv' /\ StepEntersOnce
    OBVIOUS
  <2>1. CASE UNCHANGED <<pc, submitted, setup>>
    BY <2>1 DEF EntryInv, StepEntersOnce
  <2>2. ASSUME NEW r \in Runners, Gone(r)
        PROVE  EntryInv' /\ StepEntersOnce
    <3>1. /\ pc' = [pc EXCEPT ![r] = "off"]
          /\ submitted' = [submitted EXCEPT ![r] = FALSE]
          /\ setup' = [setup EXCEPT ![r] = 0]
      BY <2>2 DEF Gone
    <3> QED
      BY <3>1 DEF EntryInv, StepEntersOnce, TypeOK
  <2>3. ASSUME NEW r \in Runners, NEW to, to \notin {"guard", "send"},
               pc' = [pc EXCEPT ![r] = to], UNCHANGED <<submitted, setup>>
        PROVE  EntryInv' /\ StepEntersOnce
    BY <2>3 DEF EntryInv, StepEntersOnce, TypeOK
  <2>4. ASSUME NEW r \in Runners, NEW to, ~submitted[r],
               pc' = [pc EXCEPT ![r] = to], UNCHANGED <<submitted, setup>>
        PROVE  EntryInv' /\ StepEntersOnce
    BY <2>4 DEF EntryInv, StepEntersOnce, TypeOK
  <2>5. ASSUME NEW r \in Runners, Send(r), ~Gone(r)
        PROVE  EntryInv' /\ StepEntersOnce
    <3>1. /\ pc' = [pc EXCEPT ![r] = "filled"]
          /\ submitted' = [submitted EXCEPT ![r] = TRUE]
          /\ setup' = [setup EXCEPT ![r] = nextTicket]
          /\ pc[r] = "send"
      BY <2>5 DEF Send
    <3>2. setup[r] = 0
      BY <3>1 DEF EntryInv
    <3> QED
      BY <3>1, <3>2 DEF EntryInv, StepEntersOnce, TypeOK
  <2>6. ASSUME NEW r \in Runners, RunnerStep(r) \/ Crash(r)
        PROVE  EntryInv' /\ StepEntersOnce
    <3> USE DEF Goto, locals, trading
    <3>1. CASE Start(r) \/ ClearPlan(r) \/ EndOfBatch(r) \/ BeginSave(r)
      BY <2>3, <3>1 DEF Start, ClearPlan, EndOfBatch, BeginSave
    <3>2. CASE Reconcile(r)
      BY <2>2, <2>3, <3>2 DEF Reconcile
    <3>3. CASE Exit(r) \/ Crash(r)
      BY <2>2, <3>3 DEF Exit, Crash
    <3>4. CASE Manage(r)
      BY <2>3, <3>4 DEF Manage
    <3>5. CASE PassCandle(r) \/ StartFails(r)
      BY <2>1, <3>5 DEF PassCandle, StartFails, vars
    <3>6. CASE ModifyStop(r)
      <4>1. UNCHANGED <<submitted, setup>> /\ (pc' = pc \/ pc' = [pc EXCEPT ![r] = "save"])
        BY <3>6 DEF ModifyStop
      <4> QED
        BY <2>1, <2>3, <4>1
    <3>7. CASE EndSave(r)
      BY <2>2, <2>3, <3>7 DEF EndSave
    <3>8. CASE Candidate(r)
      BY <2>2, <2>4, <3>8 DEF Candidate
    <3>9. CASE Guard(r)
      BY <2>2, <2>4, <3>9 DEF Guard, EntryInv
    <3>10. CASE Send(r)
      BY <2>2, <2>5, <3>10
    <3>11. CASE AfterFill(r)
      BY <2>2, <2>3, <3>11 DEF AfterFill
    <3> QED
      BY <2>6, <3>1, <3>2, <3>3, <3>4, <3>5, <3>6, <3>7, <3>8, <3>9, <3>10, <3>11
         DEF RunnerStep
  <2>7. CASE World \/ UNCHANGED vars
    BY <2>1, <2>7 DEF World, BrokerCloses, BrokerExecutes, BrokerUpdates, ManualOpen, ManualTarget,
                      ManualStop, vars, locals
  <2> QED
    BY <2>6, <2>7 DEF Next
<1>3. StepEntersOnce => [\A r \in Runners :
                           setup[r] # 0 /\ pc'[r] # "off" => setup'[r] = setup[r]]_vars
  BY DEF StepEntersOnce
<1> QED
  BY <1>1, <1>2, <1>3, TypeCorrect, PTL DEF Spec, OneEntryPerRun

-----------------------------------------------------------------------------
(***************************************************************************)
(* The record.  With one runner, at every crash and at every stop of the   *)
(* process, the record on file is that of the position the broker holds,   *)
(* or there is none: start-up then accepts it (Matches) or clears it, and  *)
(* never drops the plan while the record stays.  The price is a chain of   *)
(* facts about the whole run: the account and the record (AccountInv), the *)
(* plan in memory (PlanInv), the entry of this run (FillInv).              *)
(***************************************************************************)
InFrame(x) == x.frame = x.ticket
OnlyPosition(ticket) == \A p \in positions : p.ticket = ticket

AccountInv ==
  /\ \A p \in positions : /\ InFrame(p) /\ ValidGeometry(p)
                          /\ p.ticket # 0 /\ p.ticket < nextTicket
  /\ \A u \in updates : InFrame(u) /\ ValidGeometry(u)
  /\ file \notin {NoPlan, Torn} => InFrame(file) /\ OnlyPosition(file.ticket)

PlanInv(r) ==
  /\ InFrame(snap[r]) /\ InFrame(plan[r]) /\ SnapIsPlan(r)
  /\ pc[r] \in {"loaded", "loop", "trail", "guard", "send", "filled"} => plan[r] = file
  /\ pc[r] \in {"off", "guard", "send", "filled"} => plan[r] = NoPlan
  /\ pc[r] \in {"trail", "save", "saving"} => OnlyPosition(plan[r].ticket)

FillInv(r) ==
  /\ pc[r] \in {"off", "loaded", "guard", "send"} => ~submitted[r]
  /\ submitted[r] => setup[r] < nextTicket
  /\ pc[r] = "filled" => submitted[r] /\ OnlyPosition(setup[r])
  /\ submitted[r] /\ pc[r] = "clear" => Holding(setup[r]) = {}
  /\ submitted[r] /\ pc[r] \in {"loop", "trail", "save", "saving"} =>
       Holding(setup[r]) = {} \/ plan[r].ticket = setup[r]

RecordInv(r) == AccountInv /\ PlanInv(r) /\ FillInv(r)

\* Every stop a candle can lead to lies short of the final target.
LEMMA StopBeforeTarget ==
  ASSUME NEW m \in Int, NEW tp \in Nat, tp > 0, m <= MaximumMilestone(tp)
  PROVE  StopFor(m) < tp
<1> DEFINE q == tp \div RiskUnits
<1>1. q \in Int /\ q * RiskUnits <= tp
  BY TrailAssumption
<1>2. m <= 1 \/ m <= q
  BY <1>1, TrailAssumption DEF MaximumMilestone, Smaller, Larger
<1>3. CASE m <= 1
  BY <1>3, TrailAssumption DEF StopFor, Larger
<1>4. CASE m > 1 /\ m <= q
  <2>1. (m - 1) * RiskUnits <= (q - 1) * RiskUnits
    <3>1. ASSUME NEW x \in Nat, NEW y \in Nat, NEW k \in Nat, x <= y
          PROVE  x * k <= y * k
      BY <3>1
    <3>2. m - 1 \in Nat /\ q - 1 \in Nat /\ m - 1 <= q - 1
      BY <1>1, <1>4
    <3> HIDE DEF q
    <3> QED
      BY <3>1, <3>2, TrailAssumption
  <2>2. (q - 1) * RiskUnits = q * RiskUnits - RiskUnits
    BY <1>1, TrailAssumption
  <2>3. StopFor(m) = (m - 1) * RiskUnits - TrailBuffer
    BY <1>4 DEF StopFor, Larger
  <2>4. (m - 1) * RiskUnits \in Int /\ q * RiskUnits \in Int
    BY <1>1, TrailAssumption
  <2> HIDE DEF q
  <2> QED
    BY <1>1, <2>1, <2>2, <2>3, <2>4, TrailAssumption
<1> QED
  BY <1>1, <1>2, <1>3, <1>4

LEMMA DecisionBeforeTarget ==
  ASSUME TypeOK, NEW r \in Runners, batch[r] # <<>>
  PROVE  Decision(r).stop < Target
<1>1. Head(batch[r]) \in Int /\ Target \in Nat /\ Target > 0
  <2>1. batch[r] \in Seq(Closes)
    BY DEF TypeOK
  <2>2. Head(batch[r]) \in Closes
    BY <2>1, HeadTailProperties
  <2>3. Target \in Nat /\ Target > RiskUnits /\ Closes \subseteq Int
    BY RunnerAssumption
  <2>4. RiskUnits \in Nat /\ RiskUnits > 0
    BY TrailAssumption
  <2>5. Head(batch[r]) \in Int
    BY <2>2, <2>3, Zenon
  <2>6. Target > 0
    BY <2>3, <2>4
  <2> QED
    BY <2>3, <2>5, <2>6, Zenon
<1> DEFINE c == ConfirmedBy(Head(batch[r]), Target)
<1>2. c \in Int /\ c <= MaximumMilestone(Target)
  <2>1. (Head(batch[r]) - ConfirmBuffer) \div RiskUnits \in Int
    BY <1>1, TrailAssumption
  <2> QED
    BY <1>1, <2>1, MaximumMilestoneType DEF ConfirmedBy, Smaller
<1>3. Decision(r).stop = StopFor(c)
  BY DEF Decision, EvaluateTrail
<1> HIDE DEF c
<1> QED
  BY <1>1, <1>2, <1>3, StopBeforeTarget

\* A process that is gone leaves what it knew behind it.
LEMMA GoneForgets ==
  ASSUME TypeOK, NEW r \in Runners, Gone(r), AccountInv'
  PROVE  RecordInv(r)'
<1>1. /\ pc'[r] = "off" /\ plan'[r] = NoPlan /\ snap'[r] = NoPosition
      /\ submitted'[r] = FALSE /\ batch'[r] = <<>>
  BY DEF Gone, TypeOK
<1> QED
  BY <1>1 DEF RecordInv, PlanInv, FillInv, InFrame, NoPlan, NoPosition, SnapIsPlan

\* Positions that disappear, or stops that a person moves short of the target, disturb
\* nothing the runner relies on.
LEMMA WorldKeepsRecord ==
  ASSUME TypeOK, NEW r \in Runners, RecordInv(r), UNCHANGED <<nextTicket, file, pc, locals>>,
         \A q \in positions' :
           /\ \E p \in positions : p.ticket = q.ticket /\ p.frame = q.frame
           /\ ValidGeometry(q),
         updates' \subseteq updates
  PROVE  RecordInv(r)'
<1>1. AccountInv'
  BY DEF RecordInv, AccountInv, InFrame, OnlyPosition
<1>2. PlanInv(r)'
  BY DEF RecordInv, PlanInv, InFrame, OnlyPosition, SnapIsPlan, locals
<1>3. Holding(setup[r]) = {} => Holding(setup[r])' = {}
  BY DEF Holding, locals
<1>4. FillInv(r)'
  BY <1>3 DEF RecordInv, FillInv, OnlyPosition, locals
<1> QED
  BY <1>1, <1>2, <1>4 DEF RecordInv

LEMMA RecordStep ==
  ASSUME NEW me, Runners = {me},
         ManualTrading = FALSE, QueryMayFail = FALSE, LateExecution = FALSE,
         \A s \in ManualStops : s < Target,
         TypeOK, SingleInv(me), RecordInv(me), [Next]_vars
  PROVE  RecordInv(me)'
<1> me \in Runners
  OBVIOUS
<1> USE DEF Goto
<1>0. AccountInv /\ PlanInv(me) /\ FillInv(me)
  BY DEF RecordInv
<1>a. ASSUME UNCHANGED <<broker, file>>
      PROVE  AccountInv'
  BY <1>0, <1>a DEF AccountInv, OnlyPosition, broker
<1>b. ASSUME UNCHANGED <<broker, file>>, Gone(me)
      PROVE  RecordInv(me)'
  BY <1>a, <1>b, GoneForgets
<1>1. CASE Start(me)
  <2>1. /\ pc[me] = "off" /\ pc'[me] = "loaded" /\ plan'[me] = file /\ file # Torn
        /\ UNCHANGED <<broker, file, trading, trailing>>
    BY <1>1 DEF Start, TypeOK
  <2>2. InFrame(plan'[me])
    BY <1>0, <2>1 DEF AccountInv, InFrame, NoPlan
  <2>3. PlanInv(me)'
    BY <1>0, <2>1, <2>2 DEF PlanInv, InFrame, SnapIsPlan, trailing
  <2>4. FillInv(me)'
    BY <1>0, <2>1 DEF FillInv, trading, broker
  <2> QED
    BY <1>a, <2>1, <2>3, <2>4 DEF RecordInv
<1>2. CASE Reconcile(me)
  <2>1. CASE Gone(me)
    BY <1>2, <1>b, <2>1 DEF Reconcile
  <2>2. CASE ~Gone(me)
    <3>1. /\ pc[me] = "loaded" /\ plan[me] = file /\ batch[me] = <<>> /\ ~submitted[me]
          /\ UNCHANGED <<broker, file, submitted, setup, trailing>>
      <4>1. pc[me] = "loaded" /\ UNCHANGED <<broker, file>>
        BY <1>2 DEF Reconcile
      <4>2. plan[me] = file /\ batch[me] = <<>> /\ ~submitted[me]
        BY <1>0, <4>1 DEF PlanInv, FillInv, SnapIsPlan
      <4>3. UNCHANGED <<submitted, setup, trailing>>
        BY <1>2, <2>2 DEF Reconcile, locals, trailing
      <4> QED
        BY <4>1, <4>2, <4>3
    <3>2. positions # {} /\ plan[me] # NoPlan => Matches(plan[me], positions)
      <4> SUFFICES ASSUME positions # {}, plan[me] # NoPlan
                   PROVE  Matches(plan[me], positions)
        OBVIOUS
      <4>1. PICK p \in positions : positions = {p}
        BY DEF SingleInv, SinglePosition
      <4>2. file \notin {NoPlan, Torn}
        BY <3>1 DEF TypeOK, Plan, Torn
      <4> QED
        BY <1>0, <3>1, <4>1, <4>2 DEF AccountInv, OnlyPosition, InFrame, Matches
    <3>3. plan'[me] = plan[me] /\ pc'[me] \in {"loop", "clear"}
      BY <1>2, <2>2, <3>2 DEF Reconcile, Seen, TypeOK, locals
    <3>4. PlanInv(me)'
      BY <1>0, <3>1, <3>3 DEF PlanInv, InFrame, SnapIsPlan, trailing
    <3>5. FillInv(me)'
      BY <1>0, <3>1, <3>3 DEF FillInv
    <3> QED
      BY <1>a, <3>1, <3>4, <3>5 DEF RecordInv
  <2> QED
    BY <2>1, <2>2
<1>3. CASE ClearPlan(me)
  <2>1. /\ pc[me] = "clear" /\ pc'[me] = "loop" /\ plan'[me] = NoPlan /\ file' = NoPlan
        /\ UNCHANGED <<broker, trading, trailing>>
    BY <1>3 DEF ClearPlan, TypeOK
  <2>2. AccountInv'
    BY <1>0, <2>1 DEF AccountInv, broker
  <2>3. PlanInv(me)'
    BY <1>0, <2>1 DEF PlanInv, InFrame, NoPlan, SnapIsPlan, trailing
  <2>4. FillInv(me)'
    BY <1>0, <2>1 DEF FillInv, Holding, trading, broker
  <2> QED
    BY <2>2, <2>3, <2>4 DEF RecordInv
<1>4. CASE Exit(me)
  BY <1>4, <1>b DEF Exit
<1>5. CASE Manage(me)
  <2> DEFINE mine == {p \in positions : p.ticket = plan[me].ticket}
  <2>1. /\ pc[me] = "loop" /\ plan[me] # NoPlan /\ plan[me] = file
        /\ UNCHANGED <<broker, file, plan, submitted, setup>>
    BY <1>0, <1>5 DEF Manage, PlanInv, trading
  <2>2. OnlyPosition(plan[me].ticket)
    <3>1. file # Torn
      BY <2>1 DEF TypeOK, Plan, Torn
    <3> QED
      BY <1>0, <2>1, <3>1 DEF AccountInv
  <2>3. CASE mine = {} /\ pc'[me] = "clear" /\ UNCHANGED trailing
    <3>1. PlanInv(me)'
      BY <1>0, <2>1, <2>3 DEF PlanInv, InFrame, SnapIsPlan, trailing
    <3>2. FillInv(me)'
      BY <1>0, <2>1, <2>3 DEF FillInv, Holding, broker
    <3> QED
      BY <1>a, <2>1, <3>1, <3>2 DEF RecordInv
  <2>4. CASE pc'[me] = "trail" /\ \E p \in mine : snap'[me] = p
    <3>1. InFrame(snap'[me]) /\ snap'[me].ticket = plan[me].ticket
      BY <1>0, <2>4 DEF AccountInv
    <3>2. PlanInv(me)'
      BY <1>0, <2>1, <2>2, <2>4, <3>1 DEF PlanInv, InFrame, SnapIsPlan, OnlyPosition, broker
    <3>3. FillInv(me)'
      BY <1>0, <2>1, <2>4 DEF FillInv, Holding, broker
    <3> QED
      BY <1>a, <2>1, <3>2, <3>3 DEF RecordInv
  <2> QED
    BY <1>5, <2>3, <2>4 DEF Manage, Seen, TypeOK
<1>6. CASE PassCandle(me)
  <2>1. /\ pc[me] = "trail" /\ batch[me] # <<>>
        /\ UNCHANGED <<broker, file, pc, plan, trading, snap>>
    BY <1>6 DEF PassCandle
  <2>2. PlanInv(me)'
    BY <1>0, <2>1 DEF PlanInv, InFrame, SnapIsPlan, OnlyPosition, broker
  <2>3. FillInv(me)'
    BY <1>0, <2>1 DEF FillInv, Holding, broker, trading
  <2> QED
    BY <1>a, <2>1, <2>2, <2>3 DEF RecordInv
<1>7. CASE ModifyStop(me)
  <2> DEFINE moved == [snap[me] EXCEPT !.sl = Decision(me).stop]
             live  == Holding(snap[me].ticket)
  <2>1. /\ pc[me] = "trail" /\ batch[me] # <<>> /\ pc'[me] \in {"trail", "save"}
        /\ \/ positions' = positions
           \/ live # {} /\ positions' = (positions \ live) \cup {moved}
        /\ updates' \in {updates, updates \cup {moved}}
        /\ snap' \in {snap, [snap EXCEPT ![me] = moved]}
        /\ UNCHANGED <<nextTicket, file, submitted, setup>>
    BY <1>7 DEF ModifyStop, TypeOK, trading
  <2>2. /\ plan'[me].ticket = plan[me].ticket /\ plan'[me].frame = plan[me].frame
        /\ pc'[me] = "trail" => plan'[me] = plan[me]
    <3>1. plan \in [Runners -> Plan] /\ pc \in [Runners -> PCs]
      BY DEF TypeOK
    <3> QED
      BY <1>7, <3>1 DEF ModifyStop, Plan
  <2>3. /\ moved.ticket = snap[me].ticket /\ InFrame(moved) /\ ValidGeometry(moved)
        /\ snap[me].ticket = plan[me].ticket
    <3>1. snap[me] \in Position
      BY DEF TypeOK
    <3>2. Decision(me).stop < Target
      BY <2>1, DecisionBeforeTarget
    <3>3. InFrame(snap[me]) /\ snap[me].ticket = plan[me].ticket
      BY <1>0, <2>1 DEF PlanInv, SnapIsPlan
    <3> QED
      BY <3>1, <3>2, <3>3 DEF Position, InFrame, ValidGeometry
  <2> HIDE DEF moved
  <2>4. InFrame(snap'[me]) /\ snap'[me].ticket = snap[me].ticket
    BY <1>0, <2>1, <2>3 DEF TypeOK, PlanInv
  <2>5. \A q \in positions' : /\ \E p \in positions : p.ticket = q.ticket
                              /\ InFrame(q) /\ ValidGeometry(q)
    BY <1>0, <2>1, <2>3 DEF AccountInv, Holding
  <2> HIDE DEF live
  <2>6. AccountInv'
    <3>1. \A u \in updates' : InFrame(u) /\ ValidGeometry(u)
      BY <1>0, <2>1, <2>3 DEF AccountInv
    <3> QED
      BY <1>0, <2>1, <2>5, <3>1 DEF AccountInv, OnlyPosition
  <2>7. PlanInv(me)'
    BY <1>0, <2>1, <2>2, <2>3, <2>4, <2>5 DEF PlanInv, InFrame, SnapIsPlan, OnlyPosition
  <2>8. Holding(setup[me]) = {} => Holding(setup[me])' = {}
    BY <2>1, <2>5 DEF Holding
  <2>9. FillInv(me)'
    BY <1>0, <2>1, <2>2, <2>8 DEF FillInv
  <2> QED
    BY <2>6, <2>7, <2>9 DEF RecordInv
<1>8. CASE EndOfBatch(me)
  <2>1. /\ pc[me] = "trail" /\ pc'[me] = "loop" /\ batch'[me] = <<>>
        /\ snap'[me] = NoPosition
        /\ UNCHANGED <<broker, file, plan, trading>>
    BY <1>8 DEF EndOfBatch, TypeOK
  <2>2. PlanInv(me)'
    BY <1>0, <2>1 DEF PlanInv, InFrame, SnapIsPlan, NoPosition
  <2>3. FillInv(me)'
    BY <1>0, <2>1 DEF FillInv, Holding, broker, trading
  <2> QED
    BY <1>a, <2>1, <2>2, <2>3 DEF RecordInv
<1>9. CASE BeginSave(me)
  <2>1. /\ pc[me] = "save" /\ pc'[me] = "saving" /\ file' = Torn
        /\ UNCHANGED <<broker, locals>>
    BY <1>9 DEF BeginSave, TypeOK
  <2>2. AccountInv'
    BY <1>0, <2>1 DEF AccountInv, broker
  <2>3. PlanInv(me)'
    BY <1>0, <2>1 DEF PlanInv, InFrame, SnapIsPlan, OnlyPosition, locals, broker
  <2>4. FillInv(me)'
    BY <1>0, <2>1 DEF FillInv, Holding, locals, broker
  <2> QED
    BY <2>2, <2>3, <2>4 DEF RecordInv
<1>10. CASE EndSave(me)
  <2>1. pc[me] = "saving" /\ file' = plan[me] /\ UNCHANGED broker
    BY <1>10 DEF EndSave
  <2>2. AccountInv'
    BY <1>0, <2>1 DEF AccountInv, PlanInv, InFrame, OnlyPosition, broker
  <2>3. CASE Gone(me)
    BY <2>2, <2>3, GoneForgets
  <2>4. CASE pc' = [pc EXCEPT ![me] = "trail"] /\ UNCHANGED locals
    <3>1. pc'[me] = "trail"
      BY <2>4 DEF TypeOK
    <3>2. PlanInv(me)'
      BY <1>0, <2>1, <2>4, <3>1 DEF PlanInv, InFrame, SnapIsPlan, OnlyPosition, locals, broker
    <3>3. FillInv(me)'
      BY <1>0, <2>1, <2>4, <3>1 DEF FillInv, Holding, locals, broker
    <3> QED
      BY <2>2, <3>2, <3>3 DEF RecordInv
  <2> QED
    BY <1>10, <2>3, <2>4 DEF EndSave
<1>11. CASE Candidate(me)
  <2>1. CASE Gone(me)
    BY <1>11, <1>b, <2>1 DEF Candidate
  <2>2. CASE ~Gone(me)
    <3>1. /\ pc[me] = "loop" /\ pc'[me] = "guard" /\ plan[me] = NoPlan /\ ~submitted[me]
          /\ UNCHANGED <<broker, file, locals>>
      BY <1>11, <2>2 DEF Candidate, TypeOK
    <3>2. PlanInv(me)'
      BY <1>0, <3>1 DEF PlanInv, InFrame, SnapIsPlan, locals
    <3>3. FillInv(me)'
      BY <1>0, <3>1 DEF FillInv, locals
    <3> QED
      BY <1>a, <3>1, <3>2, <3>3 DEF RecordInv
  <2> QED
    BY <2>1, <2>2
<1>12. CASE Guard(me)
  <2>1. CASE Gone(me)
    BY <1>12, <1>b, <2>1 DEF Guard
  <2>2. CASE ~Gone(me)
    <3>1. /\ pc[me] = "guard" /\ pc'[me] = "send"
          /\ UNCHANGED <<broker, file, locals>>
      BY <1>12, <2>2 DEF Guard, TypeOK
    <3>2. PlanInv(me)'
      BY <1>0, <3>1 DEF PlanInv, InFrame, SnapIsPlan, locals
    <3>3. FillInv(me)'
      BY <1>0, <3>1 DEF FillInv, locals
    <3> QED
      BY <1>a, <3>1, <3>2, <3>3 DEF RecordInv
  <2> QED
    BY <2>1, <2>2
<1>13. CASE Send(me)
  <2> DEFINE new == Opened(nextTicket)
  <2>1. /\ pc[me] = "send" /\ positions = {} /\ file = NoPlan /\ UNCHANGED file
        /\ nextTicket \in Nat \ {0}
    BY <1>0, <1>13 DEF Send, PlanInv, SingleInv, FlatAhead, TypeOK
  <2>2. new.ticket = nextTicket /\ InFrame(new) /\ ValidGeometry(new)
    BY RunnerAssumption, TrailAssumption DEF Opened, InFrame, ValidGeometry, InitialStop
  <2>3. \/ positions' = positions /\ nextTicket' \in {nextTicket, nextTicket + 1}
        \/ positions' = {new} /\ nextTicket' = nextTicket + 1
    BY <1>13, <2>1 DEF Send
  <2> HIDE DEF new
  <2>7. UNCHANGED updates
    BY <1>13 DEF Send
  <2>4. AccountInv'
    BY <1>0, <2>1, <2>2, <2>3, <2>7 DEF AccountInv
  <2>5. CASE Gone(me)
    BY <2>4, <2>5, GoneForgets
  <2>6. CASE ~Gone(me)
    <3>1. /\ pc'[me] = "filled" /\ submitted'[me] = TRUE /\ setup'[me] = nextTicket
          /\ nextTicket' = nextTicket + 1
          /\ UNCHANGED <<plan, trailing>>
      BY <1>13, <2>6 DEF Send, TypeOK
    <3>2. PlanInv(me)'
      BY <1>0, <2>1, <3>1 DEF PlanInv, InFrame, SnapIsPlan, trailing
    <3>3. FillInv(me)'
      BY <1>0, <2>1, <2>2, <2>3, <3>1 DEF FillInv, OnlyPosition
    <3> QED
      BY <2>4, <3>2, <3>3 DEF RecordInv
  <2> QED
    BY <2>5, <2>6
<1>14. CASE AfterFill(me)
  <2>1. /\ pc[me] = "filled" /\ plan[me] = file /\ batch[me] = <<>> /\ submitted[me]
        /\ OnlyPosition(setup[me]) /\ UNCHANGED <<broker, file>>
    BY <1>0, <1>14 DEF AfterFill, PlanInv, FillInv, SnapIsPlan
  <2>2. CASE Gone(me)
    BY <1>b, <2>1, <2>2
  <2>3. CASE \E p \in positions :
               /\ positions = {p}
               /\ plan' = [plan EXCEPT ![me] =
                             [ticket |-> p.ticket, frame |-> setup[me], milestone |-> 0]]
               /\ pc' = [pc EXCEPT ![me] = "save"]
               /\ UNCHANGED <<mode, trading, trailing>>
    <3>1. /\ pc'[me] = "save" /\ UNCHANGED <<trading, trailing>>
          /\ plan'[me].ticket = setup[me] /\ plan'[me].frame = setup[me]
      BY <2>1, <2>3 DEF TypeOK, OnlyPosition
    <3>2. PlanInv(me)'
      BY <1>0, <2>1, <3>1 DEF PlanInv, InFrame, SnapIsPlan, OnlyPosition, broker, trading, trailing
    <3>3. FillInv(me)'
      BY <1>0, <2>1, <3>1 DEF FillInv, broker, trading
    <3> QED
      BY <1>a, <2>1, <3>2, <3>3 DEF RecordInv
  <2>4. CASE /\ Cardinality(positions) # 1
             /\ pc' = [pc EXCEPT ![me] = "loop"] /\ UNCHANGED locals
    <3>1. positions = {}
      <4>1. \A p \in positions : positions = {p}
        BY DEF SingleInv, SinglePosition
      <4>2. \A p \in positions : Cardinality({p}) = 1
        BY FS_Singleton
      <4> QED
        BY <2>4, <4>1, <4>2
    <3>2. pc'[me] = "loop" /\ UNCHANGED locals
      BY <2>4 DEF TypeOK
    <3>3. PlanInv(me)'
      BY <1>0, <2>1, <3>2 DEF PlanInv, InFrame, SnapIsPlan, locals
    <3>4. FillInv(me)'
      BY <1>0, <2>1, <3>1, <3>2 DEF FillInv, Holding, locals, broker
    <3> QED
      BY <1>a, <2>1, <3>3, <3>4 DEF RecordInv
  <2> QED
    BY <1>14, <2>2, <2>3, <2>4 DEF AfterFill, Seen
<1>15. CASE Crash(me)
  BY <1>15, <1>b DEF Crash
<1>16. CASE BrokerCloses
  BY <1>0, <1>16, WorldKeepsRecord DEF BrokerCloses, AccountInv
<1>17. CASE BrokerExecutes \/ ManualOpen \/ ManualTarget
  BY <1>17 DEF BrokerExecutes, ManualOpen, ManualTarget, SingleInv
<1>18. CASE ManualStop
  <2>1. PICK p \in positions, s \in ManualStops :
          positions' = (positions \ {p}) \cup {[p EXCEPT !.sl = s]}
    BY <1>18 DEF ManualStop
  <2> DEFINE new == [p EXCEPT !.sl = s]
  <2>2. new.ticket = p.ticket /\ new.frame = p.frame /\ new.sl = s
    BY DEF TypeOK, Position
  <2> HIDE DEF new
  <2>3. \A q \in positions' : /\ \E x \in positions : x.ticket = q.ticket /\ x.frame = q.frame
                              /\ ValidGeometry(q)
    BY <1>0, <2>1, <2>2 DEF new, AccountInv, ValidGeometry
  <2>4. UNCHANGED <<nextTicket, updates, file, pc, locals>>
    BY <1>18 DEF ManualStop
  <2> QED
    BY <2>3, <2>4, WorldKeepsRecord
<1>19. CASE StartFails(me) \/ UNCHANGED vars
  <2>1. UNCHANGED <<positions, nextTicket, updates, file, pc, locals>>
    BY <1>19 DEF StartFails, vars, broker
  <2> QED
    BY <1>0, <2>1, WorldKeepsRecord DEF AccountInv
<1>20. CASE BrokerUpdates
  <2>1. PICK u \in updates :
          /\ updates' = updates \ {u}
          /\ \/ positions' = positions
             \/ /\ Holding(u.ticket) # {}
                /\ positions' = (positions \ Holding(u.ticket)) \cup {u}
    BY <1>20 DEF BrokerUpdates
  <2>2. InFrame(u) /\ ValidGeometry(u)
    BY <1>0 DEF AccountInv
  <2>3. \A q \in positions' : /\ \E x \in positions : x.ticket = q.ticket /\ x.frame = q.frame
                              /\ ValidGeometry(q)
    BY <1>0, <2>1, <2>2 DEF AccountInv, InFrame, Holding
  <2>4. UNCHANGED <<nextTicket, file, pc, locals>>
    BY <1>20 DEF BrokerUpdates
  <2> QED
    BY <2>1, <2>3, <2>4, WorldKeepsRecord
<1> QED
  BY <1>1, <1>2, <1>3, <1>4, <1>5, <1>6, <1>7, <1>8, <1>9, <1>10, <1>11, <1>12, <1>13, <1>14,
     <1>15, <1>16, <1>17, <1>18, <1>19, <1>20 DEF Next, RunnerStep, World

LEMMA RecordIsKept ==
  ASSUME NEW me, Runners = {me},
         ManualTrading = FALSE, QueryMayFail = FALSE, LateExecution = FALSE,
         \A s \in ManualStops : s < Target
  PROVE  Spec => []RecordInv(me)
<1>1. Init => SingleInv(me) /\ RecordInv(me)
  BY DEF Init, SingleInv, SinglePosition, FlatAhead, RecordInv, AccountInv, PlanInv, FillInv,
         InFrame, SnapIsPlan, NoPlan, NoPosition
<1>2. TypeOK /\ SingleInv(me) /\ RecordInv(me) /\ [Next]_vars => SingleInv(me)' /\ RecordInv(me)'
  BY SingleStep, RecordStep
<1> QED
  BY <1>1, <1>2, TypeCorrect, PTL DEF Spec

\* One runner at its loop always has in memory what is on file, wherever it crashed,
\* was refused or got no answer, provided orders execute before they are answered,
\* queries succeed and nobody opens positions or sets a stop beyond the target by
\* hand (start-up reconciliation, plan_store.save and plan_store.clear).
THEOREM MemoryIsRecord ==
  ASSUME NEW me, Runners = {me},
         ManualTrading = FALSE, QueryMayFail = FALSE, LateExecution = FALSE,
         \A s \in ManualStops : s < Target
  PROVE  Spec => []MemoryMatchesRecord
<1>1. RecordInv(me) => MemoryMatchesRecord
  BY DEF RecordInv, PlanInv, MemoryMatchesRecord
<1> QED
  BY <1>1, RecordIsKept, PTL

\* Under the same assumptions a plan trails in the R-frame of its own position
\* (the plan built after a fill, and every plan accepted from the record).
THEOREM PlanIsOwnFrame ==
  ASSUME NEW me, Runners = {me},
         ManualTrading = FALSE, QueryMayFail = FALSE, LateExecution = FALSE,
         \A s \in ManualStops : s < Target
  PROVE  Spec => []PlanKeepsOwnFrame
<1>1. RecordInv(me) => PlanKeepsOwnFrame
  BY DEF RecordInv, PlanInv, InFrame, PlanKeepsOwnFrame
<1> QED
  BY <1>1, RecordIsKept, PTL

\* Under the same assumptions a run that was told its order was filled protects that
\* position as long as the broker holds it (the plan made after the fill).
THEOREM FilledIsProtected ==
  ASSUME NEW me, Runners = {me},
         ManualTrading = FALSE, QueryMayFail = FALSE, LateExecution = FALSE,
         \A s \in ManualStops : s < Target
  PROVE  Spec => []OpenedIsManaged
<1>1. RecordInv(me) => OpenedIsManaged
  BY DEF RecordInv, FillInv, OpenedIsManaged
<1> QED
  BY <1>1, RecordIsKept, PTL
=======================================================================================
