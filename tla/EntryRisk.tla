------------------------------- MODULE EntryRisk -------------------------------
(***************************************************************************)
(* From a scored candidate to an order: the live-quote monitor, the risk   *)
(* gate, stop hardening and cost gates of the runner's loop, and the       *)
(* gateway's revalidation at a later quote.                                *)
(*                                                                         *)
(* Prices are integers, those of a setup on the axis of its direction dir  *)
(* (1 buys, -1 sells).  Volume counts broker steps, and one step held over *)
(* one unit of price costs one unit of money.  The runner awaits the       *)
(* terminal and its notifications, and the market moves meanwhile, between *)
(* its three steps Observe, Decide and Submit.                             *)
(*                                                                         *)
(* Nothing in the program sets a trading halt or a daily loss, or reports  *)
(* an outcome to the drawdown engine: evaluate_systemic_restrictions has   *)
(* one answer in a run.                                                    *)
(***************************************************************************)
EXTENDS Integers, FiniteSets, TLAPS

CONSTANTS
  Quotes,           \* what may be quoted: records bid, spread
  Setups,           \* candidates: records dir, entry, stop, target
  Budgets,          \* equity times the multiplier of a score tier
  Ranges,           \* 1.25 times the median range of the last closed candles
  MinSteps,         \* volume_min
  MaxSteps,         \* the smallest of max_lot and volume_max
  MinDistance, MaxDistance, SpreadMultiplier,   \* StopHardeningConfig
  MinRr,            \* minimum_rr
  MinRiskToCost,    \* minimum_risk_to_cost_ratio
  Slippage,         \* slippage_price
  MaxSpread,        \* MAXIMUM_ENTRY_SPREAD_PRICE; the risk gate's is max_spread_pips
  MaxInactivity,    \* MAXIMUM_LIVE_QUOTE_INACTIVITY_SECONDS
  MaxAge,           \* maximum_quote_age_seconds
  MaxTime           \* bound: the clock

ASSUME RiskAssumption ==
  /\ Quotes \subseteq [bid : Int, spread : Nat]
  /\ Setups \subseteq [dir : {1, -1}, entry : Int, stop : Int, target : Int]
  /\ Budgets \subseteq Nat /\ Ranges \subseteq Nat
  /\ MinSteps \in Nat \ {0} /\ MaxSteps \in Nat
  /\ MinDistance \in Nat \ {0} /\ MaxDistance \in Nat /\ MinDistance <= MaxDistance
  /\ SpreadMultiplier \in Nat /\ MinRr \in Nat /\ MinRiskToCost \in Nat /\ Slippage \in Nat
  /\ MaxSpread \in Nat /\ MaxInactivity \in Nat /\ MaxAge \in Nat

VARIABLES
  now, quote,       \* the clock and the broker's quote, stamped with its time
  seen,             \* _previous_signature of the monitor: a set of one quote or none
  updated,          \* _last_update_time: a set of one time or none
  stage,            \* where the runner's loop is
  tick,             \* the quote the loop works on: a set of one or none
  processed,        \* previous_signature of the loop
  age,              \* activity_snapshot.quote_age_seconds
  plan,             \* what Decide passes on to Submit: a set of one or none
  order             \* the order sent: a set of one or none

vars == <<now, quote, seen, updated, stage, tick, processed, age, plan, order>>

Smaller(a, b) == IF a <= b THEN a ELSE b
Larger(a, b) == IF a >= b THEN a ELSE b
Abs(x) == IF x < 0 THEN -x ELSE x

\* The price a quote would fill a direction at, on its axis
Live(d, q) == IF d = 1 THEN q.bid + q.spread ELSE -q.bid

-------------------------------------------------------------------------------
\* calculate_stop_loss_currency_per_lot: an error, 0, on a stop not below the entry
LossPerStep(entry, stop) == IF stop >= entry THEN 0 ELSE entry - stop

\* normalize_order_volume
Normalized(steps) == LET capped == Smaller(steps, MaxSteps) IN IF capped < MinSteps THEN 0 ELSE capped

\* calculate_lot_size: an error (0) without a loss per step
Sized(s, budget) ==
  LET loss == LossPerStep(s.entry, s.stop)
  IN  IF loss = 0 THEN 0 ELSE Normalized(budget \div loss)

RrAtLeast(s, minimum) == Abs(s.target - s.entry) >= minimum * Abs(s.entry - s.stop)

\* evaluate_trade_entry_gate: spread, reward and a volume
Gate(s, q, budget) == q.spread <= MaxSpread /\ 2 * Abs(s.target - s.entry) >= 3 * Abs(s.entry - s.stop)
                        /\ Sized(s, budget) > 0

\* harden_for_demo_execution: a stop closer than the noise is moved away, and the target with it
Required(spread, range) ==
  Smaller(MaxDistance, Larger(MinDistance, Larger(spread * SpreadMultiplier, range)))

Hardened(s, distance) ==
  LET risk == Abs(s.entry - s.stop)
      reward == Abs(s.target - s.entry)
  IN  IF risk >= distance THEN s
      ELSE [s EXCEPT !.stop = s.entry - distance,
                     !.target = s.entry + (IF RrAtLeast(s, MinRr) /\ risk > 0 THEN (distance * reward) \div risk
                                           ELSE distance * MinRr)]

\* _execution_rr_snapshot: the costs at the quote of the loop; a price beyond the stop is not noticed
CostsAccepted(s, q) ==
  LET fill == Live(s.dir, q)
      cost == q.spread + Slippage
      risk == Abs(fill - s.stop)
  IN  /\ risk >= MinRiskToCost * cost
      /\ risk + cost > 0 /\ s.target - fill - cost >= MinRr * (risk + cost)

-------------------------------------------------------------------------------
\* The adaptive volume of route_revalidated_order_submission: what the approved money
\* buys at the live stop, or the smallest lot of all when that is too little.
Adapted(steps, approved, loss) ==
  LET volume == Normalized(steps)
      fitting == Normalized(Smaller(volume, approved \div loss))
  IN  IF loss = 0 \/ approved <= 0 \/ volume = 0 THEN [steps |-> volume, override |-> FALSE]
      ELSE IF fitting > 0 THEN [steps |-> fitting, override |-> FALSE]
      ELSE IF Normalized(MinSteps) > 0 THEN [steps |-> Normalized(MinSteps), override |-> TRUE]
      ELSE [steps |-> volume, override |-> FALSE]

\* Mutant: the override approves any risk.
ApprovedBlindly(s, q, volume, approved, quoteAge) ==
  LET live == Live(s.dir, q)
      risk == volume.steps * LossPerStep(live, s.stop)
  IN  /\ volume.steps > 0 /\ quoteAge <= MaxAge /\ q.spread <= MaxSpread
      /\ approved > 0 /\ risk > 0
      /\ ~volume.override => risk <= approved
      /\ s.stop < live /\ live < s.target

\* PreSubmissionRiskGuard.evaluate; the override is tolerated up to as much again
Approved(s, q, volume, approved, quoteAge) ==
  LET live == Live(s.dir, q)
      risk == volume.steps * LossPerStep(live, s.stop)
  IN  /\ volume.steps > 0 /\ quoteAge <= MaxAge /\ q.spread <= MaxSpread
      /\ approved > 0 /\ risk > 0
      /\ risk <= approved + (IF volume.override THEN approved ELSE 0)
      /\ s.stop < live /\ live < s.target

-------------------------------------------------------------------------------
Init ==
  /\ now = 0 /\ \E q \in Quotes : quote = [bid |-> q.bid, spread |-> q.spread, stamp |-> 0]
  /\ seen = {} /\ updated = {} /\ stage = "watch" /\ tick = {} /\ processed = {} /\ age = 0
  /\ plan = {} /\ order = {}

\* Time passes, with a new quote or without.
Market ==
  /\ now < MaxTime /\ now' = now + 1
  /\ \/ quote' = quote
     \/ \E q \in Quotes : quote' = [bid |-> q.bid, spread |-> q.spread, stamp |-> now + 1]
  /\ UNCHANGED <<seen, updated, stage, tick, processed, age, plan, order>>

\* LiveQuoteActivityMonitor.observe: _last_update_time after this reading
UpdatedBy(q) == IF seen # {} /\ q \notin seen THEN {now} ELSE updated

\* What the loop goes on with: a live stream, and a quote not processed before
Active(q) == (\E t \in UpdatedBy(q) : now - t <= MaxInactivity) /\ q \notin processed

\* The head of the loop: read, observe, skip what is inactive or was processed before
Observe ==
  /\ stage = "watch"
  /\ seen' = {quote} /\ updated' = UpdatedBy(quote)
  /\ IF Active(quote)
     THEN /\ stage' = "decide" /\ tick' = {quote} /\ processed' = {quote}
          /\ \E t \in UpdatedBy(quote) : age' = now - t
     ELSE UNCHANGED <<stage, tick, processed, age>>
  /\ UNCHANGED <<now, quote, plan, order>>

\* One candidate through scoring (its budget, or no), risk gate, hardening and cost gates
Decide ==
  /\ stage = "decide"
  /\ \/ stage' = "watch" /\ plan' = {} /\ tick' = {} /\ age' = 0
     \/ \E s \in Setups, budget \in Budgets, range \in Ranges, q \in tick :
          LET hard == Hardened(s, Required(q.spread, range))
              steps == Sized(hard, budget)
          IN  /\ Gate(s, q, budget)
              /\ hard # s => Gate(hard, q, budget)
              /\ CostsAccepted(hard, q)
              /\ stage' = "submit"
              /\ plan' = {[setup |-> hard, steps |-> steps, budget |-> budget,
                           approved |-> steps * LossPerStep(hard.entry, hard.stop)]}
              /\ UNCHANGED <<tick, age>>
  /\ UNCHANGED <<now, quote, seen, updated, processed, order>>

\* route_revalidated_order_submission, at the quote of this moment; a refusal ends the run
Submit ==
  /\ stage = "submit"
  /\ \E p \in plan :
       LET live == Live(p.setup.dir, quote)
           volume == Adapted(p.steps, p.approved, LossPerStep(live, p.setup.stop))
       IN  order' = IF Approved(p.setup, quote, volume, p.approved, age)
                    THEN {[plan |-> p, entry |-> live, steps |-> volume.steps, override |-> volume.override,
                           quote |-> quote, at |-> now]}
                    ELSE {}
  /\ stage' = "done"
  /\ UNCHANGED <<now, quote, seen, updated, tick, processed, age, plan>>

\* The run is over; the next one begins with a monitor that has seen nothing.
Restart ==
  /\ stage = "done"
  /\ seen' = {} /\ updated' = {} /\ processed' = {} /\ stage' = "watch" /\ tick' = {} /\ age' = 0
  /\ plan' = {} /\ order' = {}
  /\ UNCHANGED <<now, quote>>

Next == Market \/ Observe \/ Decide \/ Submit \/ Restart

Spec == Init /\ [][Next]_vars

-------------------------------------------------------------------------------
\* What an order can lose at its stop, as quoted when it is sent: no more than the money
\* of its score tier, twice that when the smallest lot was forced; and it stands between
\* its stop and its target, however the market moved since the candidate was sized.
RiskWithinBudget ==
  \A o \in order :
    /\ o.steps * (o.entry - o.plan.setup.stop) <= (IF o.override THEN 2 ELSE 1) * o.plan.budget
    /\ o.plan.setup.stop < o.entry /\ o.entry < o.plan.setup.target

\* When quote changes stop for longer than the limit, the final execution gate refuses
\* (README.md:127): an order goes out only if the loop has seen a change that recently, or
\* the quote it goes out at is that young.
FinalGateFailsClosed ==
  \A o \in order, t \in updated : o.at - Larger(t, o.quote.stamp) <= MaxAge

\* Why it does not: a quote the loop goes on with has always just changed, and the age
\* measured then is what the gate is given, whatever time has passed.
AgeGateNeverFires == stage \in {"decide", "submit"} => age = 0

-------------------------------------------------------------------------------
(* Proofs: the age gate *)

\* Once the monitor has seen a change, what it saw last is what the loop processed last; and
\* a quote the loop goes on with has just changed.
AgeInv ==
  /\ now \in Int
  /\ \A a, b \in seen : a = b
  /\ \A a, b \in processed : a = b
  /\ updated # {} => seen # {} /\ seen = processed
  /\ AgeGateNeverFires

LEMMA ObserveKeepsAge == ASSUME AgeInv, Observe PROVE AgeInv'
<1> USE DEF Observe
<1>1. now' = now /\ now \in Int /\ seen' = {quote} /\ updated' = UpdatedBy(quote)
  BY DEF AgeInv
<1>2. CASE seen # {} /\ quote \notin seen
  <2>1. UpdatedBy(quote) = {now}
    BY <1>2 DEF UpdatedBy
  <2>2. CASE Active(quote)
    <3>1. processed' = {quote}
      BY <2>2
    <3>2. age' = 0
      <4>1. \E t \in {now} : age' = now - t
        BY <2>1, <2>2
      <4> QED
        BY <4>1, <1>1
    <3> QED
      BY <1>1, <3>1, <3>2 DEF AgeInv, AgeGateNeverFires
  <2>3. CASE ~Active(quote)
    <3>1. now - now <= MaxInactivity
      BY <1>1, RiskAssumption
    <3>2. quote \in processed
      BY <2>1, <2>3, <3>1 DEF Active
    <3>3. processed' = {quote} /\ stage' \notin {"decide", "submit"}
      BY <2>3, <3>2 DEF AgeInv
    <3> QED
      BY <1>1, <3>3 DEF AgeInv, AgeGateNeverFires
  <2> QED
    BY <2>2, <2>3
<1>3. CASE ~(seen # {} /\ quote \notin seen)
  <2>1. UpdatedBy(quote) = updated
    BY <1>3 DEF UpdatedBy
  <2>2. updated # {} => seen = {quote} /\ processed = {quote}
    BY <1>3 DEF AgeInv
  <2>3. ~Active(quote)
    BY <2>1, <2>2 DEF Active
  <2>4. processed' = processed /\ stage' \notin {"decide", "submit"}
    BY <2>3
  <2> QED
    BY <1>1, <2>1, <2>2, <2>4 DEF AgeInv, AgeGateNeverFires
<1> QED
  BY <1>2, <1>3

LEMMA AgeStep == AgeInv /\ [Next]_vars => AgeInv'
<1> SUFFICES ASSUME AgeInv, [Next]_vars PROVE AgeInv'
  OBVIOUS
<1>1. CASE Market
  BY <1>1 DEF Market, AgeInv, AgeGateNeverFires
<1>2. CASE Observe
  BY <1>2, ObserveKeepsAge
<1>3. CASE Decide
  <2>1. UNCHANGED <<now, seen, updated, processed>>
    BY <1>3 DEF Decide
  <2>2. stage = "decide" /\ (stage' = "watch" \/ age' = age)
    BY <1>3 DEF Decide
  <2> QED
    BY <2>1, <2>2 DEF AgeInv, AgeGateNeverFires
<1>4. CASE Submit
  BY <1>4 DEF Submit, AgeInv, AgeGateNeverFires
<1>5. CASE Restart
  BY <1>5 DEF Restart, AgeInv, AgeGateNeverFires
<1>6. CASE UNCHANGED vars
  BY <1>6 DEF vars, AgeInv, AgeGateNeverFires
<1> QED
  BY <1>1, <1>2, <1>3, <1>4, <1>5, <1>6 DEF Next

\* The quote age the runner hands to the pre-submission guard is always 0, so its limit refuses
\* nothing, however long the candidate took (mt5_intelligent_demo_runner.py, run_strategy).
THEOREM AgeIsNeverRefused == Spec => []AgeGateNeverFires
<1>1. Init => AgeInv
  BY DEF Init, AgeInv, AgeGateNeverFires
<1>2. AgeInv => AgeGateNeverFires
  BY DEF AgeInv
<1> QED
  BY <1>1, <1>2, AgeStep, PTL DEF Spec

-------------------------------------------------------------------------------
(* Proofs: the money an order can lose *)

\* What Decide passes on was sized within its budget, at the planned entry.
PlanWithinBudget ==
  \A p \in plan : /\ p.setup.stop \in Int /\ p.setup.dir \in {1, -1}
                  /\ p.steps \in Nat /\ p.budget \in Nat /\ p.approved \in Nat
                  /\ p.approved <= p.budget

RiskInv ==
  /\ quote.bid \in Int /\ quote.spread \in Nat
  /\ \A q \in tick : q.spread \in Nat
  /\ PlanWithinBudget
  /\ RiskWithinBudget

LEMMA LossIsNatural == ASSUME NEW e \in Int, NEW s \in Int PROVE LossPerStep(e, s) \in Nat
BY DEF LossPerStep

LEMMA NormalizedIsNoMore ==
  ASSUME NEW n \in Nat PROVE Normalized(n) \in Nat /\ Normalized(n) <= n
BY RiskAssumption DEF Normalized, Smaller

\* A budget divided into whole steps buys no more than itself.
LEMMA SizedWithinBudget ==
  ASSUME NEW s, s.entry \in Int, s.stop \in Int, NEW budget \in Nat
  PROVE  /\ Sized(s, budget) \in Nat
         /\ Sized(s, budget) * LossPerStep(s.entry, s.stop) \in Nat
         /\ Sized(s, budget) * LossPerStep(s.entry, s.stop) <= budget
<1> DEFINE loss == LossPerStep(s.entry, s.stop)
<1>1. loss \in Nat
  BY LossIsNatural
<1>2. CASE loss = 0
  BY <1>2 DEF Sized
<1>3. CASE loss # 0
  <2> DEFINE bought == budget \div loss
  <2>1. bought \in Nat /\ bought * loss <= budget
    <3> HIDE DEF loss
    <3> QED
      BY <1>1, <1>3
  <2>2. Sized(s, budget) = Normalized(bought)
    BY <1>3 DEF Sized
  <2> HIDE DEF bought, loss
  <2>3. Normalized(bought) \in Nat /\ Normalized(bought) <= bought
    BY <2>1, NormalizedIsNoMore
  <2>4. \A k \in Nat : k <= bought => k * loss \in Nat /\ k * loss <= bought * loss
    BY <1>1, <2>1
  <2> QED
    BY <1>1, <2>1, <2>2, <2>3, <2>4 DEF loss
<1> QED
  BY <1>2, <1>3

LEMMA HardenedPrices ==
  ASSUME NEW s \in Setups, NEW spread \in Nat, NEW range \in Ranges
  PROVE  LET hard == Hardened(s, Required(spread, range))
         IN  hard.entry \in Int /\ hard.stop \in Int /\ hard.dir \in {1, -1}
<1>1. Required(spread, range) \in Int
  <2>1. spread * SpreadMultiplier \in Nat /\ range \in Nat
    BY RiskAssumption
  <2> QED
    BY <2>1, RiskAssumption DEF Required, Smaller, Larger
<1>2. s \in [dir : {1, -1}, entry : Int, stop : Int, target : Int]
  BY RiskAssumption
<1> QED
  BY <1>1, <1>2 DEF Hardened

LEMMA AdaptedIsNatural ==
  ASSUME NEW steps \in Nat, NEW approved \in Nat, NEW loss \in Nat
  PROVE  Adapted(steps, approved, loss).steps \in Nat
<1>1. Normalized(steps) \in Nat /\ Normalized(MinSteps) \in Nat
  BY NormalizedIsNoMore, RiskAssumption
<1>2. CASE loss = 0
  BY <1>1, <1>2 DEF Adapted
<1>3. CASE loss # 0
  <2>1. approved \div loss \in Nat
    BY <1>3
  <2>2. Smaller(Normalized(steps), approved \div loss) \in Nat
    BY <1>1, <2>1 DEF Smaller
  <2>3. Normalized(Smaller(Normalized(steps), approved \div loss)) \in Nat
    BY <2>2, NormalizedIsNoMore
  <2> QED
    BY <1>1, <2>3 DEF Adapted
<1> QED
  BY <1>2, <1>3

LEMMA SubmitWithinBudget == ASSUME RiskInv, Submit PROVE RiskWithinBudget'
<1> SUFFICES ASSUME NEW o \in order'
             PROVE  /\ o.steps * (o.entry - o.plan.setup.stop) <= (IF o.override THEN 2 ELSE 1) * o.plan.budget
                    /\ o.plan.setup.stop < o.entry /\ o.entry < o.plan.setup.target
  BY DEF RiskWithinBudget
<1>1. PICK p \in plan :
        LET live == Live(p.setup.dir, quote)
            volume == Adapted(p.steps, p.approved, LossPerStep(live, p.setup.stop))
        IN  order' = IF Approved(p.setup, quote, volume, p.approved, age)
                     THEN {[plan |-> p, entry |-> live, steps |-> volume.steps, override |-> volume.override,
                            quote |-> quote, at |-> now]}
                     ELSE {}
  BY DEF Submit
<1> DEFINE live == Live(p.setup.dir, quote)
           volume == Adapted(p.steps, p.approved, LossPerStep(live, p.setup.stop))
<1>2. /\ Approved(p.setup, quote, volume, p.approved, age)
      /\ o = [plan |-> p, entry |-> live, steps |-> volume.steps, override |-> volume.override,
           quote |-> quote, at |-> now]
  BY <1>1
<1>3. /\ p.setup.stop \in Int /\ p.setup.dir \in {1, -1} /\ p.steps \in Nat /\ p.budget \in Nat
      /\ p.approved \in Nat /\ p.approved <= p.budget
  BY DEF RiskInv, PlanWithinBudget
<1>4. live \in Int
  BY <1>3 DEF Live, RiskInv
<1>5. LossPerStep(live, p.setup.stop) \in Nat
  BY <1>3, <1>4, LossIsNatural
<1> HIDE DEF live
<1>6. volume.steps \in Nat
  BY <1>3, <1>5, AdaptedIsNatural
<1> HIDE DEF volume
<1>7. /\ p.setup.stop < live /\ live < p.setup.target
      /\ volume.steps * LossPerStep(live, p.setup.stop) <= p.approved + (IF volume.override THEN p.approved ELSE 0)
  BY <1>2 DEF Approved, live
<1>8. LossPerStep(live, p.setup.stop) = live - p.setup.stop
  BY <1>3, <1>4, <1>7 DEF LossPerStep
<1>9. volume.steps * (live - p.setup.stop) <= (IF volume.override THEN 2 ELSE 1) * p.budget
  <2> DEFINE risk == volume.steps * (live - p.setup.stop)
  <2>1. risk \in Int
    BY <1>3, <1>4, <1>6
  <2>2. risk <= p.approved + (IF volume.override THEN p.approved ELSE 0)
    BY <1>7, <1>8
  <2> HIDE DEF risk
  <2>3. risk <= (IF volume.override THEN 2 ELSE 1) * p.budget
    BY <1>3, <2>1, <2>2
  <2> QED
    BY <2>3 DEF risk
<1> QED
  BY <1>2, <1>7, <1>9

LEMMA DecideWithinBudget == ASSUME RiskInv, Decide PROVE PlanWithinBudget'
<1>1. CASE plan' = {}
  BY <1>1 DEF PlanWithinBudget
<1>2. ASSUME NEW s \in Setups, NEW budget \in Budgets, NEW range \in Ranges, NEW q \in tick,
             LET hard == Hardened(s, Required(q.spread, range))
                 steps == Sized(hard, budget)
             IN  plan' = {[setup |-> hard, steps |-> steps, budget |-> budget,
                           approved |-> steps * LossPerStep(hard.entry, hard.stop)]}
      PROVE  PlanWithinBudget'
  <2> DEFINE hard == Hardened(s, Required(q.spread, range))
  <2>1. hard.entry \in Int /\ hard.stop \in Int /\ hard.dir \in {1, -1}
    BY HardenedPrices DEF RiskInv
  <2> HIDE DEF hard
  <2>2. budget \in Nat
    BY RiskAssumption
  <2>3. /\ Sized(hard, budget) \in Nat
        /\ Sized(hard, budget) * LossPerStep(hard.entry, hard.stop) \in Nat
        /\ Sized(hard, budget) * LossPerStep(hard.entry, hard.stop) <= budget
    BY <2>1, <2>2, SizedWithinBudget
  <2>4. plan' = {[setup |-> hard, steps |-> Sized(hard, budget), budget |-> budget,
                  approved |-> Sized(hard, budget) * LossPerStep(hard.entry, hard.stop)]}
    BY <1>2 DEF hard
  <2> QED
    BY <2>1, <2>2, <2>3, <2>4 DEF PlanWithinBudget
<1> QED
  BY <1>1, <1>2 DEF Decide

LEMMA RiskStep == RiskInv /\ [Next]_vars => RiskInv'
<1> SUFFICES ASSUME RiskInv, [Next]_vars PROVE RiskInv'
  OBVIOUS
<1> USE DEF RiskInv, RiskWithinBudget, PlanWithinBudget
<1>1. CASE Market
  <2>1. quote'.bid \in Int /\ quote'.spread \in Nat
    <3>1. CASE quote' = quote
      BY <3>1
    <3>2. ASSUME NEW q \in Quotes, quote' = [bid |-> q.bid, spread |-> q.spread, stamp |-> now + 1]
          PROVE  quote'.bid \in Int /\ quote'.spread \in Nat
      <4>1. q \in [bid : Int, spread : Nat]
        BY RiskAssumption
      <4> QED
        BY <3>2, <4>1
    <3> QED
      BY <1>1, <3>1, <3>2 DEF Market
  <2> QED
    BY <1>1, <2>1 DEF Market
<1>2. CASE Observe
  <2>1. \A q \in tick' : q.spread \in Nat
    BY <1>2 DEF Observe
  <2> QED
    BY <1>2, <2>1 DEF Observe
<1>3. CASE Decide
  <2>1. PlanWithinBudget'
    BY <1>3, DecideWithinBudget
  <2>2. \A q \in tick' : q.spread \in Nat
    BY <1>3 DEF Decide
  <2>3. UNCHANGED <<quote, order>>
    BY <1>3 DEF Decide
  <2> QED
    BY <2>1, <2>2, <2>3
<1>4. CASE Submit
  <2>1. RiskWithinBudget'
    BY <1>4, SubmitWithinBudget
  <2>2. UNCHANGED <<quote, tick, plan>>
    BY <1>4 DEF Submit
  <2> QED
    BY <2>1, <2>2
<1>5. CASE Restart
  BY <1>5 DEF Restart
<1>6. CASE UNCHANGED vars
  BY <1>6 DEF vars
<1> QED
  BY <1>1, <1>2, <1>3, <1>4, <1>5, <1>6 DEF Next

\* However the market moves between sizing and sending, an order risks no more than the money of
\* its score tier, or twice that with the forced smallest lot, and stands between its stop and its
\* target (mt5_gateway.py, route_revalidated_order_submission; PreSubmissionRiskGuard.evaluate).
THEOREM RiskStaysWithinBudget == Spec => []RiskWithinBudget
<1>1. Init => RiskInv
  <2> SUFFICES ASSUME Init PROVE RiskInv
    OBVIOUS
  <2>1. PICK q \in Quotes : quote = [bid |-> q.bid, spread |-> q.spread, stamp |-> 0]
    BY DEF Init
  <2>2. q \in [bid : Int, spread : Nat]
    BY RiskAssumption
  <2> QED
    BY <2>1, <2>2 DEF Init, RiskInv, PlanWithinBudget, RiskWithinBudget
<1>2. RiskInv => RiskWithinBudget
  BY DEF RiskInv
<1> QED
  BY <1>1, <1>2, RiskStep, PTL DEF Spec
===============================================================================
