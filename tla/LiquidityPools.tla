----------------------------- MODULE LiquidityPools -----------------------------
(***************************************************************************)
(* analytics/liquidity_engine.py: the resting pools behind swing highs and *)
(* lows, until a tick runs through them.  Prices are tenths of a dollar.   *)
(*                                                                         *)
(* _pools is a list in the order of registration, so the first match of a  *)
(* loop over it is the match with the smallest id.                         *)
(***************************************************************************)
EXTENDS Integers, FiniteSets

CONSTANTS
  Tolerance,        \* _tolerance
  Offset            \* how far the far edge of a pool lies from its pivot

ASSUME PoolAssumption == Tolerance \in Nat /\ Offset \in Nat /\ Offset <= Tolerance

VARIABLES
  pools,            \* _pools: the unswept ones
  made              \* _counter

poolVars == <<pools, made>>

PoolsInit == pools = {} /\ made = 0

\* Mutant: a pivot repeats only its own price.
MatchesExactly(some, buySide, price) == {p \in some : p.buySide = buySide /\ p.ceiling = price}

\* Of some pools, those that a pivot repeats: their ceiling, whatever the side.
Matches(some, buySide, price) ==
  {p \in some : /\ p.buySide = buySide
                /\ price - Tolerance <= p.ceiling /\ p.ceiling <= price + Tolerance}

\* The first match of the loop: ids are handed out in the order of the list.
First(matches) == {p \in matches : \A q \in matches : p.id <= q.id}

\* LiquidityPool.floor_price: the pivot for a buy-side pool, below it for the other
Floor(p) == p.ceiling - Offset

\* register_structural_pivot_pool, on the pools that are left
Register(left, buySide, price) ==
  LET matches == Matches(left, buySide, price)
  IN  IF matches # {}
      THEN /\ \E pool \in First(matches) : pools' = (left \ {pool}) \cup {[pool EXCEPT !.touches = @ + 1]}
           /\ made' = made
      ELSE /\ pools' = left \cup
                 {[id |-> made + 1, buySide |-> buySide, touches |-> 1,
                   ceiling |-> IF buySide THEN price + Offset ELSE price]}
           /\ made' = made + 1

\* evaluate_tick_sweeps: which pools a price runs through, and what is left
Swept(price) == {p \in pools : IF p.buySide THEN price > p.ceiling ELSE price < Floor(p)}

\* The quality scores of active_pools_snapshot and _swept_pool_payload (tenths)
ActiveQuality(p) == IF p.touches > 5 THEN 100 ELSE 50 + 10 * p.touches
SweptQuality(p) == IF p.touches > 4 THEN 100 ELSE 60 + 10 * p.touches

-------------------------------------------------------------------------------
\* The engine alone: any pivot, any tick.
PoolsNext ==
  \/ \E buySide \in BOOLEAN, price \in Int : Register(pools, buySide, price)
  \/ \E price \in Int : pools' = pools \ Swept(price) /\ made' = made

PoolsSpec == PoolsInit /\ [][PoolsNext]_poolVars

PoolsTypeOK ==
  /\ made \in Nat
  /\ pools \subseteq [id : Nat, buySide : BOOLEAN, touches : Nat, ceiling : Int]

\* Two pools of a side are never the same level twice: sell-side ceilings are more
\* than the tolerance apart, buy-side ones, recorded Offset above their pivot, more
\* than the tolerance less that offset.
PoolsApart ==
  \A p, q \in pools :
    (p.id < q.id /\ p.buySide = q.buySide) =>
      LET apart == IF p.buySide THEN Tolerance - Offset ELSE Tolerance
      IN  p.ceiling - q.ceiling > apart \/ q.ceiling - p.ceiling > apart

PoolIdsUnique ==
  /\ \A p \in pools : p.id <= made
  /\ \A p, q \in pools : p.id = q.id => p = q
===============================================================================
