SPECIFICATION Spec
CONSTANT Quotes <- QuotesTried
CONSTANT Setups <- SetupsTried
CONSTANT Budgets <- BudgetsTried
CONSTANT Ranges <- RangesTried
CONSTANT MinSteps = 1
CONSTANT MaxSteps = 5
CONSTANT MinDistance = 4
CONSTANT MaxDistance = 7
CONSTANT SpreadMultiplier = 3
CONSTANT MinRr = 2
CONSTANT MinRiskToCost = 1
CONSTANT Slippage = 0
CONSTANT MaxSpread = 2
CONSTANT MaxInactivity = 2
CONSTANT MaxAge = 2
CONSTANT MaxTime = 4
INVARIANT RiskWithinBudget
CHECK_DEADLOCK FALSE
