SPECIFICATION FairBillingSpec
CONSTANTS
  Subscriptions = {n1}
  Plan = plan
  NumberFee = 1
  PlanFees = {0, 2}
  Period = 2
  Jobs = {j1, j2}
  SpanMidnight = FALSE
  Limit = 2
  MaxDays = 4
  MaxMoves = 2
  MaxDeaths = 1
INVARIANTS CyclesOK NoCycleSkipped
PROPERTIES PlanIsCollected
CHECK_DEADLOCK FALSE
