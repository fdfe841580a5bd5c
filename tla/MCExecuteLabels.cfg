CONSTANTS
  q1 = q1
  q2 = q2
  p1 = p1
  p2 = p2
  NoPlan = NoPlan
  Ultra = TRUE
  N = 3
  Concurrency = 2
  Questions = {q1, q2}
  Question <- TwoBundles
  PlanKeys = {p1, p2}
  PlanKey <- OnePlanKey
  Earlier <- NothingEarlier
  Costs = {1}
  MaxReports = 1
  MaxRelocations = 1
  MaxCost = 3
  Share = 2
  Planned = 0
SPECIFICATION Spec
INVARIANTS
  PlanOfOwnBundle
CHECK_DEADLOCK FALSE
