\* Three cells under a spend limit; agents of two and of three steps.
CONSTANTS
  q1 = q1
  q2 = q2
  p1 = p1
  p2 = p2
  NoPlan = NoPlan
  Ultra = TRUE
  N = 3
  Concurrency = 2
  Questions = {q1, q2}
  Question <- TwoBundles
  PlanKeys = {p1, p2}
  PlanKey <- OwnPlans
  Earlier <- NothingEarlier
  Costs = {1}
  MaxReports = 1
  MaxRelocations = 1
  MaxCost = 3
  Share = 2
  Planned = 1
  MaxSteps = 2
  MaxUnread = 1
  LoopSteps = 3
SPECIFICATION ExecuteSpec
INVARIANTS
  StageTypeOK
  SpendAccounted
  OnePlanCall
  LimitExplained
PROPERTIES
  StopIsFinal
  TellsTrue
  LoopTellsTrue
CHECK_DEADLOCK FALSE
