CONSTANTS
  f = f
  g = g
  x = x
  y = y
  z = z
  NoPlan = NoPlan
  Ultra = TRUE
  N = 5
  Concurrency = 2
  Questions = {x, y, z}
  Question <- Samples
  PlanKeys = {x, y, z}
  PlanKey <- Samples
  Earlier <- Answered
  Costs = {1}
  MaxReports = 1
  MaxRelocations = 1
  MaxCost = 1
  Share = 1
  Planned = 0
  Files = {f, g}
  Reviewers = {x, y, z}
  ReviewerOf <- Samples
  FilesOf <- Reading
  Limited <- CutCells
SPECIFICATION FairSpec
INVARIANTS
  CoverageTrue
  PlanOrderKept
PROPERTIES
  StageEnds
CHECK_DEADLOCK FALSE
