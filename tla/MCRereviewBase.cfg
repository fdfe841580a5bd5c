SPECIFICATION MCSpec
CONSTANTS
  a = a
  b = b
  p = p
  q = q
  Files = {a, b}
  Versions = {0, 1, 2}
  Findings = {p}
  Opened <- MCOpened
  Forked <- MCForked
  FileOf <- MCFileOf
  CodeIn <- MCCodeIn
  Selected <- MCSelected
  TierOf <- MCTierOf
  Imported = {}
  Outcomes = {"confirmed", "unchecked", "refuted"}
  MaxRuns = 3
  MaxActs = 2
  MaxLine = 1
CHECK_DEADLOCK FALSE
INVARIANT UnchangedMeansReviewed
