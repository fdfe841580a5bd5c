\* A review and a completion on two models; findings in files of up to three lines;
\* three runs of a review, one after another; four passes of an evaluation.
SPECIFICATION SessionsSpec
CONSTANTS
  a = a
  b = b
  Models = {a, b}
  Reviews = {r1}
  Completions = {k1}
  Chain <- ChainOfTwo
  Threshold = 1
  Cooldown = 1
  MaxCooldown = 2
  QuotaRetries = 2
  MaxQuotaWait = 1
  UnstatedWait = 1
  StatedWaits = {0, 2}
  Unstated = Unstated
  ChangedFiles = {1, 2}
  Groupings <- MCGroupings
  Samples = 2
  Workers = 2
  MaxRuns = 3
  MaxInputs = 2
  Texts = {"p", "pq", "s", ""}
  Blank = ""
  Long = {"p", "pq"}
  PartOf <- MCPartOf
  Edits <- MCEdits
  Others <- MCOthers
  Quotes <- MCQuotes
  Relocations <- MCRelocations
  Selections <- MCSelections
  Tasks = {t, u}
  Budgets = {2}
  MaxReviews = 3
  MaxPasses = 4
SYMMETRY AlikeTasks
INVARIANTS TypeOK NoModelLost ClosedBelowThreshold AnchoredTruly ResumedTruly ResultsTrue
PROPERTIES HealthSpec WaitsNotCutShort SkipsOnlyForAnother BudgetStops
CHECK_DEADLOCK FALSE
