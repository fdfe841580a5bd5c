\* A lock with three processes, one of which dies, and a session with two.
SPECIFICATION CloudSpec
CONSTANTS
  Procs = {p, q, r}
  MaxCrashes = 1
  StaleAge = 0
  WaitAge = 1
  MaxTurns = 1
  MaxFlaws = 1
  MaxHarms = 1
  MaxChains = 2
  MaxPairs = 2
  MaxCallers = 2
  MaxCalls = 3
SYMMETRY Alike
INVARIANTS CloudTypeOK OneHolder NothingLeft SavedIsCurrent
PROPERTIES KeepsTurns SessionKept
CHECK_DEADLOCK FALSE
