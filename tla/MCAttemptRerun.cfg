\* One session, as in MCExecute.
SPECIFICATION SessionSpec
CONSTANTS
  MaxSteps = 2
  MaxUnread = 1
INVARIANT FinishedIsNotRerun
CHECK_DEADLOCK FALSE
