\* One account that shares and one that may: a login to the second while a
\* review runs, or that dies before it asks about sharing.
SPECIFICATION Spec
CONSTANTS
  Procs = {p, q}
  MaxCrashes = 1
  Accounts = {ann, bob}
  MaxJobs = 3
  MaxSwitches = 1
INVARIANT SentAsAgreed
CHECK_DEADLOCK FALSE
