CONSTANTS
  a = a
  b = b
  Models = {a}
  Reviews = {r1, r2}
  Completions = {k1}
  Chain <- ChainOfOne
  Threshold = 2
  Cooldown = 1
  MaxCooldown = 2
  QuotaRetries = 2
  MaxQuotaWait = 2
  UnstatedWait = 1
  StatedWaits = {}
  Unstated = Unstated
SPECIFICATION FairSpec
PROPERTIES
  EveryCallEnds
CHECK_DEADLOCK FALSE
