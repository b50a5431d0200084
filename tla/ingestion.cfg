CONSTANTS
  c1 = c1
  c2 = c2
  r1 = r1
  Configs = {c1, c2}
  MaxWorkers = 2
  Requests = {r1}
  Cases <- AllCases
  MaxAttempts = 2
  MaxRuns = 4
  MaxStalled = 1
  MaxThrown = 2
SPECIFICATION FairSpec
INVARIANTS StoresAgree
PROPERTIES SettledIsKept QueuedIsDecided
CHECK_DEADLOCK FALSE
