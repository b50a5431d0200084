CONSTANTS
  a1 = a1
  a2 = a2
  r1 = r1
  r2 = r2
  Attempts = {a1, a2}
  Requests = {r1}
  Cases <- LifeCases
  MaxClaims = 6
  MaxStalled = 1
  MaxThrown = 2
SPECIFICATION FairSpec
INVARIANTS BudgetsHold SucceededIsComplete ApprovalsHold
PROPERTIES EndedUntilRetried QueuedRunEnds
CHECK_DEADLOCK FALSE
