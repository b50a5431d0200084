SPECIFICATION Spec
CONSTANTS
  w1 = w1
  w2 = w2
  r1 = r1
  r2 = r2
  k1 = k1
  k2 = k2
  u1 = u1
  u2 = u2
  Workspaces = {w1}
  Users = {u1}
  References = {r1}
  AdminKeys = {r2}
  Prices = {15000, 505000}
  GrantRequests <- MCTopupOnly
  Runners = {k1, k2}
  SyncPlans = {"starter"}
  SyncStatuses = {"active", "canceled"}
  MaxSeats = 2
  LastPeriod = 1
INVARIANTS BackedByLedger PostedIsLedgerSum UsageMatchesDeductions NeverSkipsAMonth
PROPERTY RepeatedRefillKeepsBalance
SYMMETRY RunnerSymmetry
