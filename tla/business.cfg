CONSTANTS
  Workspaces = {w1, w2}
  Redeemers = {r1, r2, r3}
  MaxRedemptions = {1, 2, None}
  Handlers = {h1, h2}
  Scans = {s1, s2}
  Deliveries = {d1, d2}
  Writers = {p1, p2}
  Askers = {a1}
  FirstPlans = {w1}
  PaidPlans = {"pro"}
  Configs = {"a", "b", "bad"}
  Invalid = {"bad"}
  MaxEvents = 2
  MaxVisits = 2
  MaxMonth = 2
  JobAttempts = 2
  MaxFailures = 2
  ScanBatch = 1
  MaxChanges = 1
  MaxTime = 3
  MaxBackoff = 2
  MaxEdits = 1
  MaxCrashes = 1
  PostAttempts = 2
  MaxStalled = 1
  FailureLimit = 2
  MaxWhkEdits = 2
  MaxWhkCrashes = 2
  MaxVersions = 3
  MaxSeats = 30
  None = None
SPECIFICATION MCSpec
INVARIANTS MoneyIsMatched FiresAndStops VersionsHold PricesAreSafe
PROPERTY Settles
CHECK_DEADLOCK FALSE
