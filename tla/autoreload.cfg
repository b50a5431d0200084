CONSTANTS
  Workspaces = {w1}
  Scanners = {s1, s2}
  Handlers = {h1, h2}
  Purchases = {p1, p2}
  Packs = {"p1m"}
  Thresholds = {500000}
  Spends = {1900000}
  OpeningBalance = 2000000
  MaxUpdates = 2
  LeasesExpire = TRUE
  MaxCrashes = 1
  MaxRedeliveries = 1
  MaxDelayed = 1
SPECIFICATION Spec
INVARIANTS PaidIsCredited FailedMeansOff
PROPERTIES CreditedExactlyOnce
SYMMETRY Symmetry
