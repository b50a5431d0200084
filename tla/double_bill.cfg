CONSTANTS
  Workspaces = {w1}
  Scanners = {s1, s2}
  Handlers = {h1}
  Purchases = {p1, p2}
  Packs = {"p1m"}
  Thresholds = {500000}
  Spends = {600000}
  OpeningBalance = 700000
  MaxUpdates = 1
  LeasesExpire = FALSE
  MaxCrashes = 0
  MaxRedeliveries = 0
  MaxDelayed = 0
SPECIFICATION Spec
INVARIANTS BilledOncePerShortfall
