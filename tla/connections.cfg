CONSTANTS
  Actors = {a1, a2}
  People = {b1, b2}
  Values = {v1, v2}
  Savers = {save}
  Editors = {edit}
  Checks = {check}
  Runs = {run}
  Urls <- TwoNames
  Tools <- TwoNames
  Allowlists <- NoneOrOne
  Advertises <- ItsName
  Slug = "crm"
  Queries = {query}
  MaxTokens = 2
  MaxLost = 1
  MaxSaves = 2
  MaxAges = 1
  MaxEdits = 2
  MaxWrites = 2
  MaxExpiries = 1
  MaxKeys = 2
  MaxRounds = 2
  MaxAsked = 3
  MaxCalls = 2
  MaxResumes = 1
  None = None
  Nodes <- FourNodes
  Begin = 0
  Graphs <- SomeFlows
  MAX_NODE_EXECUTIONS = 5
  MaxItems = 2
  MaxFailures = 2
  MaxStops = 1
  MaxCrashes = 1
  MaxRetries = 2
SPECIFICATION MCSpec
SYMMETRY Symmetry
INVARIANTS FlowIsCarriedOut ConnectionTellsTheTruth ReachesTheRightService OnlyReviewedRuns CatalogueKeepsUp
PROPERTY SettledStaysSettled
CHECK_DEADLOCK FALSE
