CONSTANTS
  Writers = {w1, w2}
  Askers = {a1, a2}
  None = None
  MaxFiles = 2
  Conversations = {"c"}
  Models = {"none", "both"}
  Spends = {{}, {"rerank", "refine"}}
  MaxTurns = 2
  MaxPresses = 2
  HistoryTurns = 1
  MaxTurnImages = 1
  Bases = {"handbook", "policy"}
  Embeddings = {"small", "large"}
  Chunks = {"h1", "p1"}
  BaseOf <- HandbookAndPolicy
  Dense <- NearerInMeaning
  Lexical <- NearerInWords
  Edits <- SomeEdits
  Searches <- SomeSearches
  TopK = 2
  Threshold = 20
  VectorWeight = 70
  MinCandidates = 3
  Users = {u1, u2}
  Facts = {"f"}
  Dimensions <- Widths
  Readers = {"r"}
  MaxMemories = 2
  MaxPerScope = 1
  RecallLimit = 1
  Shared = "work"
  Widgets = {1, 2}
  Names = {"shop", "help"}
  PlanLimit = 1
  Ceiling = 2
  TurnCost = 2
  HourlyLimit = 1
  MaxSaves = 3
  MaxSpoken = 2
SPECIFICATION MCSpec
SYMMETRY Symmetry
INVARIANTS TurnsAreAccountedFor FilesGoWhereTheyWereSent RetrievalIsSound MemoriesStayInScope WidgetsAreBounded
CHECK_DEADLOCK FALSE
