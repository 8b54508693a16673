SPECIFICATION Spec
CONSTANTS
  Requests = {r1, r2}
  PromptLen = 2
  MaxTokens = 3
  NumSpec = 1
  MaxModelLen = 7
  Budget = 3
  MaxRunning = 2
  Hits = {0, 1}
  MaxDisruptions = 1
  Controls <- SyncOnly
INVARIANTS TypeOK PositionsExact DeliveredInOrder PlaceholdersMatch
PROPERTY ImplementsStreams
