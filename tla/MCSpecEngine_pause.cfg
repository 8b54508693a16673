SPECIFICATION Spec
CONSTANTS
  Requests = {r1}
  PromptLen = 2
  MaxTokens = 3
  NumSpec = 1
  MaxModelLen = 7
  Budget = 4
  MaxRunning = 2
  Hits = {0}
  MaxDisruptions = 1
  Controls <- KeepAsync
INVARIANT PositionsExact
