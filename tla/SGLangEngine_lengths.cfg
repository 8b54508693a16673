CONSTANTS
  Requests = {r1}
  PromptLen = 2
  MaxTokens = 4
  NumSteps = 1
  MaxRetracts = 0
  None = None
SPECIFICATION Spec
INVARIANT LengthsMaterialized
