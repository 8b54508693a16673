CONSTANTS
  Requests = {r1, r2}
  PromptLen = 2
  MaxTokens = 3
  NumSteps = 1
  MaxRetracts = 1
  None = None
SPECIFICATION Spec
INVARIANTS TypeOK OneResultPending BatchFitsRuntime DraftsSeeded InputsCurrent SlotsOwned RoomForDrafts
PROPERTIES SwitchHappens ImplementsStreams
