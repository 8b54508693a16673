SPECIFICATION FairSpec
CONSTANTS
  Pids = {1, 2}
  Objects = {11, 21}
  IdOf <- MCIdOf
  Requests = {r1, r2}
  Backends = {b1}
  DefaultBackend = b1
  Capacity <- MCTight
  Configured = {b1}
  Flaky = {}
  Buffer = 1
  WeightNum = 1
  WeightDen = 1
  UseDecay = FALSE
  Estimates = {3}
  Usages = {4}
  MaxTokens = 4
  MaxFuture = 8
  SRTF = FALSE
  Sequential = TRUE
  None = None
PROPERTY RequestServed
