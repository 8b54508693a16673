SPECIFICATION Spec
CONSTANTS
  Pids = {1}
  Objects = {11, 12}
  IdOf <- MCIdOf
  Requests = {r1, r2}
  Backends = {b1, b2}
  DefaultBackend = b1
  Capacity <- MCTight
  Configured = {b1, b2}
  Flaky = {}
  Buffer = 1
  WeightNum = 1
  WeightDen = 1
  UseDecay = FALSE
  Estimates = {3}
  Usages = {4}
  MaxTokens = 4
  MaxFuture = 4
  SRTF = FALSE
  Sequential = FALSE
  None = None
SYMMETRY Symmetry
INVARIANTS
  MarkedIsResident
  PausedIsFindable
  ChargedAtHome

