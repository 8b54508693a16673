SPECIFICATION Spec
CONSTANTS
  Pids = {1, 2}
  Objects = {11, 12, 21}
  IdOf <- MCIdOf
  Requests = {r1, r2}
  Backends = {b1}
  DefaultBackend = b1
  Capacity <- MCCapacity
  Configured = {b1}
  Flaky = {}
  Buffer = 1
  WeightNum = 1
  WeightDen = 2
  UseDecay = TRUE
  Estimates = {3}
  Usages = {4}
  MaxTokens = 4
  MaxFuture = 10
  SRTF = TRUE
  Sequential = TRUE
  None = None
SYMMETRY Symmetry
INVARIANTS
  TypeOK
  PoolConsistent
  NoStrandedWaiter
  InFlightAtHome

