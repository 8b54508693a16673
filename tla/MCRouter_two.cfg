SPECIFICATION Spec
CONSTANTS
  Pids = {1, 2}
  Objects = {11, 21}
  IdOf <- MCIdOf
  Requests = {r1, r2}
  Backends = {b1, b2}
  DefaultBackend = b1
  Capacity <- MCUneven
  Configured = {b1, b2}
  Flaky = {b2}
  Buffer = 1
  WeightNum = 1
  WeightDen = 1
  UseDecay = FALSE
  Estimates = {3}
  Usages = {4}
  MaxTokens = 4
  MaxFuture = 10
  SRTF = FALSE
  Sequential = TRUE
  None = None
SYMMETRY Symmetry
INVARIANTS
  InFlightAtHome
PROPERTIES AdmissionWithinCapacity HeadOfLineResumes 
