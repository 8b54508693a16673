SPECIFICATION FairSpec
CONSTANTS
  Backends = {b1}
  SwitchThreshold = 8
  Batches = {5, 6, 7, 8}
  MaxResumed = 1
  Faulty = {b1}
PROPERTY Reconciles
