SPECIFICATION FairSpec
CONSTANTS
  Backends = {b1, b2}
  SwitchThreshold = 5
  Batches = {3, 4}
  MaxResumed = 1
  Faulty = {b2}
INVARIANTS
  TypeOK
  NoToggleInBand
  RememberedIsActual
PROPERTIES
  ReconcilesSound
  HealsOnSwing
