SPECIFICATION FairSpec
CONSTANTS
  Requests = {r1, r2}
  EndCalls = {e1, e2}
  MaxSessions = 3
  NoTask = NoTask
CHECK_DEADLOCK FALSE
INVARIANTS
  TypeOK
  SessionHasWayOut
  NoLostWakeup
PROPERTY
  ImplementsGate
