SPECIFICATION Spec
CONSTANTS
  Requests = {r1, r2}
  EndCalls = {e1, e2}
  MaxSessions = 3
  NoTask = NoTask
CHECK_DEADLOCK FALSE
PROPERTY EndExitsOwnSession
