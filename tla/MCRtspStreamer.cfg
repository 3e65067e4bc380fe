CONSTANTS
  s1 = s1
  s2 = s2
  Sessions <- OneSession
  MaxSessions = 1
  Requests <- AllRequests
SPECIFICATION LiveSpec
CHECK_DEADLOCK FALSE
INVARIANTS
  StreamHasItsResources
  CutEndsSession
PROPERTIES
  StopReturns
  DisableEndsPlaying
  RequestsAnswered
