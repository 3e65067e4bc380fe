CONSTANTS
  s1 = s1
  s2 = s2
  Sessions <- OneSession
  MaxSessions = 1
  Requests <- AllRequests
SPECIFICATION Spec
CHECK_DEADLOCK FALSE
PROPERTIES
  PlayStartsStreaming
