CONSTANTS
  s1 = s1
  s2 = s2
  Sessions <- TwoSessions
  MaxSessions = 2
  Requests <- FewRequests
SPECIFICATION Spec
CHECK_DEADLOCK FALSE
SYMMETRY SessionSymmetry
INVARIANTS
  NoStrayHandler
  StoppedIsQuiet
