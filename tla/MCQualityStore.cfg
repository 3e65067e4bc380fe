CONSTANTS
  h1 = h1
  h2 = h2
  p1 = p1
  p2 = p2
  bob = bob
  yadif = yadif
  Posters <- MCPosters
  Players <- MCPlayers
  Settings <- MCSettings
  Default = bob
  Width = 4
  MaxApplied = 1
  MaxCrashes = 2
  MaxLosses = 1
SPECIFICATION Spec
SYMMETRY MCSymmetry
CHECK_DEADLOCK FALSE
INVARIANTS
  FileHoldsMemory
  PromiseKept
  RevisionNamesSettings
  CurrentMeansApplied
