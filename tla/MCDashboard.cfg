\* The UDP or the RTP streamer under the page, with others who post too.
CONSTANTS
  f1 = f1
  f2 = f2
  Fetches <- MCFetches
  Width = 4
  MaxQueued = 2
SPECIFICATION PageSpec
CHECK_DEADLOCK FALSE
INVARIANTS
  WorkerHasItsResources
  SilentWhenOff
  NumbersWithoutGaps
PROPERTIES
  StopReturns
  PageSettles
