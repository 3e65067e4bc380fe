CONSTANTS
  h1 = h1
  h2 = h2
  mainThread = mainThread
  ch15 = ch15
  ch22 = ch22
  Commanders <- MCCommanders
  Main = mainThread
  Failing <- Parts
  Broadcasts <- MCBroadcasts
  Ops <- MCOps
  Capacity = 2
  MaxPackets = 1
  MaxCommands = 2
SPECIFICATION LifeSpec
CHECK_DEADLOCK FALSE
INVARIANTS
  OldDataOnlyDuringSwitch
  NothingUsedAfterItsEnd
PROPERTIES
  RetuneKeepsBuffer
  ShutdownIsFinal
  ShutdownEnds
