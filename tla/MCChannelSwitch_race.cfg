CONSTANTS
  h1 = h1
  h2 = h2
  ch15 = ch15
  ch22 = ch22
  Commanders <- TwoCommanders
  Broadcasts <- MCBroadcasts
  Ops <- TuneOnly
  Capacity = 2
  MaxPackets = 2
  MaxCommands = 3
SPECIFICATION Spec
CHECK_DEADLOCK FALSE
INVARIANTS
  QuietMeansCurrent
