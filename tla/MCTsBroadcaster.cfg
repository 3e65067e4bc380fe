CONSTANTS
  c1 = c1
  c2 = c2
  Clients <- MCClients
  Capacity = 2
  PushSizes <- MCPushSizes
  MaxPosition = 5
SYMMETRY ClientSymmetry
SPECIFICATION Spec
INVARIANTS
  FanOutComplete
  MembersAreClients
  StoppedHubIsSilent
PROPERTIES
  NothingFromBeforeReset
