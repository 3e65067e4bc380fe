CONSTANTS
  PacketSize = 2
  RawCapacity = 7
  PushSizes <- MCPushSizes
  PopSizes <- MCPopSizes
  MaxBytes = 12
SPECIFICATION LiveSpec
INVARIANTS
  TypeOK
  RingAgrees
  WholePackets
PROPERTIES
  ForwardOnly
  ImplementsQueue
  ReaderWakes
