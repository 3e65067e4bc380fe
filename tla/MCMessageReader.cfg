CONSTANTS
  MaxHeader = 7
  MaxBody = 2
  MaxFrame = 7
  MaxBuffered = 13
  Chunk = 4
  IdleLimit = 3
  AssemblyLimit = 2
  Messages <- MCMessages
  MaxMessages = 3
SPECIFICATION FairSpec
CHECK_DEADLOCK FALSE
INVARIANTS
  MessagesIntact
  BufferBounded
  TimeLimits
PROPERTIES
  ConnectionEnds
