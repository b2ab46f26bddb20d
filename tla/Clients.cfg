SPECIFICATION FairSpec
CONSTANTS
  SizeModulus = 16
  BufferMinSize = 3
  MessageHeaderSize = 2
  PacketSize = 4
  MaxConnections = 0
  MaximumWaitObjects = 2
  MaxClients = 2
  MaxSends = 2
  MaxObjects = 6
  MaxDeliveries = 3
  Sizes <- Small
  GarbageHeaders <- OneGarbage
  Events <- EarlyOnly
INVARIANTS Ownership DeliveredIntact
PROPERTIES CreatesWithEvent
CHECK_DEADLOCK FALSE
