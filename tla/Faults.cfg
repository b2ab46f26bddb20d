SPECIFICATION Spec
CONSTANTS
  SizeModulus = 16
  BufferMinSize = 3
  MessageHeaderSize = 2
  PacketSize = 4
  MaxConnections = 1
  MaximumWaitObjects = 3
  MaxClients = 1
  MaxSends = 3
  MaxObjects = 4
  MaxDeliveries = 4
  Sizes <- SmallSizes
  GarbageHeaders <- OneGarbage
  Events <- AllEvents
INVARIANTS TypeOK NoReadIntoShared ReadFitsBuffer HandedOverWhole NoDeafWait
PROPERTIES DistributedStable
CHECK_DEADLOCK FALSE
