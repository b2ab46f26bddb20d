SPECIFICATION FairSpec
CONSTANTS
  SizeModulus = 16
  BufferMinSize = 3
  MessageHeaderSize = 2
  PacketSize = 4
  MaxConnections = 1
  MaximumWaitObjects = 2
  MaxClients = 2
  MaxSends = 2
  MaxObjects = 3
  MaxDeliveries = 3
  Sizes <- SmallSizes
  GarbageHeaders <- OneGarbage
  Events <- EarlyOnly
INVARIANT AcceptsWithinLimit
PROPERTIES DeliveryRefined DeliveryFair
CHECK_DEADLOCK FALSE
