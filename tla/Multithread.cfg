SPECIFICATION FairSpec
CONSTANTS
  MaxClients = 2
  MaxCount = 3
  PipeSize = 2
INVARIANTS CountsInOrder ThreadsHavePipes
PROPERTIES ClientsServed
CHECK_DEADLOCK FALSE
