SPECIFICATION FairSpec
CONSTANTS
  Capacity = 2
  MaxSent = 4
INVARIANTS CountsRequests NothingLeft
PROPERTIES ShutdownEndsRun ServesTheNext PoliteAnswered
CHECK_DEADLOCK FALSE
