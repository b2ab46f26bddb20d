SPECIFICATION FairSpec
CONSTANTS
  Capacity = 1
  MaxRequests = 4
PROPERTIES StreamRefined StreamFair SigintEnds BreakEndsClient ServiceEnds
CHECK_DEADLOCK FALSE
