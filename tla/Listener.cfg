SPECIFICATION FairSpec
CONSTANTS
  Handle = {h1, h2, h3}
  NoHandle = NoHandle
  MayFail = TRUE
INVARIANT HandlesOwned
PROPERTIES ClientsAccepted DestructorReturns
CHECK_DEADLOCK FALSE
