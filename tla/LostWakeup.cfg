SPECIFICATION FairSpec
CONSTANTS
  Callers = {main}
  Emitter = emitter
  NoThread = none
  CallerCalls <- StartStop
  HandlerCalls <- Nothing
  MayFail = FALSE
  MaxQueue = 1
PROPERTIES StopReturns
CHECK_DEADLOCK FALSE
