SPECIFICATION FairSpec
CONSTANTS
  Callers = {main}
  Emitter = emitter
  NoThread = none
  CallerCalls <- StartWait
  HandlerCalls <- Nothing
  MayFail = TRUE
  MaxQueue = 1
PROPERTIES WaitReturnsStopped
CHECK_DEADLOCK FALSE
