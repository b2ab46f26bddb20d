SPECIFICATION FairSpec
CONSTANTS
  Callers = {main, other}
  Emitter = emitter
  NoThread = none
  CallerCalls <- Everything
  HandlerCalls <- Everything
  MayFail = TRUE
  MaxQueue = 2
INVARIANTS EveryThreadJoinable RunningMeansAlive
PROPERTIES StopEndsThreads StopEndsEmit HandlerStrands WaitersReturn WaitEndsIo
  EventFreesStop
CHECK_DEADLOCK FALSE
