SPECIFICATION FairSpec
CONSTANTS
  Client = {c1, c2, c3}
  NoClient = NoClient
  MaxCount = 4
  PipeSize = 2
INVARIANT CountsInOrder
PROPERTIES SigintEnds ListensAgain ClientsServed
CHECK_DEADLOCK FALSE
