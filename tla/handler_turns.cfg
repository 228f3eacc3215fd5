SPECIFICATION Spec
CONSTANTS
  MaxTurn = 2
  InFrame = 1
  InMax = 1
  OutFrame = 1
  MaxBuffered = 2
  MaxDelta = 1
  MaxAudio = 1
  OutCap = 1
  Orderly = TRUE
CHECK_DEADLOCK FALSE
INVARIANTS AtMostOneLate ActorFollowsHandler
