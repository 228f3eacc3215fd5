SPECIFICATION Spec
CONSTANTS
  MaxTurn = 2
  InFrame = 2
  InMax = 2
  OutFrame = 2
  MaxBuffered = 5
  MaxDelta = 3
  MaxAudio = 1
  OutCap = 2
  Orderly = TRUE
CHECK_DEADLOCK FALSE
INVARIANT NoFalseDuplicate
