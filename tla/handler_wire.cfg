SPECIFICATION FairSpec
CONSTANTS
  MaxTurn = 1
  InFrame = 2
  InMax = 1
  OutFrame = 2
  MaxBuffered = 5
  MaxDelta = 2
  MaxAudio = 8
  OutCap = 1
  Orderly = FALSE
CHECK_DEADLOCK FALSE
INVARIANTS TurnSound AudioComplete
PROPERTIES AnswerEndsTurn
