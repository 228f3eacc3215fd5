SPECIFICATION Spec
CONSTANTS
  MaxTurn = 2
  MaxPcm = 1
  MaxTurns = 1
  EventCap = 1
CHECK_DEADLOCK FALSE
PROPERTY CancelledInputKeepsAnswer
