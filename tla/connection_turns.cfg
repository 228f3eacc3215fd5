SPECIFICATION ConnectionSpec
CONSTANTS
  MaxTurn = 2
  MaxMsg = 2
  QueueCap = 2
  Anonymous = TRUE
  SendCap = 1
  ControlCap = 1
CHECK_DEADLOCK FALSE
INVARIANTS ReceiveSound HeartbeatOnTime
PROPERTIES NothingAfterNotice CongestionCostsOneTurn
