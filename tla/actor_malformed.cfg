SPECIFICATION Spec
CONSTANTS
  Callers = {c1}
  MaxEpoch = 2
  CommandCap = 1
  UrgentCap = 1
  EventCap = 1
  ProviderCap = 2
  Malformed = TRUE
CHECK_DEADLOCK FALSE
INVARIANT RetiresOnlyThatTurn
