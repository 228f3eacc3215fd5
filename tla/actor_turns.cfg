SPECIFICATION FairSpec
CONSTANTS
  Callers = {c1}
  MaxEpoch = 2
  CommandCap = 1
  UrgentCap = 1
  EventCap = 1
  ProviderCap = 1
  Malformed = FALSE
CHECK_DEADLOCK FALSE
INVARIANTS EpochIsolation AnswerToCome
PROPERTIES ImplementsTurnSession NothingAfterEnd CancelAnswered
