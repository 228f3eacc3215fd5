SPECIFICATION ProvidersSpec
CONSTANTS
  MaxTurn = 4
  MaxPcm = 2
  MaxTurns = 2
  EventCap = 2
  OmniTurns = 2
  OmniPcm = 2
  OmniQueue = 2
  OmniDeltas = 1
  OmniWire = 1
CHECK_DEADLOCK FALSE
INVARIANTS PipelineSound OmniSound
PROPERTIES NothingAfterCancel CancelFences ProviderCallsReturn
