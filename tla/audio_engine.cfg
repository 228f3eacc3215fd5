SPECIFICATION FairSpec
CONSTANTS
  FrameSize = 5
  BlockSize = 4
  InputRoom = 8
  OutputRoom = 10
  Silence = 0
  Slots = 4
  SlotSamples = 3
  InitialSlots = 3
  RebufferSlots = 2
  MaxPacket = 4
  MaxSamples = 16
  CaptureSlots = 2
  VadStart = 1
  VadEnd = 3
  Warmup = 3
  TailFrames = 3
  BargeCandidate = 2
  BargeReferenceWait = 1
  BargeReferenceLow = 1
  BargeEchoClear = 1
  BargeConfirm = 1
  BargeTailFreeze = 1
  BargeRetryCooldown = 1
  FollowUpNear = 2
  PreRoll = 2
  BargeBuffer = 7
  Lag = 1
  Scopes <- MCScopes
INVARIANTS EngineSound SpeechAlwaysEnds WholeUtterance
PROPERTIES QuietWhileAdapting EngineReturns
