SPECIFICATION FairSpec
CONSTANTS
  MaxEpoch = 2
  MaxFrames = 2
  MaxAudio = 1
  SendCap = 2
  EventCap = 2
  PreRoll = 1
  Gaps = TRUE
CHECK_DEADLOCK FALSE
INVARIANTS SessionSound NoStalePlayback ServerNotOffended
PROPERTIES LostForCause CancelEnds FailureNoticed
