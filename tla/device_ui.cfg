SPECIFICATION FairSpec
CONSTANTS
  MaxVolume = 2
  QueueCap = 2
  Scenarios <- MCScenarios
  PanelWidth = 4
  PanelHeight = 5
  Threshold = 2
  Strip <- MCStrip
CHECK_DEADLOCK FALSE
INVARIANTS UiSound VolumeAgrees ScreenFollows
PROPERTIES CameraReclaimed NothingHangs
