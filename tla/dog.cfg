SPECIFICATION Spec
CONSTANTS
  PERIOD_COUNT = 4
  SportWait = 8
  StillWait = 1
  FoldMax = 1
  MOTION_MIN = 2
  DOG_COUNT = 2
  Radius = 2
  GpsLimit = 1
  NoSatMax = 1
  SyncSlow = 3
  SyncFast = 4
  SyncSize = 7
  Fixes <- MCFixes
  BootPressures = {1013}
  Pressures = {970}
  Boards <- MCBoards
  Readings <- MCReadings
INVARIANTS TypeOK FenceHolds EscapeReported
PROPERTIES PressAnswered KeepsReporting
