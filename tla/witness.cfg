SPECIFICATION WSpec
CONSTANTS
  PeriodCount = 3
  GpsLimit = 1
  NoSatMax = 1
  SyncSlow = 4
  SyncFast = 8
  SportLimit = 1
  NoMotionLoops = 1
  MotionMin = 1
  Boards <- MCBoards
  Readings <- MCReadings
  Volts = {3500, 3900}
  Sats = {3, 4}
  Speeds <- MCSpeeds
  Alts = {1300}
  Pressures <- MCPressures
INVARIANT ReportedFixIsFresh
PROPERTIES SilentInFlight OnlyTheDance
