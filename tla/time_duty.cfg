SPECIFICATION TimedSpec
CONSTANTS
  PeriodCount = 5
  GpsLimit = 1
  NoSatMax = 1
  SyncSlow = 4
  SyncFast = 8
  SportLimit = 1
  NoMotionLoops = 2
  MotionMin = 1
  Boards <- MCBoards
  Readings <- MCReadings
  Volts = {3500, 3600, 4200}
  Sats = {4}
  Speeds = {0, 20}
  Alts = {0}
  Pressures = {1030}
  GapCap = 10
  SportCap = 0
PROPERTY TenMinutesApart
