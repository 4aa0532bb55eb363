SPECIFICATION TimedFairSpec
CONSTANTS
  PeriodCount = 4
  GpsLimit = 1
  NoSatMax = 1
  SyncSlow = 4
  SyncFast = 8
  SportLimit = 1
  NoMotionLoops = 1
  MotionMin = 1
  Boards <- MCBoards
  Readings <- MCReadings
  Volts = {3500, 4200}
  Sats = {0, 4}
  Speeds = {0, 20}
  Alts = {0}
  Pressures = {1030}
  GapCap = 2
  SportCap = 0
INVARIANTS TypeOK ParkedGpsOff MotionCounted
PROPERTIES MessagesSpaced Implements SearchEnds SleepEnds SportExpires
