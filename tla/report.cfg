SPECIFICATION Spec
CONSTANTS
  Attempts = 3
  MaxFaults = 2
  Identifier <- MCIdentifier
  NumReads = 4
  Half = 1
  Windows <- MCWindows
  Fixes <- MCFixes
  Pressures = {850, 990, 1030}
INVARIANTS TypeOK FrameFaithful WeatherMarked SpikesIgnored HealthyNotWeak SendTrueMeansSent
PROPERTY CallsReturn
