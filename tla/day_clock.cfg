SPECIFICATION Spec
CONSTANTS
  LastDay = 3
  MaxDate = 4
  MaxSent = 3
INVARIANT DayCountKept
