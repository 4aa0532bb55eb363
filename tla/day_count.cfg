SPECIFICATION Spec
CONSTANTS
  LastDay = 3
  MaxDate = 4
  MaxSent = 2
INVARIANTS TypeOK TodayStored CountExact
