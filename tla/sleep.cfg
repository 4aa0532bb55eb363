SPECIFICATION Spec
CONSTANTS
  Boards = {"328P", "32U4", "2560", "256RFR2", "SAMD21"}
  ClientOff = 1
  Clocks <- MCClocks
INVARIANT TypeOK
PROPERTIES NothingLost ForeverUnlessLeftover SleepEnds
