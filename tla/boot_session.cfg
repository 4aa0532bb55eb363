SPECIFICATION Spec
CONSTANTS
  PacketSize = 2
  PageSize = 4
  FlashSize = 8
  EepromSize = 2
  Wrap = 2
  Timeout = 2
  Descriptor <- MCDescriptor
  Sessions <- BothSessions
  MaxTransfers = 3
  MaxFaults = 1
INVARIANTS TypeOK ConfirmedHolds AnswerIsExact
PROPERTIES NeverMute LeavesAtLast
CHECK_DEADLOCK FALSE
