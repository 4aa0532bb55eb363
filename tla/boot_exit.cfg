SPECIFICATION Spec
CONSTANTS
  PacketSize = 2
  PageSize = 4
  FlashSize = 8
  EepromSize = 2
  Wrap = 4
  Timeout = 3
  Descriptor <- MCDescriptor
  Sessions <- ExitSession
  MaxTransfers = 1
  MaxFaults = 0
PROPERTIES RequestedExitIsPrompt
CHECK_DEADLOCK FALSE
