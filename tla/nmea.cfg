SPECIFICATION Spec
CONSTANTS
  Talks = {"fix", "sky"}
  Seconds = 2
  MaxLosses <- MCLosses
  Messages <- MCMessages
  Skies <- MCSkies
INVARIANTS TypeOK DateIsGenuine HalvesApart
PROPERTIES PositionIsWhole AnnouncedIsFresh
