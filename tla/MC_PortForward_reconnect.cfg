SPECIFICATION LuckyForwardSpec
CONSTANTS
  Client = {c1, c2}
  MaxOutages = 1
PROPERTY ReconnectsAfterDrop
CHECK_DEADLOCK FALSE
