CONSTANTS
  Upgrades = {u1, u2, u3}
  MinInterval = 2
  None = None
SPECIFICATION HistorySpec
PROPERTIES
  NewerEvicts
CHECK_DEADLOCK FALSE
