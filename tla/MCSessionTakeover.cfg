CONSTANTS
  Upgrades = {u1, u2, u3}
  MinInterval = 1
  None = None
  Pages = {d1, d2}
  ReplacedBackoff = 2
  MaxRetries = 0
SPECIFICATION TakeoverSpec
INVARIANTS
  Inv
PROPERTIES
  ChurnBounded
  HeldIsServed
  TakenBackAfterWaiting
CHECK_DEADLOCK FALSE
