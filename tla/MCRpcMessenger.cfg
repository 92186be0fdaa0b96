CONSTANTS
  NumCalls = 4
  MaxPending = 2
  Diagnostics = TRUE
SPECIFICATION FairSpec
INVARIANTS
  Inv
PROPERTIES
  TimedOutStaysFailed
  EveryCallSettles
  ImplementsLedger
CHECK_DEADLOCK FALSE
