CONSTANTS
  MaxRetries = 1
  NumRequests = 3
  Sockets = {s1, s2, s3}
  NoSocket = NoSocket
  MaxTails = 2
  MaxBodies = 1
  MaxQueued = 2
  MaxInflight = 2
  ShouldLogin = TRUE
  Diagnostics = TRUE
SPECIFICATION FairSpec
INVARIANTS
  Inv
  NoOvertaking
  NeverGivesUpOnceConnected
PROPERTIES
  HeldUntilHopeless
  FailsWithItsSocket
  QueueDrains
  ImplementsLedger
CHECK_DEADLOCK FALSE
