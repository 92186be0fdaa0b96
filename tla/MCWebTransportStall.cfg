CONSTANTS
  MaxRetries = 1
  NumRequests = 1
  Sockets = {s1, s2}
  NoSocket = NoSocket
  MaxTails = 1
  MaxBodies = 1
  MaxQueued = 1
  MaxInflight = 1
  ShouldLogin = TRUE
  Diagnostics = TRUE
SPECIFICATION FairSpec
PROPERTIES
  GiveUpFailsTheHeld
CHECK_DEADLOCK FALSE
