CONSTANTS
  MaxRetries = 1
  NumRequests = 3
  Sockets = {s1, s2}
  NoSocket = NoSocket
  MaxTails = 2
  MaxBodies = 1
  MaxQueued = 2
  MaxInflight = 2
  ShouldLogin = TRUE
  Diagnostics = TRUE
SPECIFICATION Spec
PROPERTIES
  TailFailsTheLost
CHECK_DEADLOCK FALSE
