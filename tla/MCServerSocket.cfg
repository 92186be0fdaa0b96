CONSTANTS
  r1 = r1
  r2 = r2
  r3 = r3
  p1 = p1
  Kinds = {"socket", "host"}
  Requests = {r1, r2, r3}
  MaxHeaderBytes = 65535
  MaxFrameBytes = 16777216
  MaxIdBytes = 256
  ErrorText = 200
  HeaderOf <- MCHeaderOf
  ResultOf <- MCResultOf
  Defects = {"none", "huge", "no plugin", "long id", "not UTF-8", "not JSON", "version"}
  Limit = 65542
  PeerLimit = 16777216
  HostBound = {r1, r2}
  MaxPending = 2
  MaxFailures = 3
  MaxBatch = 2
  Pushes = {p1}
  SizeOf <- MCSizeOf
  MaxQueued = 2
  HardMax = 3
SPECIFICATION FairSpec
INVARIANTS
  Inv
  NoResponseLost
  AnsweredOnce
PROPERTIES
  Settles
CHECK_DEADLOCK FALSE
