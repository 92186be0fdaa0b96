CONSTANTS
  NumCalls = 3
  MaxPending = 2
  Hosts = {"android", "ios"}
  Queries = {2}
  FrameUnits = 2
SPECIFICATION PipeSpec
INVARIANTS
  Inv
  HostInv
PROPERTIES
  SilentAfterStop
  ImplementsLedger
CHECK_DEADLOCK FALSE
