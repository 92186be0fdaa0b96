CONSTANTS
  Docs = {d1, d2}
  Ttl = 1
  UnloadedTtl = 2
  Never = Never
  MaxNow = 3
  Picks <- MCPicks
  m1 = m1
  m2 = m2
  m3 = m3
  MediaCap = 2
  Headers <- MCHeaders
  MaxSize = 4
  Capacity = 2
  Hole = Hole
  Messages <- MCMessages
  Pages = {d1}
  Consoles = {d1}
  Threshold = 2
  MaxLines = 2
  MaxSeq = 4
  Arguments <- MCArguments
  MaxArgs = 3
  BareOrigins = {"http://localhost:5173"}
  Consumers <- MCConsumers
CONSTRAINT InScope
SPECIFICATION ServerSpec
INVARIANTS
  Inv
  ServesInv
  RedeemedOnce
  LoserIsToldToRetry
PROPERTIES
  RedeemedInTime
  GatedStaysGated
  AnswersStand
  ImplementsTail
CHECK_DEADLOCK FALSE
