CONSTANTS
  Runtimes = {1, 2, 3}
  Passes = {p1, p2, p3}
  MaxInstances = 2
  Sidecar = 1
  Platforms = {"android", "ios"}
  Urls = {"app", "web", "blank", "other"}
SPECIFICATION FairSpec
INVARIANTS
  Inv
  FreshHandoff
PROPERTIES
  HandoffsAreServed
  Settles
CHECK_DEADLOCK FALSE
