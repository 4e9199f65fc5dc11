CONSTANTS
  Threads = {main, b1, j1}
  Main = main
  Binders = {b1}
  Jobs = {j1}
  Nodes = {n1, n2}
  NodeList = {n2}
  MaxSessions = 2
  MaxEngines = 2
  MaxCalls = 2
  MayDestroy = TRUE
  None = None
SPECIFICATION FairSpec
INVARIANTS
  CurrentEngineLives
  NoOrphanEngine
  RunningHasCore
PROPERTIES
  StopEnds
  WatchdogsRetire
CHECK_DEADLOCK FALSE
