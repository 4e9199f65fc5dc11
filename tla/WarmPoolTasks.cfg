CONSTANTS
  Getters = {}
  Tunnels = {1, 2, 3, 4}
  None = None
  InitialSize = 1
  Resizes = {0, 2}
  LargestSize = 2
  OnDemandLimit = 1
  AuthThreshold = 1
  BurstCap = 2
  Errors = {"io"}
  Decays = {}
  MaxPurges = 0
  MaxResizes = 2
  MayShutdown = TRUE
SPECIFICATION WarmSpec
ACTION_CONSTRAINT LowestSlots
PROPERTIES
  TargetSettles
  WarmsUp
  ShutdownQuiesces
CHECK_DEADLOCK FALSE
