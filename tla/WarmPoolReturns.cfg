CONSTANTS
  Getters = {g1, g2}
  Tunnels = {t1, t2}
  None = None
  InitialSize = 1
  Resizes = {}
  LargestSize = 1
  OnDemandLimit = 1
  AuthThreshold = 1
  BurstCap = 1
  Errors = {}
  Decays = {}
  MaxPurges = 0
  MaxResizes = 0
  MayShutdown = FALSE
SPECIFICATION FairSpec
INVARIANTS
  PermitsConserved
PROPERTIES
  GetReturns
