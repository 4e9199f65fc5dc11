CONSTANTS
  Getters = {g1}
  Tunnels = {t1, t2, t3, t4}
  None = None
  InitialSize = 1
  Resizes = {}
  LargestSize = 1
  OnDemandLimit = 1
  AuthThreshold = 2
  BurstCap = 2
  Errors = {"auth"}
  Decays = {"aged", "dead"}
  MaxPurges = 1
  MaxResizes = 0
  MayShutdown = FALSE
SPECIFICATION Spec
SYMMETRY Symmetry
INVARIANTS
  DialsBounded
