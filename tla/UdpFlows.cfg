CONSTANTS
  Flows = {f1, f2}
  Slots = {s1}
  MaxMuxes = 2
  SidSpace = 3
  MaxSids <- TwoThenOne
  None = None
  Keys = {k1, k2, k3}
  MaxFlows = 2
  QueueCap = 1
  MaxFeeds = 3
SPECIFICATION FairSpec
INVARIANTS
  NothingLeaks
  SidsApart
PROPERTIES
  FlowsDrain
CHECK_DEADLOCK FALSE
