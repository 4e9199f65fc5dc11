SPECIFICATION FairSpec
CONSTANTS
  RecentCap = 1
  MaxUp = 2
  MaxFrames = 2
INVARIANTS
  NoGhosts
  BytesInOrder
PROPERTIES
  RelayEnds
CHECK_DEADLOCK FALSE
