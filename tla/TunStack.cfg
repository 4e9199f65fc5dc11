SPECIFICATION FairSpec
CONSTANTS
  Flows = {f1}
  MaxRelays = 2
  KernelCap = 1
  ChanCap = 1
  TxCap = 1
  Batch = 1
  ZombieAge = 1
  OrphanAge = 2
  NoFlow = NoFlow
  NoSocket = NoSocket
INVARIANTS OneSocketEach
PROPERTIES ZombiesGo ThreadsEnd
CHECK_DEADLOCK FALSE
