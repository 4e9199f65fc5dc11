SPECIFICATION Spec
CONSTANTS
  Flows = {f1, f2}
  MaxRelays = 2
  KernelCap = 1
  ChanCap = 1
  TxCap = 1
  Batch = 0
  ZombieAge = 1
  OrphanAge = 1
  NoFlow = NoFlow
  NoSocket = NoSocket
INVARIANTS OwnSocket
CHECK_DEADLOCK FALSE
