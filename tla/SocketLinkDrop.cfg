SPECIFICATION Spec
CONSTANTS
  Sizes <- MCSizes
  MaxTotal = 6
  SendBuf <- MCBuffer
  RecvBuf <- MCBuffer
  PopBuf <- MCPopBuf
  CountMod <- MCCountMod
  KernelBuf <- MCKernelBuf
  MaxShort = 0
  Faults = {}
INVARIANT NothingDropped
CHECK_DEADLOCK FALSE
