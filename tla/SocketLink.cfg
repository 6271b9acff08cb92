SPECIFICATION FairSpec
CONSTANTS
  Sizes <- MCSizes
  MaxTotal = 8
  SendBuf <- MCBuffer
  RecvBuf <- MCBuffer
  PopBuf <- MCPopBuf
  CountMod <- MCCountMod
  KernelBuf <- MCKernelBuf
  MaxShort = 1
  Faults <- FaultKinds
INVARIANTS
  TypeOK
  Accounted
  InOrder
  IntactWhenPaced
  DropsWholeBlocks
PROPERTIES ImplementsStream EventuallySettled
CHECK_DEADLOCK FALSE
