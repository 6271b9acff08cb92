SPECIFICATION FairSpec
CONSTANTS
  Threads <- MCThreads
  MsgIDs <- MCMsgIDs
  table <- MCTable
  methods <- MCMethods
  MaxArrivals = 2
INVARIANTS
  TypeOK
  Fifo
  Alternates
  SafeWhenRegistered
PROPERTIES ImplementsFifo EventuallyDone
CHECK_DEADLOCK FALSE
