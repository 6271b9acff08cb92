CONSTANTS
  Threads <- MCThreads
  MsgIDs <- MCMsgIDs
  Scripts <- MCScripts
  table <- MCtable
  handlers <- MChandlers
  MaxScript = 4
  Half = 2
  Strays <- MCStrays
  MaxStrays = 1
SPECIFICATION FairSpec
INVARIANTS TypeOK AcksInOrder SafeWhenBothRegister
PROPERTIES EventuallyAcked
CHECK_DEADLOCK FALSE
