CONSTANTS
  main = main
  router = router
  A = A
  B = B
  Threads <- MCThreads
  Addrs <- MCAddrs
  Bodies = {"short", "full"}
  Full = {"full"}
  Comms = {"comm"}
  Locals = {"app"}
  Unknown = {"nobody"}
  Half = 2
  MaxCalls = 5
SPECIFICATION Spec
INVARIANTS TypeOK UniqueIDs ChecksumsMatch
SYMMETRY MCSymmetry
CHECK_DEADLOCK FALSE
