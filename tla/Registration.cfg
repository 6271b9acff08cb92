CONSTANTS
  Threads <- MCThreads
  IDs = {"shared", "own"}
  idOf <- MCidOf
SPECIFICATION FairRegSpec
INVARIANTS RegistrationsKept OneInstance
PROPERTIES EventuallyRegistered
CHECK_DEADLOCK FALSE
