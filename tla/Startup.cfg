CONSTANTS
  Procs = {"a", "b", "c"}
  Ports = {1, 2, 3}
  Layouts <- MCLayouts
  MaxOps = 3
  Retries = 2
  Backlog = 1
  Busy = {3}
SPECIFICATION FairSpec
INVARIANTS TypeOK CircularWait UpMeansConnected
PROPERTIES EventuallyUp GivesUpOnlyUnserved
CHECK_DEADLOCK FALSE
