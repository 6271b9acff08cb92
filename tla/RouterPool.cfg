CONSTANTS
  Routers = {"r1", "r2", "r3"}
  MaxArrivals = 4
SPECIFICATION FairSpec
INVARIANTS TypeOK Accounted
PROPERTIES ImplementsWindow EventuallyHandled
CHECK_DEADLOCK FALSE
