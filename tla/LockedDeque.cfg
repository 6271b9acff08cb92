CONSTANTS
  Adders <- MCAdders
  Poppers <- MCPoppers
  Blocks <- MCBlocks
  BufSize = 2
  MaxAdds = 1
SPECIFICATION FairSpec
INVARIANTS TypeOK
PROPERTIES ImplementsByteQueue StarvesOnlyPassedOver
CHECK_DEADLOCK FALSE
