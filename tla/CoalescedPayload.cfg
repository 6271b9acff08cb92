SPECIFICATION Spec
CONSTANTS
  Streams <- MCPairs
  Garbage <- MCGarbage
  PopBuf = 44
  CountMod = 32
  MaxPops = 2
INVARIANT CorrectChecksumMeansIntact
CHECK_DEADLOCK FALSE
