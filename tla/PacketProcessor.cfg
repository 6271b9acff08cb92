SPECIFICATION Spec
CONSTANTS
  Streams <- MCStreams
  Garbage <- MCGarbage
  PopBuf = 44
  CountMod = 32
  MaxPops = 3
INVARIANTS
  TypeOK
  AcksFaithful
  HeadersFaithful
  FirstOfChunkFaithful
  AlignedDelivery
CHECK_DEADLOCK FALSE
