SPECIFICATION FairSpec
CONSTANTS
  Body = 6
  Window = 3
  Chunk = 2
  Capacity = 2
  MaxRecv = 7
INVARIANTS
  TypeOK
  InOrder
  FirstEndIsVerified
PROPERTIES
  RecvAnswered
  StreamCloses
