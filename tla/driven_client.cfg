SPECIFICATION FairSpec

CONSTANTS
  r1 = r1
  r2 = r2
  s1 = s1
  None = None
  Requests <- MCRequests
  Streams <- MCStreams
  Ids <- MCIds
  MaxStreams = 2
  MaxConnects = 2

INVARIANTS
  TypeOK
  TableMatchesHandles
  ToldTheTruth

PROPERTY
  EveryHandleEnds
