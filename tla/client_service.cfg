SPECIFICATION FairSpec
CONSTANTS
  r1 = r1
  r2 = r2
  r3 = r3
  r4 = r4
  m1 = m1
  s1 = s1
  s2 = s2
  s3 = s3
  Requests <- ThreeCalls
  Ids <- TwoStreams
  Malformed <- OneMalformed
  Capacity = 1
  NoRequest = NoRequest
PROPERTIES
  ImplementsService
  OwnerStops
