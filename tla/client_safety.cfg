SPECIFICATION Spec
CONSTANTS
  r1 = r1
  r2 = r2
  r3 = r3
  r4 = r4
  m1 = m1
  s1 = s1
  s2 = s2
  s3 = s3
  Requests <- FourCalls
  Ids <- ThreeStreams
  Malformed <- NoMalformed
  Capacity = 2
  NoRequest = NoRequest
SYMMETRY Symmetry
INVARIANTS
  TypeOK
  NoLostWakeup
  CompletionsDelivered
  FlightTracked
  OwnResponse
  ReplyHeld
