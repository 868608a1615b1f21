SPECIFICATION FairSpec
CONSTANTS
  c1 = c1
  c2 = c2
  m1 = m1
  Callers <- MCCallers
  Metrics <- MCMetrics
  Capacity = 2
  PollCap = 2
  AnnounceInterval = 3
  MaxTimeout = 2
  ClockChanges <- MCChanges
  MaxChanges = 1
  NoRequest = NoRequest
INVARIANTS
  TypeOK
  ReplyHeld
  StopNoticedInTime
  AnnounceBounded
PROPERTIES
  StopEnds
  ImplementsService
