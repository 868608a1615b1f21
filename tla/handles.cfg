SPECIFICATION Spec
CONSTANTS
  k1 = k1
  k2 = k2
  d1 = d1
  d2 = d2
  a1 = a1
  a2 = a2
  Caches <- MCCaches
  DoneHooks <- MCDone
  AppendHooks <- MCAppend
  None = None
SYMMETRY Symmetry
INVARIANTS
  TypeOK
  HandlesOpen
  CallbacksLive
  BorrowsLive
  FreedOnce
  NothingLeaks
