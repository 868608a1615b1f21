SPECIFICATION Spec

CONSTANTS
  a1 = a1
  a2 = a2
  a3 = a3
  e1 = e1
  e2 = e2
  AnchorSet <- MCAnchorSet
  Entries <- MCEntries
  Threshold = 2
  MaxLog = 2
  MaxEpoch = 1

SYMMETRY Symmetry

INVARIANTS
  TypeOK
  CheckpointsChain
