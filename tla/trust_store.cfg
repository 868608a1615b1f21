SPECIFICATION Spec

CONSTANTS
  binding = binding
  revocation = revocation
  Entries <- MCEntries
  Revocation = revocation
  MaxLog = 2
  MaxEpoch = 2
  MaxPublished = 2
  WarnEpochs = 1

INVARIANTS
  TypeOK
  SavesBind
