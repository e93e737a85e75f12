SPECIFICATION FairSpec
CONSTANTS
  StreamLen = 5
  Kind <- MCKind
  BatchSize = 2
  BatchTimeout = 1
  RetryBase = 1
  RetryMax = 2
INVARIANTS
  TypeOK
  GapFree
  InStreamOrder
  OneFate
PROPERTY EventuallyOffered
