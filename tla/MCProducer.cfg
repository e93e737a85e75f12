SPECIFICATION FairSpec
CONSTANTS
  StreamLen = 4
  Kind <- MCKind
  BatchSize = 2
  BatchTimeout = 1
  RetryBase = 1
  RetryMax = 1
  Class <- MCClass
INVARIANTS
  NothingElseIsLost
  SentOnce
PROPERTY ImplementsCollector
