SPECIFICATION FairSpec
CONSTANTS
  StreamLen = 4
  Class <- MCClass
  BatchSize = 2
INVARIANTS
  TypeOK
  WrittenOncePerDelivery
PROPERTIES
  CommitsOnlyHandled
  EventuallyHandled
