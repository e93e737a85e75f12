SPECIFICATION Spec
CONSTANTS
  StreamLen = 5
  Class <- MCClass
INVARIANTS
  TypeOK
  ReturnedIsRouted
  OneRoute
  FlushIsBarrier
CHECK_DEADLOCK FALSE
