SPECIFICATION Spec
CONSTANTS
  StreamLen = 3
  Class <- MCClassSend
INVARIANT SendFailureIsRouted
CHECK_DEADLOCK FALSE
