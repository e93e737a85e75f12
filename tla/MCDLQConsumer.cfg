SPECIFICATION FairSpec
CONSTANTS
  EventCount = 3
  Malformed <- MCMalformed
  MaxRetries = 1
  PollSize = 2
  MaxFaults = 1
INVARIANTS
  TypeOK
  NothingForgotten
  TwiceForAReason
PROPERTIES
  CommitsOnlyHandled
  EventuallySettled
