SPECIFICATION Spec
CONSTANTS
  q1 = q1
  q2 = q2
  Qids <- MCQids
  Edited <- MCEdited
  Entities <- MCEntities
  Ttl <- MCTtl
  ChunkSize = 1
  MaxTime = 3
  MaxLag = 1
INVARIANTS
  TypeOK
  BoundedStaleness
  AskedAgainForAReason
