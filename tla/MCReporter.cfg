SPECIFICATION Spec
CONSTANTS
  NoFile = NoFile
  Chunks = 3
  LastDay = 2
  MaxSaves = 4
INVARIANTS
  TypeOK
  LatestWins
  PostedIsWhole
  ScheduledPostIsFresh
