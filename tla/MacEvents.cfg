SPECIFICATION FairSpec
CONSTANTS
  Ids = {i1, i2}
  Disks = {d1, d2}
  NoDisk = NoDisk
  Capacity = 1
  MaxMoves = 3
  MaxSpawnErrors = 1
  MaxExitFailures = 1
INVARIANTS
  TypeOK
  EventsAreNews
  RemovedWasDetached
PROPERTIES
  ViewConverges
