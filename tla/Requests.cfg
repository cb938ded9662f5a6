SPECIFICATION FairSpec
CONSTANTS
  c1 = c1
  c2 = c2
  p1 = p1
  p2 = p2
  x1 = x1
  x2 = x2
  NoPass = NoPass
  NoPool = NoPool
  Conns = {c1, c2}
  Pools = {p1}
  Passphrases = {x1}
  Ops = {"Mount", "Status", "ReloadConfig"}
  InitialPools <- Mountable
  MaxRequests = 2
  MaxFaults = 1
  MaxHangs = 1
  MaxCrashes = 1
  MaxEdits = 1
INVARIANTS
  MutexOK
PROPERTIES
  ImplementsPoolService
  ConfigMonotone
  RequestsAnswered
CHECK_DEADLOCK FALSE
