SPECIFICATION Spec
CONSTANTS
  c1 = c1
  c2 = c2
  p1 = p1
  p2 = p2
  x1 = x1
  x2 = x2
  NoPass = NoPass
  NoPool = NoPool
  Conns = {c1, c2}
  Pools = {p1}
  Passphrases = {x1, x2}
  Ops = {"ChangeKey", "ExportPool", "ImportPool"}
  InitialPools <- LockedOrExported
  MaxRequests = 4
  MaxFaults = 0
  MaxHangs = 0
  MaxCrashes = 0
  MaxEdits = 0
SYMMETRY MCSymmetry
PROPERTIES
  ChangeKeyReplacesPresented
