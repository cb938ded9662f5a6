SPECIFICATION Spec
CONSTANTS
  c1 = c1
  c2 = c2
  p1 = p1
  p2 = p2
  x1 = x1
  x2 = x2
  NoPass = NoPass
  NoPool = NoPool
  Conns = {c1, c2}
  Pools = {p1, p2}
  Passphrases = {x1}
  Ops = {"SubscribeEvents", "ListDevices", "Ping", "ListPools", "ExportPool", "ImportPool", "InitPool"}
  InitialPools <- OpenOrPlain
  MaxRequests = 3
  MaxFaults = 1
  MaxHangs = 0
  MaxCrashes = 0
  MaxEdits = 0
SYMMETRY MCSymmetry
INVARIANTS
  ListingWithinWindow
