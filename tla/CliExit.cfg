SPECIFICATION Spec
CONSTANTS
  p1 = p1
  p2 = p2
  x1 = x1
  x2 = x2
  Users = {u1, u2}
  Pools = {p1, p2}
  NoPool = NoPool
  NoPass = NoPass
  Empty = Empty
  Short = {Empty}
  Passphrases = {x1, x2}
  KeyNamed = {p2}
  InitialPools <- SomePools
  MaxRuns = 2
  MaxFaults = 1
SYMMETRY MCSymmetry
INVARIANTS
  TypeOK
  ExitZeroMeansDone
  ExitOneMeansUndone
  PassphraseConfirmed
