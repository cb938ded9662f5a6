SPECIFICATION Spec
CONSTANTS
  Callers = {c1, c2}
  Pools = {p1, p2}
  Passphrases = {x1, x2}
  NoPass = NoPass
  Garbage = Garbage
  Backends = {"linux", "memory"}
  FindsAll = {TRUE, FALSE}
  MaxKeys = 2
  Strings = {s1, s2}
  NoString = NoString
  Pages = {g1, g2}
  MaxSpan = 1
  MemLock = 1
SYMMETRY MCSymmetry
INVARIANTS
  TypeOK
  LocksReleased
PROPERTIES
  ImplementsKeyStorage
  RetrieveTrue
  UnlockedByHolder
