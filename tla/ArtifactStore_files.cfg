\* Two threads, three artifacts of one or two bytes in a quota of three.
SPECIFICATION Spec
CONSTANTS
  t1 = t1
  t2 = t2
  a = a
  b = b
  c = c
  None = None
  Threads = {t1, t2}
  Ids = {a, b, c}
  Lengths = {1, 3}
  MaxSize = 2
  MaxTotal = 3
  Ttl = 1
  MaxTime = 1
  MaxFaults = 2
SYMMETRY Alike
INVARIANTS
  QuotaHolds
  NothingIsLeft
  StoreInv
PROPERTIES
  StoredIsKept
  KeepsArtifacts
