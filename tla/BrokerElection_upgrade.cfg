\* An old and an upgraded proxy, one process killed or stop request; daemons also
\* fail by themselves.
SPECIFICATION FairSpec
CONSTANTS
  c1 = c1
  c2 = c2
  d1 = d1
  d2 = d2
  NoOne = NoOne
  Calls = {c1, c2}
  Daemons = {d1, d2}
  Upgraded = {c2}
  MaxFaults = 1
INVARIANT
  ElectionInv
PROPERTY
  CallsEnd
\* Every call may have ended and every daemon be gone.
CHECK_DEADLOCK FALSE
