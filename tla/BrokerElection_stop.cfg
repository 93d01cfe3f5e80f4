\* One proxy that starts a broker at its deadline.
SPECIFICATION Spec
CONSTANTS
  c1 = c1
  c2 = c2
  d1 = d1
  d2 = d2
  NoOne = NoOne
  Calls = {c1}
  Daemons = {d1}
  Upgraded = {}
  MaxFaults = 0
PROPERTY
  OnlyUnpublishedAreStopped
CHECK_DEADLOCK FALSE
