\* User code that never ends: the recovery deadline is never applied.
SPECIFICATION BrokerFairSpec
CONSTANTS
  j1 = j1
  j2 = j2
  Jobs = {j1}
  MaxTracked = 1
  Outcomes = {"finished"}
  MaxDrops = 1
  MaxCrashes = 0
  MaxResets = 0
  MaxFaults = 1
PROPERTY
  DetachedIsBounded
CHECK_DEADLOCK FALSE
