\* One job, every way user code may end, three losses, crashes or resets.
SPECIFICATION FairSpec
CONSTANTS
  j1 = j1
  j2 = j2
  Jobs = {j1}
  MaxTracked = 1
  Outcomes = {"finished", "error", "malformed"}
  MaxDrops = 2
  MaxCrashes = 2
  MaxResets = 1
  MaxFaults = 3
INVARIANTS
  TypeOK
  RegistryInv
  VerdictIsDurable
  NoLostWakeup
  RecoveringIsOwned
  RunningSurvivesCrash
PROPERTIES
  VerdictIsFinal
  EventuallyConcluded
  WaitersWake
\* One job may be concluded, the faults used up: nothing is left to do.
CHECK_DEADLOCK FALSE
