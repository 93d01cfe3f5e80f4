\* A crash during the reconciliation of a timed out job.
SPECIFICATION Spec
CONSTANTS
  j1 = j1
  j2 = j2
  Jobs = {j1}
  MaxTracked = 1
  Outcomes = {"finished"}
  MaxDrops = 1
  MaxCrashes = 1
  MaxResets = 0
  MaxFaults = 2
PROPERTY
  UnfinishedRestoredDetached
CHECK_DEADLOCK FALSE
