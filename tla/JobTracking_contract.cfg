\* Two jobs that share one registry slot, and a transport loss or a crash.
SPECIFICATION Spec
CONSTANTS
  j1 = j1
  j2 = j2
  Jobs = {j1, j2}
  MaxTracked = 1
  Outcomes = {"finished"}
  MaxDrops = 1
  MaxCrashes = 1
  MaxResets = 0
  MaxFaults = 1
SYMMETRY Symmetry
INVARIANTS
  ContractInv
  VerdictIsProven
  NeverReplayed
  WriteAhead
PROPERTY
  KeepsContract
\* Both jobs may be concluded, the faults used up: nothing is left to do.
CHECK_DEADLOCK FALSE
