\* Two proxies of one protocol version, two processes killed or stopped.
SPECIFICATION Spec
CONSTANTS
  c1 = c1
  c2 = c2
  d1 = d1
  d2 = d2
  NoOne = NoOne
  Calls = {c1, c2}
  Daemons = {d1, d2}
  Upgraded = {}
  MaxFaults = 2
SYMMETRY SameVersion
INVARIANTS
  ServingIsPublished
  ReturnedWasServing
  ChildrenAreReaped
PROPERTIES
  GenerationsGrow
  KeepsOwnership
\* Every call may have ended and every daemon be gone.
CHECK_DEADLOCK FALSE
