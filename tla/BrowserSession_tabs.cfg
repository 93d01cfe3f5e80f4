\* One request, three faults and two resets.
SPECIFICATION FairSpec
CONSTANTS
  c1 = c1
  c2 = c2
  Calls = {c1}
  MaxFaults = 3
  MaxResets = 2
INVARIANTS
  ClientIsCurrent
  OneLoop
  SessionInv
PROPERTIES
  LossIsTyped
  KeepsRuntimeContract
  EventuallyReady
\* A connected session with no fault left rests.
CHECK_DEADLOCK FALSE
