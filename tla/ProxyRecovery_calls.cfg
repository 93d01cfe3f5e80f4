\* A mutating and a read-only call through three broker owners.
SPECIFICATION FairSpec
CONSTANTS
  write = write
  read = read
  Calls = {write, read}
  Mutating = {write}
  MaxOwners = 3
INVARIANTS
  RunsAtMostOnce
  ProxyInv
PROPERTIES
  LossIsReported
  CallsEnd
\* All calls may be done and the last owner dead.
CHECK_DEADLOCK FALSE
