\* Failed, cancelled, crashed and reset starts over a pool of two cells.
CONSTANTS
    j1 = j1
    j2 = j2
    j3 = j3
    j4 = j4
    x1 = x1
    x2 = x2
    x3 = x3
    Jobs = {j1, j2, j3, j4}
    Cells = {x1, x2, x3}
    MaxCells = 2
    User = User
    NoOne = NoOne
    MaxFailures = 2
    MaxCrashes = 2
    MaxResets = 1
    MaxEdits = 1
SPECIFICATION Spec
INVARIANTS
    WrappersAreBounded
    PoolInv
    CellsAreExclusive
    CellHoldsItsJob
SYMMETRY Interchangeable
CHECK_DEADLOCK FALSE
