\* A start that spans a reset.
CONSTANTS
    j1 = j1
    j2 = j2
    j3 = j3
    j4 = j4
    x1 = x1
    x2 = x2
    x3 = x3
    Jobs = {j1, j2, j3}
    Cells = {x1, x2, x3}
    MaxCells = 2
    User = User
    NoOne = NoOne
    MaxFailures = 0
    MaxCrashes = 0
    MaxResets = 1
    MaxEdits = 0
SPECIFICATION Spec
INVARIANTS
    ResetForgetsCells
SYMMETRY Interchangeable
CHECK_DEADLOCK FALSE
