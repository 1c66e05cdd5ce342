SPECIFICATION Spec
CONSTANTS
    Databases = {d1, d2}
    Tables = {sys, t1, t2}
    SystemTable = sys
    None = None
    MaxFailures = 2
    MaxRestarts = 1
SYMMETRY Symmetry
INVARIANTS
    InUseExists
    ListsMatchFiles
    NothingOverwritten
CHECK_DEADLOCK FALSE
