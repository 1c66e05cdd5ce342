SPECIFICATION Spec
CONSTANTS
    Resources = {r1, r2}
    MaxTxns = 3
    MaxLog = 1
INVARIANTS
    TypeOK
    LocksCompatible
    OneEntryEach
    HoldersActive
PROPERTIES
    LocksKept
    EndedIsFinal
    ImplementsLockService
