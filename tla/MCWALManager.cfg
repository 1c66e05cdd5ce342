SPECIFICATION Spec
CONSTANTS
    t1 = t1
    t2 = t2
    Threads = {t1, t2}
    NoThread = NoThread
    BatchSize = 2
    HistoryCap = 1
    MaxLSN = 2
    MaxFailures = 1
    MaxRestarts = 1
INVARIANTS
    TypeOK
    EachRecordOnce
    NothingLeftBehind
    BatchesInOrder
PROPERTIES
    BufferDrains
