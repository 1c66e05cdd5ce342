SPECIFICATION CSpec
CONSTANTS
    Resources = {r1, r2}
    MaxTxns = 3
    MaxLog = 2
    NoRequest = NoRequest
INVARIANTS
    Serializable
    DetectionComplete
PROPERTIES
    EveryTransactionEnds
CHECK_DEADLOCK FALSE
