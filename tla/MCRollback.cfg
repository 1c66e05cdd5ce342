SPECIFICATION CSpec
CONSTANTS
    Resources = {r1, r2}
    MaxTxns = 3
    MaxLog = 2
    NoRequest = NoRequest
PROPERTY ReadsNoAbortedWriter
CHECK_DEADLOCK FALSE
