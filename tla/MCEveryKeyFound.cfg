CHECK_DEADLOCK FALSE
SPECIFICATION Spec
CONSTANTS
    Names = {n1, n2}
    Tables = {t1, t2}
    Values = {v1, v2}
    none = none
    MaxKey = 3
    MaxKeys = 3
    MaxPages = 4
    MaxInserts = 5
INVARIANT EveryKeyFound
