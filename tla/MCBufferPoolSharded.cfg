SPECIFICATION Spec
CONSTANTS
    MaxPage = 2
    NumShards = 1
    ShardSize = 2
    FilePages = {}
    MaxPins = 2
    MaxFailures = 1
INVARIANTS
    TypeOK
    PinsCounted
    ListsAgree
    UpdatesKept
CHECK_DEADLOCK FALSE
