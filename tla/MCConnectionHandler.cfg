SPECIFICATION Spec
CONSTANTS
    SendBuffer = 2
    MaxRequests = 4
    NoSession = NoSession
INVARIANTS TypeOK RepliesInOrder LoginRequired
PROPERTY EveryRequestAnswered
CHECK_DEADLOCK FALSE
