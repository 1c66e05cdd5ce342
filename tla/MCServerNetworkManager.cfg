CHECK_DEADLOCK FALSE
SPECIFICATION Spec
CONSTANTS
    Clients = {c1, c2}
    nullptr = nullptr
    MaxFd = 3
    MaxEvents = 2
    MaxMessages = 2
    MaxStarts = 2
INVARIANTS TypeOK PointersLive DescriptorsAgree LoginIsOwn ServedByItsServer
PROPERTIES EveryoneServed
