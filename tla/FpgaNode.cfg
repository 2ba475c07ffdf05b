SPECIFICATION FairSpec
CONSTANTS
    NumPorts = 4
    Boards <- MCBoards
    Modes = {"af", "region", "regiondevel"}
    Bitstreams <- MCBitstreams
    NoImage = NoImage
    Stored <- MCStored
    Containers <- MCContainers
    Wants <- MCWants
    MaxStart = 2
    MaxEvent = 1
    MaxFault = 1
INVARIANTS TypeOK Compatible ExclusiveUnlessStale FunctionHeld
PROPERTIES StartsUnlessHopeless
