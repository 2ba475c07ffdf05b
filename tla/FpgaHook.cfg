SPECIFICATION Spec
CONSTANTS
    NumPorts = 4
    Boards <- MCBoards
    Modes = {"af", "region", "regiondevel"}
    Bitstreams <- MCBitstreams
    NoImage = NoImage
    Stored <- MCStored
    Containers <- MCContainers
    Wants <- MCWants
    MaxStart = 2
    MaxEvent = 1
    MaxFault = 0
INVARIANTS AllFunctionsHeld

