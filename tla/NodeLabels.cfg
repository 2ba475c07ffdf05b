SPECIFICATION FairSpec
CONSTANTS
    Writers = {"sidecar", "labeler"}
    AlphaNum <- MCAlphaNum
    Digits <- MCDigits
    Decimal <- MCDecimal
    Machine <- MCMachine
    Reserved = 2
    Override = 5
    Word = 64
    Metrics <- MCMetrics
    AllowSubdeviceless = FALSE
    LaneCount = 4
    MaxLength = 4
    NoFile = NoFile
    MaxEvent = 2
    MaxFault = 2
INVARIANTS ChunksJoin MemoryCounted LinksOnce OfOneMoment
PROPERTIES FileSettles
