SPECIFICATION FairSpec
CONSTANTS
    Paths <- MCPaths
    Token <- MCToken
    Deployments <- PutDeployments
    Clients = {c1}
    DataNodes = {d1}
    Dirs = {d1}
    Blocks = {b1}
    Replication = 2
    ImageWrites = {"whole"}
    NumHandlers = 4
    Holders = {}
    LeaseTimeout = 1
    SafeModeTicks = 0
    MaxClock = 0
    NoBlock = NoBlock
    NoEntry = NoEntry
    NoData = NoData
    Partial = Partial
PROPERTY MapRebuilt
CHECK_DEADLOCK FALSE
