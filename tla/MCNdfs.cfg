SPECIFICATION NdfsSpec
CONSTANTS
    Paths <- MCPaths
    Token <- MCToken
    Deployments <- SafetyDeployments
    Clients = {c1, c2}
    DataNodes = {d1, d2}
    Dirs = {d1, d2, tmp}
    Blocks = {b1, b2, b3}
    Replication = 2
    ImageWrites = {"whole", "torn", "unopened"}
    NumHandlers = 4
    Holders = {}
    LeaseTimeout = 1
    SafeModeTicks = 0
    MaxClock = 0
    NoBlock = NoBlock
    NoEntry = NoEntry
    NoData = NoData
    Partial = Partial
SYMMETRY Symmetry
INVARIANTS NdfsTypeOK LocationsWereTargets WriterChunksInOrder ReadYourWrites ReadInPlace StoredIsOwned
PROPERTIES CompleteStays
CHECK_DEADLOCK FALSE
