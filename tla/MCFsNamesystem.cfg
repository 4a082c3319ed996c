SPECIFICATION NsSpec
CONSTANTS
    Paths <- MCPaths
    Token <- MCToken
    Blocks = {b1, b2}
    DataNodes = {d1, d2}
    Replication = 1
    Holders = {h1}
    LeaseTimeout = 0
    SafeModeTicks = 1
    MaxClock = 1
    NoBlock = NoBlock
    NoEntry = NoEntry
SYMMETRY Symmetry
INVARIANTS NsTypeOK TreeClosed BlocksExclusive FileBlocksMapped LocationsSound ImageRoundTrip
PROPERTY ExpiryTakesOnlyExpired
