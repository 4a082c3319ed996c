SPECIFICATION RpcFairSpec
CONSTANTS
    Workers = {w1, w2}
    Conns = {c1, c2, c3}
    Keepers = {c1}
    Kinds = {TRUE, FALSE}
    NoFd = NoFd
INVARIANTS RpcTypeOK OneOwner NoStranded StoppedIsQuiet
PROPERTIES ImplementsService EveryConnectionServed StopReturns
CHECK_DEADLOCK FALSE
