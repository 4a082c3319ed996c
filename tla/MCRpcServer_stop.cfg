CONSTANTS
    Workers = {w1, w2}
    Conns = {c1}
    Keepers = {}
    Kinds = {FALSE}
    NoFd = NoFd
SPECIFICATION RpcFairSpec
CHECK_DEADLOCK FALSE
PROPERTIES StopAlwaysReturns
