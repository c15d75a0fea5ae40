SPECIFICATION Spec
CONSTANTS
    t1 = t1
    t2 = t2
    prefiller = prefiller
    decoder = decoder
    p1 = p1
    Threads <- TwoThreads
    Fleet <- Pair
    ModelIds = {"m"}
    Prefixes <- OnePrefix
    Tier = "gpu"
    Capacities <- WideGpu
    TTL = 9
    Calls = {"register", "cache", "fence", "list"}
    HeartbeatTimeout = 1
    MaxTime = 3
SYMMETRY Permute
INVARIANT
    LostWorkersInvalidated
