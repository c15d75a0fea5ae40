SPECIFICATION Spec
CONSTANTS
    t1 = t1
    t2 = t2
    prefiller = prefiller
    decoder = decoder
    p1 = p1
    Threads <- TwoThreads
    Fleet <- Pair
    ModelIds = {"m"}
    Prefixes <- OnePrefix
    Tier = "gpu"
    Capacities <- WideGpu
    TTL = 2
    Calls = {"register", "cache", "fence", "metrics", "completion"}
    HeartbeatTimeout = 1
    MaxTime = 2
SYMMETRY Permute
INVARIANTS
    TypeOK
    RoutesAvoidLost
    FencedInvalidated
PROPERTY
    FencedOnlyWhenOverdue
