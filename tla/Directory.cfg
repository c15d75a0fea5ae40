SPECIFICATION Spec
CONSTANTS
    c1 = c1
    c2 = c2
    p1 = p1
    p2 = p2
    p3 = p3
    w1 = w1
    Clients <- TwoClients
    Prefixes <- ThreePrefixes
    Locations <- OneLocation
    Layouts <- OneLayout
    TokenCounts = {1, 2}
    TTLs = {1}
    Capacities <- SmallGpu
    MaxTime = 1
    MaxHeld = 1
SYMMETRY Permute
INVARIANTS
    TypeOK
    NoOrphanLease
    WithinCapacity
    LeaseProtects
PROPERTIES
    LeasedRemovedOnlyOnPurpose
    EvictionIsLRU
