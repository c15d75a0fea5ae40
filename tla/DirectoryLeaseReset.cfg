SPECIFICATION Spec
CONSTANTS
    c1 = c1
    c2 = c2
    p1 = p1
    p2 = p2
    p3 = p3
    w1 = w1
    Clients <- TwoClients
    Prefixes <- TwoPrefixes
    Locations <- OneLocation
    Layouts <- OneLayout
    TokenCounts = {1}
    TTLs = {1}
    Capacities <- SmallGpu
    MaxTime = 2
    MaxHeld = 1
SYMMETRY Permute
PROPERTY
    HeldNotReclaimed
