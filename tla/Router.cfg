SPECIFICATION Spec
CONSTANTS
    Requests <- AllRequests
    Pools <- AllPools
    Listings <- AllListings
    Layouts <- SomeLayouts
    Zones = {"z1", "z2"}
INVARIANTS
    ListingOrderIrrelevant
    LoadRepels
