SPECIFICATION FairSpec
CONSTANTS
    r1 = r1
    r2 = r2
    r3 = r3
    Requests <- ThreeRequests
    Needs <- SmallNeeds
    Capacity = 2
    Faults = {"prefill_error", "timeout"}
    MaxRestarts = 0
INVARIANTS
    NoAbandonedSlots
    DecodeAfterTransfer
PROPERTIES
    ImplementsHandshake
    EveryRequestAnswered
