SPECIFICATION Spec
CONSTANTS
    r1 = r1
    r2 = r2
    r3 = r3
    Requests <- TwoRequests
    Needs <- FittingNeeds
    Capacity = 2
    Faults = {"restart"}
    MaxRestarts = 1
INVARIANT
    DecodeAfterTransfer
