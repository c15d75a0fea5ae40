SPECIFICATION Spec
CONSTANTS
    r1 = r1
    r2 = r2
    r3 = r3
    Requests <- ThreeRequests
    Needs <- SmallNeeds
    Capacity = 2
    Faults = {"prefill_error", "bad_reply", "disconnect", "timeout", "restart"}
    MaxRestarts = 1
\* Slots leaked by bad replies and disconnects may leave a task asleep for good.
CHECK_DEADLOCK FALSE
SYMMETRY Permute
INVARIANTS
    TypeOK
    Registration
    SlotsBalance
    NoLostWakeup
