SPECIFICATION Spec
CONSTANTS
    GpuModels <- FourGpus
    KvBytesPerToken = 131072
    Prefixes = {"x"}
    Own = "own"
    Shapes <- SomeShapes
    Gaps <- SomeGaps
    MaxRequests = 4
INVARIANTS
    TypeOK
    NoDoubleBooking
    BusyWithinTrace
    HitsWereBrought
    PercentilesAgree
    ReportSound
PROPERTY
    ChoiceIsBooked
