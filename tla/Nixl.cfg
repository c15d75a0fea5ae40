SPECIFICATION BenchSpec
CONSTANTS
    r1 = r1
    r2 = r2
    other = other
    Requests <- TwoAndOther
    Submitted <- Two
    Concurrency = 1
    Faults = {"prefill_error", "no_params", "disconnect", "decode_error"}
INVARIANTS
    TypeOK
    BenchTypeOK
    SuccessMeansDecoded
    EachMeasuredOnce
    NoBlocksBehindSuccess
PROPERTIES
    ImplementsHandshake
    BenchmarkEnds
