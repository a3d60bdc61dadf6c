SPECIFICATION NetSpec
CONSTANTS
    Runs <- AllRuns
    QD = 2
    PBUF_ENTRIES = 4
    PERIOD = 6
    WRAP = 8
    SMOKE_BATCHES = 3
    POINT_BATCHES = 3
    WARMUP_ROUNDS = 1
    MEASURED_ROUNDS = 2
    MaxFaults = 2
INVARIANTS
    ExitHonest
PROPERTIES
    RowEarned
    BuffersReturned
    CleanRunPasses
CHECK_DEADLOCK FALSE
