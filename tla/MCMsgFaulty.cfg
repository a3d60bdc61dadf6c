SPECIFICATION Spec
CONSTANTS
    Runs <- AllRuns
    QD = 2
    SMOKE_BATCHES = 1
    POINT_BATCHES = 2
    WARMUP_ROUNDS = 0
    MEASURED_ROUNDS = 1
    MaxFaults = 1
INVARIANTS
    StartsClean
    ExitHonest
PROPERTIES
    RowEarned
    SlotsHoldTheFile
    Terminates
