SPECIFICATION Spec
CONSTANTS
    Runs <- AllRuns
    PENDING = 2
    DECOYS = 1
    BATCHES = 2
    WARMUP_ROUNDS = 1
    MEASURED_ROUNDS = 1
    ROUND_TAGS = 4096
    BATCH_TAGS = 1048576
    MaxFaults = 1
    Slow = TRUE
    Signals = TRUE
INVARIANTS
    RowSound
    StartsClean
PROPERTIES
    EndsHonestly
