SPECIFICATION Spec
CONSTANTS
    Runs <- AllRuns
    SCALAR_SLOTS = 2
    WAITV_GROUPS = 1
    WAITV_WIDTH = 3
    WAITV_WAKE_INDEX = 2
    CYCLES = 2
    WARMUP_ROUNDS = 1
    MEASURED_ROUNDS = 1
    Kernels <- LackingKernels
    Faults = {"lose", "wrong", "spurious", "residual", "short"}
    MaxFaults = 1
    Slow = TRUE
    Signals = TRUE
INVARIANTS
    RowSound
    FirstWordsClean
    OnlySupported
PROPERTIES
    EndsHonestly
