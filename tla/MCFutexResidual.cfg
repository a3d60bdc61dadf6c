SPECIFICATION Spec
CONSTANTS
    Runs <- VectorRuns
    SCALAR_SLOTS = 2
    WAITV_GROUPS = 2
    WAITV_WIDTH = 3
    WAITV_WAKE_INDEX = 2
    CYCLES = 2
    WARMUP_ROUNDS = 1
    MEASURED_ROUNDS = 1
    Kernels <- FullKernel
    Faults = {"residual"}
    MaxFaults = 1
    Slow = FALSE
    Signals = FALSE
INVARIANTS
    ResidualsProven
