SPECIFICATION Spec
CONSTANTS
    Runs <- AllRuns
    EVENTS = 3
    POINT_WARMUPS = 1
    POINT_ROUNDS = 1
    MaxFaults = 2
    Signals = TRUE
INVARIANTS
    LeakFree
    
    NoSharedPages
PROPERTIES
    ExitHonest
