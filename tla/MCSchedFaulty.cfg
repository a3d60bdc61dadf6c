SPECIFICATION Spec
CONSTANTS
    Profiles <- AllProfiles
    OPS = 4
    TOTAL_ROUNDS = 2
    Slow = TRUE
    MaxFaults = 1
INVARIANTS
    Lockstep
    RowSound
PROPERTIES
    EveryCallMoves
    Terminates
