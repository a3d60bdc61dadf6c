SPECIFICATION Spec
CONSTANTS
    Profiles <- AllProfiles
    OPS = 4
    TOTAL_ROUNDS = 2
    Slow = FALSE
    MaxFaults = 0
INVARIANTS
    SemanticErrorIsReal
