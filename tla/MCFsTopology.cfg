\* The process ends; that it ends nowhere but in its exit is Terminates.
CHECK_DEADLOCK FALSE
SPECIFICATION TopologySpec
CONSTANTS
    WORKERS = 3
    GROUPS = 4
    Topologies <- Both
    AddMayFail = TRUE
    CreateMayFail = TRUE
INVARIANTS
    PhaseSeparation
    NoSharedChurn
    
PROPERTIES
    Terminates
