\* The process ends; that it ends nowhere else is Terminates.
CHECK_DEADLOCK FALSE
SPECIFICATION Spec
CONSTANTS
    OPS = 2
    ROUNDS = 2
    COMPETITOR = TRUE
    CallsMayFail = TRUE
INVARIANTS
    OneAtATime
    ReportSound
PROPERTIES
    Terminates
