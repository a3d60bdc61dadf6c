\* The programs end; that they end nowhere else is Terminates.
CHECK_DEADLOCK FALSE
SPECIFICATION Spec
CONSTANTS
    MaxFaults = 3
    PENDING = 2
    DECOYS = 1
    KernfsRounds <- SomeRounds
    Configs <- EnvConfigs
    WARM = 2
    MARGIN = 1
    MAX_ITEMS = 3
    Ops <- SomeOps
    Ranges <- SomeRanges
    PAGE = 2
    WORD = 16
    BATCH_SIZE = 2
    PATTERNS = 4
    Messages <- SomeMessages
    Warmups <- SomeWarmups
    UnixRounds <- SomeUnixRounds
INVARIANTS
    
    ReportEarned
    CountersFollow
PROPERTIES
    Terminates
