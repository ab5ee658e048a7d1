SPECIFICATION FairOperator
CONSTANTS
    NotAfter = 2
    TTL = 1
    MaxClock = 2
    MaxLag = 1
    MaxJobs = 2
    MaxFaults = 2
INVARIANTS
    OperatorTypeOK
    OutcomeIsEarned
    ProtectedUntilReported
    OrphanOnlyIfUnseen
PROPERTIES
    ScannerEnds
CHECK_DEADLOCK FALSE
