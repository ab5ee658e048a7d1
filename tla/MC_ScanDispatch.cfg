SPECIFICATION DispatchSpec
CONSTANTS
    Workers = {w1, w2}
    Events = {"e1", "e2", "e3"}
    Gen <- MCGen
    Removals = {"e3"}
    Denied = {"e2"}
    Deadline <- MCDeadline
    Lease = 2
    Timeout = 1
    MaxGeneration = 3
    MaxClock = 3
    QuietFrom = 2
INVARIANTS
    OneHolderPerEvent
    RefusedDoesNotScan
PROPERTIES
    NoLateScanner
SYMMETRY WorkerSymmetry
