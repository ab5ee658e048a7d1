SPECIFICATION DispatchSpec
CONSTANTS
    Workers = {w1}
    Events = {"e1", "e2"}
    Gen <- MCGenTwo
    Removals = {}
    Denied = {}
    Deadline <- MCDeadlineTwo
    Lease = 2
    Timeout = 1
    MaxGeneration = 2
    MaxClock = 3
    QuietFrom = 1
PROPERTIES
    CrashedCreateIsAdopted
