SPECIFICATION FairDispatch
CONSTANTS
    Workers = {w1, w2}
    Events = {"e1"}
    Gen <- MCGenOne
    Removals = {}
    Denied = {}
    Deadline <- MCDeadlineOne
    Lease = 1
    Timeout = 2
    MaxGeneration = 2
    MaxClock = 3
    QuietFrom = 2
PROPERTIES
    TerminalIsFinal
    EventsSettle
