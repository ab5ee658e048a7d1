SPECIFICATION InventorySpec
CONSTANTS
    Targets = {t1}
    Callers = {c1, c2}
    SnapshotJobs = {c1}
    SignalJobs = {c2}
    RescanJobs = {c2}
    Contents <- MCContents
    Groups = {"g1"}
    Times = {1, 2}
    Observations <- MCObservations
    Buckets = {1}
    MaxRetries = 1
    Backend = "config"
    Signals = {s1}
    Hint <- MCHint
    DedupeSeconds = 0
    MaxClock = 2
    QuietFrom = 3
    Gone = Gone
INVARIANTS
    NoFalseRemoval
    RescanComplete
