SPECIFICATION FairInventory
CONSTANTS
    Targets = {t1}
    Callers = {c1, c2}
    SnapshotJobs = {c1}
    SignalJobs = {c2}
    RescanJobs = {}
    Contents <- MCContents
    Groups = {"g1"}
    Times = {1, 2, 3}
    Observations <- MCDirect
    Buckets = {1}
    MaxRetries = 2
    Backend = "ec2"
    Signals = {s1}
    Hint <- MCHint
    DedupeSeconds = 0
    MaxClock = 3
    QuietFrom = 2
    Gone = Gone
INVARIANTS
    SignalAppliedBeforeAck
PROPERTIES
    UsesStore
    Convergence
