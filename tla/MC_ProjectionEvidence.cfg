SPECIFICATION ProjectionSpec
CONSTANTS
    Ports = {1, 2}
    Addresses = {"a1", "a2"}
    Identities = {"s1", "s2"}
    Rules = {"r1"}
    Texts = {"x1"}
    Matches <- MCMatches
    Events = {"e1", "e2", "e2s", "e3", "e4", "e5"}
    EventOf <- EvidenceEvents
    Attempts = {1, 2, 3, 4, 5, 6, 7, 8}
    ScanOf <- EvidenceScans
    Runs = {}
    Export = FALSE
    MaxEdits = 0
INVARIANTS
    TargetIsLatest
    OpenIsOwned
    NoExposureAcrossRemoval
    LastScanDecides
PROPERTY
    ImplementsView
