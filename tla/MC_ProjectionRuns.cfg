SPECIFICATION ProjectionSpec
CONSTANTS
    Ports = {1}
    Addresses = {"a1", "a2"}
    Identities = {"s1", "s2"}
    Rules = {"r1"}
    Texts = {"x1", "x2"}
    Matches <- MCMatches
    Events = {"e1", "e2"}
    EventOf <- RemovalEvents
    Attempts = {1, 2}
    ScanOf <- RunScans
    Runs = {1, 2}
    Export = TRUE
    MaxEdits = 1
INVARIANTS
    FindingHistory
    EventsExported
PROPERTIES
    RunRepairs
