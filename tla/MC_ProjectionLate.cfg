SPECIFICATION ProjectionSpec
CONSTANTS
    Ports = {1}
    Addresses = {"a1", "a2"}
    Identities = {"s1", "s2"}
    Rules = {"r1"}
    Texts = {"x1", "x2"}
    Matches <- MCMatches
    Events = {"e1", "e2"}
    EventOf <- MoveEvents
    Attempts = {1, 2}
    ScanOf <- LateScans
    Runs = {}
    Export = FALSE
    MaxEdits = 0
INVARIANTS
    LatestAttemptWins
