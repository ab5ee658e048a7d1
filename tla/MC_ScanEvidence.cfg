SPECIFICATION FairScan
CONSTANTS
    Pods = {1, 2}
    OpenSets <- MCOpenSets
    Becomes <- MCBecomes
    Coverage <- MCCoverage
    MaxTerms = 1
    MaxArgument = 4
    NotAfter = 4
    Reserve = 1
    DiscoveryTimeout = 3
    EnrichmentTimeout = 2
    Grace = 1
    MaxClock = 5
    MaxChanges = 1
    MaxFaults = 1
    MaxPort = 5
INVARIANTS
    ReferencesResolve
    NeverRejected
    AuthorityIsEarned
    ExitTellsOutcome
    NmapStopsInTime
    CoverageIsExact
PROPERTIES
    PodsEnd
    PublishedIsIngested
CHECK_DEADLOCK FALSE
