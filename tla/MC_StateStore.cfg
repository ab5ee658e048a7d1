SPECIFICATION StoreSpec
CONSTANTS
    Targets = {t1}
    Callers = {c1, c2}
    Contents <- MCContents
    Groups = {"g1"}
    Times = {1, 2, 3}
    Observations <- MCObservations
    Buckets = {1}
    MaxRetries = 2
INVARIANTS
    StoreTypeOK
    ReadIsPast
    OneEventPerGeneration
PROPERTIES
    ImplementsLedger
    WatermarkMonotone
    CaptureVersionsMonotone
SYMMETRY CallerSymmetry
