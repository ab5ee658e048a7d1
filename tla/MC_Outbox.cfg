SPECIFICATION FairOutbox
CONSTANTS
    Events = {1, 2, 3}
    Coverage = {2}
    Poison = {1}
    StreamBatch = 2
    ReplayBatch = 2
    MaxFaults = 1
INVARIANTS
    CheckpointMeansDelivered
PROPERTIES
    ImplementsChannel
    RowsDelivered
CHECK_DEADLOCK FALSE
