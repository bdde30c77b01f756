CONSTANTS
    Tries = 3
    MaxRequests = 4
    MaxPages = 3
SPECIFICATION FairSpec
INVARIANTS
    ReadyIsCurrent
    AwaitInStep
    SnapshotIsRequested
PROPERTIES
    ReadsEnd
