CONSTANTS
    c1 = c1
    c2 = c2
    MaxJobs = 2
    Cuts <- OneCut
    MaxThreads = 1
    Interrupts = TRUE
SPECIFICATION FairSpec
PROPERTIES
    CutServed
    PendingServed
