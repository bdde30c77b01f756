CONSTANTS
    c1 = c1
    c2 = c2
    MaxJobs = 2
    Cuts <- OneCut
    MaxThreads = 2
    Interrupts = TRUE
SPECIFICATION Spec
INVARIANTS
    Exclusive
