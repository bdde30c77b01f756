CONSTANTS
    c1 = c1
    c2 = c2
    MaxJobs = 2
    Cuts <- TwoCuts
    MaxThreads = 2
    Interrupts = TRUE
SPECIFICATION Spec
SYMMETRY CutSymmetry
INVARIANTS
    OneUser
    DeviceKept
    OwnershipKept
PROPERTIES
    PrintedOnce
    CutInOrder
    TakesTurns
