CONSTANTS
    t12 = t12
    t24 = t24
    t0 = t0
    Tapes <- MCTapes
    NoTape = t0
    MaxLabels = 3
    Polling = TRUE
SPECIFICATION Spec
SYMMETRY TapeSymmetry
INVARIANTS
    TypeOK
    NoOutputAfterLoss
    HealthyMeansEmpty
    ReleasesWholeLabels
    HeldMatchesRun
    CutOnlyHeldContent
    RejectedKeepsRun
    IInv
PROPERTIES
    Implements
