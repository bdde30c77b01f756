CONSTANTS
    t12 = t12
    t24 = t24
    t0 = t0
    Tapes <- MCTapes
    NoTape = t0
    MaxLabels = 1
    Polling = TRUE
SPECIFICATION Spec
SYMMETRY TapeSymmetry
INVARIANTS
    PageOnConfirmedTape
