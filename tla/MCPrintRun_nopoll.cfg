CONSTANTS
    t12 = t12
    t24 = t24
    t0 = t0
    Tapes <- MCTapes
    NoTape = t0
    MaxLabels = 2
    Polling = FALSE
SPECIFICATION FairSpec
INVARIANTS
    HeldNotForgotten
    PageOnConfirmedTape
PROPERTIES
    CancelEnds
    CutAnswered
    WaitEnds
