CONSTANTS
    t1 = t1
    t2 = t2
    w12 = w12
    w24 = w24
    Threads <- MCThreads
    JobThread = t2
    Nobody = nobody
    Widths <- MCWidths
    NoTape = none
    Settings <- MCSettings
    LongAgo = 1
SPECIFICATION FairSpec
INVARIANTS
    Restored
    OpenRunIsPublished
PROPERTIES
    PollsSpaced
    StatusRecovers
