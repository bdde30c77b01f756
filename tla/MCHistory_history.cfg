CONSTANTS
    None = none
    Configurations <- MCConfigurations
    MaxJobs = 2
SPECIFICATION Spec
INVARIANTS
    NothingReplayed
    CompletedWasStarted
    ServesConfigured
PROPERTIES
    HistoryKept
