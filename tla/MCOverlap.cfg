CONSTANTS
    Memories = {1}
    Versions = {1}
    MaxAttempts = 2
    BackoffBase = 1
    ActAttempts = 2
    BatchSize = 1
    FanOut = 1
    EmbedConcurrency = 2
    MaxWaves = 1
    MaxFaults = 2
SPECIFICATION FairSpec
INVARIANTS AtMostOneDone FailureBudget
PROPERTIES HistoryImmutable EveryMemorySettles SweepEnds
