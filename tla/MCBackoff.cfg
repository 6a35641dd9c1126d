CONSTANTS
    Memories = {1}
    Versions = {1}
    MaxAttempts = 4
    BackoffBase = 1
    ActAttempts = 2
    BatchSize = 1
    FanOut = 1
    EmbedConcurrency = 1
    MaxWaves = 1
    MaxFaults = 0
SPECIFICATION Spec
INVARIANT PastBackoffOfLatestFailure
