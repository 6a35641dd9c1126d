CONSTANTS
    Memories = {1}
    Versions = {1, 2}
    MaxAttempts = 1
    BackoffBase = 1
    ActAttempts = 1
    BatchSize = 1
    FanOut = 1
    EmbedConcurrency = 1
    MaxWaves = 1
    MaxFaults = 1
SPECIFICATION FairSpec
PROPERTY BumpReEnriches
