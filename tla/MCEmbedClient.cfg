CONSTANTS
    x = x
    y = y
    z = z
    Calls = {1, 2, 3}
    Raws = {x, y, z}
    Prefixed = {y}
    Zeros = {z}
    Jobs <- MCJobs
    MaxGen = 2
    RpcAttempts = 2
    DimsRetries = 1
    TransientRetries = 1
    NoJob = NoJob
    NoVec = NoVec
SPECIFICATION CFairSpec
INVARIANTS CTypeOK OwnVector HitsAgree PermanentIsUnanimous
PROPERTY EveryEmbedReturns
CHECK_DEADLOCK FALSE
