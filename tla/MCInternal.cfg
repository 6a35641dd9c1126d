CONSTANTS
    c1 = c1
    c2 = c2
    c3 = c3
    Calls = {c1, c2, c3}
    Bytes <- MCBytes
    RuneStarts <- MCRuneStarts
    TextOf <- MCTextOf
    MaxEmbedChars = 2
    Oversize <- MCOversize
    NoVec = NoVec
    BatchMax = 2
    QueueDepth = 1
SPECIFICATION BSpec
INVARIANT InternalIsPermanent
CHECK_DEADLOCK FALSE
