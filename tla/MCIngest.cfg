CONSTANTS
    Streams = {s1, s2, s3}
    t1 = t1
    t2 = t2
    x = x
    y = y
    Turns = {t1, t2}
    NoTurn = NoTurn
    Texts = {x, y}
    Datasets <- MCDatasets
    Ids = {1, 2, 3, 4, 5, 6, 7, 8, 9}
    MaxBreaks = 1
SPECIFICATION ISpec
INVARIANTS ITypeOK BlobFirst AckComplete AcceptedAreRows AcceptedKeepTheirText
    EvalMissesOnlyEdits EvalFindsEveryItem
PROPERTY IngestImplementsLedger
CHECK_DEADLOCK FALSE
