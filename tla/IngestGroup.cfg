SPECIFICATION FairSpec
CONSTANTS
    c1 = c1
    c2 = c2
    p1 = p1
    p2 = p2
    t1 = t1
    t2 = t2
    NoOne = NoOne
    Consumers = {c1, c2}
    Partitions = {p1, p2}
    Txns = {t1, t2}
    Raw <- RawShared
    Scores <- OneVersion
    BatchSize = 2
    MaxAttempts = 1
    MaxFaults = 2
INVARIANTS
    OffsetsCoverRecorded
PROPERTIES
    EventuallyRecorded
CHECK_DEADLOCK FALSE
