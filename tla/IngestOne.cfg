SPECIFICATION Spec
CONSTANTS
    c1 = c1
    c2 = c2
    p1 = p1
    p2 = p2
    t1 = t1
    t2 = t2
    NoOne = NoOne
    Consumers = {c1}
    Partitions = {p1, p2}
    Txns = {t1, t2}
    Raw <- RawMixed
    Scores <- TwoVersions
    BatchSize = 2
    MaxAttempts = 2
    MaxFaults = 2
INVARIANTS
    OffsetsCoverRecorded
    CommitInv
    AlertsFollowRecords
    DuplicatesNeedFaults
    OutcomesAreWhole
    DecisionsAreAnnounced
PROPERTIES
    OffsetsRegressOnlyOnFaults
    ImplementsAtLeastOnce
CHECK_DEADLOCK FALSE
