SPECIFICATION FairSpec
CONSTANTS
    c1 = c1
    q1 = q1
    p1 = p1
    t1 = t1
    NoOne = NoOne
    Consumers = {c1}
    Partitions = {p1}
    Txns = {t1}
    Raw <- RawReplayed
    Scores <- OneVersion
    BatchSize = 2
    MaxAttempts = 1
    Publishers = {q1}
    ClaimSize = 2
    MaxFaults = 1
    MaxRetired = 1
INVARIANTS
    AcknowledgedIsOwed
    ReannouncedOnlyAfterRetention
PROPERTIES
    ImplementsEndToEnd
    EventuallyAnnounced
CHECK_DEADLOCK FALSE
