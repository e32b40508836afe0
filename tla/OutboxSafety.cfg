SPECIFICATION Spec
CONSTANTS
    q1 = q1
    q2 = q2
    Publishers = {q1, q2}
    Rows = {1, 2, 3}
    ClaimSize = 2
    MaxFaults = 2
SYMMETRY AnyPublisher
INVARIANTS
    MarkedRowsAreOnTheTopic
    LeaseIsExclusive
    OneCopyPerClaim
PROPERTIES
    PublishedIsFinal
CHECK_DEADLOCK FALSE
