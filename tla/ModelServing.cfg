SPECIFICATION SpecPart
CONSTANTS
    r1 = r1
    r2 = r2
    s1 = s1
    Requests = {s1}
    Reloads = {r1, r2}
    MaxTrainings = 2
    MaxCrashes = 2
INVARIANTS
    TypeOK
    ResponsesNameTheNewest
    QuietReloadsAreVerified
PROPERTIES
    LastGoodIsKept
    RecoversUnlessSidecarTorn
CHECK_DEADLOCK FALSE
