SPECIFICATION FairSpec
CONSTANTS
    r1 = r1
    r2 = r2
    s1 = s1
    Requests = {}
    Reloads = {r1}
    MaxTrainings = 1
    MaxCrashes = 1
PROPERTIES
    EventuallyReady
CHECK_DEADLOCK FALSE
