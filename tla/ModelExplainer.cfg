SPECIFICATION Spec
CONSTANTS
    r1 = r1
    r2 = r2
    s1 = s1
    Requests = {s1}
    Reloads = {r1}
    MaxTrainings = 2
    MaxCrashes = 0
INVARIANTS
    ExplainerIsOfTheModel
CHECK_DEADLOCK FALSE
