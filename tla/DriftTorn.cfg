SPECIFICATION Spec
CONSTANTS
    Interval = 3
    MaxAge = 3
    Keep = 5
    MaxFaults = 1
    MaxDelay = 2
INVARIANTS
    FailuresAreVisible
