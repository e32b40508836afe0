SPECIFICATION SpecAll
CONSTANTS
    n1 = n1
    n2 = n2
    Runners = {n1, n2}
    MaxEdits = 1
    MaxFaults = 2
    Dataset <- MCDataset
    Modes = {"realtime", "demo", "max"}
    Limits = {0, 2}
    GapCap = 4
    MaxRuns = 2
INVARIANTS
    ServicesFindTheSchema
    RecordsVouch
    RunsReplayInOrder
    NeverAheadOfSource
PROPERTIES
    SchemaComesUp
CHECK_DEADLOCK FALSE
