SPECIFICATION SpecAll
CONSTANTS
    s1 = s1
    s2 = s2
    v1 = v1
    v2 = v2
    NoOne = NoOne
    Interval = 2
    MaxAge = 3
    Keep = 5
    MaxFaults = 2
    MaxDelay = 2
    Sessions = {s1, s2}
    Providers = {"openai", "openai_compatible"}
    Versions = {v1, v2}
    MaxRescores = 2
    Features = {"amount", "channel", "is_night"}
    Contributions <- MCContributions
    Limit = 2
    VerifyGrid <- MCVerifyGrid
    DeclineGrid <- MCDeclineGrid
    Categories = {"shopping_net", "grocery_pos"}
    Frames <- MCFrames
    MinFraudRows = 5
    Global = Global
INVARIANTS
    StaleIsAccountedFor
    DemonstrationsEnd
    GeneratedOnce
    StrongestOfEach
    DriversRaisedRisk
    BestIsFirstMinimum
    CategoriesNeverCostMore
    SweepMatchesScoring
    SimulationReconciles
PROPERTIES
    MonitorEvaluatesAgain
    ReviewsEnd
    OnlyStalePagesMislead
CHECK_DEADLOCK FALSE
